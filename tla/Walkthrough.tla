------------------------------- MODULE Walkthrough ------------------------------
(***************************************************************************)
(* OpenSession composed with the parsers it calls: a file is a syntax tree *)
(* with an extension, and what the session is given is built from what the *)
(* parser of its language makes of it.  The cycle search of package graph  *)
(* looks at the graphs that come out.                                      *)
(***************************************************************************)
EXTENDS WalkthroughOpening, Parsing, Cycles, FiniteSetsExt

\* A file is its extension and its syntax tree; a request names one, or none.
ParsedRequest(path, symbol, f) ==
    [FilePath |-> path, Symbol |-> symbol, file |-> f, parsed |-> Parse(f.ext, f.src)]

--------------------------------------------------------------------------------
(* What the parsers owe the graph.                                         *)

\* The kind of step a parser makes of a statement, by its type, and of an expression
\* statement, by what it wraps.  The types are those the source names.
Conditionals == [if_statement |-> "conditional", elif_clause |-> "conditional"]
Assigns(types) == [type \in types |-> "assignment"]
Kinds ==
    [Go         |-> [type \in GoSwitches |-> "switch"] @@ [type \in GoSpawns |-> "call"]
                    @@ Assigns(GoAssignments)
                    @@ [for_statement |-> "loop", block |-> "block"],
     Python     |-> [type \in {"for_statement", "while_statement"} |-> "loop"]
                    @@ [type \in {"with_statement", "try_statement"} |-> "block"]
                    @@ Assigns({"assignment", "augmented_assignment", "annotated_assignment"})
                    @@ [match_statement |-> "switch"],
     PHP        |-> [type \in PHPLoops |-> "loop"] @@ [switch_statement |-> "switch"],
     TypeScript |-> [type \in TSLoops |-> "loop"] @@ [switch_statement |-> "switch"]
                    @@ Assigns({"variable_declaration", "lexical_declaration"})]
Wrapped ==
    [Go         |-> [call_expression |-> "call"],
     Python     |-> [call |-> "call"],
     PHP        |-> PHPInner,
     TypeScript |-> [call_expression |-> "call", await_expression |-> "call"]]

KindOf(lang, n) ==
    LET kinds == Conditionals @@ [return_statement |-> "return"] @@ Kinds[lang]
        inner == IF n.type = "expression_statement" /\ n.children # << >>
                 THEN n.children[1].type ELSE "none"
    IN  CASE n.type \in DOMAIN kinds         -> kinds[n.type]
          [] inner \in DOMAIN Wrapped[lang]  -> Wrapped[lang][inner]
          [] OTHER                           -> "none"

\* The branches of a node that its parser follows, each a node with statements for
\* children: fields, the cases of a Go switch, and a Go block itself.
Functions == GoFunctions \cup TSTop \cup {"function_definition"}

BranchFields(lang, n) ==
    CASE KindOf(lang, n) = "conditional"                -> {"body", "consequence", "alternative"}
      [] KindOf(lang, n) = "loop" /\ lang # "PHP"       -> {"body"}
      [] n.type \in Functions                           -> {"body"}
      [] OTHER                                          -> {}

Branches(lang, n) ==
    UNION {Range(ChildByFieldName(n, f)) : f \in BranchFields(lang, n)}
    \cup {c \in Range(n.children) : lang = "Go" /\ n.type \in GoSwitches /\ c.type \in GoCases}
    \cup {b \in {n} : lang = "Go" /\ n.type = "block"}

\* The statements a parser knows in a branch: an "else if" is the branch itself.
Known(lang, branch) ==
    IF KindOf(lang, branch) = "conditional" THEN {branch}
    ELSE {c \in Range(branch.children) : KindOf(lang, c) # "none"}

\* The statements inside a node, as far as branches lead, with the branch each is in.
RECURSIVE Inside(_, _)
Inside(lang, n) ==
    LET here == UNION {{[owner |-> n, branch |-> b, stmt |-> s] : s \in Known(lang, b)} :
                          b \in Branches(lang, n)}
    IN  here \cup UNION {Inside(lang, h.stmt) : h \in here}

RECURSIVE SyntaxNodes(_)
SyntaxNodes(n) == {n} \cup UNION {SyntaxNodes(c) : c \in Range(n.children)}

Show(s, kind, n) == nodeOf[s].Kind = kind /\ nodeOf[s].at = n.at
Leads(s, t) == \E e \in Range(edges[s]) : e.target = t


\* In the graph of a walkthrough nothing leads back: Forward comes to an end whatever
\* branch is taken, and the search for cycles says so in whatever order it meets the
\* steps (Build, nextID, DetectCycles).
BuiltGraphHasNoCycle ==
    registered =>
        LET order == FoldSet(LAMBDA s, seq : Append(seq, s), << >>, steps)
        IN  /\ OnCycle(edges) = {}
            /\ DetectCycles(edges, NoID, order) = << >>
            /\ DetectCycles(edges, NoID, Reverse(order)) = << >>
================================================================================
