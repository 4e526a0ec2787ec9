-------------------------------- MODULE Parsing --------------------------------
(***************************************************************************)
(* The language parsers (internal/parser): from the syntax tree that       *)
(* tree-sitter makes of a file to the logical nodes the step graph is      *)
(* built from, and to the names of its symbols.                            *)
(*                                                                         *)
(* A syntax node has a type, the field of its parent it fills ("" for      *)
(* none), its text as far as a name depends on it, and children, tokens    *)
(* included.  Of a parsed node the model keeps what the builder reads      *)
(* (identifier, kind, label, children, calls) and where it starts; the     *)
(* trimmed source text that labels a statement is left out.  An extract    *)
(* function answers a sequence, which is empty where Go answers nil.       *)
(***************************************************************************)
EXTENDS Naturals, Sequences, SequencesExt

--------------------------------------------------------------------------------
(* What the parsers take from tree-sitter.                                 *)

Syntax(type, field, text, children) ==
    [type |-> type, field |-> field, text |-> text, children |-> children]

\* Two syntax nodes start at the same place exactly if one is reached from the other
\* by taking first children: a place is a path of child indices without its last 1s.
StartOf(path) == SubSeq(path, 1, SelectLastInSeq(path, LAMBDA i : i # 1))

RECURSIVE Placed(_, _)
Placed(n, path) ==
    [type |-> n.type, field |-> n.field, text |-> n.text, at |-> StartOf(path),
     children |-> [i \in DOMAIN n.children |-> Placed(n.children[i], Append(path, i))]]

\* The first child that fills the field.
ChildByFieldName(n, field) ==
    LET fills(c) == c.field = field
        found    == SelectSeq(n.children, fills)
    IN  SubSeq(found, 1, IF found = << >> THEN 0 ELSE 1)

Collect(block, extract(_)) ==
    FlattenSeq([i \in DOMAIN block.children |-> extract(block.children[i])])

\* extract of a field that may be missing.
FromField(n, field, extract(_)) ==
    FlattenSeq([i \in DOMAIN ChildByFieldName(n, field) |-> extract(ChildByFieldName(n, field)[i])])

NameOf(n) == FromField(n, "name", LAMBDA c : << c.text >>)

--------------------------------------------------------------------------------
(* parser.Node.                                                            *)

NoNodeID == << "none", << >> >>

\* A node without an identifier, which graph.Build will number.
Unnamed(kind, label, n) ==
    [ID |-> NoNodeID, Kind |-> kind, Label |-> label, at |-> n.at,
     Children |-> << >>, Calls |-> << >>]

\* An identifier is the kind and the place.
newNode(kind, label, n) == [Unnamed(kind, label, n) EXCEPT !.ID = << kind, n.at >>]

With(node, children) == [node EXCEPT !.Children = children]

--------------------------------------------------------------------------------
(* Go: every node has an identifier.                                       *)

extractCallsFromCallExpr(n) ==
    LET ref(package, symbol) == [Package |-> package, Symbol |-> symbol, at |-> n.at]
        textOf(parent, field) == FromField(parent, field, LAMBDA c : << c.text >>)
        of(fn) == IF fn.type = "selector_expression"
                  THEN LET operand == textOf(fn, "operand")
                           symbol  == textOf(fn, "field")
                       IN  [i \in DOMAIN symbol |->
                               ref(IF operand = << >> THEN "" ELSE operand[1], symbol[i])]
                  ELSE << ref("", fn.text) >>
        named(r) == r.Symbol # ""
    IN  SelectSeq(FromField(n, "function", of), named)

RECURSIVE extractCalls(_)
extractCalls(n) ==
    (IF n.type = "call_expression" THEN extractCallsFromCallExpr(n) ELSE << >>)
    \o Collect(n, extractCalls)

GoSwitches    == {"switch_statement", "type_switch_statement", "expression_switch_statement"}
GoCases       == {"expression_case", "default_case", "type_case"}
GoAssignments == {"short_var_decl", "var_declaration", "assignment_statement", "send_statement"}
GoSpawns      == {"go_statement", "defer_statement"}

extractExprStatement(n) ==
    IF n.children # << >> /\ n.children[1].type = "call_expression"
    THEN << [newNode("call", << >>, n) EXCEPT
               !.Calls = extractCallsFromCallExpr(n.children[1])] >>
    ELSE << >>

RECURSIVE extractStatement(_), extractIf(_)

extractBody(block) == Collect(block, extractStatement)

GoBlock(label, n) == << With(newNode("block", label, n), extractBody(n)) >>

\* Mutant: a chain of else-ifs is taken for a plain else.
GoElseAsBlock(n) == GoBlock(<< "else" >>, n)

\* An "else if" stands in its parent's children as a conditional of its own.
GoElse(n) == IF n.type = "if_statement" THEN extractIf(n) ELSE GoBlock(<< "else" >>, n)

extractIf(n) ==
    LET then(body) == GoBlock(<< "then" >>, body)
        else(alt)  == GoElse(alt)
    IN  << With(newNode("conditional", << "if" >>, n),
                FromField(n, "consequence", then) \o FromField(n, "alternative", else)) >>

extractFor(n) ==
    << With(newNode("loop", << "for" >>, n), FromField(n, "body", extractBody)) >>

extractSwitch(n) ==
    LET case(c) == IF c.type \in GoCases THEN GoBlock(<< "case" >>, c) ELSE << >>
    IN  << With(newNode("switch", << "switch" >>, n), Collect(n, case)) >>

extractStatement(n) ==
    CASE n.type = "if_statement"         -> extractIf(n)
      [] n.type = "for_statement"        -> extractFor(n)
      [] n.type \in GoSwitches           -> extractSwitch(n)
      [] n.type = "return_statement"     -> << newNode("return", << >>, n) >>
      [] n.type \in GoAssignments        -> << newNode("assignment", << >>, n) >>
      [] n.type = "expression_statement" -> extractExprStatement(n)
      [] n.type \in GoSpawns             ->
             << [newNode("call", << >>, n) EXCEPT !.Calls = extractCalls(n)] >>
      [] n.type = "block"                -> GoBlock(<< "block" >>, n)
      [] OTHER                           -> << >>

buildFuncNode(n) ==
    LET receiver == FromField(n, "receiver", LAMBDA c : << c.text >>)
        label    == IF receiver = << >> THEN << "func" >> \o NameOf(n)
                    ELSE << "method" >> \o receiver \o NameOf(n)
    IN  << With(newNode("function", label, n), FromField(n, "body", extractBody)) >>

GoFunctions == {"function_declaration", "method_declaration"}

extractTopLevel(root) ==
    Collect(root, LAMBDA c : IF c.type \in GoFunctions THEN buildFuncNode(c) ELSE << >>)

GoSymbols(root) ==
    Collect(root, LAMBDA c : IF c.type \in GoFunctions THEN NameOf(c) ELSE << >>)

--------------------------------------------------------------------------------
(* Python: only functions have an identifier.                              *)

RECURSIVE extractPyStatement(_), extractPyIf(_)

extractPyBody(block) == Collect(block, extractPyStatement)

PyBlock(label, n) == << With(Unnamed("block", label, n), extractPyBody(n)) >>


PyAlternative(n) ==
    IF n.type \in {"elif_clause", "if_statement"} THEN extractPyIf(n) ELSE PyBlock(<< "else" >>, n)

extractPyIf(n) ==
    LET then(body) == PyBlock(<< "then" >>, body)
        else(alt)  == PyAlternative(alt)
    IN  << With(Unnamed("conditional", << "if" >>, n),
                FromField(n, "consequence", then) \o FromField(n, "alternative", else)) >>

extractPyStatement(n) ==
    CASE n.type = "if_statement" -> extractPyIf(n)
      [] n.type \in {"for_statement", "while_statement"} ->
             << With(Unnamed("loop", << >>, n), FromField(n, "body", extractPyBody)) >>
      [] n.type = "return_statement" -> << Unnamed("return", << >>, n) >>
      [] n.type \in {"assignment", "augmented_assignment", "annotated_assignment"} ->
             << Unnamed("assignment", << >>, n) >>
      [] n.type = "expression_statement" /\ n.children # << >> /\ n.children[1].type = "call" ->
             << Unnamed("call", << >>, n) >>
      [] n.type \in {"with_statement", "try_statement"} -> << Unnamed("block", << >>, n) >>
      [] n.type = "match_statement" -> << Unnamed("switch", << >>, n) >>
      [] OTHER -> << >>

buildPyFuncNode(n) ==
    << With(newNode("function", << "def" >> \o NameOf(n), n),
            FromField(n, "body", extractPyBody)) >>

Prefixed(words, nodes) == [i \in DOMAIN nodes |-> [nodes[i] EXCEPT !.Label = words \o @]]

PyFunction(c) == IF c.type = "function_definition" THEN buildPyFuncNode(c) ELSE << >>

\* Decorated methods are passed over.
extractPyClassMethods(class) ==
    Prefixed(NameOf(class), FromField(class, "body", LAMBDA b : Collect(b, PyFunction)))

extractPyTopLevel(root) ==
    LET top(c) == CASE c.type = "class_definition"     -> extractPyClassMethods(c)
                    [] c.type = "decorated_definition" -> Collect(c, PyFunction)
                    [] OTHER                           -> PyFunction(c)
    IN  Collect(root, top)

\* The name of a decorated definition is its inner definition's, not a field of its own.
PySymbols(root) ==
    LET symbol(c) == IF c.type \in {"function_definition", "decorated_definition"}
                     THEN NameOf(c) ELSE << >>
    IN  Collect(root, symbol)

--------------------------------------------------------------------------------
(* PHP.                                                                    *)

RECURSIVE extractPHPStatement(_)

extractPHPBody(block) == Collect(block, extractPHPStatement)

PHPLoops == {"for_statement", "foreach_statement", "while_statement", "do_statement"}

PHPInner == [assignment_expression |-> "assignment", function_call_expression |-> "call"]

extractPHPStatement(n) ==
    LET block(label, b) == << With(Unnamed("block", label, b), extractPHPBody(b)) >>
    IN  CASE n.type = "if_statement" ->
               << With(Unnamed("conditional", << "if" >>, n),
                       FromField(n, "body", LAMBDA b : block(<< "then" >>, b))
                       \o FromField(n, "alternative", LAMBDA b : block(<< "else" >>, b))) >>
          [] n.type \in PHPLoops -> << Unnamed("loop", << >>, n) >>
          [] n.type = "switch_statement" -> << Unnamed("switch", << >>, n) >>
          [] n.type = "return_statement" -> << Unnamed("return", << >>, n) >>
          [] /\ n.type = "expression_statement"
             /\ n.children # << >> /\ n.children[1].type \in DOMAIN PHPInner ->
               << Unnamed(PHPInner[n.children[1].type], << >>, n) >>
          [] OTHER -> << >>

buildPHPFuncNode(n) ==
    << With(newNode("function", << "function" >> \o NameOf(n), n),
            FromField(n, "body", extractPHPBody)) >>

extractPHPClassMethods(class) ==
    LET method(c) == IF c.type = "method_declaration" THEN buildPHPFuncNode(c) ELSE << >>
    IN  Prefixed(NameOf(class), FromField(class, "body", LAMBDA b : Collect(b, method)))

extractPHPTopLevel(root) ==
    LET top(c) == CASE c.type = "function_definition" -> buildPHPFuncNode(c)
                    [] c.type = "class_declaration"   -> extractPHPClassMethods(c)
                    [] OTHER                          -> << >>
    IN  Collect(root, top)

\* The names of all functions and methods, nested ones included.
RECURSIVE PHPSymbols(_)
PHPSymbols(n) ==
    (IF n.type \in {"function_definition", "method_declaration"} THEN NameOf(n) ELSE << >>)
    \o Collect(n, PHPSymbols)

--------------------------------------------------------------------------------
(* TypeScript.                                                             *)

RECURSIVE extractTSStatement(_)

extractTSBody(block) == Collect(block, extractTSStatement)

TSLoops == {"for_statement", "for_in_statement", "while_statement", "do_statement"}

extractTSIf(n) ==
    LET block(label, b) == << With(Unnamed("block", label, b), extractTSBody(b)) >>
    IN  << With(Unnamed("conditional", << "if" >>, n),
                FromField(n, "consequence", LAMBDA b : block(<< "then" >>, b))
                \o FromField(n, "alternative", LAMBDA b : block(<< "else" >>, b))) >>

extractTSStatement(n) ==
    CASE n.type = "if_statement" -> extractTSIf(n)
      [] n.type \in TSLoops ->
             << With(Unnamed("loop", << >>, n), FromField(n, "body", extractTSBody)) >>
      [] n.type = "switch_statement" -> << Unnamed("switch", << >>, n) >>
      [] n.type = "return_statement" -> << Unnamed("return", << >>, n) >>
      [] n.type \in {"variable_declaration", "lexical_declaration"} ->
             << Unnamed("assignment", << >>, n) >>
      [] /\ n.type = "expression_statement"
         /\ n.children # << >>
         /\ n.children[1].type \in {"call_expression", "await_expression"} ->
             << Unnamed("call", << >>, n) >>
      [] OTHER -> << >>

RECURSIVE tsFuncLabel(_)
tsFuncLabel(n) ==
    LET keyword == [function_declaration |-> "function", method_definition |-> "method"]
        labels  == CASE n.type \in DOMAIN keyword ->
                          FromField(n, "name", LAMBDA c : << << keyword[n.type], c.text >> >>)
                     [] n.type = "export_statement" ->
                          FromField(n, "declaration", LAMBDA d : << tsFuncLabel(d) >>)
                     [] OTHER -> << >>
    IN  IF labels = << >> THEN << n.text >> ELSE labels[1]

\* The body is looked for in the node itself, and an export statement has none.
buildTSNode(n) ==
    << With(newNode("function", tsFuncLabel(n), n), FromField(n, "body", extractTSBody)) >>

TSTop == {"function_declaration", "function", "method_definition", "arrow_function",
          "export_statement"}

extractTSTopLevel(root) ==
    Collect(root, LAMBDA c : IF c.type \in TSTop THEN buildTSNode(c) ELSE << >>)

extractTSSymbols(root) ==
    LET symbol(c) == CASE c.type = "function_declaration" -> NameOf(c)
                       [] c.type = "export_statement" -> FromField(c, "declaration", NameOf)
                       [] OTHER -> << >>
    IN  Collect(root, symbol)

--------------------------------------------------------------------------------
(* The registry and the two entry points of the package.                   *)

Languages == {"Go", "Python", "PHP", "TypeScript"}

Extensions == [Go |-> {".go"}, Python |-> {".py"}, PHP |-> {".php"},
               TypeScript |-> {".ts", ".tsx"}]

\* The handlers registered for an extension, in lower case: no two claim the same.
For(ext) == {lang \in Languages : ext \in Extensions[lang]}

HandlerNodes(lang, root) ==
    CASE lang = "Go"         -> extractTopLevel(root)
      [] lang = "Python"     -> extractPyTopLevel(root)
      [] lang = "PHP"        -> extractPHPTopLevel(root)
      [] lang = "TypeScript" -> extractTSTopLevel(root)

Symbols(lang, root) ==
    CASE lang = "Go"         -> GoSymbols(root)
      [] lang = "Python"     -> PySymbols(root)
      [] lang = "PHP"        -> PHPSymbols(root)
      [] lang = "TypeScript" -> extractTSSymbols(root)

\* No node trees, and an error, for a file no handler claims.
Parse(ext, src) ==
    [ok    |-> For(ext) # {},
     nodes |-> IF For(ext) = {} THEN << >>
               ELSE HandlerNodes(CHOOSE lang \in For(ext) : TRUE, Placed(src, << >>))]

ListSymbols(ext, src) ==
    IF For(ext) = {} THEN << >>
    ELSE Symbols(CHOOSE lang \in For(ext) : TRUE, Placed(src, << >>))
================================================================================
