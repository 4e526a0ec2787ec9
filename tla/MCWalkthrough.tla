------------------------------ MODULE MCWalkthrough -----------------------------
(***************************************************************************)
(* Small files of the four languages: two functions with every statement   *)
(* the parser knows and with ones it passes over and all that is in them   *)
(* (labelled statements, selects, initializers), nested up to three deep;  *)
(* two functions of the same name, methods of classes; no function; and a  *)
(* file no handler claims.  The reading of repositories and the resolver   *)
(* of documentation, which no call of the server reaches, are checked      *)
(* along with them.                                                        *)
(***************************************************************************)
EXTENDS Walkthrough, MCResolver, Git

Leaf(type)            == Syntax(type, "", "x", << >>)
In(type, children)    == Syntax(type, "", "", children)
As(field, n)          == [n EXCEPT !.field = field]
Named(name)           == Syntax("identifier", "name", name, << >>)
Stmt(inner)           == In("expression_statement", << Leaf(inner) >>)

--------------------------------------------------------------------------------
(* Go.                                                                     *)

Braces(stmts) == In("block", << Leaf("{") >> \o stmts \o << Leaf("}") >>)

Callee   == Syntax("selector_expression", "function", "fmt.Print",
                   << Syntax("identifier", "operand", "fmt", << >>), Leaf("."),
                      Syntax("field_identifier", "field", "Print", << >>) >>)
GoCall   == In("call_expression", << Callee, Leaf("argument_list") >>)
Literal  == In("call_expression", << As("function", Leaf("func_literal")) >>)
GoReturn == In("return_statement", << Leaf("return") >>)
GoAssign == In("assignment_statement", << Leaf("expression_list") >>)
GoExpr   == In("expression_statement", << GoCall >>)
GoDefer  == In("defer_statement", << Leaf("defer"), Literal >>)
GoShort  == In("short_var_declaration", << Leaf("expression_list") >>)

GoIf(then, else) ==
    In("if_statement",
       << Leaf("if"), As("condition", Leaf("identifier")), As("consequence", Braces(then)) >>
       \o else)

\* "if x = f(); x" and "if x := f(); x".
GoIfAfter(init, then) ==
    In("if_statement",
       << Leaf("if"), As("initializer", init), Leaf(";"), As("condition", Leaf("identifier")),
          As("consequence", Braces(then)) >>)
GoElseIf(n) == << Leaf("else"), As("alternative", n) >>

GoFor(body)    == In("for_statement", << Leaf("for"), Leaf("range_clause"), As("body", Braces(body)) >>)
GoSwitch(body) == In("expression_switch_statement",
                     << Leaf("switch"), As("value", Leaf("identifier")), Leaf("{"),
                        In("expression_case", << Leaf("case"), Leaf(":") >> \o body),
                        In("default_case", << Leaf("default"), Leaf(":") >>), Leaf("}") >>)

\* A label goes with the statement it names, a select with the statements of its cases.
GoLabel(stmt) == In("labeled_statement", << As("label", Leaf("label_name")), Leaf(":"), stmt >>)
GoSelect(body) ==
    In("select_statement",
       << Leaf("select"), Leaf("{"),
          In("communication_case",
             << Leaf("case"), As("communication", In("send_statement", << Leaf("identifier") >>)),
                Leaf(":") >> \o body), Leaf("}") >>)

GoBodies ==
    {<< >>, << GoAssign, GoDefer >>, << GoExpr, GoLabel(GoFor(<< GoReturn >>)), GoReturn >>,
     << GoIfAfter(GoAssign, << GoSelect(<< GoReturn >>) >>), GoIfAfter(GoShort, << GoReturn >>) >>,
     << GoIf(<< GoReturn >>, << >>), GoReturn >>,
     << GoIf(<< GoExpr >>, GoElseIf(Braces(<< GoIf(<< >>, << >>) >>))) >>,
     << GoIf(<< GoExpr >>, GoElseIf(GoIf(<< GoReturn >>, GoElseIf(Braces(<< GoAssign >>))))) >>,
     << GoFor(<< GoSwitch(<< GoExpr >>), Braces(<< Braces(<< GoReturn >>) >>) >>) >>}

GoFunc(name, body) ==
    In("function_declaration", << Leaf("func"), Named(name), As("body", Braces(body)) >>)
GoMethod(name, body) ==
    In("method_declaration",
       << Leaf("func"), Syntax("parameter_list", "receiver", "(s *S)", << >>), Named(name),
          As("body", Braces(body)) >>)
GoFile(decls) == [ext |-> ".go", src |-> In("source_file", << Leaf("package_clause") >> \o decls)]

GoFiles ==
    {GoFile(<< GoFunc("init", body), GoFunc("main", other) >>) : body, other \in GoBodies}
    \cup {GoFile(<< decl, GoFunc("main", << GoExpr >>) >>) :
             decl \in {GoFunc("init", << GoReturn >>), GoFunc("main", << GoReturn >>),
                       GoMethod("main", << GoReturn >>)}}
    \cup {GoFile(<< >>)}

--------------------------------------------------------------------------------
(* Python: a block starts where its first statement does.                  *)

Suite(stmts) == Syntax("block", "body", "", stmts)

PyReturn == In("return_statement", << Leaf("return") >>)
PyCall   == Stmt("call")
PyWith   == In("with_statement", << Leaf("with"), Suite(<< PyReturn >>) >>)

PyIf(then, else) ==
    In("if_statement", << Leaf("if"), As("condition", Leaf("identifier")),
                          As("consequence", Suite(then)) >> \o else)
PyElif(then) == << As("alternative", In("elif_clause", << Leaf("elif"), As("consequence", Suite(then)) >>)) >>
PyElse(then) == << As("alternative", In("else_clause", << Leaf("else"), Suite(then) >>)) >>

PyBodies ==
    {<< PyCall, Stmt("identifier"), Stmt("assignment"), PyReturn >>,
     << PyIf(<< PyWith >>, << >>), Leaf("match_statement") >>,
     << PyIf(<< PyCall >>, PyElif(<< PyReturn >>) \o PyElse(<< PyReturn >>)) >>,
     << PyIf(<< PyCall >>, PyElse(<< PyReturn >>)) >>,
     << In("for_statement", << Leaf("for"), Suite(<< PyReturn >>) >>) >>}

PyDef(name, body)   == In("function_definition", << Leaf("def"), Named(name), Suite(body) >>)
PyClass(name, defs) == In("class_definition", << Leaf("class"), Named(name), Suite(defs) >>)
PyDecorated(def)    == In("decorated_definition", << Leaf("decorator"), def >>)
PyFile(decls)       == [ext |-> ".py", src |-> In("module", decls)]

PyFiles ==
    {PyFile(<< PyDef("init", body), PyDef("main", other) >>) : body, other \in PyBodies}
    \cup {PyFile(<< PyClass("Init", << PyDef("main", << PyReturn >>),
                                       PyDecorated(PyDef("other", << >>)) >>),
                    PyDecorated(PyDef("main", << PyCall >>)) >>)}

--------------------------------------------------------------------------------
(* PHP and TypeScript.                                                     *)

PHPIf(then) ==
    In("if_statement", << Leaf("if"), As("condition", Leaf("condition")), As("body", Braces(then)),
                          As("alternative", In("else_clause", << Leaf("else"), Braces(then) >>)) >>)
PHPBodies ==
    {<< Stmt("assignment_expression"), Stmt("function_call_expression"), GoReturn >>,
     << PHPIf(<< Stmt("function_call_expression"), Leaf("switch_statement") >>),
        In("while_statement", << Leaf("while"), As("body", Braces(<< GoReturn >>)) >>) >>}

PHPFunc(type, name, body) ==
    In(type, << Leaf("function"), Named(name), As("body", Braces(body)) >>)
PHPFile(decls) == [ext |-> ".php", src |-> In("program", << Leaf("php_tag") >> \o decls)]

PHPFiles ==
    {PHPFile(<< PHPFunc("function_definition", "main", body),
                In("class_declaration",
                   << Leaf("class"), Named("Init"),
                      As("body", Braces(<< PHPFunc("method_declaration", "main", << GoReturn >>) >>)) >>) >>) :
        body \in PHPBodies}

TSIf(then, else) ==
    In("if_statement", << Leaf("if"), As("condition", Leaf("condition")), As("consequence", Braces(then)),
                          As("alternative", In("else_clause", << Leaf("else"), else >>)) >>)

TSBodies ==
    {<< Leaf("lexical_declaration"), Stmt("await_expression"), Stmt("identifier"), Leaf("switch_statement") >>,
     << TSIf(<< Stmt("call_expression") >>, TSIf(<< GoReturn >>, Braces(<< >>))) >>,
     << In("for_in_statement", << Leaf("for"), As("body", Braces(<< GoReturn >>)) >>) >>}

TSFunc(name, body) == PHPFunc("function_declaration", name, body)
TSExport(decl)     == Syntax("export_statement", "", "export", << Leaf("export"), As("declaration", decl) >>)
TSFile(decls)      == [ext |-> ".tsx", src |-> In("program", decls)]

TSFiles ==
    {TSFile(<< TSFunc("main", body) >>) : body \in TSBodies}
    \cup {TSFile(<< TSExport(TSFunc("main", << GoReturn >>)), TSFunc("init", << GoReturn >>),
                    TSExport(Leaf("lexical_declaration")) >>)}

--------------------------------------------------------------------------------
(* The constants.                                                          *)

Document  == [ext |-> ".md", src |-> Leaf("document")]
MCFiles   == GoFiles \cup PyFiles \cup PHPFiles \cup TSFiles \cup {Document}
MCSymbols == {<< >>, << "main" >>, << "func", "main" >>, << "Init", "def", "main" >>}

MCRequests ==
    {ParsedRequest(TRUE, symbol, f) : symbol \in MCSymbols, f \in MCFiles}
    \cup {ParsedRequest(FALSE, << >>, Document)}

\* The nodes of a file, with the height of the tree below each.
RECURSIVE HeightOf(_), Within(_)
HeightOf(n) == IF n.Children = << >> THEN 0
               ELSE 1 + Max({HeightOf(n.Children[i]) : i \in DOMAIN n.Children})
Within(list) == Range(list) \cup UNION {Within(n.Children) : n \in Range(list)}

MCHeight == [r \in MCRequests |-> [n \in Within(r.parsed.nodes) |-> HeightOf(n)]]

\* A name that ListSymbols answers belongs to a node that Parse makes of the same file,
\* and for Go and PHP the names are those of all the nodes, in order.
ASSUME SymbolsNameTheNodes ==
    \A f \in MCFiles :
        LET parsed == Parse(f.ext, f.src).nodes
            names  == [i \in DOMAIN parsed |-> Last(parsed[i].Label)]
        IN  IF f \in GoFiles \cup PHPFiles THEN ListSymbols(f.ext, f.src) = names
            ELSE Range(ListSymbols(f.ext, f.src)) \subseteq Range(names)

\* On every graph of three steps with at most two edges each, one of them to nowhere,
\* DetectCycles reports a step if and only if there is a cycle, reports only steps of
\* a cycle, and reports none twice, whatever order it meets the steps in.
SmallGraphs == [1..3 -> {<< >>} \cup {<< [target |-> a], [target |-> b] >> : a, b \in 0..4}]

ASSUME CyclesAreFound ==
    \A g \in SmallGraphs : \A order \in {<< 1, 2, 3 >>, << 2, 3, 1 >>, << 3, 2, 1 >>} :
        LET found == DetectCycles(g, 0, order)
        IN  /\ (found = << >>) = (OnCycle(g) = {})
            /\ Range(found) \subseteq OnCycle(g)
            /\ Cardinality(Range(found)) = Len(found)

\* A file is read at the commit its ref names, whether by a branch, a tag or a hash; a
\* hash goes before a branch of the same name, a branch before a tag, and without a ref
\* the working tree is read although HEAD is what ListFiles lists.
ASSUME RefsAreResolved ==
    LET r == [commits |-> [old |-> ("f" :> "first"), new |-> ("f" :> "second") @@ ("g" :> "x")],
              worktree |-> ("f" :> "edited"),
              revisions |-> (<< "HEAD" >> :> "new") @@ (<< "refs/heads/", "topic" >> :> "old")
                            @@ (<< "refs/tags/", "topic" >> :> "new")
                            @@ (<< "refs/tags/", "v1" >> :> "old") @@ (<< "new" >> :> "old")
                            @@ (<< "refs/heads/", "lost" >> :> "gone")]
        read(word, length) == ReadFileAt(r, Ref(word, length), "f")
    IN  /\ ReadFileAt(r, NoRefGiven, "f") = Found("edited")
        /\ ListFiles(r, NoRefGiven) = Found({"f", "g"})
        /\ read("topic", 5) = Found("first") /\ read("v1", 2) = Found("first")
        /\ read("new", 40) = Found("second") /\ read("new", 3) = Found("first")
        /\ read("lost", 4) = NoSuch /\ read("none", 7) = NoSuch
        /\ ReadFileAt(r, Ref("old", 40), "g") = NoSuch
================================================================================
