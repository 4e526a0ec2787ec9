--------------------------- MODULE WalkthroughOpening ---------------------------
(***************************************************************************)
(* OpenSession (server/open_session.go) with graph.Build behind it         *)
(* (internal/graph/builder.go): read the file, parse it, build the step    *)
(* graph, extract a glossary, register the session and announce it.        *)
(*                                                                         *)
(* A parsed file is a forest of nodes, functions at the top level.  The Go  *)
(* parser gives each node an identifier made of its kind and position, the *)
(* others give one to functions only and leave it to Build to number the   *)
(* rest.  Build's recursion is an explicit stack of frames.                *)
(***************************************************************************)
EXTENDS Opening, FiniteSets, Functions

CONSTANTS
    Requests,   \* the requests a client may send, and what parser.Parse makes of
                \* the file each one names
    NoID,       \* the identifier "": of no node, and of no step
    Height      \* Height[r][n]: how far the nodes of r's file go on below node n; every
                \* node of the file, at the top or not, is in the domain

\* A node has an identifier, which may be NoID, a label, which is the sequence of its
\* words ("func main"), a place in the file, children and calls.
IsNode(n) == DOMAIN n = {"ID", "Kind", "Label", "at", "Children", "Calls"}

\* The nodes of a file are trees.  No two of them share an identifier, and none has one
\* that Build could make up: the parsers make theirs of a kind and a place.
ASSUME WalkthroughAssumption ==
    /\ NoID[1] # "step"
    /\ \A r \in Requests :
          /\ r.FilePath \in BOOLEAN
          /\ r.parsed.nodes \in Seq(DOMAIN Height[r])
          /\ \A n \in Range(r.parsed.nodes) : n.ID # NoID
          /\ ~r.parsed.ok => r.parsed.nodes = << >>
          /\ \A n \in DOMAIN Height[r] :
                /\ IsNode(n)
                /\ n.ID[1] # "step"
                /\ Len(n.Calls) \in Nat /\ DOMAIN n.Calls = 1..Len(n.Calls)
                /\ Height[r][n] \in Nat
                /\ n.Children \in Seq({c \in DOMAIN Height[r] : Height[r][c] < Height[r][n]})
                /\ \A m \in DOMAIN Height[r] : n.ID = m.ID /\ n.ID # NoID => n = m

VARIABLES
    req,        \* the request; FilePath: whether it names a file
    ni,         \* the top-level node Build's loops are at
    counter,    \* the counter of nextID
    stack,      \* the calls of buildNode under way, the innermost last
    entryStep,  \* the step Build will enter at, NoID while there is none
    steps,      \* the keys of g.steps
    edges,      \* edges[s]: the out-edges of step s
    nodeOf,     \* nodeOf[s]: the node step s was built from
    terms       \* the glossary terms of the session: the step each one names

buildVars == << ni, counter, stack, entryStep, steps, edges, nodeOf >>
vars == << callVars, req, buildVars, terms >>

Init ==
    /\ CallInit
    /\ req \in Requests
    /\ ni = 1
    /\ counter = 0
    /\ stack = << >>
    /\ entryStep = NoID
    /\ steps = {}
    /\ edges = [s \in {} |-> << >>]
    /\ nodeOf = [s \in {} |-> NoID]
    /\ terms = << >>

--------------------------------------------------------------------------------
(* Before the graph: the repository, the file and the parser.              *)

RejectEmptyPath ==
    /\ pc = "start"
    /\ ~req.FilePath
    /\ Fail("InvalidArgument")
    /\ UNCHANGED << req, buildVars, terms >>

SendOpening ==
    /\ pc = "start"
    /\ req.FilePath
    /\ SendProgress(5, "open")
    /\ UNCHANGED << req, buildVars, terms >>

\* gogit.Open, which may find no repository.
OpenRepo ==
    /\ pc = "open"
    /\ Continue("read") \/ Fail("NotFound")
    /\ UNCHANGED << req, buildVars, terms >>

\* ReadFile: no such ref, or no such file at that ref or in the working tree.
ReadFile ==
    /\ pc = "read"
    /\ Continue("parsing") \/ Fail("NotFound")
    /\ UNCHANGED << req, buildVars, terms >>

SendParsing ==
    /\ pc = "parsing"
    /\ SendProgress(20, "parse")
    /\ UNCHANGED << req, buildVars, terms >>

\* parser.Parse: no handler for the extension, or the parser fails.
ParseFile ==
    /\ pc = "parse"
    /\ \/ req.parsed.ok /\ Continue("building")
       \/ Fail("InvalidArgument")
    /\ UNCHANGED << req, buildVars, terms >>

SendBuilding ==
    /\ pc = "building"
    /\ SendProgress(40, "entry loop")
    /\ UNCHANGED << req, buildVars, terms >>

--------------------------------------------------------------------------------
(* graph.Build.                                                            *)

nodes == req.parsed.nodes
Frame == stack[Len(stack)]

\* Mutant of nextID: the counter is read and not advanced.
NextCounterStuck == 1

\* Mutant of nextID: the counter starts anew with every function.
NextCounterPerFunction == IF stack = << >> THEN 1 ELSE counter + 1

\* nextID advances the counter for every node, named or not.
NextCounter == counter + 1

NodeID(n) == IF n.ID # NoID THEN n.ID ELSE << "step", << NextCounter >> >>

\* No parser resolves its calls, so their edges are not navigable and name no step.
CallEdge    == [target |-> NoID, label |-> "CALL", navigable |-> FALSE]
NextEdge(s) == [target |-> s, label |-> "NEXT", navigable |-> TRUE]

\* g.Add(step); the mutant forgets to add it.
StepsForgotten(id) == steps

StepsWith(id) == steps \cup {id}

\* buildNode(n) up to its children, called by whoever left the stack at "below":
\* the step is added, with its call edges.
EnterNode(n, below) ==
    LET id == NodeID(n)
    IN  /\ counter' = NextCounter
        /\ steps' = StepsWith(id)
        /\ edges' = [s \in steps \cup {id} |->
                        IF s = id THEN [i \in DOMAIN n.Calls |-> CallEdge]
                        ELSE edges[s]]
        /\ nodeOf' = [s \in steps \cup {id} |-> IF s = id THEN n ELSE nodeOf[s]]
        /\ stack' = Append(below, [node |-> n, id |-> id, next |-> 1, children |-> << >>])

Below == SubSeq(stack, 1, Len(stack) - 1)

\* buildChildren takes the next child.
EnterChild ==
    /\ stack # << >>
    /\ Frame.next <= Len(Frame.node.Children)
    /\ EnterNode(Frame.node.Children[Frame.next],
                 Append(Below, [Frame EXCEPT !.next = @ + 1]))
    /\ UNCHANGED << callVars, req, ni, entryStep, terms >>

\* The caller of buildNode gets the step and, in buildChildren, an edge to it.
ReturnTo(frames, id) ==
    IF frames = << >> THEN << >>
    ELSE [frames EXCEPT ![Len(frames)].children = Append(@, NextEdge(id))]

LeaveNode ==
    /\ stack # << >>
    /\ Frame.next > Len(Frame.node.Children)
    /\ edges' = [edges EXCEPT ![Frame.id] = @ \o Frame.children]
    /\ stack' = ReturnTo(Below, Frame.id)
    /\ UNCHANGED << callVars, req, ni, counter, entryStep, steps, nodeOf, terms >>

Driver(loop) == pc = loop /\ stack = << >>

IsEntry(n) == req.Symbol = << >> \/ n.Label = req.Symbol

\* The first loop: functions the symbol does not select are passed over.
SkipNotEntry ==
    /\ Driver("entry loop")
    /\ ni <= Len(nodes)
    /\ ~IsEntry(nodes[ni])
    /\ ni' = ni + 1
    /\ UNCHANGED << callVars, req, counter, stack, entryStep, steps, edges, nodeOf, terms >>

\* Without a symbol the first function is the entry and the loop breaks; with one,
\* the last function it selects is.
BuildEntry ==
    /\ Driver("entry loop")
    /\ ni <= Len(nodes)
    /\ IsEntry(nodes[ni])
    /\ EnterNode(nodes[ni], << >>)
    /\ entryStep' = NodeID(nodes[ni])
    /\ IF req.Symbol = << >>
       THEN ni' = 1 /\ Continue("others loop")
       ELSE ni' = ni + 1 /\ Continue("entry loop")
    /\ UNCHANGED << req, terms >>

\* Mutant: the second loop goes on where the first one stopped.
EntryLoopDoneHere ==
    /\ Driver("entry loop")
    /\ ni > Len(nodes)
    /\ Continue("others loop")
    /\ UNCHANGED << req, buildVars, terms >>

EntryLoopDone ==
    /\ Driver("entry loop")
    /\ ni > Len(nodes)
    /\ ni' = 1
    /\ Continue("others loop")
    /\ UNCHANGED << req, counter, stack, entryStep, steps, edges, nodeOf, terms >>

SameLabelAsEntry(n) ==
    entryStep # NoID /\ n.Label = nodeOf[entryStep].Label

\* The second loop builds the other functions.
SkipEntry ==
    /\ Driver("others loop")
    /\ ni <= Len(nodes)
    /\ SameLabelAsEntry(nodes[ni])
    /\ ni' = ni + 1
    /\ UNCHANGED << callVars, req, counter, stack, entryStep, steps, edges, nodeOf, terms >>

BuildOther ==
    /\ Driver("others loop")
    /\ ni <= Len(nodes)
    /\ ~SameLabelAsEntry(nodes[ni])
    /\ EnterNode(nodes[ni], << >>)
    /\ ni' = ni + 1
    /\ UNCHANGED << callVars, req, entryStep, terms >>

\* Mutant: the fallback is built and forgotten.
BuildFallbackUnset ==
    /\ Driver("others loop")
    /\ ni > Len(nodes)
    /\ entryStep = NoID /\ nodes # << >>
    /\ EnterNode(nodes[1], << >>)
    /\ Continue("built")
    /\ UNCHANGED << req, ni, entryStep, terms >>

\* When the symbol selected nothing the first function is built once more, and is
\* the entry.
BuildFallback ==
    /\ Driver("others loop")
    /\ ni > Len(nodes)
    /\ entryStep = NoID /\ nodes # << >>
    /\ EnterNode(nodes[1], << >>)
    /\ entryStep' = NodeID(nodes[1])
    /\ Continue("built")
    /\ UNCHANGED << req, ni, terms >>

BuildNoFallback ==
    /\ Driver("others loop")
    /\ ni > Len(nodes)
    /\ entryStep # NoID \/ nodes = << >>
    /\ Continue("built")
    /\ UNCHANGED << req, buildVars, terms >>

--------------------------------------------------------------------------------
(* After the graph: the glossary, and the session.                         *)

SendGlossary ==
    /\ Driver("built")
    /\ SendProgress(65, "glossary")
    /\ UNCHANGED << req, buildVars, terms >>

\* Mutant: the LLM is asked without the call's context.
ExtractGlossaryNoContext ==
    /\ pc = "glossary"
    /\ ~ctxDone
    /\ \E n \in 0..1 : terms' = [i \in 1..n |-> entryStep]
    /\ Continue("creating")
    /\ UNCHANGED << req, buildVars >>

\* ExtractGlossaryTerms: an error counts as no terms.  Each term names the entry.
ExtractGlossary ==
    /\ pc = "glossary"
    /\ \E n \in 0..1 : (ctxDone => n = 0) /\ terms' = [i \in 1..n |-> entryStep]
    /\ Continue("creating")
    /\ UNCHANGED << req, buildVars >>

\* Mutant: the session is registered before the last progress event.
SendCreatingAfterSet ==
    /\ pc = "creating"
    /\ \/ ctxDone /\ Return("Canceled") /\ UNCHANGED percents
       \/ ~ctxDone /\ pc' = "register" /\ percents' = Append(percents, 85) /\ UNCHANGED status
    /\ registered' = TRUE
    /\ UNCHANGED << ctxDone, req, buildVars, terms >>

SendCreating ==
    /\ pc = "creating"
    /\ SendProgress(85, "register")
    /\ UNCHANGED << req, buildVars, terms >>

RegisterSession ==
    /\ pc = "register"
    /\ Register("ready")
    /\ UNCHANGED << req, buildVars, terms >>

\* SessionReady carries the steps (in the order of a map, that is in none), the
\* entry and the glossary as they are.
SendSessionReady ==
    /\ pc = "ready"
    /\ SendReady
    /\ UNCHANGED << req, buildVars, terms >>

Cancel ==
    /\ CancelCall
    /\ UNCHANGED << req, buildVars, terms >>

\* The LLM has not answered yet, or the call is over.
Idle ==
    /\ pc \in {"glossary", "returned"}
    /\ UNCHANGED vars

Handler ==
    \/ RejectEmptyPath \/ SendOpening \/ OpenRepo \/ ReadFile \/ SendParsing \/ ParseFile
    \/ SendBuilding
    \/ EnterChild \/ LeaveNode
    \/ SkipNotEntry \/ BuildEntry \/ EntryLoopDone
    \/ SkipEntry \/ BuildOther \/ BuildFallback \/ BuildNoFallback
    \/ SendGlossary \/ ExtractGlossary \/ SendCreating \/ RegisterSession
    \/ SendSessionReady

Next == Handler \/ Cancel \/ Idle

\* All that a handler waits for here is local, or a request to the LLM, which its
\* client gives up after a timeout.
Fairness == WF_vars(Handler)

Spec == Init /\ [][Next]_vars /\ Fairness

--------------------------------------------------------------------------------
(* What a correct opening guarantees.                                      *)

\* The graph the session is given, as the walker of module StepGraph reads it.
Built == INSTANCE StepGraph WITH
            IDs <- steps \cup {NoID}, Steps <- steps, EntryID <- entryStep, Labels <- {"NEXT", "CALL"},
            EDGE_LABEL_NEXT <- "NEXT", Edges <- edges

\* Type correctness of the call and of Build's variables.
WalkthroughTypeOK ==
    /\ CallTypeOK
    /\ ni \in 1..(Len(nodes) + 1)
    /\ counter \in Nat
    /\ NoID \notin steps
    /\ DOMAIN edges = steps
    /\ DOMAIN nodeOf = steps /\ \A s \in steps : IsNode(nodeOf[s])
    /\ entryStep \in steps \cup {NoID}
    /\ Len(terms) <= 1
    /\ \A i \in DOMAIN stack : IsNode(stack[i].node) /\ stack[i].id \in steps

\* A call that fails leaves no session behind, unless the client hung up after the last
\* progress event: a hang-up there, before store.Set or after it, is noticed by the
\* announcement only (OpenSession lines 84 to 119).
FailureLeavesNothing ==
    (registered /\ status \notin {"none", "OK"}) =>
        ctxDone /\ percents = << 5, 20, 40, 65, 85 >>

\* Whenever a session is registered its graph is one the walker can walk, which is
\* the assumption the results about module StepGraph rest on, and every identifier
\* a client may follow, by an edge or from the glossary, names a step (Build).
RegisteredGraphIsSound ==
    registered =>
        /\ Built!GraphAssumption
        /\ \A s \in steps : \A e \in Range(edges[s]) : e.navigable => e.target \in steps
        /\ steps # {} => \A t \in Range(terms) : t \in steps

\* No node takes the step of another, whether the parser or Build numbered it: the edge
\* made for a node's i-th child still leads to the step of that child when the file is
\* done, and was not bent by a later step of the same identifier (buildNode, nextID,
\* g.Add).  It says nothing of edges the documents expect and Build does not make:
\* between siblings, and with the labels of branches, cases and loops.
ChildrenKeepTheirSteps ==
    registered =>
        \A s \in steps :
            LET n == nodeOf[s]
                at(i) == Len(n.Calls) + i
            IN  \A i \in DOMAIN n.Children :
                    /\ at(i) \in DOMAIN edges[s]
                    /\ edges[s][at(i)].target \in steps
                    /\ nodeOf[edges[s][at(i)].target] = n.Children[i]

\* Every function of the file has a step, so that a CALL edge could lead to it,
\* whatever symbol selected the entry; only functions with the entry's label may
\* be missing (the second loop of Build).
FunctionsAreBuilt ==
    registered =>
        \A n \in Range(nodes) :
            SameLabelAsEntry(n) \/ \E s \in steps : nodeOf[s] = n

\* Every call returns, however the file is shaped and whenever the client hangs up.
OpenReturns == <>(pc = "returned")

--------------------------------------------------------------------------------
(* What the protocol's documentation says.                                 *)

\* "Optional: scope to a specific function/class/symbol by name"
\* (proto/codewalker/v1/codewalker.proto line 71): a session opened with the name of
\* a function of the file begins at that function.
SymbolNamesEntry ==
    registered =>
        \A n \in Range(nodes) :
            Len(req.Symbol) = 1 /\ req.Symbol[1] = n.Label[Len(n.Label)] =>
                req.Symbol[1] = nodeOf[entryStep].Label[Len(nodeOf[entryStep].Label)]
================================================================================
