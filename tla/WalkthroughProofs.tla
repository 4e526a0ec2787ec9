--------------------------- MODULE WalkthroughProofs ----------------------------
(***************************************************************************)
(* What holds of every opening of a walkthrough, whatever the file, the    *)
(* symbol and the moment the client hangs up.                              *)
(*                                                                         *)
(* The parsers' nodes are trees: every child is lower than its parent      *)
(* (Height).  buildNode goes down such a tree with its calls on a stack.   *)
(* The invariant says which part of every step's edges is there while its  *)
(* call is under way, that the frames are the path down to the node being  *)
(* built, and that no identifier is given twice: a step's identifier is    *)
(* that of its node, or a number nextID has already passed.                *)
(*                                                                         *)
(* The fallback builds the first function a second time: a node with an    *)
(* identifier gets the same step again, one without gets a new one and     *)
(* leaves that of the first pass behind.  So a step under way may have     *)
(* been done before, and the invariant says of an edge that it leads to a  *)
(* step of the right node, not to which.                                   *)
(***************************************************************************)
EXTENDS WalkthroughOpening, Acyclic, SequenceTheorems, TLAPS

--------------------------------------------------------------------------------
(* The invariant.                                                          *)

BeforeBuild == {"start", "open", "read", "parsing", "parse", "building"}
InBuild     == {"entry loop", "others loop", "built"}
AfterBuild  == {"glossary", "creating", "register", "ready"}

\* The progress a client has seen when the handler is at p.
Sent(p) ==
    CASE p = "start" -> << >>
      [] p \in {"open", "read", "parsing"} -> << 5 >>
      [] p \in {"parse", "building"} -> << 5, 20 >>
      [] p \in InBuild -> << 5, 20, 40 >>
      [] p \in {"glossary", "creating"} -> << 5, 20, 40, 65 >>
      [] p \in {"register", "ready"} -> << 5, 20, 40, 65, 85 >>

\* The call: a session is registered only after the last progress event.
CallInv ==
    /\ CallTypeOK
    /\ pc \in BeforeBuild \cup InBuild \cup AfterBuild \cup {"returned"}
    /\ pc # "returned" => percents = Sent(pc)
    /\ registered = TRUE =>
          /\ pc \in {"ready", "returned"}
          /\ percents = << 5, 20, 40, 65, 85 >>
          /\ status \in {"none", "OK"} \/ ctxDone = TRUE

\* The nodes of a request's file, the identifiers a step may get, and the edges and
\* frames there may be.
Tree(r) == DOMAIN Height[r]

Numbered(k) == << "step", << k >> >>

IDs(r)    == {n.ID : n \in Tree(r)} \cup {Numbered(k) : k \in Nat} \cup {NoID}
EdgeSet(r) == [target : IDs(r), label : {"NEXT", "CALL"}, navigable : BOOLEAN]
Frames(r) == [node : Tree(r), id : IDs(r), next : Nat, children : Seq(EdgeSet(r))]

\* A step of node n is called as the node is, or by one of the numbers up to count.
Identifies(s, n, count) ==
    IF n.ID # NoID THEN s = n.ID ELSE \E k \in 1..count : s = Numbered(k)

\* The steps: each is identified by the node it was built from.
StepsInv ==
    /\ req \in Requests
    /\ counter \in Nat
    /\ steps \subseteq IDs(req) \ {NoID}
    /\ nodeOf \in [steps -> Tree(req)]
    /\ edges \in [steps -> Seq(EdgeSet(req))]
    /\ \A s \in steps : Identifies(s, nodeOf[s], counter)

\* Of the steps S, of the nodes of[s], the edge e is a NEXT edge to one of node n.
LeadsTo(S, of, e, n) == \E t \in S : e = NextEdge(t) /\ of[t] = n

CallsOf(n) == [i \in DOMAIN n.Calls |-> CallEdge]

\* The edges of a step that is done: its calls, then its node's children in order.
Mirrors(S, of, out, n) ==
    /\ Len(out) = Len(n.Calls) + Len(n.Children)
    /\ \A i \in 1..Len(n.Calls) : out[i] = CallEdge
    /\ \A i \in 1..Len(n.Children) : LeadsTo(S, of, out[Len(n.Calls) + i], n.Children[i])

UnderWay(frames, s) == \E i \in 1..Len(frames) : frames[i].id = s

\* The edges: a step under way has those of its calls only.
EdgesInv ==
    \A s \in steps :
        /\ UnderWay(stack, s) => edges[s] = CallsOf(nodeOf[s])
        /\ ~UnderWay(stack, s) => Mirrors(steps, nodeOf, edges[s], nodeOf[s])

\* What a call of buildNode has collected: an edge to every child that it has taken,
\* but for the last one as long as that is under way.
FrameOK(S, of, f, underway) ==
    /\ f.id \in S /\ of[f.id] = f.node
    /\ f.next \in 1..(Len(f.node.Children) + 1)
    /\ Len(f.children) = f.next - 1 - underway
    /\ \A j \in 1..Len(f.children) : LeadsTo(S, of, f.children[j], f.node.Children[j])

\* The stack: each call is for the child its caller has taken last, and so for a node
\* further down.
StackInv ==
    /\ stack \in Seq(Frames(req))
    /\ \A i \in 1..Len(stack) :
          FrameOK(steps, nodeOf, stack[i], IF i = Len(stack) THEN 0 ELSE 1)
    /\ \A i \in 1..(Len(stack) - 1) :
          stack[i + 1].node = stack[i].node.Children[stack[i].next - 1]
    /\ \A i, j \in 1..Len(stack) :
          i < j => Height[req][stack[j].node] < Height[req][stack[i].node]

\* Node n is passed over by the second loop or has a step.
Settled(S, of, entry, n) ==
    (entry # NoID /\ n.Label = of[entry].Label) \/ \E s \in S : of[s] = n

AllSettled(last) == \A i \in 1..last : Settled(steps, nodeOf, entryStep, nodes[i])

\* Build's loops: the second one leaves nothing behind, and there is an entry if there
\* can be one.
LoopInv ==
    /\ ni \in 1..(Len(nodes) + 1)
    /\ entryStep \in steps \cup {NoID}
    /\ steps # {} => nodes # << >>
    /\ stack # << >> => pc \in InBuild
    /\ pc = "others loop" => AllSettled(ni - 1)
    /\ pc \in AfterBuild \cup {"built"} \/ registered = TRUE =>
          (entryStep = NoID => nodes = << >>) /\ AllSettled(Len(nodes))
    /\ terms \in {<< >>, << entryStep >>}
    /\ pc \in BeforeBuild \cup InBuild => terms = << >>

WalkthroughInv == CallInv /\ StepsInv /\ EdgesInv /\ StackInv /\ LoopInv

--------------------------------------------------------------------------------
(* What the parsers' trees are.                                            *)

LEMMA TreeNode ==
  ASSUME NEW r \in Requests, NEW n \in Tree(r)
  PROVE  /\ Len(n.Calls) \in Nat /\ DOMAIN n.Calls = 1..Len(n.Calls)
         /\ Height[r][n] \in Nat
         /\ n.Children \in Seq(Tree(r)) /\ Len(n.Children) \in Nat
         /\ \A i \in 1..Len(n.Children) : /\ n.Children[i] \in Tree(r)
                                          /\ Height[r][n.Children[i]] < Height[r][n]
         /\ \A k \in Nat : n.ID # Numbered(k)
         /\ \A m \in Tree(r) : n.ID = m.ID /\ n.ID # NoID => n = m
<1>1. /\ n.ID[1] # "step"
      /\ Len(n.Calls) \in Nat /\ DOMAIN n.Calls = 1..Len(n.Calls)
      /\ Height[r][n] \in Nat
      /\ n.Children \in Seq({c \in DOMAIN Height[r] : Height[r][c] < Height[r][n]})
      /\ \A m \in DOMAIN Height[r] : n.ID = m.ID /\ n.ID # NoID => n = m
  BY WalkthroughAssumption DEF Tree
<1>2. \A k \in Nat : Numbered(k)[1] = "step"
  BY DEF Numbered
<1>3. /\ n.Children \in Seq(Tree(r)) /\ Len(n.Children) \in Nat
      /\ \A i \in 1..Len(n.Children) : /\ n.Children[i] \in Tree(r)
                                       /\ Height[r][n.Children[i]] < Height[r][n]
  <2> DEFINE Lower == {c \in DOMAIN Height[r] : Height[r][c] < Height[r][n]}
  <2>1. n.Children \in Seq(Lower)
    BY <1>1
  <2> HIDE DEF Lower
  <2>2. /\ Len(n.Children) \in Nat /\ DOMAIN n.Children = 1..Len(n.Children)
        /\ \A i \in 1..Len(n.Children) : n.Children[i] \in Lower
    BY <2>1, LenProperties, ElementOfSeq
  <2>3. \A i \in 1..Len(n.Children) : /\ n.Children[i] \in Tree(r)
                                      /\ Height[r][n.Children[i]] < Height[r][n]
    BY <2>2 DEF Lower, Tree
  <2>4. n.Children \in Seq(Tree(r))
    <3>1. \A x \in Lower : x \in Tree(r)
      BY DEF Lower, Tree
    <3> QED
      BY <2>1, <3>1
  <2> QED
    BY <2>2, <2>3, <2>4
<1> QED
  BY <1>1, <1>2, <1>3 DEF Tree

LEMMA TopNodes ==
  ASSUME NEW r \in Requests
  PROVE  /\ Len(r.parsed.nodes) \in Nat
         /\ r.parsed.nodes = << >> <=> Len(r.parsed.nodes) = 0
         /\ Range(r.parsed.nodes) = {r.parsed.nodes[i] : i \in 1..Len(r.parsed.nodes)}
         /\ \A i \in 1..Len(r.parsed.nodes) : /\ r.parsed.nodes[i] \in Tree(r)
                                              /\ r.parsed.nodes[i].ID # NoID
<1> DEFINE top == r.parsed.nodes
<1>1. top \in Seq(Tree(r)) /\ \A n \in Range(top) : n.ID # NoID
  BY WalkthroughAssumption DEF Tree
<1> HIDE DEF top
<1>2. Len(top) \in Nat /\ DOMAIN top = 1..Len(top) /\ (top = << >> <=> Len(top) = 0)
  BY <1>1, LenProperties, EmptySeq
<1>3. \A i \in 1..Len(top) : top[i] \in Tree(r)
  BY <1>1, ElementOfSeq
<1>4. Range(top) = {top[i] : i \in 1..Len(top)}
  BY <1>2 DEF Range
<1> QED
  BY <1>1, <1>2, <1>3, <1>4 DEF top

\* A node that has a step is not built into another one, and no other step is
\* overwritten by building it.
LEMMA OneStepPerName ==
  ASSUME StepsInv, NEW n \in Tree(req)
  PROVE  /\ NodeID(n) \in IDs(req) \ {NoID}
         /\ Identifies(NodeID(n), n, counter + 1)
         /\ NodeID(n) \in steps => nodeOf[NodeID(n)] = n
<1>1. req \in Requests /\ counter \in Nat
  BY DEF StepsInv
<1>2. \A k \in Nat : Numbered(k) # NoID
  <2>1. \A k \in Nat : Numbered(k)[1] = "step"
    BY DEF Numbered
  <2> QED
    BY <2>1, WalkthroughAssumption
<1>3. CASE n.ID # NoID
  <2>1. NodeID(n) = n.ID
    BY <1>3 DEF NodeID
  <2>2. ASSUME n.ID \in steps
        PROVE  nodeOf[n.ID] = n
    <3>1. nodeOf[n.ID] \in Tree(req) /\ Identifies(n.ID, nodeOf[n.ID], counter)
      BY <2>2 DEF StepsInv
    <3>2. \A k \in Nat : n.ID # Numbered(k)
      BY <1>1, TreeNode
    <3>3. nodeOf[n.ID].ID # NoID /\ n.ID = nodeOf[n.ID].ID
      BY <1>1, <3>1, <3>2 DEF Identifies
    <3> QED
      BY <1>1, <1>3, <3>1, <3>3, TreeNode
  <2> QED
    BY <1>3, <2>1, <2>2 DEF IDs, Identifies
<1>4. CASE n.ID = NoID
  <2>1. NodeID(n) = Numbered(counter + 1)
    BY <1>4 DEF NodeID, Numbered, NextCounter
  <2>2. counter + 1 \in Nat /\ counter + 1 \in 1..(counter + 1)
    BY <1>1
  <2>3. ASSUME Numbered(counter + 1) \in steps
        PROVE  FALSE
    <3> DEFINE m == nodeOf[Numbered(counter + 1)]
    <3>1. m \in Tree(req) /\ Identifies(Numbered(counter + 1), m, counter)
      BY <2>3 DEF StepsInv
    <3> HIDE DEF m
    <3>2. m.ID # Numbered(counter + 1)
      BY <1>1, <2>2, <3>1, TreeNode
    <3>3. PICK k \in 1..counter : Numbered(counter + 1) = Numbered(k)
      BY <3>1, <3>2 DEF Identifies
    <3>4. counter + 1 = k
      BY <3>3 DEF Numbered
    <3> QED
      BY <1>1, <3>3, <3>4
  <2> QED
    BY <1>2, <1>4, <2>1, <2>2, <2>3 DEF IDs, Identifies
<1> QED
  BY <1>3, <1>4

\* What leads to a node still does when steps are added and none is changed.
LEMMA StillLeads ==
  ASSUME NEW S, NEW of, NEW S2, NEW of2, S \subseteq S2, \A s \in S : of2[s] = of[s]
  PROVE  /\ \A e, n : LeadsTo(S, of, e, n) => LeadsTo(S2, of2, e, n)
         /\ \A out, n : Mirrors(S, of, out, n) => Mirrors(S2, of2, out, n)
         /\ \A f, u : FrameOK(S, of, f, u) => FrameOK(S2, of2, f, u)
<1>1. \A e, n : LeadsTo(S, of, e, n) => LeadsTo(S2, of2, e, n)
  BY DEF LeadsTo
<1>2. \A out, n : Mirrors(S, of, out, n) => Mirrors(S2, of2, out, n)
  BY <1>1 DEF Mirrors
<1>3. \A f, u : FrameOK(S, of, f, u) => FrameOK(S2, of2, f, u)
  BY <1>1 DEF FrameOK
<1> QED
  BY <1>1, <1>2, <1>3

--------------------------------------------------------------------------------
(* Stacks.                                                                 *)

LEMMA Popped ==
  ASSUME NEW T, NEW s \in Seq(T), s # << >>
  PROVE  LET b == SubSeq(s, 1, Len(s) - 1)
         IN  /\ b \in Seq(T) /\ Len(s) \in Nat \ {0} /\ Len(b) = Len(s) - 1
             /\ DOMAIN b = 1..(Len(s) - 1)
             /\ \A i \in 1..(Len(s) - 1) : b[i] = s[i]
<1> DEFINE b == SubSeq(s, 1, Len(s) - 1)
<1>1. Len(s) \in Nat \ {0} /\ Len(s) - 1 \in Nat
  BY EmptySeq
<1>2. 1 \in Int /\ Len(s) - 1 \in Int /\ \A i \in 1..(Len(s) - 1) : s[i] \in T
  BY <1>1, ElementOfSeq
<1>3. /\ b \in Seq(T)
      /\ Len(b) = IF 1 <= Len(s) - 1 THEN (Len(s) - 1) - 1 + 1 ELSE 0
      /\ \A i \in 1..((Len(s) - 1) - 1 + 1) : b[i] = s[1 + i - 1]
  BY <1>2, SubSeqProperties
<1> HIDE DEF b
<1>4. Len(b) = Len(s) - 1
  <2>1. CASE 1 <= Len(s) - 1
    BY <1>1, <1>3, <2>1
  <2>2. CASE ~(1 <= Len(s) - 1)
    <3>1. Len(s) = 1
      <4>1. \A m \in Nat \ {0} : ~(1 <= m - 1) => m = 1
        OBVIOUS
      <4> QED
        BY <1>1, <2>2, <4>1
    <3>2. Len(b) = 0
      BY <1>3, <2>2
    <3> QED
      BY <3>1, <3>2
  <2> QED
    BY <2>1, <2>2
<1>5. ASSUME NEW i \in 1..(Len(s) - 1)
      PROVE  b[i] = s[i]
  <2>1. 1 + i - 1 = i /\ i \in 1..((Len(s) - 1) - 1 + 1)
    BY <1>1
  <2> QED
    BY <1>3, <2>1
<1>6. DOMAIN b = 1..(Len(s) - 1)
  BY <1>3, <1>4, LenProperties
<1> QED
  BY <1>1, <1>3, <1>4, <1>5, <1>6 DEF b

LEMMA Pushed ==
  ASSUME NEW T, NEW s \in Seq(T), s # << >>, NEW x \in T, NEW y \in T
  PROVE  LET u == Append(Append(SubSeq(s, 1, Len(s) - 1), x), y)
         IN  /\ u \in Seq(T) /\ Len(s) \in Nat \ {0} /\ Len(u) = Len(s) + 1
             /\ u[Len(s)] = x /\ u[Len(s) + 1] = y
             /\ \A i \in 1..(Len(s) - 1) : u[i] = s[i]
<1> DEFINE b == SubSeq(s, 1, Len(s) - 1)
<1>1. Len(s) \in Nat \ {0} /\ Len(s) - 1 \in Nat
  BY EmptySeq
<1>2. /\ b \in Seq(T) /\ Len(b) = Len(s) - 1
      /\ \A i \in 1..(Len(s) - 1) : b[i] = s[i]
  BY Popped
<1> HIDE DEF b
<1> DEFINE v == Append(b, x)
<1>3. /\ v \in Seq(T) /\ Len(v) = Len(s) /\ v[Len(s)] = x
      /\ \A i \in 1..(Len(s) - 1) : v[i] = s[i]
  BY <1>1, <1>2, AppendProperties
<1> HIDE DEF v
<1>4. /\ Append(v, y) \in Seq(T) /\ Len(Append(v, y)) = Len(s) + 1
      /\ Append(v, y)[Len(s) + 1] = y
      /\ \A i \in 1..Len(s) : Append(v, y)[i] = v[i]
  BY <1>1, <1>3, AppendProperties
<1> QED
  BY <1>1, <1>3, <1>4 DEF v, b

--------------------------------------------------------------------------------
(* buildNode.                                                              *)

NewFrame(n, id) == [node |-> n, id |-> id, next |-> 1, children |-> << >>]

\* buildNode adds one step, for its node, and leaves every other as it is.
LEMMA EnteredStep ==
  ASSUME StepsInv, NEW n \in Tree(req), NEW below, EnterNode(n, below), UNCHANGED req
  PROVE  /\ StepsInv'
         /\ steps' = steps \cup {NodeID(n)}
         /\ \A s \in steps : nodeOf'[s] = nodeOf[s]
         /\ nodeOf'[NodeID(n)] = n
         /\ edges'[NodeID(n)] = CallsOf(n)
         /\ \A s \in steps \ {NodeID(n)} : edges'[s] = edges[s]
         /\ stack' = Append(below, NewFrame(n, NodeID(n)))
<1> DEFINE id == NodeID(n)
<1>1. /\ id \in IDs(req) \ {NoID} /\ Identifies(id, n, counter + 1)
      /\ id \in steps => nodeOf[id] = n
  BY OneStepPerName
<1>2. /\ counter' = counter + 1
      /\ steps' = steps \cup {id}
      /\ edges' = [s \in steps \cup {id} |-> IF s = id THEN CallsOf(n) ELSE edges[s]]
      /\ nodeOf' = [s \in steps \cup {id} |-> IF s = id THEN n ELSE nodeOf[s]]
      /\ stack' = Append(below, NewFrame(n, id))
  BY DEF EnterNode, NextCounter, StepsWith, CallsOf, NewFrame
<1> HIDE DEF id
<1>3. CallsOf(n) \in Seq(EdgeSet(req))
  <2>1. CallEdge \in EdgeSet(req)
    BY DEF CallEdge, EdgeSet, IDs
  <2>2. Len(n.Calls) \in Nat /\ DOMAIN n.Calls = 1..Len(n.Calls)
    BY TreeNode DEF StepsInv
  <2>3. CallsOf(n) = [i \in 1..Len(n.Calls) |-> CallEdge]
    BY <2>2 DEF CallsOf
  <2> QED
    BY <2>1, <2>2, <2>3
<1>4. /\ \A s \in steps : nodeOf'[s] = nodeOf[s]
      /\ nodeOf'[id] = n
      /\ edges'[id] = CallsOf(n)
      /\ \A s \in steps \ {id} : edges'[s] = edges[s]
  BY <1>1, <1>2
<1>5. StepsInv'
  <2>1. req' \in Requests /\ counter' \in Nat /\ req' = req /\ counter \in Nat
    BY <1>2 DEF StepsInv
  <2>2. steps' \subseteq IDs(req) \ {NoID}
    BY <1>1, <1>2 DEF StepsInv
  <2>3. nodeOf' \in [steps' -> Tree(req)]
    BY <1>2 DEF StepsInv
  <2>4. edges' \in [steps' -> Seq(EdgeSet(req))]
    BY <1>2, <1>3 DEF StepsInv
  <2>5. ASSUME NEW s \in steps'
        PROVE  Identifies(s, nodeOf'[s], counter')
    <3>1. CASE s = id
      BY <1>1, <1>2, <1>4, <3>1
    <3>2. CASE s \in steps
      <4>1. Identifies(s, nodeOf[s], counter)
        BY <3>2 DEF StepsInv
      <4>2. \A k \in 1..counter : k \in 1..(counter + 1)
        BY <2>1
      <4>3. Identifies(s, nodeOf[s], counter + 1)
        BY <4>1, <4>2 DEF Identifies
      <4> QED
        BY <1>2, <1>4, <3>2, <4>3
    <3> QED
      BY <1>2, <3>1, <3>2
  <2> QED
    BY <2>1, <2>2, <2>3, <2>4, <2>5 DEF StepsInv
<1> QED
  BY <1>2, <1>4, <1>5 DEF id

\* The step it adds is under way, and those that are done lead where they led.
LEMMA EnteredEdges ==
  ASSUME StepsInv, EdgesInv, NEW n \in Tree(req), NEW below, EnterNode(n, below), UNCHANGED req,
         \A s : UnderWay(stack', s) <=> UnderWay(stack, s) \/ s = NodeID(n)
  PROVE  EdgesInv'
<1> DEFINE id == NodeID(n)
<1>1. /\ steps' = steps \cup {id}
      /\ \A s \in steps : nodeOf'[s] = nodeOf[s]
      /\ nodeOf'[id] = n
      /\ edges'[id] = CallsOf(n)
      /\ \A s \in steps \ {id} : edges'[s] = edges[s]
  BY EnteredStep
<1>2. \A s : UnderWay(stack', s) <=> UnderWay(stack, s) \/ s = id
  OBVIOUS
<1> HIDE DEF id
<1>3. ASSUME NEW s \in steps'
      PROVE  /\ UnderWay(stack', s) => edges'[s] = CallsOf(nodeOf'[s])
             /\ ~UnderWay(stack', s) => Mirrors(steps', nodeOf', edges'[s], nodeOf'[s])
  <2>1. CASE s = id
    BY <1>1, <1>2, <2>1
  <2>2. CASE s # id
    <3>1. s \in steps /\ edges'[s] = edges[s] /\ nodeOf'[s] = nodeOf[s]
      BY <1>1, <2>2
    <3>2. /\ UnderWay(stack, s) => edges[s] = CallsOf(nodeOf[s])
          /\ ~UnderWay(stack, s) => Mirrors(steps, nodeOf, edges[s], nodeOf[s])
      BY <3>1 DEF EdgesInv
    <3>3. steps \subseteq steps'
      BY <1>1
    <3>4. Mirrors(steps, nodeOf, edges[s], nodeOf[s])
            => Mirrors(steps', nodeOf', edges[s], nodeOf[s])
      BY <1>1, <3>3, StillLeads
    <3>5. UnderWay(stack', s) <=> UnderWay(stack, s)
      BY <1>2, <2>2
    <3> QED
      BY <3>1, <3>2, <3>4, <3>5
  <2> QED
    BY <2>1, <2>2
<1> QED
  BY <1>3 DEF EdgesInv

\* What every step of buildNode keeps of the graph: steps stay, and stay those of their
\* nodes.
Grown == steps \subseteq steps' /\ \A s \in steps : nodeOf'[s] = nodeOf[s]

\* Build calls buildNode for a function.
LEMMA FunctionEntered ==
  ASSUME StepsInv, EdgesInv, stack = << >>, NEW n \in Tree(req), EnterNode(n, << >>),
         UNCHANGED req
  PROVE  /\ StepsInv' /\ EdgesInv' /\ StackInv' /\ Grown /\ stack' # << >>
         /\ NodeID(n) \in steps' /\ nodeOf'[NodeID(n)] = n
<1> DEFINE id == NodeID(n)
           f  == NewFrame(n, id)
<1>1. /\ StepsInv'
      /\ steps' = steps \cup {id}
      /\ \A s \in steps : nodeOf'[s] = nodeOf[s]
      /\ nodeOf'[id] = n
      /\ stack' = Append(<< >>, NewFrame(n, id))
  BY EnteredStep
<1>2. id \in IDs(req)
  BY OneStepPerName
<1>3. /\ EdgesInv /\ EnterNode(n, << >>) /\ id = NodeID(n)
  OBVIOUS
<1> HIDE DEF id
<1>4. f \in Frames(req) /\ f.id = id /\ f.node = n /\ f.next = 1 /\ f.children = << >>
  <2>1. << >> \in Seq(EdgeSet(req))
    BY EmptySeq
  <2> QED
    BY <1>2, <2>1 DEF NewFrame, Frames
<1> HIDE DEF f
<1>5. stack' = << f >> /\ stack' \in Seq(Frames(req)) /\ Len(stack') = 1 /\ stack'[1] = f
  <2>1. stack' = Append(<< >>, f)
    BY <1>1 DEF f
  <2> QED
    BY <1>4, <2>1
<1>6. EdgesInv'
  <2>1. \A s : ~UnderWay(stack, s)
    <3>1. Len(stack) = 0
      BY EmptySeq
    <3> QED
      BY <3>1 DEF UnderWay
  <2>2. \A s : UnderWay(stack', s) <=> UnderWay(stack, s) \/ s = id
    BY <1>4, <1>5, <2>1 DEF UnderWay
  <2> QED
    BY <1>3, <2>2, EnteredEdges
<1>7. StackInv'
  <2>1. Len(n.Children) \in Nat
    BY TreeNode DEF StepsInv
  <2>2. Len(f.children) = 0
    BY <1>4, EmptySeq
  <2>3. FrameOK(steps', nodeOf', f, 0)
    BY <1>1, <1>4, <2>1, <2>2 DEF FrameOK
  <2>4. \A i \in 1..Len(stack') :
            FrameOK(steps', nodeOf', stack'[i], IF i = Len(stack') THEN 0 ELSE 1)
    BY <1>5, <2>3
  <2> QED
    BY <1>5, <2>4 DEF StackInv
<1>8. stack' # << >>
  BY <1>5, EmptySeq
<1> QED
  BY <1>1, <1>3, <1>6, <1>7, <1>8 DEF Grown

\* buildChildren calls buildNode for the next child.
LEMMA ChildEntered ==
  ASSUME StepsInv, EdgesInv, StackInv, EnterChild
  PROVE  StepsInv' /\ EdgesInv' /\ StackInv' /\ Grown /\ stack' # << >>
<1> DEFINE L  == Len(stack)
           F  == stack[L]
           c  == F.node.Children[F.next]
           G  == [F EXCEPT !.next = F.next + 1]
           id == NodeID(c)
           H  == NewFrame(c, id)
<1>1. /\ stack # << >> /\ F.next <= Len(F.node.Children)
      /\ EnterNode(c, Append(SubSeq(stack, 1, L - 1), G))
      /\ UNCHANGED req
  BY DEF EnterChild, Frame, Below
<1>2. /\ stack \in Seq(Frames(req)) /\ L \in Nat \ {0} /\ F \in Frames(req)
      /\ FrameOK(steps, nodeOf, F, 0)
      /\ \A i \in 1..(L - 1) : stack[i] \in Frames(req) /\ FrameOK(steps, nodeOf, stack[i], 1)
      /\ \A i \in 1..(L - 1) : stack[i + 1].node = stack[i].node.Children[stack[i].next - 1]
      /\ \A i, j \in 1..L : i < j => Height[req][stack[j].node] < Height[req][stack[i].node]
  <2>1. stack \in Seq(Frames(req)) /\ L \in Nat \ {0}
    BY <1>1, EmptySeq DEF StackInv
  <2>2. \A i \in 1..L : stack[i] \in Frames(req)
    BY <2>1, ElementOfSeq
  <2>3. L \in 1..L /\ \A i \in 1..(L - 1) : i \in 1..L /\ i # L
    BY <2>1
  <2> QED
    BY <2>1, <2>2, <2>3 DEF StackInv
<1>3. /\ F.node \in Tree(req) /\ F.id \in IDs(req) /\ F.next \in Nat
      /\ F.children \in Seq(EdgeSet(req)) /\ Len(F.children) \in Nat
      /\ F.next \in 1..Len(F.node.Children)
  <2>1. /\ F.node \in Tree(req) /\ F.id \in IDs(req) /\ F.next \in Nat
        /\ F.children \in Seq(EdgeSet(req))
    BY <1>2 DEF Frames
  <2>2. Len(F.node.Children) \in Nat
    BY <2>1, TreeNode DEF StepsInv
  <2>3. F.next \in 1..Len(F.node.Children)
    BY <1>1, <1>2, <2>2 DEF FrameOK
  <2> QED
    BY <2>1, <2>3, LenProperties
<1>4. c \in Tree(req) /\ Height[req][c] < Height[req][F.node] /\ Height[req][c] \in Nat
  <2>1. c \in Tree(req) /\ Height[req][c] < Height[req][F.node]
    BY <1>3, TreeNode DEF StepsInv
  <2> HIDE DEF c
  <2> QED
    BY <2>1, TreeNode DEF StepsInv
<1>5. /\ G \in Frames(req) /\ G.node = F.node /\ G.id = F.id /\ G.next = F.next + 1
      /\ G.children = F.children
  <2> HIDE DEF F
  <2>1. F.next + 1 \in Nat
    BY <1>3
  <2>2. F = [node |-> F.node, id |-> F.id, next |-> F.next, children |-> F.children]
    BY <1>2 DEF Frames
  <2>3. G = [node |-> F.node, id |-> F.id, next |-> F.next + 1, children |-> F.children]
    BY <2>2
  <2> HIDE DEF G
  <2> QED
    BY <1>3, <2>1, <2>3 DEF Frames
<1>6. c = F.node.Children[F.next]
  OBVIOUS
<1> HIDE DEF c, G
<1>7. /\ StepsInv'
      /\ steps' = steps \cup {id}
      /\ \A s \in steps : nodeOf'[s] = nodeOf[s]
      /\ nodeOf'[id] = c
      /\ stack' = Append(Append(SubSeq(stack, 1, L - 1), G), H)
  BY <1>1, <1>4, EnteredStep
<1>8. id \in IDs(req)
  BY <1>4, OneStepPerName
<1>9. H \in Frames(req) /\ H.id = id /\ H.node = c /\ H.next = 1 /\ H.children = << >>
  <2>1. << >> \in Seq(EdgeSet(req))
    BY EmptySeq
  <2> HIDE DEF id
  <2> QED
    BY <1>4, <1>8, <2>1 DEF NewFrame, Frames
<1> HIDE DEF H
<1>10. /\ stack' \in Seq(Frames(req)) /\ Len(stack') = L + 1
       /\ stack'[L] = G /\ stack'[L + 1] = H
       /\ \A i \in 1..(L - 1) : stack'[i] = stack[i]
  BY <1>1, <1>2, <1>5, <1>7, <1>9, Pushed
<1>11. EdgesInv'
  <2>1. ASSUME NEW s, NEW i \in 1..Len(stack), stack[i].id = s
        PROVE  UnderWay(stack', s)
    <3>1. i \in 1..Len(stack') /\ (i = L \/ i \in 1..(L - 1))
      BY <1>2, <1>10
    <3>2. stack'[i].id = s
      BY <1>5, <1>10, <2>1, <3>1
    <3> QED
      BY <3>1, <3>2 DEF UnderWay
  <2>2. UnderWay(stack', id)
    <3>1. L + 1 \in 1..Len(stack')
      BY <1>2, <1>10
    <3> QED
      BY <1>9, <1>10, <3>1 DEF UnderWay
  <2>3. ASSUME NEW s, NEW i \in 1..Len(stack'), stack'[i].id = s
        PROVE  UnderWay(stack, s) \/ s = id
    <3>1. i = L + 1 \/ i = L \/ i \in 1..(L - 1)
      BY <1>2, <1>10
    <3>2. CASE i = L + 1
      BY <1>9, <1>10, <2>3, <3>2
    <3>3. CASE i = L \/ i \in 1..(L - 1)
      <4>1. stack[i].id = s /\ i \in 1..L
        BY <1>2, <1>5, <1>10, <2>3, <3>3
      <4> QED
        BY <4>1 DEF UnderWay
    <3> QED
      BY <3>1, <3>2, <3>3
  <2>4. \A s : UnderWay(stack', s) <=> UnderWay(stack, s) \/ s = id
    BY <2>1, <2>2, <2>3 DEF UnderWay
  <2> QED
    BY <1>1, <1>4, <2>4, EnteredEdges
<1>12. Grown
  BY <1>7 DEF Grown
<1>13. \A f, u : FrameOK(steps, nodeOf, f, u) => FrameOK(steps', nodeOf', f, u)
  BY <1>12, StillLeads DEF Grown
<1>14. FrameOK(steps, nodeOf, G, 1)
  <2>1. F.next + 1 \in 1..(Len(F.node.Children) + 1)
    <3>1. Len(F.node.Children) \in Nat
      BY <1>3, TreeNode DEF StepsInv
    <3> QED
      BY <1>3, <3>1
  <2>2. Len(F.children) = (F.next + 1) - 1 - 1
    BY <1>2, <1>3 DEF FrameOK
  <2> QED
    BY <1>2, <1>5, <2>1, <2>2 DEF FrameOK
<1>15. FrameOK(steps', nodeOf', H, 0)
  <2>1. Len(c.Children) \in Nat /\ Len(H.children) = 0
    BY <1>4, <1>9, TreeNode, EmptySeq DEF StepsInv
  <2> QED
    BY <1>7, <1>9, <2>1 DEF FrameOK
<1>16. \A i \in 1..Len(stack') :
           FrameOK(steps', nodeOf', stack'[i], IF i = Len(stack') THEN 0 ELSE 1)
  <2>1. TAKE i \in 1..Len(stack')
  <2>2. i = L + 1 \/ i = L \/ i \in 1..(L - 1)
    BY <1>2, <1>10
  <2>3. L # L + 1 /\ L + 1 \notin 1..(L - 1)
    BY <1>2
  <2>4. CASE i = L + 1
    BY <1>10, <1>15, <2>4
  <2>5. CASE i = L
    BY <1>10, <1>13, <1>14, <2>3, <2>5
  <2>6. CASE i \in 1..(L - 1)
    BY <1>2, <1>10, <1>13, <2>3, <2>6
  <2> QED
    BY <2>2, <2>4, <2>5, <2>6
<1>17. \A i \in 1..(Len(stack') - 1) :
           stack'[i + 1].node = stack'[i].node.Children[stack'[i].next - 1]
  <2>1. TAKE i \in 1..(Len(stack') - 1)
  <2>2. i = L \/ i = L - 1 \/ i \in 1..(L - 2)
    BY <1>2, <1>10
  <2>3. CASE i = L
    <3>1. stack'[i].next - 1 = F.next
      <4>1. stack'[i].next = F.next + 1
        BY <1>5, <1>10, <2>3
      <4> HIDE DEF F
      <4> QED
        BY <1>3, <4>1
    <3> QED
      BY <1>5, <1>6, <1>9, <1>10, <2>3, <3>1
  <2>4. CASE i = L - 1
    <3>1. i \in 1..(L - 1) /\ i + 1 = L
      BY <1>2, <1>10, <2>4
    <3> QED
      BY <1>2, <1>5, <1>10, <3>1
  <2>5. CASE i \in 1..(L - 2)
    <3>1. i \in 1..(L - 1) /\ i + 1 \in 1..(L - 1)
      BY <1>2, <2>5
    <3> QED
      BY <1>2, <1>10, <3>1
  <2> QED
    BY <2>2, <2>3, <2>4, <2>5
<1>18. \A i, j \in 1..Len(stack') :
           i < j => Height[req][stack'[j].node] < Height[req][stack'[i].node]
  <2>1. \A i \in 1..L : stack'[i].node = stack[i].node /\ Height[req][stack[i].node] \in Nat
    <3>1. TAKE i \in 1..L
    <3>2. i = L \/ i \in 1..(L - 1)
      BY <1>2
    <3>3. stack[i].node \in Tree(req)
      BY <1>2, <3>2 DEF Frames
    <3>4. Height[req][stack[i].node] \in Nat
      BY <3>3, TreeNode DEF StepsInv
    <3> QED
      BY <1>5, <1>10, <3>2, <3>4
  <2>2. TAKE i, j \in 1..Len(stack')
  <2>3. HAVE i < j
  <2>4. i \in 1..L /\ (j = L + 1 \/ j \in 1..L) /\ L \in 1..L
    BY <1>2, <1>10, <2>3
  <2>5. CASE j \in 1..L
    BY <1>2, <2>1, <2>3, <2>4, <2>5
  <2>6. CASE j = L + 1
    <3>1. Height[req][c] < Height[req][F.node] /\ stack'[j].node = c
      BY <1>4, <1>9, <1>10, <2>6
    <3>2. i = L \/ Height[req][F.node] < Height[req][stack[i].node]
      <4>1. i = L \/ i < L
        BY <1>2, <2>4
      <4> QED
        BY <1>2, <2>4, <4>1
    <3>3. CASE i = L
      BY <2>1, <2>4, <3>1, <3>3
    <3>4. CASE Height[req][F.node] < Height[req][stack[i].node]
      <4>1. /\ Height[req][F.node] \in Nat /\ Height[req][stack[i].node] \in Nat
            /\ stack'[i].node = stack[i].node
        BY <2>1, <2>4
      <4>2. Height[req][c] \in Nat
        BY <1>4 DEF StepsInv
      <4> QED
        BY <3>1, <3>4, <4>1, <4>2
    <3> QED
      BY <3>2, <3>3, <3>4
  <2> QED
    BY <2>4, <2>5, <2>6
<1>19. StackInv'
  BY <1>1, <1>10, <1>16, <1>17, <1>18 DEF StackInv
<1>20. stack' # << >>
  BY <1>2, <1>10, EmptySeq
<1> QED
  BY <1>7, <1>11, <1>12, <1>19, <1>20

\* What holds of the call of buildNode that is about to return.
LEMMA LastFrame ==
  ASSUME StepsInv, StackInv, LeaveNode
  PROVE  LET L == Len(stack)
             F == stack[L]
         IN  /\ stack # << >> /\ stack \in Seq(Frames(req)) /\ L \in Nat \ {0}
             /\ \A i \in 1..L : stack[i] \in Frames(req)
             /\ F.node \in Tree(req) /\ F.id \in steps /\ F.id \in IDs(req) /\ F.id # NoID
             /\ F.children \in Seq(EdgeSet(req))
             /\ nodeOf[F.id] = F.node
             /\ Len(F.children) = Len(F.node.Children) /\ Len(F.children) \in Nat
             /\ \A j \in 1..Len(F.children) :
                   LeadsTo(steps, nodeOf, F.children[j], F.node.Children[j])
             /\ \A i \in 1..(L - 1) : /\ FrameOK(steps, nodeOf, stack[i], 1)
                                      /\ stack[i].id # F.id
<1> DEFINE L == Len(stack)
           F == stack[L]
<1>1. stack # << >> /\ F.next > Len(F.node.Children)
  BY DEF LeaveNode, Frame
<1>2. stack \in Seq(Frames(req)) /\ L \in Nat \ {0}
  BY <1>1, EmptySeq DEF StackInv
<1>3. L \in 1..L /\ \A i \in 1..(L - 1) : i \in 1..L /\ i < L /\ i # L
  BY <1>2
<1>4. \A i \in 1..L : stack[i] \in Frames(req)
  BY <1>2, ElementOfSeq
<1>5. F \in Frames(req) /\ FrameOK(steps, nodeOf, F, 0)
  BY <1>3, <1>4 DEF StackInv
<1>6. /\ F.node \in Tree(req) /\ F.id \in IDs(req) /\ F.children \in Seq(EdgeSet(req))
      /\ F.next \in Nat /\ F.id \in steps /\ F.id # NoID /\ nodeOf[F.id] = F.node
      /\ \A j \in 1..Len(F.children) :
            LeadsTo(steps, nodeOf, F.children[j], F.node.Children[j])
  BY <1>5 DEF Frames, FrameOK, StepsInv
<1>7. Len(F.children) = Len(F.node.Children) /\ Len(F.children) \in Nat
  <2>1. Len(F.node.Children) \in Nat
    BY <1>6, TreeNode DEF StepsInv
  <2>2. F.next \in 1..(Len(F.node.Children) + 1) /\ Len(F.children) = F.next - 1 - 0
    BY <1>5 DEF FrameOK
  <2> HIDE DEF F
  <2> QED
    BY <1>1, <2>1, <2>2
<1>8. ASSUME NEW i \in 1..(L - 1)
      PROVE  FrameOK(steps, nodeOf, stack[i], 1) /\ stack[i].id # F.id
  <2>1. FrameOK(steps, nodeOf, stack[i], 1)
    BY <1>3 DEF StackInv
  <2>2. Height[req][F.node] < Height[req][stack[i].node]
    BY <1>3 DEF StackInv
  <2>3. Height[req][F.node] \in Nat
    BY <1>6, TreeNode DEF StepsInv
  <2>4. stack[i].node # F.node
    BY <2>2, <2>3
  <2>5. nodeOf[stack[i].id] = stack[i].node
    BY <2>1 DEF FrameOK
  <2> QED
    BY <1>6, <2>1, <2>4, <2>5
<1> QED
  BY <1>1, <1>2, <1>4, <1>6, <1>7, <1>8

\* buildNode returns: its step gets the edges to the children, and its caller one to it.
LEMMA NodeLeft ==
  ASSUME StepsInv, EdgesInv, StackInv, LeaveNode
  PROVE  StepsInv' /\ EdgesInv' /\ StackInv'
<1> DEFINE L == Len(stack)
           F == stack[L]
           b == SubSeq(stack, 1, L - 1)
           P == stack[L - 1]
           G == [P EXCEPT !.children = Append(P.children, NextEdge(F.id))]
<1>1. /\ stack # << >> /\ stack \in Seq(Frames(req)) /\ L \in Nat \ {0}
      /\ \A i \in 1..L : stack[i] \in Frames(req)
      /\ F.node \in Tree(req) /\ F.id \in steps /\ F.id \in IDs(req) /\ F.id # NoID
      /\ F.children \in Seq(EdgeSet(req))
      /\ nodeOf[F.id] = F.node
      /\ Len(F.children) = Len(F.node.Children) /\ Len(F.children) \in Nat
      /\ \A j \in 1..Len(F.children) :
            LeadsTo(steps, nodeOf, F.children[j], F.node.Children[j])
      /\ \A i \in 1..(L - 1) : FrameOK(steps, nodeOf, stack[i], 1) /\ stack[i].id # F.id
  BY LastFrame
<1>2. /\ edges' = [edges EXCEPT ![F.id] = @ \o F.children]
      /\ stack' = ReturnTo(b, F.id)
      /\ UNCHANGED << req, counter, steps, nodeOf >>
  BY DEF LeaveNode, Frame, Below
<1>3. /\ b \in Seq(Frames(req)) /\ Len(b) = L - 1 /\ DOMAIN b = 1..(L - 1)
      /\ \A i \in 1..(L - 1) : b[i] = stack[i]
  BY <1>1, Popped
<1>4. NextEdge(F.id) \in EdgeSet(req) /\ LeadsTo(steps, nodeOf, NextEdge(F.id), F.node)
  <2> DEFINE id == F.id
  <2>1. id \in IDs(req) /\ id \in steps /\ nodeOf[id] = F.node
    BY <1>1
  <2> HIDE DEF id
  <2>2. NextEdge(id) \in EdgeSet(req) /\ LeadsTo(steps, nodeOf, NextEdge(id), F.node)
    BY <2>1 DEF NextEdge, EdgeSet, LeadsTo
  <2> QED
    BY <2>2 DEF id
<1>5. ASSUME L > 1
      PROVE  /\ P \in Frames(req) /\ FrameOK(steps, nodeOf, P, 1)
             /\ P.next \in Nat /\ P.children \in Seq(EdgeSet(req)) /\ Len(P.children) \in Nat
             /\ F.node = P.node.Children[P.next - 1]
             /\ G.node = P.node /\ G.id = P.id /\ G.next = P.next
             /\ G.children = Append(P.children, NextEdge(F.id))
             /\ G \in Frames(req) /\ FrameOK(steps, nodeOf, G, 0)
  <2>1. L - 1 \in 1..(L - 1) /\ L - 1 \in 1..L /\ (L - 1) + 1 = L
    BY <1>1, <1>5
  <2>2. P \in Frames(req) /\ FrameOK(steps, nodeOf, P, 1) /\ F.node = P.node.Children[P.next - 1]
    BY <1>1, <2>1 DEF StackInv
  <2>3. /\ P.node \in Tree(req) /\ P.id \in IDs(req) /\ P.next \in Nat
        /\ P.children \in Seq(EdgeSet(req))
    BY <2>2 DEF Frames
  <2>4. P = [node |-> P.node, id |-> P.id, next |-> P.next, children |-> P.children]
    BY <2>2 DEF Frames
  <2> DEFINE e == NextEdge(F.id)
             m == F.node
  <2>5. /\ e \in EdgeSet(req) /\ LeadsTo(steps, nodeOf, e, m) /\ m = P.node.Children[P.next - 1]
    BY <1>4, <2>2
  <2> HIDE DEF e, m, P, F, L
  <2>6. /\ Append(P.children, e) \in Seq(EdgeSet(req)) /\ Len(P.children) \in Nat
        /\ Len(Append(P.children, e)) = Len(P.children) + 1
        /\ Append(P.children, e)[Len(P.children) + 1] = e
        /\ \A j \in 1..Len(P.children) : Append(P.children, e)[j] = P.children[j]
    BY <2>3, <2>5, AppendProperties, LenProperties
  <2>7. /\ Len(P.children) = P.next - 1 - 1 /\ P.next \in 1..(Len(P.node.Children) + 1)
        /\ P.id \in steps /\ nodeOf[P.id] = P.node
        /\ \A j \in 1..Len(P.children) :
              LeadsTo(steps, nodeOf, P.children[j], P.node.Children[j])
    BY <2>2 DEF FrameOK
  <2>8. G = [node |-> P.node, id |-> P.id, next |-> P.next, children |-> Append(P.children, e)]
    <3>1. G = [P EXCEPT !.children = Append(P.children, e)]
      BY DEF e
    <3> DEFINE A == Append(P.children, e)
    <3> HIDE DEF A, G
    <3>2. G = [P EXCEPT !.children = A]
      BY <3>1 DEF A
    <3>3. G = [node |-> P.node, id |-> P.id, next |-> P.next, children |-> A]
      BY <2>4, <3>2
    <3> QED
      BY <3>3 DEF A
  <2> HIDE DEF G
  <2>9. /\ G.node = P.node /\ G.id = P.id /\ G.next = P.next
        /\ G.children = Append(P.children, e)
    BY <2>8
  <2>10. G \in Frames(req)
    BY <2>3, <2>6, <2>8 DEF Frames
  <2>11. Len(G.children) = P.next - 1 - 0
    BY <2>3, <2>6, <2>7, <2>9
  <2>12. ASSUME NEW j \in 1..Len(G.children)
         PROVE  LeadsTo(steps, nodeOf, G.children[j], G.node.Children[j])
    <3>1. j = Len(P.children) + 1 \/ j \in 1..Len(P.children)
      BY <2>6, <2>9
    <3>2. CASE j = Len(P.children) + 1
      <4>1. j = P.next - 1
        BY <2>3, <2>6, <2>7, <3>2
      <4> QED
        BY <2>5, <2>6, <2>9, <3>2, <4>1
    <3>3. CASE j \in 1..Len(P.children)
      BY <2>6, <2>7, <2>9, <3>3
    <3> QED
      BY <3>1, <3>2, <3>3
  <2>13. FrameOK(steps, nodeOf, G, 0)
    BY <2>7, <2>9, <2>11, <2>12 DEF FrameOK
  <2> QED
    BY <2>2, <2>3, <2>6, <2>9, <2>10, <2>13 DEF e, m
<1>6. /\ stack' \in Seq(Frames(req)) /\ Len(stack') = L - 1
      /\ \A i \in 1..(L - 2) : stack'[i] = stack[i]
      /\ L > 1 => stack'[L - 1] = G
  <2>1. CASE L = 1
    <3>1. b = << >>
      BY <1>3, <2>1, EmptySeq
    <3>2. stack' = << >>
      BY <1>2, <3>1 DEF ReturnTo
    <3> QED
      BY <2>1, <3>2, EmptySeq
  <2>2. CASE L > 1
    <3>1. b # << >> /\ L - 1 \in 1..(L - 1) /\ b[L - 1] = P
      <4>1. L - 1 \in 1..(L - 1)
        BY <1>1, <2>2
      <4> HIDE DEF b
      <4>2. b[L - 1] = P
        BY <1>3, <4>1
      <4>3. Len(b) # 0
        BY <1>1, <1>3, <2>2
      <4> QED
        BY <1>3, <4>1, <4>2, <4>3, EmptySeq
    <3>2. stack' = [b EXCEPT ![L - 1] = [b[L - 1] EXCEPT !.children = Append(@, NextEdge(F.id))]]
      BY <1>2, <1>3, <3>1 DEF ReturnTo
    <3>3. stack' = [b EXCEPT ![L - 1] = G]
      BY <3>1, <3>2
    <3>4. G \in Frames(req)
      BY <1>5, <2>2
    <3> HIDE DEF b, G
    <3>5. stack' \in Seq(Frames(req)) /\ Len(stack') = L - 1
      BY <1>3, <3>1, <3>3, <3>4, ExceptSeq
    <3>6. stack'[L - 1] = G /\ \A i \in 1..(L - 2) : stack'[i] = stack[i]
      <4>1. \A i \in 1..(L - 2) : i \in 1..(L - 1) /\ i # L - 1
        BY <1>1
      <4> QED
        BY <1>3, <3>1, <3>3, <4>1
    <3> QED
      BY <3>5, <3>6
  <2>3. L = 1 \/ L > 1
    <3>1. \A m \in Nat \ {0} : m = 1 \/ m > 1
      OBVIOUS
    <3> QED
      BY <1>1, <3>1
  <2> QED
    BY <2>1, <2>2, <2>3
<1> HIDE DEF b, G, P, F
<1>7. StepsInv'
  <2>1. edges' \in [steps -> Seq(EdgeSet(req))]
    <3>1. edges[F.id] \o F.children \in Seq(EdgeSet(req))
      <4>1. edges[F.id] \in Seq(EdgeSet(req))
        BY <1>1 DEF StepsInv
      <4> QED
        BY <1>1, <4>1, ConcatProperties
    <3> QED
      BY <1>1, <1>2, <3>1 DEF StepsInv
  <2> QED
    BY <1>2, <2>1 DEF StepsInv
<1>8. EdgesInv'
  <2>1. UnderWay(stack, F.id)
    <3>1. L \in 1..L
      BY <1>1
    <3> QED
      BY <3>1 DEF UnderWay, F
  <2>2. ASSUME NEW s
        PROVE  UnderWay(stack', s) <=> UnderWay(stack, s) /\ s # F.id
    <3>1. \A i \in 1..Len(stack') : i \in 1..(L - 1) /\ stack'[i].id = stack[i].id
      <4>1. TAKE i \in 1..Len(stack')
      <4>2. i \in 1..(L - 1) /\ (i \in 1..(L - 2) \/ (i = L - 1 /\ L > 1))
        BY <1>1, <1>6
      <4> QED
        BY <1>5, <1>6, <4>2 DEF P
    <3>2. \A i \in 1..L : i \in 1..Len(stack') \/ i = L
      BY <1>1, <1>6
    <3>3. \A i \in 1..(L - 1) : i \in 1..L /\ stack[i].id # F.id
      BY <1>1
    <3>4. stack[L].id = F.id
      BY DEF F
    <3> QED
      BY <3>1, <3>2, <3>3, <3>4 DEF UnderWay
  <2>3. ASSUME NEW s \in steps'
        PROVE  /\ UnderWay(stack', s) => edges'[s] = CallsOf(nodeOf'[s])
               /\ ~UnderWay(stack', s) => Mirrors(steps', nodeOf', edges'[s], nodeOf'[s])
    <3>1. CASE s # F.id
      <4>1. edges'[s] = edges[s]
        BY <1>2, <3>1 DEF StepsInv
      <4> QED
        BY <1>2, <2>2, <3>1, <4>1 DEF EdgesInv
    <3>2. CASE s = F.id
      <4>1. ~UnderWay(stack', s)
        BY <2>2, <3>2
      <4>2. edges'[s] = CallsOf(F.node) \o F.children
        <5>1. edges[F.id] = CallsOf(F.node)
          BY <1>1, <2>1 DEF EdgesInv
        <5> QED
          BY <1>1, <1>2, <3>2, <5>1 DEF StepsInv
      <4>3. Mirrors(steps, nodeOf, CallsOf(F.node) \o F.children, F.node)
        <5> DEFINE n == F.node
                   K == Len(n.Calls)
        <5>1. K \in Nat /\ DOMAIN n.Calls = 1..K /\ CallEdge \in EdgeSet(req)
          <6>1. CallEdge \in EdgeSet(req)
            BY DEF CallEdge, EdgeSet, IDs
          <6> QED
            BY <1>1, <6>1, TreeNode DEF StepsInv
        <5>2. /\ CallsOf(n) = [i \in 1..K |-> CallEdge]
              /\ CallsOf(n) \in Seq(EdgeSet(req)) /\ Len(CallsOf(n)) = K
              /\ \A i \in 1..K : CallsOf(n)[i] = CallEdge
          <6>1. CallsOf(n) = [i \in 1..K |-> CallEdge]
            BY <5>1 DEF CallsOf
          <6> HIDE DEF K
          <6> QED
            BY <5>1, <6>1
        <5> DEFINE ch == F.children
                   out == CallsOf(n) \o ch
        <5>3. ch \in Seq(EdgeSet(req)) /\ Len(ch) \in Nat /\ Len(ch) = Len(n.Children)
          BY <1>1
        <5>4. \A j \in 1..Len(ch) : LeadsTo(steps, nodeOf, ch[j], n.Children[j])
          BY <1>1
        <5> HIDE DEF n, ch, K
        <5>5. /\ Len(out) = K + Len(ch)
              /\ \A i \in 1..(K + Len(ch)) : out[i] = IF i <= K THEN CallsOf(n)[i] ELSE ch[i - K]
          <6>1. /\ Len(out) = Len(CallsOf(n)) + Len(ch)
                /\ \A i \in 1..(Len(CallsOf(n)) + Len(ch)) :
                       out[i] = IF i <= Len(CallsOf(n)) THEN CallsOf(n)[i]
                                ELSE ch[i - Len(CallsOf(n))]
            <7> DEFINE calls == CallsOf(n)
            <7>1. calls \in Seq(EdgeSet(req))
              BY <5>2
            <7> HIDE DEF calls
            <7>2. /\ Len(calls \o ch) = Len(calls) + Len(ch)
                  /\ \A i \in 1..(Len(calls) + Len(ch)) :
                         (calls \o ch)[i] = IF i <= Len(calls) THEN calls[i]
                                            ELSE ch[i - Len(calls)]
              BY <5>3, <7>1, ConcatProperties
            <7> QED
              BY <7>2 DEF calls
          <6> QED
            BY <5>2, <6>1
        <5> HIDE DEF out
        <5>6. \A i \in 1..K : out[i] = CallEdge
          <6>1. \A i \in 1..K : i \in 1..(K + Len(ch)) /\ i <= K
            BY <5>1, <5>3
          <6> QED
            BY <5>2, <5>5, <6>1
        <5>7. \A i \in 1..Len(n.Children) : LeadsTo(steps, nodeOf, out[K + i], n.Children[i])
          <6>1. TAKE i \in 1..Len(n.Children)
          <6>2. K + i \in 1..(K + Len(ch)) /\ ~(K + i <= K) /\ (K + i) - K = i
            BY <5>1, <5>3
          <6>3. out[K + i] = ch[i]
            BY <5>5, <6>2
          <6> QED
            BY <5>3, <5>4, <6>3
        <5>8. Mirrors(steps, nodeOf, out, n)
          BY <5>3, <5>5, <5>6, <5>7 DEF Mirrors, K
        <5> QED
          BY <5>8 DEF out, ch, n
      <4> QED
        BY <1>1, <1>2, <3>2, <4>1, <4>2, <4>3
    <3> QED
      BY <3>1, <3>2
  <2> QED
    BY <2>3 DEF EdgesInv
<1>9. StackInv'
  <2>1. \A i \in 1..Len(stack') :
            FrameOK(steps, nodeOf, stack'[i], IF i = Len(stack') THEN 0 ELSE 1)
    <3>1. TAKE i \in 1..Len(stack')
    <3>2. i \in 1..(L - 1) /\ (i \in 1..(L - 2) \/ (i = L - 1 /\ L > 1)) /\ L - 1 \notin 1..(L - 2)
      BY <1>1, <1>6
    <3>3. CASE i = L - 1 /\ L > 1
      BY <1>5, <1>6, <3>3
    <3>4. CASE i \in 1..(L - 2)
      BY <1>1, <1>6, <3>2, <3>4
    <3> QED
      BY <3>2, <3>3, <3>4
  <2>2. \A i \in 1..(L - 1) : stack'[i].node = stack[i].node /\ stack'[i].next = stack[i].next
    <3>1. TAKE i \in 1..(L - 1)
    <3>2. i \in 1..(L - 2) \/ (i = L - 1 /\ L > 1)
      BY <1>1
    <3> QED
      BY <1>5, <1>6, <3>2 DEF P
  <2>3. \A i \in 1..(Len(stack') - 1) :
            stack'[i + 1].node = stack'[i].node.Children[stack'[i].next - 1]
    <3>1. TAKE i \in 1..(Len(stack') - 1)
    <3>2. i \in 1..(L - 1) /\ i + 1 \in 1..(L - 1)
      BY <1>1, <1>6
    <3> QED
      BY <2>2, <3>2 DEF StackInv
  <2>4. \A i, j \in 1..Len(stack') :
            i < j => Height[req][stack'[j].node] < Height[req][stack'[i].node]
    <3>1. TAKE i, j \in 1..Len(stack')
    <3>2. i \in 1..(L - 1) /\ j \in 1..(L - 1) /\ i \in 1..L /\ j \in 1..L
      BY <1>1, <1>6
    <3> QED
      BY <2>2, <3>2 DEF StackInv
  <2> QED
    BY <1>2, <1>6, <2>1, <2>3, <2>4 DEF StackInv
<1> QED
  BY <1>7, <1>8, <1>9

--------------------------------------------------------------------------------
(* The handler.                                                            *)

LEMMA InitHolds == Init => WalkthroughInv
<1> SUFFICES ASSUME Init
             PROVE  WalkthroughInv
  OBVIOUS
<1>1. CallInv
  BY DEF Init, CallInit, CallInv, CallTypeOK, Codes, BeforeBuild, InBuild, AfterBuild, Sent
<1>2. StepsInv
  <2>1. DOMAIN nodeOf = {} /\ DOMAIN edges = {} /\ steps = {} /\ counter = 0
    BY DEF Init
  <2>2. nodeOf \in [steps -> Tree(req)] /\ edges \in [steps -> Seq(EdgeSet(req))]
    BY DEF Init
  <2> QED
    BY <2>1, <2>2 DEF Init, StepsInv
<1>3. EdgesInv
  BY DEF Init, EdgesInv
<1>4. StackInv
  <2>1. stack = << >> /\ Len(stack) = 0 /\ stack \in Seq(Frames(req))
    BY EmptySeq DEF Init
  <2> QED
    BY <2>1 DEF StackInv
<1>5. LoopInv
  <2>1. Len(nodes) \in Nat
    BY TopNodes DEF Init, nodes
  <2> QED
    BY <2>1 DEF Init, CallInit, LoopInv, InBuild, AfterBuild
<1> QED
  BY <1>1, <1>2, <1>3, <1>4, <1>5 DEF WalkthroughInv

\* A progress event is sent, or the handler gives up because the client has.
LEMMA ProgressKeeps ==
  ASSUME CallInv, pc # "returned", NEW percent, NEW next, SendProgress(percent, next),
         next \in (BeforeBuild \cup InBuild \cup AfterBuild) \ {"start", "ready"},
         Append(Sent(pc), percent) = Sent(next), registered = FALSE
  PROVE  CallInv'
<1>1. CASE ctxDone /\ Fail("Canceled")
  BY <1>1 DEF Fail, Return, CallInv, CallTypeOK, Codes
<1>2. CASE /\ ~ctxDone /\ percents' = Append(percents, percent) /\ pc' = next
           /\ UNCHANGED << ctxDone, status, registered >>
  <2>1. percents' = Sent(next) /\ next # "returned"
    BY <1>2 DEF CallInv, BeforeBuild, InBuild, AfterBuild
  <2> QED
    BY <1>2, <2>1 DEF CallInv, CallTypeOK
<1> QED
  BY <1>1, <1>2 DEF SendProgress

\* The handler gives up.
LEMMA FailKeeps ==
  ASSUME CallInv, pc # "returned", registered = FALSE, NEW code \in Codes \ {"none"}, Fail(code)
  PROVE  CallInv'
BY DEF Fail, Return, CallInv, CallTypeOK

\* The handler goes on to a place that has sent the same.
LEMMA MoveKeeps ==
  ASSUME CallInv, pc # "returned", registered = FALSE,
         NEW next \in BeforeBuild \cup InBuild \cup AfterBuild,
         Continue(next), Sent(next) = Sent(pc)
  PROVE  CallInv'
<1>1. next # "returned"
  BY DEF BeforeBuild, InBuild, AfterBuild
<1> QED
  BY <1>1 DEF Continue, CallInv, CallTypeOK

\* One event more.
LEMMA EventsSoFar ==
  /\ Append(<< >>, 5) = << 5 >>
  /\ Append(<< 5 >>, 20) = << 5, 20 >>
  /\ Append(<< 5, 20 >>, 40) = << 5, 20, 40 >>
  /\ Append(<< 5, 20, 40 >>, 65) = << 5, 20, 40, 65 >>
  /\ Append(<< 5, 20, 40, 65 >>, 85) = << 5, 20, 40, 65, 85 >>
<1>1. Append(<< >>, 5) = << 5 >>
  OBVIOUS
<1>2. Append(<< 5 >>, 20) = << 5, 20 >>
  <2>1. << 5 >> \in Seq(Nat) /\ << 5, 20 >> \in Seq(Nat)
    OBVIOUS
  <2>2. Len(Append(<< 5 >>, 20)) = Len(<< 5, 20 >>)
    OBVIOUS
  <2>3. \A i \in 1..Len(Append(<< 5 >>, 20)) : Append(<< 5 >>, 20)[i] = << 5, 20 >>[i]
    OBVIOUS
  <2>4. Append(<< 5 >>, 20) \in Seq(Nat)
    BY <2>1
  <2> QED
    BY <2>1, <2>2, <2>3, <2>4, SeqEqual
<1>3. Append(<< 5, 20 >>, 40) = << 5, 20, 40 >>
  <2>1. << 5, 20 >> \in Seq(Nat) /\ << 5, 20, 40 >> \in Seq(Nat)
    OBVIOUS
  <2>2. Len(Append(<< 5, 20 >>, 40)) = Len(<< 5, 20, 40 >>)
    OBVIOUS
  <2>3. \A i \in 1..Len(Append(<< 5, 20 >>, 40)) : Append(<< 5, 20 >>, 40)[i] = << 5, 20, 40 >>[i]
    OBVIOUS
  <2>4. Append(<< 5, 20 >>, 40) \in Seq(Nat)
    BY <2>1
  <2> QED
    BY <2>1, <2>2, <2>3, <2>4, SeqEqual
<1>4. Append(<< 5, 20, 40 >>, 65) = << 5, 20, 40, 65 >>
  <2>1. << 5, 20, 40 >> \in Seq(Nat) /\ << 5, 20, 40, 65 >> \in Seq(Nat)
    OBVIOUS
  <2>2. Len(Append(<< 5, 20, 40 >>, 65)) = Len(<< 5, 20, 40, 65 >>)
    OBVIOUS
  <2>3. \A i \in 1..Len(Append(<< 5, 20, 40 >>, 65)) : Append(<< 5, 20, 40 >>, 65)[i] = << 5, 20, 40, 65 >>[i]
    OBVIOUS
  <2>4. Append(<< 5, 20, 40 >>, 65) \in Seq(Nat)
    BY <2>1
  <2> QED
    BY <2>1, <2>2, <2>3, <2>4, SeqEqual
<1>5. Append(<< 5, 20, 40, 65 >>, 85) = << 5, 20, 40, 65, 85 >>
  <2>1. << 5, 20, 40, 65 >> \in Seq(Nat) /\ << 5, 20, 40, 65, 85 >> \in Seq(Nat)
    OBVIOUS
  <2>2. Len(Append(<< 5, 20, 40, 65 >>, 85)) = Len(<< 5, 20, 40, 65, 85 >>)
    OBVIOUS
  <2>3. \A i \in 1..Len(Append(<< 5, 20, 40, 65 >>, 85)) : Append(<< 5, 20, 40, 65 >>, 85)[i] = << 5, 20, 40, 65, 85 >>[i]
    OBVIOUS
  <2>4. Append(<< 5, 20, 40, 65 >>, 85) \in Seq(Nat)
    BY <2>1
  <2> QED
    BY <2>1, <2>2, <2>3, <2>4, SeqEqual
<1> QED
  BY <1>1, <1>2, <1>3, <1>4, <1>5

\* The progress sent by the time a place is reached.
LEMMA ProgressMade ==
  /\ Append(Sent("start"), 5) = Sent("open")
  /\ Sent("read") = Sent("open") /\ Sent("parsing") = Sent("read")
  /\ Append(Sent("parsing"), 20) = Sent("parse")
  /\ Sent("building") = Sent("parse")
  /\ Append(Sent("building"), 40) = Sent("entry loop")
  /\ \A p, q \in InBuild : Sent(p) = Sent(q)
  /\ Append(Sent("built"), 65) = Sent("glossary")
  /\ Sent("creating") = Sent("glossary")
  /\ Append(Sent("creating"), 85) = Sent("register")
  /\ Sent("register") = << 5, 20, 40, 65, 85 >> /\ Sent("ready") = << 5, 20, 40, 65, 85 >>
<1>1. /\ Sent("start") = << >>
      /\ Sent("open") = << 5 >> /\ Sent("read") = << 5 >> /\ Sent("parsing") = << 5 >>
      /\ Sent("parse") = << 5, 20 >> /\ Sent("building") = << 5, 20 >>
  BY DEF Sent, InBuild
<1>2. \A p \in InBuild : Sent(p) = << 5, 20, 40 >>
  BY DEF Sent, InBuild
<1>3. /\ Sent("glossary") = << 5, 20, 40, 65 >> /\ Sent("creating") = << 5, 20, 40, 65 >>
      /\ Sent("register") = << 5, 20, 40, 65, 85 >> /\ Sent("ready") = << 5, 20, 40, 65, 85 >>
  BY DEF Sent, InBuild
<1>4. "entry loop" \in InBuild /\ "built" \in InBuild
  BY DEF InBuild
<1>5. \A p, q \in InBuild : Sent(p) = Sent(q)
  BY <1>2
<1>6. Sent("entry loop") = << 5, 20, 40 >> /\ Sent("built") = << 5, 20, 40 >>
  BY <1>2, <1>4
<1>7. /\ Append(Sent("start"), 5) = Sent("open")
      /\ Append(Sent("parsing"), 20) = Sent("parse")
      /\ Append(Sent("building"), 40) = Sent("entry loop")
      /\ Append(Sent("built"), 65) = Sent("glossary")
      /\ Append(Sent("creating"), 85) = Sent("register")
  BY <1>1, <1>3, <1>6, EventsSoFar
<1> QED
  BY <1>1, <1>3, <1>5, <1>7

LEMMA CallKeeps ==
  ASSUME CallInv, [Next]_vars
  PROVE  CallInv'
<1>1. pc \notin {"ready", "returned"} => registered = FALSE
  BY DEF CallInv, CallTypeOK
<1>2. \A code \in {"InvalidArgument", "NotFound"} : code \in Codes \ {"none"}
  BY DEF Codes
<1>3. CASE RejectEmptyPath
  <2>1. pc = "start" /\ Fail("InvalidArgument")
    BY <1>3 DEF RejectEmptyPath
  <2>2. registered = FALSE /\ pc # "returned"
    BY <1>1, <2>1
  <2> QED
    BY <1>2, <2>1, <2>2, FailKeeps
<1>4. CASE SendOpening
  <2>1. pc = "start" /\ SendProgress(5, "open")
    BY <1>4 DEF SendOpening
  <2>2. registered = FALSE /\ pc # "returned" /\ Append(Sent(pc), 5) = Sent("open")
    BY <1>1, <2>1, ProgressMade
  <2>3. "open" \in (BeforeBuild \cup InBuild \cup AfterBuild) \ {"start", "ready"}
    BY DEF BeforeBuild, InBuild, AfterBuild
  <2> QED
    BY <2>1, <2>2, <2>3, ProgressKeeps
<1>5. CASE OpenRepo
  <2>1. pc = "open" /\ (Fail("NotFound") \/ Continue("read"))
    BY <1>5 DEF OpenRepo
  <2>2. registered = FALSE /\ pc # "returned" /\ Sent("read") = Sent(pc)
    BY <1>1, <2>1, ProgressMade
  <2>3. "read" \in BeforeBuild \cup InBuild \cup AfterBuild
    BY DEF BeforeBuild, InBuild, AfterBuild
  <2>4. ASSUME Fail("NotFound")
        PROVE  CallInv'
    BY <1>2, <2>2, <2>4, FailKeeps
  <2>5. ASSUME Continue("read")
        PROVE  CallInv'
    BY <2>2, <2>3, <2>5, MoveKeeps
  <2> QED
    BY <2>1, <2>4, <2>5
<1>6. CASE ReadFile
  <2>1. pc = "read" /\ (Fail("NotFound") \/ Continue("parsing"))
    BY <1>6 DEF ReadFile
  <2>2. registered = FALSE /\ pc # "returned" /\ Sent("parsing") = Sent(pc)
    BY <1>1, <2>1, ProgressMade
  <2>3. "parsing" \in BeforeBuild \cup InBuild \cup AfterBuild
    BY DEF BeforeBuild, InBuild, AfterBuild
  <2>4. ASSUME Fail("NotFound")
        PROVE  CallInv'
    BY <1>2, <2>2, <2>4, FailKeeps
  <2>5. ASSUME Continue("parsing")
        PROVE  CallInv'
    BY <2>2, <2>3, <2>5, MoveKeeps
  <2> QED
    BY <2>1, <2>4, <2>5
<1>7. CASE SendParsing
  <2>1. pc = "parsing" /\ SendProgress(20, "parse")
    BY <1>7 DEF SendParsing
  <2>2. registered = FALSE /\ pc # "returned" /\ Append(Sent(pc), 20) = Sent("parse")
    BY <1>1, <2>1, ProgressMade
  <2>3. "parse" \in (BeforeBuild \cup InBuild \cup AfterBuild) \ {"start", "ready"}
    BY DEF BeforeBuild, InBuild, AfterBuild
  <2> QED
    BY <2>1, <2>2, <2>3, ProgressKeeps
<1>8. CASE ParseFile
  <2>1. pc = "parse" /\ (Fail("InvalidArgument") \/ Continue("building"))
    BY <1>8 DEF ParseFile
  <2>2. registered = FALSE /\ pc # "returned" /\ Sent("building") = Sent(pc)
    BY <1>1, <2>1, ProgressMade
  <2>3. "building" \in BeforeBuild \cup InBuild \cup AfterBuild
    BY DEF BeforeBuild, InBuild, AfterBuild
  <2>4. ASSUME Fail("InvalidArgument")
        PROVE  CallInv'
    BY <1>2, <2>2, <2>4, FailKeeps
  <2>5. ASSUME Continue("building")
        PROVE  CallInv'
    BY <2>2, <2>3, <2>5, MoveKeeps
  <2> QED
    BY <2>1, <2>4, <2>5
<1>9. CASE SendBuilding
  <2>1. pc = "building" /\ SendProgress(40, "entry loop")
    BY <1>9 DEF SendBuilding
  <2>2. registered = FALSE /\ pc # "returned" /\ Append(Sent(pc), 40) = Sent("entry loop")
    BY <1>1, <2>1, ProgressMade
  <2>3. "entry loop" \in (BeforeBuild \cup InBuild \cup AfterBuild) \ {"start", "ready"}
    BY DEF BeforeBuild, InBuild, AfterBuild
  <2> QED
    BY <2>1, <2>2, <2>3, ProgressKeeps
<1>10. CASE UNCHANGED callVars
  BY <1>10 DEF callVars, CallInv, CallTypeOK
<1>11. CASE BuildEntry \/ EntryLoopDone \/ BuildFallback \/ BuildNoFallback
  <2>1. PICK next \in InBuild : Continue(next)
    <3>1. Continue("others loop") \/ Continue("entry loop") \/ Continue("built")
      BY <1>11 DEF BuildEntry, EntryLoopDone, BuildFallback, BuildNoFallback
    <3> QED
      BY <3>1 DEF InBuild
  <2>2. pc \in InBuild
    BY <1>11 DEF BuildEntry, EntryLoopDone, BuildFallback, BuildNoFallback, InBuild, Driver
  <2>3. registered = FALSE /\ pc # "returned"
    BY <1>1, <2>2 DEF InBuild
  <2>4. Sent(next) = Sent(pc)
    BY <2>1, <2>2, ProgressMade
  <2> QED
    BY <2>1, <2>3, <2>4, MoveKeeps
<1>12. CASE SendGlossary
  <2>1. pc = "built" /\ SendProgress(65, "glossary")
    BY <1>12 DEF SendGlossary, Driver
  <2>2. registered = FALSE /\ pc # "returned" /\ Append(Sent(pc), 65) = Sent("glossary")
    BY <1>1, <2>1, ProgressMade
  <2>3. "glossary" \in (BeforeBuild \cup InBuild \cup AfterBuild) \ {"start", "ready"}
    BY DEF BeforeBuild, InBuild, AfterBuild
  <2> QED
    BY <2>1, <2>2, <2>3, ProgressKeeps
<1>13. CASE ExtractGlossary
  <2>1. pc = "glossary" /\ (Continue("creating"))
    BY <1>13 DEF ExtractGlossary
  <2>2. registered = FALSE /\ pc # "returned" /\ Sent("creating") = Sent(pc)
    BY <1>1, <2>1, ProgressMade
  <2>3. "creating" \in BeforeBuild \cup InBuild \cup AfterBuild
    BY DEF BeforeBuild, InBuild, AfterBuild
  <2> QED
    BY <2>1, <2>2, <2>3, MoveKeeps
<1>14. CASE SendCreating
  <2>1. pc = "creating" /\ SendProgress(85, "register")
    BY <1>14 DEF SendCreating
  <2>2. registered = FALSE /\ pc # "returned" /\ Append(Sent(pc), 85) = Sent("register")
    BY <1>1, <2>1, ProgressMade
  <2>3. "register" \in (BeforeBuild \cup InBuild \cup AfterBuild) \ {"start", "ready"}
    BY DEF BeforeBuild, InBuild, AfterBuild
  <2> QED
    BY <2>1, <2>2, <2>3, ProgressKeeps
<1>15. CASE RegisterSession
  <2>1. pc = "register" /\ Register("ready")
    BY <1>15 DEF RegisterSession
  <2>2. percents = << 5, 20, 40, 65, 85 >> /\ Sent("ready") = << 5, 20, 40, 65, 85 >>
    <3>1. percents = Sent(pc)
      BY <2>1 DEF CallInv
    <3> QED
      BY <2>1, <3>1, ProgressMade
  <2>3. status = "none"
    BY <2>1 DEF CallInv, CallTypeOK
  <2> QED
    BY <2>1, <2>2, <2>3 DEF Register, CallInv, CallTypeOK, AfterBuild
<1>16. CASE SendSessionReady
  <2>1. pc = "ready" /\ SendReady
    BY <1>16 DEF SendSessionReady
  <2>2. /\ pc' = "returned" /\ status' = (IF ctxDone THEN "Canceled" ELSE "OK")
        /\ UNCHANGED << ctxDone, percents, registered >>
    BY <2>1 DEF SendReady, Return
  <2>3. percents = << 5, 20, 40, 65, 85 >>
    <3>1. percents = Sent(pc)
      BY <2>1 DEF CallInv
    <3> QED
      BY <2>1, <3>1, ProgressMade
  <2>4. CallTypeOK'
    BY <2>2 DEF CallInv, CallTypeOK, Codes
  <2>5. status' \in {"none", "OK"} \/ ctxDone' = TRUE
    BY <2>2 DEF CallInv, CallTypeOK
  <2> QED
    BY <2>2, <2>3, <2>4, <2>5 DEF CallInv
<1>17. CASE Cancel
  BY <1>17 DEF Cancel, CancelCall, CallInv, CallTypeOK
<1>18. EnterChild \/ LeaveNode \/ SkipNotEntry \/ SkipEntry \/ BuildOther \/ Idle \/ UNCHANGED vars
         => UNCHANGED callVars
  BY DEF EnterChild, LeaveNode, SkipNotEntry, SkipEntry, BuildOther, Idle, vars
<1> QED
  BY <1>3, <1>4, <1>5, <1>6, <1>7, <1>8, <1>9, <1>10, <1>11, <1>12, <1>13, <1>14, <1>15,
     <1>16, <1>17, <1>18 DEF Next, Handler

--------------------------------------------------------------------------------
(* The graph, step by step.                                                *)

LEMMA GraphUnchanged ==
  ASSUME StepsInv, EdgesInv, StackInv,
         UNCHANGED << req, counter, stack, steps, edges, nodeOf >>
  PROVE  StepsInv' /\ EdgesInv' /\ StackInv'
<1>1. StepsInv'
  BY DEF StepsInv
<1>2. EdgesInv'
  BY DEF EdgesInv
<1>3. StackInv'
  BY DEF StackInv
<1> QED
  BY <1>1, <1>2, <1>3

\* Build's calls of buildNode are for nodes of the file.
LEMMA FunctionTaken ==
  ASSUME StepsInv, LoopInv
  PROVE  /\ Len(nodes) \in Nat /\ ni \in Nat \ {0} /\ (nodes = << >> <=> Len(nodes) = 0)
         /\ ni <= Len(nodes) => ni \in 1..Len(nodes) /\ nodes[ni] \in Tree(req) /\ nodes # << >>
         /\ nodes # << >> => nodes[1] \in Tree(req)
<1>1. req \in Requests /\ ni \in 1..(Len(nodes) + 1)
  BY DEF StepsInv, LoopInv
<1>2. /\ Len(nodes) \in Nat /\ (nodes = << >> <=> Len(nodes) = 0)
      /\ \A i \in 1..Len(nodes) : nodes[i] \in Tree(req)
  BY <1>1, TopNodes DEF nodes
<1> QED
  BY <1>1, <1>2

LEMMA GraphKeeps ==
  ASSUME StepsInv, EdgesInv, StackInv, LoopInv, [Next]_vars
  PROVE  StepsInv' /\ EdgesInv' /\ StackInv'
<1>1. CASE EnterChild
  BY <1>1, ChildEntered
<1>2. CASE LeaveNode
  BY <1>2, NodeLeft
<1>3. CASE BuildEntry \/ BuildOther
  <2>1. /\ stack = << >> /\ ni <= Len(nodes) /\ EnterNode(nodes[ni], << >>)
        /\ UNCHANGED req
    BY <1>3 DEF BuildEntry, BuildOther, Driver
  <2>2. nodes[ni] \in Tree(req)
    BY <2>1, FunctionTaken
  <2> QED
    BY <2>1, <2>2, FunctionEntered
<1>4. CASE BuildFallback
  <2>1. stack = << >> /\ nodes # << >> /\ EnterNode(nodes[1], << >>) /\ UNCHANGED req
    BY <1>4 DEF BuildFallback, Driver
  <2>2. nodes[1] \in Tree(req)
    BY <2>1, FunctionTaken
  <2> QED
    BY <2>1, <2>2, FunctionEntered
<1>5. CASE UNCHANGED << req, counter, stack, steps, edges, nodeOf >>
  BY <1>5, GraphUnchanged
<1>6. \/ EnterChild \/ LeaveNode \/ BuildEntry \/ BuildOther \/ BuildFallback
      \/ UNCHANGED << req, counter, stack, steps, edges, nodeOf >>
  <2>1. CASE SkipNotEntry \/ EntryLoopDone \/ SkipEntry
    BY <2>1 DEF SkipNotEntry, EntryLoopDone, SkipEntry
  <2>2. CASE \/ RejectEmptyPath \/ SendOpening \/ OpenRepo \/ ReadFile \/ SendParsing
             \/ ParseFile \/ SendBuilding
    BY <2>2 DEF RejectEmptyPath, SendOpening, OpenRepo, ReadFile, SendParsing, ParseFile,
                SendBuilding, buildVars
  <2>3. CASE \/ BuildNoFallback \/ SendGlossary \/ ExtractGlossary \/ SendCreating
             \/ RegisterSession \/ SendSessionReady \/ Cancel
    BY <2>3 DEF BuildNoFallback, SendGlossary, ExtractGlossary, SendCreating, RegisterSession,
                SendSessionReady, Cancel, buildVars
  <2>4. CASE Idle \/ UNCHANGED vars
    BY <2>4 DEF Idle, vars, buildVars
  <2> QED
    BY <2>1, <2>2, <2>3, <2>4 DEF Next, Handler
<1> QED
  BY <1>1, <1>2, <1>3, <1>4, <1>5, <1>6

--------------------------------------------------------------------------------
(* Build's loops.                                                          *)

\* A node that is settled stays so: its step stays, and so does the entry's.
LEMMA StaysSettled ==
  ASSUME Grown, entryStep \in steps \cup {NoID}, UNCHANGED << req, entryStep >>,
         NEW last, AllSettled(last)
  PROVE  \A i \in 1..last : Settled(steps', nodeOf', entryStep', nodes'[i])
<1>1. nodes' = nodes
  BY DEF nodes
<1>2. ASSUME NEW i \in 1..last
      PROVE  Settled(steps', nodeOf', entryStep', nodes[i])
  <2>1. Settled(steps, nodeOf, entryStep, nodes[i])
    BY DEF AllSettled
  <2>2. CASE entryStep # NoID /\ nodes[i].Label = nodeOf[entryStep].Label
    BY <2>2 DEF Settled, Grown
  <2>3. CASE \E s \in steps : nodeOf[s] = nodes[i]
    BY <2>3 DEF Settled, Grown
  <2> QED
    BY <2>1, <2>2, <2>3 DEF Settled
<1> QED
  BY <1>1, <1>2

\* What has to be seen to for a step that leaves the graph alone.
LEMMA LoopUnchanged ==
  ASSUME LoopInv, UNCHANGED << req, buildVars >>,
         stack # << >> => pc' \in InBuild,
         pc' = "others loop" => pc = "others loop",
         pc' \in AfterBuild \cup {"built"} \/ registered' = TRUE
           => pc \in AfterBuild \cup {"built"} \/ registered = TRUE,
         terms' \in {<< >>, << entryStep >>},
         pc' \in BeforeBuild \cup InBuild => terms' = << >>
  PROVE  LoopInv'
<1>1. nodes' = nodes
  BY DEF nodes
<1>2. \A last : AllSettled(last) =>
                  \A i \in 1..last : Settled(steps', nodeOf', entryStep', nodes'[i])
  BY <1>1 DEF AllSettled, buildVars
<1>3. UNCHANGED << ni, stack, entryStep, steps >>
  BY DEF buildVars
<1>4. pc' = "others loop" => AllSettled(ni - 1)'
  BY <1>2, <1>3 DEF LoopInv, AllSettled
<1>5. pc' \in AfterBuild \cup {"built"} \/ registered' = TRUE =>
        (entryStep' = NoID => nodes' = << >>) /\ AllSettled(Len(nodes))'
  BY <1>1, <1>2, <1>3 DEF LoopInv, AllSettled
<1> QED
  BY <1>1, <1>3, <1>4, <1>5 DEF LoopInv

\* Before the graph, after it, and where the handler waits.
LEMMA LoopAround ==
  ASSUME CallInv, LoopInv,
         \/ RejectEmptyPath \/ SendOpening \/ OpenRepo \/ ReadFile \/ SendParsing \/ ParseFile
         \/ SendBuilding \/ SendGlossary \/ ExtractGlossary \/ SendCreating \/ RegisterSession
         \/ SendSessionReady \/ Cancel \/ Idle \/ UNCHANGED vars
  PROVE  LoopInv'
<1>1. CASE Cancel \/ Idle \/ UNCHANGED vars
  <2>1. UNCHANGED << pc, registered, req, buildVars, terms >>
    BY <1>1 DEF Cancel, CancelCall, Idle, vars, callVars
  <2> QED
    BY <2>1, LoopUnchanged DEF LoopInv
<1>2. CASE \/ RejectEmptyPath \/ SendOpening \/ OpenRepo \/ ReadFile \/ SendParsing \/ ParseFile
           \/ SendBuilding
  <2>1. /\ pc \in BeforeBuild /\ pc' \in BeforeBuild \cup {"entry loop", "returned"}
        /\ UNCHANGED << registered, req, buildVars, terms >>
    BY <1>2 DEF RejectEmptyPath, SendOpening, OpenRepo, ReadFile, SendParsing, ParseFile,
                SendBuilding, SendProgress, Continue, Fail, Return, BeforeBuild
  <2>2. /\ stack = << >> /\ terms = << >> /\ registered' = FALSE
    BY <2>1 DEF LoopInv, CallInv, CallTypeOK, BeforeBuild, InBuild
  <2>3. pc' # "others loop" /\ pc' \notin AfterBuild \cup {"built"}
    BY <2>1 DEF BeforeBuild, AfterBuild
  <2> QED
    BY <2>1, <2>2, <2>3, LoopUnchanged
<1>3. CASE \/ SendGlossary \/ ExtractGlossary \/ SendCreating \/ RegisterSession
           \/ SendSessionReady
  <2>1. /\ pc \in AfterBuild \cup {"built"} /\ pc' \in AfterBuild \cup {"returned"}
        /\ UNCHANGED << req, buildVars >>
    BY <1>3 DEF SendGlossary, ExtractGlossary, SendCreating, RegisterSession, SendSessionReady,
                SendProgress, SendReady, Register, Continue, Fail, Return, Driver, AfterBuild
  <2>2. stack = << >>
    BY <1>3, <2>1 DEF LoopInv, SendGlossary, ExtractGlossary, SendCreating, RegisterSession,
                      SendSessionReady, Driver, InBuild
  <2>3. terms' \in {<< >>, << entryStep >>}
    <3>1. CASE ExtractGlossary
      <4>1. PICK n \in 0..1 : terms' = [i \in 1..n |-> entryStep]
        BY <3>1 DEF ExtractGlossary
      <4>2. CASE n = 0
        BY <4>1, <4>2
      <4>3. CASE n = 1
        BY <4>1, <4>3
      <4> QED
        BY <4>1, <4>2, <4>3
    <3>2. CASE SendGlossary \/ SendCreating \/ RegisterSession \/ SendSessionReady
      BY <3>2 DEF LoopInv, SendGlossary, SendCreating, RegisterSession, SendSessionReady
    <3> QED
      BY <1>3, <3>1, <3>2
  <2>4. pc' # "others loop" /\ pc' \notin BeforeBuild \cup InBuild
    BY <2>1 DEF BeforeBuild, InBuild, AfterBuild
  <2> QED
    BY <2>1, <2>2, <2>3, <2>4, LoopUnchanged
<1> QED
  BY <1>1, <1>2, <1>3

\* buildNode going down to a child, and back.
LEMMA LoopBelow ==
  ASSUME CallInv, StepsInv, EdgesInv, StackInv, LoopInv, EnterChild \/ LeaveNode
  PROVE  LoopInv'
<1>1. /\ stack # << >> /\ UNCHANGED << pc, registered, req, ni, entryStep, terms >>
      /\ Grown
  <2>1. CASE EnterChild
    BY <2>1, ChildEntered DEF EnterChild, callVars
  <2>2. CASE LeaveNode
    BY <2>2 DEF LeaveNode, callVars, Grown
  <2> QED
    BY <2>1, <2>2
<1>2. nodes' = nodes
  BY <1>1 DEF nodes
<1>3. pc \in InBuild
  BY <1>1 DEF LoopInv
<1>4. steps # {}
  <2>1. Len(stack) \in 1..Len(stack)
    BY <1>1, EmptySeq DEF StackInv
  <2> QED
    BY <2>1 DEF StackInv, FrameOK
<1>5. /\ entryStep \in steps \cup {NoID} /\ nodes # << >>
      /\ ni \in 1..(Len(nodes) + 1)
  BY <1>4 DEF LoopInv
<1>6. pc' = "others loop" => AllSettled(ni - 1)'
  BY <1>1, <1>5, StaysSettled DEF LoopInv, AllSettled
<1>7. pc' \in AfterBuild \cup {"built"} \/ registered' = TRUE =>
        (entryStep' = NoID => nodes' = << >>) /\ AllSettled(Len(nodes))'
  BY <1>1, <1>2, <1>5, StaysSettled DEF LoopInv, AllSettled
<1>8. entryStep' \in steps' \cup {NoID}
  BY <1>1, <1>5 DEF Grown
<1> QED
  BY <1>1, <1>2, <1>3, <1>5, <1>6, <1>7, <1>8 DEF LoopInv

\* One more turn of a loop.
LEMMA NextOne ==
  ASSUME NEW n \in Nat
  PROVE  /\ 1 \in 1..(n + 1)
         /\ \A k \in 1..(n + 1) : k <= n => k + 1 \in 1..(n + 1)
         /\ \A k \in 1..(n + 1) : \A i \in 1..((k + 1) - 1) : i \in 1..(k - 1) \/ i = k
OBVIOUS

\* The first loop.
LEMMA LoopForEntry ==
  ASSUME CallInv, StepsInv, EdgesInv, StackInv, LoopInv,
         SkipNotEntry \/ BuildEntry \/ EntryLoopDone
  PROVE  LoopInv'
<1>1. /\ pc = "entry loop" /\ stack = << >> /\ UNCHANGED << registered, req, terms >>
  BY DEF SkipNotEntry, BuildEntry, EntryLoopDone, Driver, Continue, callVars
<1>2. /\ registered' = FALSE /\ terms' = << >> /\ nodes' = nodes /\ Len(nodes) \in Nat
      /\ ni \in 1..(Len(nodes) + 1) /\ entryStep \in steps \cup {NoID}
      /\ steps # {} => nodes # << >>
  BY <1>1, FunctionTaken DEF CallInv, CallTypeOK, LoopInv, BeforeBuild, InBuild, nodes
<1>3. /\ pc' \in {"entry loop", "others loop"} /\ pc' \in InBuild
      /\ pc' \notin AfterBuild \cup {"built"}
  BY <1>1 DEF SkipNotEntry, BuildEntry, EntryLoopDone, Continue, callVars, InBuild, AfterBuild
<1>4. CASE SkipNotEntry
  <2>1. /\ ni <= Len(nodes) /\ ni' = ni + 1 /\ UNCHANGED << entryStep, steps >>
        /\ pc' = "entry loop"
    BY <1>1, <1>4 DEF SkipNotEntry, callVars
  <2>2. ni' \in 1..(Len(nodes) + 1)
    BY <1>2, <2>1, NextOne
  <2> QED
    BY <1>2, <1>3, <2>1, <2>2 DEF LoopInv
<1>5. CASE BuildEntry
  <2>1. /\ ni <= Len(nodes) /\ EnterNode(nodes[ni], << >>)
        /\ entryStep' = NodeID(nodes[ni])
        /\ ni' \in {1, ni + 1} /\ (pc' = "others loop" => ni' = 1)
    BY <1>5 DEF BuildEntry, Continue
  <2>2. nodes[ni] \in Tree(req) /\ nodes # << >>
    BY <2>1, FunctionTaken
  <2>3. NodeID(nodes[ni]) \in steps'
    BY <1>1, <2>1, <2>2, FunctionEntered
  <2>4. ni' \in 1..(Len(nodes) + 1)
    BY <1>2, <2>1, NextOne
  <2>5. pc' = "others loop" => AllSettled(ni - 1)'
    <3>1. ASSUME ni' = 1
          PROVE  AllSettled(ni - 1)'
      BY <3>1 DEF AllSettled
    <3> QED
      BY <2>1, <3>1
  <2> QED
    BY <1>2, <1>3, <2>1, <2>2, <2>3, <2>4, <2>5 DEF LoopInv
<1>6. CASE EntryLoopDone
  <2>1. ni' = 1 /\ UNCHANGED << entryStep, steps >>
    BY <1>6 DEF EntryLoopDone
  <2>2. AllSettled(ni - 1)'
    BY <2>1 DEF AllSettled
  <2>3. 1 \in 1..(Len(nodes) + 1)
    BY <1>2, NextOne
  <2> QED
    BY <1>2, <1>3, <2>1, <2>2, <2>3 DEF LoopInv
<1> QED
  BY <1>4, <1>5, <1>6

\* The second loop.
LEMMA LoopForOthers ==
  ASSUME CallInv, StepsInv, EdgesInv, StackInv, LoopInv,
         SkipEntry \/ BuildOther \/ BuildFallback \/ BuildNoFallback
  PROVE  LoopInv'
<1>1. /\ pc = "others loop" /\ stack = << >> /\ UNCHANGED << registered, req, terms >>
  BY DEF SkipEntry, BuildOther, BuildFallback, BuildNoFallback, Driver, Continue, callVars
<1>2. /\ registered' = FALSE /\ terms' = << >> /\ nodes' = nodes /\ Len(nodes) \in Nat
      /\ ni \in 1..(Len(nodes) + 1) /\ entryStep \in steps \cup {NoID}
      /\ (steps # {} => nodes # << >>) /\ AllSettled(ni - 1)
      /\ NoID \notin steps
  BY <1>1, FunctionTaken DEF CallInv, CallTypeOK, LoopInv, BeforeBuild, InBuild, nodes, StepsInv
<1>3. pc' \in {"others loop", "built"} /\ pc' \in InBuild /\ pc' \notin AfterBuild
  BY <1>1 DEF SkipEntry, BuildOther, BuildFallback, BuildNoFallback, Continue, callVars, InBuild,
              AfterBuild
<1>4. CASE SkipEntry
  <2>1. /\ ni <= Len(nodes) /\ ni' = ni + 1 /\ UNCHANGED << entryStep, steps, nodeOf >>
        /\ pc' = "others loop" /\ SameLabelAsEntry(nodes[ni])
    BY <1>1, <1>4 DEF SkipEntry, callVars
  <2>2. ni' \in 1..(Len(nodes) + 1)
    BY <1>2, <2>1, NextOne
  <2>3. ASSUME NEW i \in 1..(ni' - 1)
        PROVE  Settled(steps', nodeOf', entryStep', nodes'[i])
    <3>1. i \in 1..(ni - 1) \/ i = ni
      BY <1>2, <2>1, NextOne
    <3>2. Settled(steps, nodeOf, entryStep, nodes[ni])
      BY <2>1 DEF SameLabelAsEntry, Settled
    <3>3. Settled(steps, nodeOf, entryStep, nodes[i])
      BY <1>2, <3>1, <3>2 DEF AllSettled
    <3> QED
      BY <1>2, <2>1, <3>3
  <2>4. AllSettled(ni - 1)'
    BY <2>3 DEF AllSettled
  <2> QED
    BY <1>2, <1>3, <2>1, <2>2, <2>4 DEF LoopInv
<1>5. CASE BuildOther
  <2>1. /\ ni <= Len(nodes) /\ ni' = ni + 1 /\ EnterNode(nodes[ni], << >>)
        /\ UNCHANGED << entryStep, req >> /\ pc' = "others loop"
    BY <1>1, <1>5 DEF BuildOther, callVars
  <2>2. nodes[ni] \in Tree(req) /\ nodes # << >>
    BY <2>1, FunctionTaken
  <2>3. /\ Grown /\ NodeID(nodes[ni]) \in steps' /\ nodeOf'[NodeID(nodes[ni])] = nodes[ni]
    BY <1>1, <2>1, <2>2, FunctionEntered
  <2>4. ni' \in 1..(Len(nodes) + 1)
    BY <1>2, <2>1, NextOne
  <2>5. \A i \in 1..(ni - 1) : Settled(steps', nodeOf', entryStep', nodes'[i])
    BY <1>2, <2>1, <2>3, StaysSettled
  <2>6. Settled(steps', nodeOf', entryStep', nodes'[ni])
    BY <1>2, <2>3 DEF Settled
  <2>7. ASSUME NEW i \in 1..(ni' - 1)
        PROVE  Settled(steps', nodeOf', entryStep', nodes'[i])
    <3>1. i \in 1..(ni - 1) \/ i = ni
      BY <1>2, <2>1, NextOne
    <3> QED
      BY <2>5, <2>6, <3>1
  <2>8. AllSettled(ni - 1)'
    BY <2>7 DEF AllSettled
  <2>9. entryStep' \in steps' \cup {NoID}
    BY <1>2, <2>1, <2>3 DEF Grown
  <2> QED
    BY <1>2, <1>3, <2>1, <2>2, <2>4, <2>8, <2>9 DEF LoopInv
<1>6. CASE BuildFallback \/ BuildNoFallback
  <2>1. ni > Len(nodes) /\ pc' = "built" /\ UNCHANGED << req, ni >>
    BY <1>6 DEF BuildFallback, BuildNoFallback, Continue, buildVars
  <2>2. \A i \in 1..Len(nodes) : Settled(steps, nodeOf, entryStep, nodes[i])
    <3>1. ni - 1 = Len(nodes)
      BY <1>2, <2>1
    <3> QED
      BY <1>2, <3>1 DEF AllSettled
  <2>3. CASE BuildFallback
    <3>1. /\ entryStep = NoID /\ nodes # << >> /\ EnterNode(nodes[1], << >>)
          /\ entryStep' = NodeID(nodes[1])
      BY <2>3 DEF BuildFallback
    <3>2. nodes[1] \in Tree(req)
      BY <3>1, FunctionTaken
    <3>3. Grown /\ entryStep' \in steps' /\ NoID \notin steps'
      BY <1>1, <3>1, <3>2, FunctionEntered DEF StepsInv
    <3>4. ASSUME NEW i \in 1..Len(nodes)
          PROVE  Settled(steps', nodeOf', entryStep', nodes'[i])
      <4>1. \E s \in steps : nodeOf[s] = nodes[i]
        BY <2>2, <3>1 DEF Settled
      <4>2. \E s \in steps' : nodeOf'[s] = nodes[i]
        BY <3>3, <4>1 DEF Grown
      <4> QED
        BY <1>2, <4>2 DEF Settled
    <3>5. AllSettled(Len(nodes))'
      BY <1>2, <3>4 DEF AllSettled
    <3> QED
      BY <1>2, <1>3, <2>1, <3>1, <3>3, <3>5 DEF LoopInv
  <2>4. CASE BuildNoFallback
    <3>1. /\ entryStep = NoID => nodes = << >>
          /\ UNCHANGED << ni, stack, entryStep, steps, nodeOf >>
      BY <2>4 DEF BuildNoFallback, buildVars
    <3>2. AllSettled(Len(nodes))'
      BY <1>2, <2>2, <3>1 DEF AllSettled
    <3> QED
      BY <1>2, <1>3, <2>1, <3>1, <3>2 DEF LoopInv
  <2> QED
    BY <1>6, <2>3, <2>4
<1> QED
  BY <1>4, <1>5, <1>6

LEMMA LoopKeeps ==
  ASSUME CallInv, StepsInv, EdgesInv, StackInv, LoopInv, [Next]_vars
  PROVE  LoopInv'
BY LoopAround, LoopBelow, LoopForEntry, LoopForOthers DEF Next, Handler

LEMMA InvariantKeeps ==
  ASSUME WalkthroughInv, [Next]_vars
  PROVE  WalkthroughInv'
BY CallKeeps, GraphKeeps, LoopKeeps DEF WalkthroughInv

\* The invariant holds in every state of every opening.
THEOREM WalkthroughInvariant == Spec => []WalkthroughInv
<1>1. Init => WalkthroughInv
  BY InitHolds
<1>2. WalkthroughInv /\ [Next]_vars => WalkthroughInv'
  BY InvariantKeeps
<1> QED
  BY <1>1, <1>2, PTL DEF Spec

--------------------------------------------------------------------------------
(* What it means.                                                          *)

\* The edge at place i of a step is that of a call or of a child.
LEMMA CallOrChild ==
  ASSUME NEW a \in Nat, NEW b \in Nat, NEW i \in 1..(a + b)
  PROVE  /\ i > a => i - a \in 1..b /\ a + (i - a) = i /\ ~(i <= a)
         /\ ~(i > a) => i \in 1..a /\ i <= a
OBVIOUS

\* When a session is registered nothing is under way, and every edge is that of a call
\* or leads to the step of a child.
LEMMA RegisteredEdges ==
  ASSUME WalkthroughInv, registered, NEW s \in steps
  PROVE  LET n == nodeOf[s]
         IN  /\ n \in Tree(req)
             /\ Len(n.Calls) \in Nat /\ Len(n.Children) \in Nat
             /\ edges[s] \in Seq(EdgeSet(req))
             /\ DOMAIN edges[s] = 1..(Len(n.Calls) + Len(n.Children))
             /\ Mirrors(steps, nodeOf, edges[s], n)
             /\ \A i \in DOMAIN edges[s] :
                   \/ i <= Len(n.Calls) /\ edges[s][i] = CallEdge
                   \/ /\ i > Len(n.Calls)
                      /\ \E j \in 1..Len(n.Children) :
                             LeadsTo(steps, nodeOf, edges[s][i], n.Children[j])
<1> DEFINE n == nodeOf[s]
<1>1. pc \notin InBuild
  BY DEF WalkthroughInv, CallInv, CallTypeOK, InBuild
<1>2. stack = << >> /\ Len(stack) = 0
  BY <1>1 DEF WalkthroughInv, LoopInv
<1>3. ~UnderWay(stack, s)
  BY <1>2 DEF UnderWay
<1>4. Mirrors(steps, nodeOf, edges[s], n)
  BY <1>3 DEF WalkthroughInv, EdgesInv
<1>5. /\ n \in Tree(req) /\ Len(n.Calls) \in Nat /\ Len(n.Children) \in Nat
      /\ edges[s] \in Seq(EdgeSet(req))
  BY TreeNode DEF WalkthroughInv, StepsInv
<1> DEFINE out == edges[s]
<1>6. out \in Seq(EdgeSet(req)) /\ Mirrors(steps, nodeOf, out, n)
  BY <1>4, <1>5
<1> HIDE DEF n, out
<1>7. DOMAIN out = 1..(Len(n.Calls) + Len(n.Children))
  BY <1>6, LenProperties DEF Mirrors
<1>8. ASSUME NEW i \in 1..(Len(n.Calls) + Len(n.Children)), i > Len(n.Calls)
      PROVE  \E j \in 1..Len(n.Children) : LeadsTo(steps, nodeOf, out[i], n.Children[j])
  <2>1. i - Len(n.Calls) \in 1..Len(n.Children) /\ Len(n.Calls) + (i - Len(n.Calls)) = i
    BY <1>5, <1>8, CallOrChild
  <2>2. LeadsTo(steps, nodeOf, out[Len(n.Calls) + (i - Len(n.Calls))],
                n.Children[i - Len(n.Calls)])
    BY <1>6, <2>1 DEF Mirrors
  <2> QED
    BY <2>1, <2>2
<1>9. ASSUME NEW i \in 1..(Len(n.Calls) + Len(n.Children)), ~(i > Len(n.Calls))
      PROVE  i <= Len(n.Calls) /\ out[i] = CallEdge
  <2>1. i \in 1..Len(n.Calls) /\ i <= Len(n.Calls)
    BY <1>5, <1>9, CallOrChild
  <2> QED
    BY <1>6, <2>1 DEF Mirrors
<1>10. \A i \in DOMAIN out :
          \/ i <= Len(n.Calls) /\ out[i] = CallEdge
          \/ /\ i > Len(n.Calls)
             /\ \E j \in 1..Len(n.Children) : LeadsTo(steps, nodeOf, out[i], n.Children[j])
  BY <1>7, <1>8, <1>9
<1> QED
  BY <1>5, <1>6, <1>7, <1>10 DEF n, out

LEMMA TypesHold == WalkthroughInv => WalkthroughTypeOK
<1> SUFFICES ASSUME WalkthroughInv
             PROVE  WalkthroughTypeOK
  OBVIOUS
<1>1. \A n \in Tree(req) : IsNode(n)
  BY WalkthroughAssumption DEF WalkthroughInv, StepsInv, Tree
<1>2. /\ CallTypeOK /\ ni \in 1..(Len(nodes) + 1) /\ counter \in Nat /\ NoID \notin steps
      /\ entryStep \in steps \cup {NoID}
  BY DEF WalkthroughInv, CallInv, StepsInv, LoopInv
<1>3. DOMAIN edges = steps /\ DOMAIN nodeOf = steps /\ \A s \in steps : IsNode(nodeOf[s])
  BY <1>1 DEF WalkthroughInv, StepsInv
<1>4. Len(terms) <= 1
  <2>1. terms = << >> \/ terms = << entryStep >>
    BY DEF WalkthroughInv, LoopInv
  <2>2. Len(<< >>) = 0 /\ Len(<< entryStep >>) = 1
    OBVIOUS
  <2>3. \A k \in {0, 1} : k <= 1
    OBVIOUS
  <2>4. Len(terms) \in {0, 1}
    BY <2>1, <2>2
  <2> QED
    BY <2>3, <2>4
<1>5. \A i \in DOMAIN stack : IsNode(stack[i].node) /\ stack[i].id \in steps
  <2>1. stack \in Seq(Frames(req)) /\ DOMAIN stack = 1..Len(stack)
    BY LenProperties DEF WalkthroughInv, StackInv
  <2>2. ASSUME NEW i \in 1..Len(stack)
        PROVE  stack[i].node \in Tree(req) /\ stack[i].id \in steps
    <3>1. stack[i] \in Frames(req)
      BY <2>1, ElementOfSeq
    <3>2. stack[i].id \in steps
      BY DEF WalkthroughInv, StackInv, FrameOK
    <3> QED
      BY <3>1, <3>2 DEF Frames
  <2> QED
    BY <1>1, <2>1, <2>2
<1> QED
  BY <1>2, <1>3, <1>4, <1>5 DEF WalkthroughTypeOK

LEMMA GraphsSound == WalkthroughInv => RegisteredGraphIsSound
<1> SUFFICES ASSUME WalkthroughInv, registered
             PROVE  /\ Built!GraphAssumption
                    /\ \A s \in steps : \A e \in Range(edges[s]) : e.navigable => e.target \in steps
                    /\ steps # {} => \A t \in Range(terms) : t \in steps
  BY DEF RegisteredGraphIsSound
<1>1. /\ entryStep \in steps \cup {NoID} /\ (steps # {} => entryStep \in steps)
      /\ terms \in {<< >>, << entryStep >>}
  BY DEF WalkthroughInv, LoopInv, CallInv, CallTypeOK
<1>2. ASSUME NEW s \in steps, NEW i \in DOMAIN edges[s]
      PROVE  /\ edges[s][i] \in Built!Edge
             /\ edges[s][i].navigable => edges[s][i].target \in steps
  <2>1. \/ edges[s][i] = CallEdge
        \/ \E t \in steps : edges[s][i] = NextEdge(t)
    BY <1>2, RegisteredEdges DEF LeadsTo
  <2>2. CASE edges[s][i] = CallEdge
    BY <2>2 DEF CallEdge, Built!Edge
  <2>3. ASSUME NEW t \in steps, edges[s][i] = NextEdge(t)
        PROVE  /\ edges[s][i] \in Built!Edge
               /\ edges[s][i].navigable => edges[s][i].target \in steps
    BY <2>3 DEF NextEdge, Built!Edge
  <2> QED
    BY <2>1, <2>2, <2>3
<1>3. edges \in [steps -> Seq(Built!Edge)]
  <2>1. ASSUME NEW s \in steps
        PROVE  edges[s] \in Seq(Built!Edge)
    <3> DEFINE out == edges[s]
    <3>1. out \in Seq(EdgeSet(req)) /\ \A i \in DOMAIN out : out[i] \in Built!Edge
      BY <1>2, RegisteredEdges
    <3> HIDE DEF out
    <3>2. /\ Len(out) \in Nat /\ DOMAIN out = 1..Len(out) /\ out = [i \in 1..Len(out) |-> out[i]]
      BY <3>1, LenProperties
    <3>3. out \in Seq(Built!Edge)
      BY <3>1, <3>2
    <3> QED
      BY <3>3 DEF out
  <2>2. DOMAIN edges = steps /\ edges = [s \in steps |-> edges[s]]
    BY DEF WalkthroughInv, StepsInv
  <2> QED
    BY <2>1, <2>2
<1>4. Built!GraphAssumption
  BY <1>1, <1>3 DEF Built!GraphAssumption
<1>5. ASSUME NEW s \in steps, NEW e \in Range(edges[s]), e.navigable
      PROVE  e.target \in steps
  BY <1>2, <1>5 DEF Range
<1>6. ASSUME steps # {}, NEW t \in Range(terms)
      PROVE  t \in steps
  <2>1. terms = << >> \/ terms = << entryStep >>
    BY <1>1
  <2>2. t = entryStep
    BY <2>1 DEF Range
  <2> QED
    BY <1>1, <1>6, <2>2
<1> QED
  BY <1>4, <1>5, <1>6

\* A step that is done mirrors its node, edge for edge.
LEMMA StepsKept == WalkthroughInv => ChildrenKeepTheirSteps
<1> SUFFICES ASSUME WalkthroughInv, registered, NEW s \in steps,
                    NEW i \in DOMAIN nodeOf[s].Children
             PROVE  LET k == Len(nodeOf[s].Calls) + i
                    IN  /\ k \in DOMAIN edges[s]
                        /\ edges[s][k].target \in steps
                        /\ nodeOf[edges[s][k].target] = nodeOf[s].Children[i]
  BY DEF ChildrenKeepTheirSteps
<1> DEFINE n == nodeOf[s]
<1>1. /\ n \in Tree(req) /\ Len(n.Calls) \in Nat /\ Len(n.Children) \in Nat
      /\ DOMAIN edges[s] = 1..(Len(n.Calls) + Len(n.Children))
      /\ Mirrors(steps, nodeOf, edges[s], n)
  BY RegisteredEdges
<1>2. i \in 1..Len(n.Children)
  BY <1>1, TreeNode, LenProperties DEF WalkthroughInv, StepsInv
<1> HIDE DEF n
<1>3. Len(n.Calls) + i \in DOMAIN edges[s]
  <2>1. ASSUME NEW a \in Nat, NEW b \in Nat, NEW k \in 1..b
        PROVE  a + k \in 1..(a + b)
    OBVIOUS
  <2>2. Len(n.Calls) + i \in 1..(Len(n.Calls) + Len(n.Children))
    BY ONLY <1>1, <1>2, <2>1
  <2> QED
    BY ONLY <1>1, <2>2
<1>4. LeadsTo(steps, nodeOf, edges[s][Len(n.Calls) + i], n.Children[i])
  BY <1>1, <1>2 DEF Mirrors
<1>5. /\ edges[s][Len(n.Calls) + i].target \in steps
      /\ nodeOf[edges[s][Len(n.Calls) + i].target] = n.Children[i]
  BY <1>4 DEF LeadsTo, NextEdge
<1> QED
  BY <1>3, <1>5 DEF n

LEMMA FunctionsBuilt == WalkthroughInv => FunctionsAreBuilt
<1> SUFFICES ASSUME WalkthroughInv, registered, NEW n \in Range(nodes)
             PROVE  SameLabelAsEntry(n) \/ \E s \in steps : nodeOf[s] = n
  BY DEF FunctionsAreBuilt
<1>1. AllSettled(Len(nodes))
  BY DEF WalkthroughInv, LoopInv, CallInv, CallTypeOK
<1>2. PICK i \in 1..Len(nodes) : n = nodes[i]
  <2>1. Range(nodes) = {nodes[i] : i \in 1..Len(nodes)}
    BY TopNodes DEF WalkthroughInv, StepsInv, nodes
  <2> QED
    BY <2>1
<1> QED
  BY <1>1, <1>2 DEF AllSettled, Settled, SameLabelAsEntry

\* An edge that names a step leads to the step of a node further down.
LEMMA EdgesLeadDown ==
  ASSUME WalkthroughInv, registered, NEW s \in steps, NEW i \in DOMAIN edges[s],
         edges[s][i].target \in steps
  PROVE  Height[req][nodeOf[edges[s][i].target]] < Height[req][nodeOf[s]]
<1> DEFINE n == nodeOf[s]
<1>1. n \in Tree(req) /\ req \in Requests /\ NoID \notin steps
  BY DEF WalkthroughInv, StepsInv
<1>2. edges[s][i] # CallEdge
  BY <1>1 DEF CallEdge
<1>3. PICK j \in 1..Len(n.Children) : LeadsTo(steps, nodeOf, edges[s][i], n.Children[j])
  BY <1>2, RegisteredEdges
<1>4. nodeOf[edges[s][i].target] = n.Children[j]
  BY <1>3 DEF LeadsTo, NextEdge
<1>5. Height[req][n.Children[j]] < Height[req][n]
  BY <1>1, <1>3, TreeNode
<1> QED
  BY <1>4, <1>5

LEMMA NoWayBack == WalkthroughInv => (registered => OnCycle(edges) = {})
<1> SUFFICES ASSUME WalkthroughInv, registered, NEW s \in OnCycle(edges)
             PROVE  FALSE
  OBVIOUS
<1> DEFINE high(t) == Height[req][nodeOf[t]]
           S       == {t \in steps : high(t) < high(s)}
           next(t) == {edges[t][i].target : i \in DOMAIN edges[t]} \cap DOMAIN edges
<1>1. DOMAIN edges = steps /\ \A t \in steps : high(t) \in Nat
  BY TreeNode DEF WalkthroughInv, StepsInv
<1>2. \A t \in steps : \A x \in next(t) : x \in steps /\ high(x) < high(t)
  BY <1>1, EdgesLeadDown
<1>3. s \in steps
  BY <1>1 DEF OnCycle
<1> HIDE DEF high
<1>4. next(s) \subseteq S /\ S \in SUBSET DOMAIN edges
  BY <1>1, <1>2, <1>3
<1>5. ASSUME NEW t \in S
      PROVE  next(t) \subseteq S
  <2>1. t \in steps /\ high(t) < high(s)
    OBVIOUS
  <2>2. \A x \in next(t) : x \in steps /\ high(x) < high(t)
    BY <1>2, <2>1
  <2>3. \A x \in next(t) : high(x) \in Nat /\ high(t) \in Nat /\ high(s) \in Nat
    BY <1>1, <1>3, <2>1, <2>2
  <2> QED
    BY <2>1, <2>2, <2>3
<1>6. s \notin S
  BY <1>1, <1>3
<1>7. s \in S
  BY <1>4, <1>5 DEF OnCycle
<1> QED
  BY <1>6, <1>7

--------------------------------------------------------------------------------
(* The theorems.                                                           *)

\* Build's variables have their types in every state of every opening.
THEOREM WalkthroughTypeCorrect == Spec => []WalkthroughTypeOK
BY WalkthroughInvariant, TypesHold, PTL

\* A call that fails leaves no session behind, unless the client hung up after the last
\* progress event, when only registering and announcing were left (OpenSession).
THEOREM FailedCallLeavesNothing == Spec => []FailureLeavesNothing
<1>1. WalkthroughInv => FailureLeavesNothing
  BY DEF WalkthroughInv, CallInv, CallTypeOK, FailureLeavesNothing
<1> QED
  BY <1>1, WalkthroughInvariant, PTL

\* Whatever the file and the symbol, the graph a session is given satisfies the
\* assumption of the results about module StepGraph, and no identifier a client may
\* follow is of a missing step (Build).
THEOREM BuiltGraphSound == Spec => []RegisteredGraphIsSound
BY WalkthroughInvariant, GraphsSound, PTL

\* Whatever the file, no node takes the step of another, whether the parser or Build named
\* them: the edge made for a child leads to that child's step (nextID, g.Add).
THEOREM NoStepIsTaken == Spec => []ChildrenKeepTheirSteps
BY WalkthroughInvariant, StepsKept, PTL

\* Every function of the file has a step, but for those called as the entry is.
THEOREM EveryFunctionIsBuilt == Spec => []FunctionsAreBuilt
BY WalkthroughInvariant, FunctionsBuilt, PTL

\* No way leads from a step of a session's graph back to it: a client that only goes
\* forward comes to an end, and what DetectCycles would search for is not there.
THEOREM NothingLeadsBack == Spec => [](registered => OnCycle(edges) = {})
BY WalkthroughInvariant, NoWayBack, PTL
================================================================================
