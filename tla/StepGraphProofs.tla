---------------------------- MODULE StepGraphProofs ----------------------------
(***************************************************************************)
(* What the walker's methods do to a sound walk, for every graph the       *)
(* builders can make.  Every module that moves a walker rests on these.    *)
(***************************************************************************)
EXTENDS StepGraph, SetInduction

\* A walker that has just been created stands on the entry step of its graph,
\* with nothing behind it: a sound walk of one place.
LEMMA NewWalkerSound == SoundWalk(NewWalker)
  BY GraphAssumption
     DEF SoundWalk, Walkers, NewWalker, StaysInGraph, StartsAtEntry, WasVisited, Trail

\* A walk in a graph without steps has nothing behind it.
LEMMA EmptyGraphWalk ==
  ASSUME NEW w, SoundWalk(w), Steps = {}
  PROVE  w.breadcrumb = << >>
<1>1. w.breadcrumb \in Seq(IDs) /\ w.current \in IDs
  BY DEF SoundWalk, Walkers
<1>2. Append(w.breadcrumb, w.current) = << EntryID >>
  BY DEF SoundWalk, StaysInGraph, Trail
<1>3. Len(Append(w.breadcrumb, w.current)) = 1
  BY <1>2
<1>4. Len(w.breadcrumb) = 0
  BY <1>1, <1>3
<1> QED
  BY <1>1, <1>4

\* GoTo keeps a walk sound whatever identifier the client names, and either
\* refuses and leaves it alone or adds one step of the graph to its trail.
LEMMA GoToSound ==
  ASSUME NEW w, SoundWalk(w), NEW target
  PROVE  /\ SoundWalk(GoTo(w, target).walker)
         /\ GoTo(w, target).ok \in BOOLEAN
         /\ ~GoTo(w, target).ok => GoTo(w, target).walker = w
         /\ GoTo(w, target).ok =>
              /\ target \in Steps
              /\ Trail(GoTo(w, target).walker) = Append(Trail(w), target)
<1> DEFINE r == GoTo(w, target)
<1>1. CASE ~(HasStep(w.current) /\ HasStep(target))
  <2>1. r = Refused(w)
    BY <1>1 DEF GoTo
  <2> QED
    BY <2>1 DEF Refused
<1>2. CASE HasStep(w.current) /\ HasStep(target)
  <2> DEFINE v == [current    |-> target,
                   breadcrumb |-> Append(w.breadcrumb, w.current),
                   visited    |-> w.visited \cup {target}]
  <2>1. r = Moved(v)
    BY <1>2 DEF GoTo
  <2>2. r.ok = TRUE /\ r.walker = v
    BY <2>1 DEF Moved
  <2>3. /\ w.current \in Steps /\ target \in Steps /\ Steps # {}
        /\ Steps \subseteq IDs
        /\ w.breadcrumb \in Seq(IDs) /\ w.visited \subseteq Steps
    BY <1>2, GraphAssumption DEF HasStep, SoundWalk, Walkers
  <2>4. /\ v.visited = w.visited \cup {target}
        /\ v.breadcrumb = Append(w.breadcrumb, w.current)
        /\ v.current = target
        /\ v \in Walkers
    BY <2>3 DEF Walkers
  <2> HIDE DEF v
  <2>5. Trail(v) = Append(Trail(w), target)
    BY <2>4 DEF Trail
  <2>6. /\ Trail(w) \in Seq(IDs) /\ Trail(v) \in Seq(IDs)
        /\ Len(Trail(w)) \in Nat \ {0}
        /\ Len(Trail(v)) = Len(Trail(w)) + 1
        /\ \A i \in 1..Len(Trail(w)) : Trail(v)[i] = Trail(w)[i]
        /\ Trail(v)[Len(Trail(v))] = target
    BY <2>3, <2>5 DEF Trail
  <2>7. StaysInGraph(v)
    <3>1. \A i \in 1..Len(Trail(w)) : Trail(w)[i] \in Steps
      BY <2>3, <2>6 DEF SoundWalk, StaysInGraph
    <3>2. DOMAIN Trail(v) = 1..Len(Trail(v))
      BY <2>3, <2>5, <2>6
    <3>3. \A i \in 1..Len(Trail(v)) : i \in 1..Len(Trail(w)) \/ i = Len(Trail(v))
      BY <2>6
    <3>4. \A i \in DOMAIN Trail(v) : Trail(v)[i] \in Steps
      BY <3>1, <3>2, <3>3, <2>3, <2>6
    <3> QED
      BY <3>4, <2>3 DEF StaysInGraph
  <2>8. StartsAtEntry(v)
    BY <2>6 DEF SoundWalk, StartsAtEntry
  <2>9. WasVisited(v)
    <3>1. SUFFICES ASSUME NEW i \in 2..Len(Trail(v))
                   PROVE  Trail(v)[i] \in v.visited
      BY DEF WasVisited
    <3>2. CASE i = Len(Trail(v))
      BY <3>2, <2>4, <2>6
    <3>3. CASE i \in 2..Len(Trail(w))
      BY <3>3, <2>4, <2>6 DEF SoundWalk, WasVisited
    <3> QED
      BY <3>2, <3>3, <2>6
  <2> QED
    BY <2>2, <2>3, <2>4, <2>5, <2>7, <2>8, <2>9 DEF SoundWalk
<1> QED
  BY <1>1, <1>2

\* Back keeps a walk sound.  It refuses only at the first place, and then leaves
\* the walk alone: the lookup it makes after popping always finds the step.
LEMMA BackSound ==
  ASSUME NEW w, SoundWalk(w)
  PROVE  /\ SoundWalk(Back(w).walker)
         /\ Back(w).ok \in BOOLEAN
         /\ ~Back(w).ok => Back(w).walker = w
         /\ Back(w).ok =>
              /\ Len(Trail(w)) > 1
              /\ Trail(Back(w).walker) = SubSeq(Trail(w), 1, Len(Trail(w)) - 1)
<1>1. CASE w.breadcrumb = << >>
  BY <1>1 DEF Back, Refused
<1>2. CASE w.breadcrumb # << >>
  <2> DEFINE n == Len(w.breadcrumb)
             v == [w EXCEPT !.current = w.breadcrumb[n],
                            !.breadcrumb = SubSeq(w.breadcrumb, 1, n - 1)]
  <2>1. /\ w \in Walkers /\ w.breadcrumb \in Seq(IDs) /\ w.current \in IDs
        /\ n \in Nat \ {0}
    BY <1>2 DEF SoundWalk, Walkers
  <2>2. Steps # {}
    BY <1>2, EmptyGraphWalk
  <2>3. /\ v.current = w.breadcrumb[n]
        /\ v.breadcrumb = SubSeq(w.breadcrumb, 1, n - 1)
        /\ v.visited = w.visited
        /\ v \in Walkers
    <3>1. w.breadcrumb[n] \in IDs /\ SubSeq(w.breadcrumb, 1, n - 1) \in Seq(IDs)
      BY <2>1
    <3> QED
      BY <2>1, <3>1 DEF Walkers
  <2>0. Back(w) = IF HasStep(v.current) THEN Moved(v) ELSE Refused(v)
    BY <1>2 DEF Back
  <2> HIDE DEF v
  <2>4. /\ Len(Trail(w)) = n + 1
        /\ \A i \in 1..n : Trail(w)[i] = w.breadcrumb[i]
        /\ DOMAIN Trail(w) = 1..(n + 1)
    BY <2>1 DEF Trail
  <2>5. /\ Trail(v) \in Seq(IDs)
        /\ Len(Trail(v)) = n
        /\ \A i \in 1..n : Trail(v)[i] = w.breadcrumb[i]
    BY <2>1, <2>3 DEF Trail
  <2>6. Trail(v) = SubSeq(Trail(w), 1, Len(Trail(w)) - 1)
    <3>1. Trail(w) \in Seq(IDs)
      BY <2>1 DEF Trail
    <3>2. /\ SubSeq(Trail(w), 1, n) \in Seq(IDs)
          /\ Len(SubSeq(Trail(w), 1, n)) = n
          /\ \A i \in 1..n : SubSeq(Trail(w), 1, n)[i] = Trail(w)[i]
      BY <3>1, <2>1, <2>4
    <3> QED
      BY <3>2, <2>1, <2>4, <2>5
  <2>7. StaysInGraph(v)
    <3>1. \A i \in 1..n : w.breadcrumb[i] \in Steps
      BY <2>1, <2>2, <2>4 DEF SoundWalk, StaysInGraph
    <3>2. DOMAIN Trail(v) = 1..n
      BY <2>5
    <3>3. \A i \in DOMAIN Trail(v) : Trail(v)[i] \in Steps
      BY <3>1, <3>2, <2>5
    <3> QED
      BY <3>3, <2>2 DEF StaysInGraph
  <2>8. HasStep(v.current)
    BY <2>1, <2>2, <2>3, <2>4 DEF SoundWalk, StaysInGraph, HasStep
  <2>9. StartsAtEntry(v)
    BY <2>1, <2>4, <2>5 DEF SoundWalk, StartsAtEntry
  <2>10. WasVisited(v)
    <3>1. \A i \in 2..n : Trail(w)[i] \in w.visited
      BY <2>1, <2>4 DEF SoundWalk, WasVisited
    <3>2. \A i \in 2..n : Trail(v)[i] \in v.visited
      BY <3>1, <2>1, <2>3, <2>4, <2>5
    <3> QED
      BY <3>2, <2>5 DEF WasVisited
  <2>11. Back(w) = Moved(v)
    BY <2>0, <2>8
  <2> QED
    BY <2>1, <2>3, <2>4, <2>6, <2>7, <2>9, <2>10, <2>11 DEF Moved, SoundWalk
<1> QED
  BY <1>1, <1>2

\* Following an edge is GoTo along the first navigable edge with that label, or
\* a refusal; nothing depends on where the edge leads.
LEMMA FollowIsGoTo ==
  ASSUME NEW w, NEW label
  PROVE  \/ FollowEdgeLabel(w, label) = Refused(w)
         \/ \E target : FollowEdgeLabel(w, label) = GoTo(w, target)
  BY DEF FollowEdgeLabel

\* FollowEdgeLabel, and so Forward, keeps a walk sound and either leaves it alone
\* or adds one step of the graph to its trail.
LEMMA FollowSound ==
  ASSUME NEW w, SoundWalk(w), NEW label
  PROVE  /\ SoundWalk(FollowEdgeLabel(w, label).walker)
         /\ FollowEdgeLabel(w, label).ok \in BOOLEAN
         /\ ~FollowEdgeLabel(w, label).ok => FollowEdgeLabel(w, label).walker = w
         /\ FollowEdgeLabel(w, label).ok =>
              \E target \in Steps :
                Trail(FollowEdgeLabel(w, label).walker) = Append(Trail(w), target)
<1>1. CASE FollowEdgeLabel(w, label) = Refused(w)
  BY <1>1 DEF Refused
<1>2. CASE \E target : FollowEdgeLabel(w, label) = GoTo(w, target)
  <2>1. PICK target : FollowEdgeLabel(w, label) = GoTo(w, target)
    BY <1>2
  <2> QED
    BY <2>1, GoToSound
<1> QED
  BY <1>1, <1>2, FollowIsGoTo

\* The first of some positions is one of them, and comes before all others.
LEMMA FirstOfIsFirst ==
  ASSUME NEW positions \in SUBSET Nat, positions # {}
  PROVE  /\ FirstOf(positions) \in positions
         /\ \A j \in positions : FirstOf(positions) <= j
  BY LeastMember DEF FirstOf

\* A call of FollowEdgeLabel that succeeds went along a navigable edge: from the step
\* it pushed on the breadcrumb to the step it stands on.
LEMMA FollowTakesAnEdge ==
  ASSUME NEW w, SoundWalk(w), NEW label, FollowEdgeLabel(w, label).ok
  PROVE  LET v == FollowEdgeLabel(w, label).walker IN
         /\ v.breadcrumb = Append(w.breadcrumb, w.current)
         /\ NavigableEdgeTo(w.current, v.current)
<1> DEFINE positions == EdgesLabelled(w.current, label)
           i == FirstOf(positions)
           target == Edges[w.current][i].target
<1>1. HasStep(w.current) /\ positions # {} /\ FollowEdgeLabel(w, label) = GoTo(w, target)
  BY DEF FollowEdgeLabel, Refused
<1>2. Edges[w.current] \in Seq(Edge)
  BY <1>1, GraphAssumption DEF HasStep
<1>3. positions \in SUBSET Nat
  BY <1>2 DEF EdgesLabelled
<1>4. i \in positions
  BY <1>1, <1>3, FirstOfIsFirst
<1>5. NavigableEdgeTo(w.current, target)
  BY <1>4 DEF EdgesLabelled, NavigableEdgeTo
<1> HIDE DEF target
<1>6. /\ GoTo(w, target).walker.breadcrumb = Append(w.breadcrumb, w.current)
      /\ GoTo(w, target).walker.current = target
  BY <1>1 DEF GoTo, Moved, Refused
<1> QED
  BY <1>1, <1>5, <1>6

\* What the loop of NavigableEdges has kept after each edge is a sequence of edges, and
\* each of them is navigable.
LEMMA NavigableOfType ==
  ASSUME NEW edges \in Seq(Edge)
  PROVE  /\ NavigableOf(edges) \in Seq(Edge)
         /\ \A j \in DOMAIN NavigableOf(edges) : NavigableOf(edges)[j].navigable
<1> DEFINE N == Len(edges)
           body == [p \in (1..N) \X Seq(Edge) |->
                      IF edges[p[1]].navigable THEN Append(p[2], edges[p[1]]) ELSE p[2]]
           Kept(f) == f = [i \in 0..N |->
                      IF i = 0 THEN << >>
                      ELSE IF edges[i].navigable THEN Append(f[i - 1], edges[i]) ELSE f[i - 1]]
           kept == CHOOSE f : Kept(f)
           Good(q) == q \in Seq(Edge) /\ \A j \in DOMAIN q : q[j].navigable
<1>1. N \in Nat /\ \A i \in 1..N : edges[i] \in Edge
  OBVIOUS
<1>2. body \in LoopBodies(N, Seq(Edge))
  <2>1. ASSUME NEW p \in (1..N) \X Seq(Edge)
        PROVE  (IF edges[p[1]].navigable THEN Append(p[2], edges[p[1]]) ELSE p[2]) \in Seq(Edge)
    <3>1. p[1] \in 1..N /\ p[2] \in Seq(Edge) /\ edges[p[1]] \in Edge
      BY <1>1
    <3> QED
      BY <3>1
  <2> QED
    BY <2>1 DEF LoopBodies
<1>3. PICK g \in [0..N -> Seq(Edge)] : Runs(g, << >>, body, N)
  <2>1. << >> \in Seq(Edge)
    OBVIOUS
  <2> HIDE DEF N, body
  <2> QED
    BY <1>1, <1>2, <2>1, LoopRuns
<1>4. Kept(g)
  <2>1. ASSUME NEW i \in 0..N
        PROVE  g[i] = IF i = 0 THEN << >>
                      ELSE IF edges[i].navigable THEN Append(g[i - 1], edges[i]) ELSE g[i - 1]
    <3>1. CASE i # 0
      <4>1. i \in 1..N /\ << i, g[i - 1] >> \in (1..N) \X Seq(Edge)
        BY <1>1, <3>1
      <4>2. g[i] = body[<< i, g[i - 1] >>]
        BY <1>3, <4>1 DEF Runs
      <4> QED
        BY <3>1, <4>1, <4>2
    <3>2. CASE i = 0
      BY <1>3, <3>2 DEF Runs
    <3> QED
      BY <3>1, <3>2
  <2> HIDE DEF body, N
  <2> QED
    BY <1>3, <2>1
<1>5. \A i \in 0..N : kept[i] = IF i = 0 THEN << >>
          ELSE IF edges[i].navigable THEN Append(kept[i - 1], edges[i]) ELSE kept[i - 1]
  <2>1. Kept(kept)
    BY <1>4
  <2> HIDE DEF N, kept
  <2> QED
    BY <2>1
<1>6. NavigableOf(edges) = kept[N]
  BY DEF NavigableOf
<1> HIDE DEF kept
<1> DEFINE S == {i \in Nat : i <= N => Good(kept[i])}
<1>7. 0 \in S
  <2>1. kept[0] = << >>
    <3>1. 0 \in 0..N
      BY <1>1
    <3> HIDE DEF N
    <3> QED
      BY <1>5, <3>1
  <2>2. Good(<< >>)
    OBVIOUS
  <2> QED
    BY <2>1, <2>2
<1>8. ASSUME NEW n \in Nat, n \in S
      PROVE  n + 1 \in S
  <2>1. SUFFICES ASSUME n + 1 <= N
                 PROVE  Good(kept[n + 1])
    OBVIOUS
  <2>2. n + 1 \in 0..N /\ n + 1 # 0 /\ (n + 1) - 1 = n
    BY <1>1, <2>1
  <2>3. kept[n + 1] = IF edges[n + 1].navigable THEN Append(kept[n], edges[n + 1]) ELSE kept[n]
    <3>1. kept[n + 1] = IF n + 1 = 0 THEN << >>
              ELSE IF edges[n + 1].navigable THEN Append(kept[(n + 1) - 1], edges[n + 1])
                                             ELSE kept[(n + 1) - 1]
      <4> HIDE DEF N
      <4> QED
        BY <1>5, <2>2
    <3> QED
      BY <2>2, <3>1
  <2>4. Good(kept[n]) /\ edges[n + 1] \in Edge
    BY <1>1, <1>8, <2>1
  <2>5. CASE edges[n + 1].navigable
    <3>1. kept[n + 1] = Append(kept[n], edges[n + 1])
      BY <2>3, <2>5
    <3> QED
      BY <2>4, <2>5, <3>1
  <2>6. CASE ~edges[n + 1].navigable
    <3>1. kept[n + 1] = kept[n]
      BY <2>3, <2>6
    <3> QED
      BY <2>4, <3>1
  <2> QED
    BY <2>5, <2>6
<1>9. Nat \subseteq S
  <2> HIDE DEF S
  <2> QED
    BY <1>7, <1>8, SetInduction
<1>10. Good(kept[N])
  BY <1>1, <1>9
<1> QED
  BY <1>6, <1>10

\* The edges a client is offered are navigable edges, at a step and elsewhere.
LEMMA NavigableEdgesType ==
  ASSUME NEW w
  PROVE  /\ NavigableEdges(w) \in Seq(Edge)
         /\ \A j \in DOMAIN NavigableEdges(w) : NavigableEdges(w)[j].navigable
<1>1. CASE HasStep(w.current)
  <2>1. Edges[w.current] \in Seq(Edge)
    BY <1>1, GraphAssumption DEF HasStep
  <2>2. NavigableEdges(w) = NavigableOf(Edges[w.current])
    BY <1>1 DEF NavigableEdges
  <2> QED
    BY <2>1, <2>2, NavigableOfType
<1>2. CASE ~HasStep(w.current)
  BY <1>2 DEF NavigableEdges
<1> QED
  BY <1>1, <1>2
================================================================================
