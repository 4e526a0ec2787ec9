------------------------------- MODULE StepGraph -------------------------------
(***************************************************************************)
(* The step graph of a session and the Walker that traverses it            *)
(* (internal/graph/walker.go).  The graph is built once, when the session  *)
(* is opened, and then only read, so it is a constant; the Walker is a     *)
(* value, and each method is an operator from the walker it is called on   *)
(* to the walker it leaves behind and the outcome it returns.              *)
(***************************************************************************)
EXTENDS Integers, Sequences, FiniteSets

CONSTANTS
    IDs,        \* every step identifier an edge or a client may name
    Steps,      \* the keys of Graph.steps
    EntryID,    \* Graph.EntryID; in an empty graph the zero string, no step
    Labels,     \* v1.EdgeLabel
    EDGE_LABEL_NEXT, \* v1.EdgeLabel_EDGE_LABEL_NEXT
    Edges       \* Edges[s]: the out-edges of step s, in the builder's order

Edge == [target : IDs, label : Labels, navigable : BOOLEAN]

\* Both builders set EntryID to a step they added as soon as there is one
\* (graph.Build, buildHunkGraph).  An edge may name no step at all: the CALL
\* edges' targets are never resolved.
ASSUME GraphAssumption ==
    /\ Steps \subseteq IDs
    /\ EntryID \in IDs
    /\ Steps # {} => EntryID \in Steps
    /\ EDGE_LABEL_NEXT \in Labels
    /\ Edges \in [Steps -> Seq(Edge)]

HasStep(id) == id \in Steps

Walkers == [current : IDs, breadcrumb : Seq(IDs), visited : SUBSET Steps]

\* Visited is a flag of each step; the walker carries the set of flagged ones.
NewWalker == [current |-> EntryID, breadcrumb |-> << >>, visited |-> {}]

\* What a Walker method returns: the walker afterwards, and whether it moved.
Moved(w)   == [ok |-> TRUE, walker |-> w]
Refused(w) == [ok |-> FALSE, walker |-> w]

NavigableEdgeTo(id, target) ==
    \E i \in DOMAIN Edges[id] :
        Edges[id][i].target = target /\ Edges[id][i].navigable

\* Mutants of GoTo: the reachability test left to the edges alone, the target
\* pushed in place of the step that is left, the flag on the wrong step, and the
\* flag set before the tests.
GoToUnchecked(w, target) ==
    IF HasStep(w.current) /\ (HasStep(target) \/ target \in IDs)
    THEN Moved([current    |-> target,
                breadcrumb |-> Append(w.breadcrumb, w.current),
                visited    |-> w.visited])
    ELSE Refused(w)

GoToPushesTarget(w, target) ==
    IF HasStep(w.current) /\ HasStep(target)
    THEN Moved([current    |-> target,
                breadcrumb |-> Append(w.breadcrumb, target),
                visited    |-> w.visited \cup {target}])
    ELSE Refused(w)

GoToFlagsOrigin(w, target) ==
    IF HasStep(w.current) /\ HasStep(target)
    THEN Moved([current    |-> target,
                breadcrumb |-> Append(w.breadcrumb, w.current),
                visited    |-> w.visited \cup {w.current}])
    ELSE Refused(w)

GoToFlagsFirst(w, target) ==
    IF HasStep(w.current) /\ HasStep(target)
    THEN Moved([current    |-> target,
                breadcrumb |-> Append(w.breadcrumb, w.current),
                visited    |-> w.visited \cup {target}])
    ELSE Refused([w EXCEPT !.visited = @ \cup {target}])

\* GoTo pushes the current step and moves.  The edge test cannot refuse a
\* step that the graph holds: the second test accepts every such step.
GoTo(w, target) ==
    IF /\ HasStep(w.current)
       /\ NavigableEdgeTo(w.current, target) \/ HasStep(target)
       /\ HasStep(target)
    THEN Moved([current    |-> target,
                breadcrumb |-> Append(w.breadcrumb, w.current),
                visited    |-> w.visited \cup {target}])
    ELSE Refused(w)

\* Mutant of Back: it moves to the popped step and forgets to pop it.
BackKeepsCrumb(w) ==
    IF w.breadcrumb = << >>
    THEN Refused(w)
    ELSE Moved([w EXCEPT !.current = w.breadcrumb[Len(w.breadcrumb)]])

\* Back pops before it looks the step up: a popped identifier that is no step
\* would leave the walker there, with an error.
Back(w) ==
    IF w.breadcrumb = << >>
    THEN Refused(w)
    ELSE LET n == Len(w.breadcrumb)
             popped == [w EXCEPT !.current = w.breadcrumb[n],
                                 !.breadcrumb = SubSeq(w.breadcrumb, 1, n - 1)]
         IN  IF HasStep(popped.current) THEN Moved(popped) ELSE Refused(popped)

\* The positions of the navigable edges with this label, and the first one.
EdgesLabelled(id, label) ==
    {i \in DOMAIN Edges[id] : Edges[id][i].label = label /\ Edges[id][i].navigable}

FirstOf(positions) == CHOOSE i \in positions : \A j \in positions : i <= j

FollowEdgeLabel(w, label) ==
    IF HasStep(w.current) /\ EdgesLabelled(w.current, label) # {}
    THEN GoTo(w, Edges[w.current][FirstOf(EdgesLabelled(w.current, label))].target)
    ELSE Refused(w)

Forward(w) == FollowEdgeLabel(w, EDGE_LABEL_NEXT)

\* The navigable ones of a step's edges, in their order: what the loop has kept
\* after each of them.
NavigableOf(edges) ==
    LET kept[i \in 0..Len(edges)] ==
            IF i = 0 THEN << >>
            ELSE IF edges[i].navigable THEN Append(kept[i - 1], edges[i]) ELSE kept[i - 1]
    IN  kept[Len(edges)]

\* The edges a client is offered at a step.
NavigableEdges(w) == IF HasStep(w.current) THEN NavigableOf(Edges[w.current]) ELSE << >>

\* The path from the entry step to the current one.
Trail(w) == Append(w.breadcrumb, w.current)

\* A walk that stays in the graph, begins at the entry step and, past its first
\* place, holds only steps that are flagged visited.
StaysInGraph(w) ==
    IF Steps = {} THEN Trail(w) = << EntryID >>
    ELSE \A i \in DOMAIN Trail(w) : Trail(w)[i] \in Steps

StartsAtEntry(w) == Trail(w)[1] = EntryID

WasVisited(w) == \A i \in 2..Len(Trail(w)) : Trail(w)[i] \in w.visited

SoundWalk(w) ==
    /\ w \in Walkers
    /\ StaysInGraph(w)
    /\ StartsAtEntry(w)
    /\ WasVisited(w)
================================================================================
