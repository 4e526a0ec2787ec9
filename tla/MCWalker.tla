------------------------------- MODULE MCWalker --------------------------------
(* A function with two statements, the second holding one of its own, and    *)
(* another top-level function, as graph.Build makes them: every child hangs   *)
(* off its parent by a NEXT edge, and a call is an edge no one can follow.    *)
EXTENDS Walker

CONSTANTS main, assign, cond, inner, other, noStep, EDGE_LABEL_CALL

MCSteps == {main, assign, cond, inner, other}
MCIDs   == MCSteps \cup {noStep}

Child(s) == [target |-> s, label |-> EDGE_LABEL_NEXT, navigable |-> TRUE]
CallEdge == [target |-> noStep, label |-> EDGE_LABEL_CALL, navigable |-> FALSE]

MCEdges == main   :> << CallEdge, Child(assign), Child(cond) >>
        @@ assign :> << >>
        @@ cond   :> << Child(inner) >>
        @@ inner  :> << CallEdge >>
        @@ other  :> << >>
================================================================================
