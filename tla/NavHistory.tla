------------------------------ MODULE NavHistory -------------------------------
(***************************************************************************)
(* What the walker promises to a client, with no graph and no breadcrumb:  *)
(* a trail of places that starts at home, grows by one place when the      *)
(* client goes somewhere and loses its last place when it goes back, as    *)
(* the history of a debugger or a browser does.  It never becomes empty.   *)
(***************************************************************************)
EXTENDS Sequences, Naturals

CONSTANTS Places, Home
VARIABLE trail

HistoryInit == trail = << Home >>

Visit(p) == trail' = Append(trail, p)

Return ==
    /\ Len(trail) > 1
    /\ trail' = SubSeq(trail, 1, Len(trail) - 1)

HistoryNext == (\E p \in Places : Visit(p)) \/ Return

HistorySpec == HistoryInit /\ [][HistoryNext]_trail
================================================================================
