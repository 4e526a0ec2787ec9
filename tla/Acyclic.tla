-------------------------------- MODULE Acyclic --------------------------------
(***************************************************************************)
(* What it means for a step of a graph to be on a cycle, for the results   *)
(* about graph.Build and about the search of graph.DetectCycles.  A graph  *)
(* is a function from its steps to the sequences of their edges.           *)
(***************************************************************************)

\* The steps one can leave and come back to: every set of steps that holds the
\* successors of s, and those of its members, holds s.
OnCycle(g) ==
    LET next(s)      == {g[s][i].target : i \in DOMAIN g[s]} \cap DOMAIN g
        closed(S, s) == next(s) \subseteq S /\ \A t \in S : next(t) \subseteq S
    IN  {s \in DOMAIN g : \A S \in SUBSET DOMAIN g : closed(S, s) => s \in S}
================================================================================
