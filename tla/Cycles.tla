-------------------------------- MODULE Cycles ---------------------------------
(***************************************************************************)
(* graph.DetectCycles (internal/graph/cycle.go): a depth-first search from *)
(* every step, in the order of a Go map, that reports both ends of every   *)
(* edge back into the path it is on.                                       *)
(*                                                                         *)
(* A graph g is a function from its steps to the sequences of their edges; *)
(* an edge has a target, which may be missing or may be no step.           *)
(***************************************************************************)
EXTENDS Acyclic, Sequences, SequencesExt

\* The three variables of DetectCycles.
Unvisited == [visited |-> {}, inStack |-> {}, cyclicIDs |-> << >>]

Noted(ids, id) == IF Contains(ids, id) THEN ids ELSE Append(ids, id)

\* A step that is not in the graph is visited, and left at once.
RECURSIVE dfs(_, _, _, _)
dfs(g, noTarget, search, id) ==
    LET along(s, e) ==
            IF e.target = noTarget THEN s
            ELSE IF e.target \notin s.visited THEN dfs(g, noTarget, s, e.target)
            ELSE IF e.target \notin s.inStack THEN s
            ELSE [s EXCEPT !.cyclicIDs = Noted(Noted(@, e.target), id)]
        entered == [search EXCEPT !.visited = @ \cup {id}, !.inStack = @ \cup {id}]
        left    == IF id \in DOMAIN g THEN FoldLeft(along, entered, g[id]) ELSE entered
    IN  [left EXCEPT !.inStack = @ \ {id}]

\* order: the order in which the range over the map meets the steps.
DetectCycles(g, noTarget, order) ==
    LET root(s, id) == IF id \in s.visited THEN s ELSE dfs(g, noTarget, s, id)
    IN  FoldLeft(root, Unvisited, order).cyclicIDs
================================================================================
