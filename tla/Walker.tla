-------------------------------- MODULE Walker ---------------------------------
(***************************************************************************)
(* One Walker driven by one client: every Navigate destination as an       *)
(* action.  The operations are those of StepGraph; this module adds the    *)
(* state they act on and says what a long sequence of them must preserve.  *)
(***************************************************************************)
EXTENDS StepGraph, TLC

CONSTANT MaxTrail      \* bound: the longest trail the model lets a client make

ASSUME MaxTrailAssumption == MaxTrail \in Nat

VARIABLES
    walker,            \* Session.Walker, with the Visited flags of its graph
    outcome            \* "start", "moved" or "refused": the last call's result

walkerVars == << walker, outcome >>

WalkerTypeOK ==
    /\ walker \in Walkers
    /\ outcome \in {"start", "moved", "refused"}

WalkerInit ==
    /\ walker = NewWalker
    /\ outcome = "start"

\* A handler calls one walker method and keeps what it leaves behind.
Apply(result) ==
    /\ Len(Trail(result.walker)) <= MaxTrail
    /\ walker' = result.walker
    /\ outcome' = IF result.ok THEN "moved" ELSE "refused"

NavigateForward       == Apply(Forward(walker))
NavigateBack          == Apply(Back(walker))
NavigateTo(id)        == Apply(GoTo(walker, id))
NavigateEdge(label)   == Apply(FollowEdgeLabel(walker, label))

WalkerNext ==
    \/ NavigateForward
    \/ NavigateBack
    \/ \E id \in IDs : NavigateTo(id)
    \/ \E label \in Labels : NavigateEdge(label)

WalkerSpec == WalkerInit /\ [][WalkerNext]_walkerVars

--------------------------------------------------------------------------------
(* Properties *)

\* However far the client wanders, every place on the trail is a step of the graph (in
\* an empty graph the trail is the entry place alone), so the lookup that Back makes
\* after it has already moved the walker cannot fail and strand the session; the trail
\* still begins at the entry step, so enough Back calls lead home; and every place but
\* the first carries the Visited flag of the GoTo that put it there.
TrailIsSound ==
    /\ StaysInGraph(walker)
    /\ StartsAtEntry(walker)
    /\ WasVisited(walker)

\* A refused call leaves the session exactly where it was: GoTo and Forward test
\* before they assign, and Back's late test never fails.
RefusalLeavesWalker == [][outcome' = "refused" => walker' = walker]_walkerVars

\* The walker is a history of places: every call extends the trail by one step
\* of the graph, drops its last place, or leaves it alone.
History == INSTANCE NavHistory
             WITH Places <- Steps, Home <- EntryID, trail <- Trail(walker)

WalkerIsHistory == History!HistorySpec
================================================================================
