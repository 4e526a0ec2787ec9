----------------------------- MODULE WalkerProofs ------------------------------
(***************************************************************************)
(* The walker's properties for every graph and every length of walk.  The  *)
(* inductive invariant is that the walk is sound: it stays in the graph,   *)
(* begins at the entry step and has been flagged visited.  Its three parts *)
(* are inductive only together, since Back returns to whatever place the   *)
(* trail holds.                                                            *)
(***************************************************************************)
EXTENDS Walker, StepGraphProofs

WalkerInv ==
    /\ SoundWalk(walker)
    /\ outcome \in {"start", "moved", "refused"}

\* A step that keeps a sound walk: what every Walker method was shown to do.
SoundResult(r) ==
    /\ SoundWalk(r.walker)
    /\ r.ok \in BOOLEAN
    /\ ~r.ok => r.walker = walker

\* Whatever the client asks for, the method called on a sound walker gives a
\* sound result.
LEMMA EveryResultSound ==
  ASSUME SoundWalk(walker)
  PROVE  /\ SoundResult(Forward(walker))
         /\ SoundResult(Back(walker))
         /\ \A id \in IDs : SoundResult(GoTo(walker, id))
         /\ \A label \in Labels : SoundResult(FollowEdgeLabel(walker, label))
<1>1. SoundResult(Back(walker))
  BY BackSound DEF SoundResult
<1>2. \A id \in IDs : SoundResult(GoTo(walker, id))
  BY GoToSound DEF SoundResult
<1>3. \A label \in Labels : SoundResult(FollowEdgeLabel(walker, label))
  BY FollowSound DEF SoundResult
<1>4. SoundResult(Forward(walker))
  BY <1>3, GraphAssumption DEF Forward
<1> QED
  BY <1>1, <1>2, <1>3, <1>4

\* Every step of the specification applies the result of some method.
LEMMA StepApplies ==
  ASSUME SoundWalk(walker), WalkerNext
  PROVE  \E r : SoundResult(r) /\ Apply(r)
<1>1. CASE NavigateForward
  BY <1>1, EveryResultSound DEF NavigateForward
<1>2. CASE NavigateBack
  BY <1>2, EveryResultSound DEF NavigateBack
<1>3. CASE \E id \in IDs : NavigateTo(id)
  BY <1>3, EveryResultSound DEF NavigateTo
<1>4. CASE \E label \in Labels : NavigateEdge(label)
  BY <1>4, EveryResultSound DEF NavigateEdge
<1> QED
  BY <1>1, <1>2, <1>3, <1>4 DEF WalkerNext

\* The walk is sound in every reachable state.
THEOREM WalkerInvariant == WalkerSpec => []WalkerInv
<1>1. WalkerInit => WalkerInv
  BY NewWalkerSound DEF WalkerInit, WalkerInv
<1>2. WalkerInv /\ [WalkerNext]_walkerVars => WalkerInv'
  <2> SUFFICES ASSUME WalkerInv, [WalkerNext]_walkerVars PROVE WalkerInv'
    OBVIOUS
  <2>1. CASE WalkerNext
    <3>1. PICK r : SoundResult(r) /\ Apply(r)
      BY <2>1, StepApplies DEF WalkerInv
    <3>2. walker' = r.walker /\ outcome' \in {"start", "moved", "refused"}
      BY <3>1 DEF Apply
    <3> QED
      BY <3>1, <3>2 DEF SoundResult, WalkerInv
  <2>2. CASE UNCHANGED walkerVars
    BY <2>2 DEF WalkerInv, walkerVars
  <2> QED
    BY <2>1, <2>2
<1> QED
  BY <1>1, <1>2, PTL DEF WalkerSpec

\* The walker keeps its type: the current step and the breadcrumb are
\* identifiers, and only steps of the graph carry the Visited flag.
THEOREM WalkerTypeCorrect == WalkerSpec => []WalkerTypeOK
<1>1. WalkerInv => WalkerTypeOK
  BY DEF WalkerInv, SoundWalk, WalkerTypeOK
<1> QED
  BY <1>1, WalkerInvariant, PTL

\* No sequence of Navigate calls, however long and in whatever graph, leaves the graph,
\* loses the way home or walks a place that is not flagged.
THEOREM TrailStaysSound == WalkerSpec => []TrailIsSound
<1>1. WalkerInv => TrailIsSound
  BY DEF WalkerInv, SoundWalk, TrailIsSound
<1> QED
  BY <1>1, WalkerInvariant, PTL

\* A refused call changes nothing, for any walk and any argument.
THEOREM RefusalIsHarmless == WalkerSpec => RefusalLeavesWalker
<1>1. WalkerInv /\ [WalkerNext]_walkerVars
        => [outcome' = "refused" => walker' = walker]_walkerVars
  <2> SUFFICES ASSUME WalkerInv, WalkerNext, outcome' = "refused"
               PROVE  walker' = walker
    BY DEF walkerVars
  <2>1. PICK r : SoundResult(r) /\ Apply(r)
    BY StepApplies DEF WalkerInv
  <2>2. ~r.ok
    BY <2>1 DEF Apply
  <2> QED
    BY <2>1, <2>2 DEF SoundResult, Apply
<1> QED
  BY <1>1, WalkerInvariant, PTL DEF WalkerSpec, RefusalLeavesWalker

\* The walker implements the abstract history: each call visits a step of the
\* graph, returns to the previous place, or changes nothing.
THEOREM WalkerRefinesHistory == WalkerSpec => WalkerIsHistory
<1>1. WalkerInit => History!HistoryInit
  BY DEF WalkerInit, NewWalker, Trail, History!HistoryInit
<1>2. WalkerInv /\ [WalkerNext]_walkerVars => [History!HistoryNext]_(Trail(walker))
  <2> SUFFICES ASSUME WalkerInv, [WalkerNext]_walkerVars
               PROVE  History!HistoryNext \/ Trail(walker)' = Trail(walker)
    OBVIOUS
  <2> USE DEF WalkerInv
  <2>1. ASSUME NEW label, Apply(FollowEdgeLabel(walker, label))
        PROVE  History!HistoryNext \/ Trail(walker)' = Trail(walker)
    <3>1. walker' = FollowEdgeLabel(walker, label).walker
      BY <2>1 DEF Apply
    <3>2. CASE FollowEdgeLabel(walker, label).ok
      <4>1. PICK target \in Steps : Trail(walker') = Append(Trail(walker), target)
        BY <3>1, <3>2, FollowSound
      <4>2. History!Visit(target)
        BY <4>1 DEF History!Visit, Trail
      <4> QED
        BY <4>2 DEF History!HistoryNext
    <3>3. CASE ~FollowEdgeLabel(walker, label).ok
      <4>1. walker' = walker
        BY <3>1, <3>3, FollowSound
      <4> QED
        BY <4>1 DEF Trail
    <3> QED
      BY <3>2, <3>3
  <2>2. CASE NavigateForward
    BY <2>1, <2>2 DEF NavigateForward, Forward
  <2>3. CASE NavigateBack
    <3>1. walker' = Back(walker).walker
      BY <2>3 DEF NavigateBack, Apply
    <3>2. CASE Back(walker).ok
      <4>1. /\ Len(Trail(walker)) > 1
            /\ Trail(walker') = SubSeq(Trail(walker), 1, Len(Trail(walker)) - 1)
        BY <3>1, <3>2, BackSound
      <4>2. History!Return
        BY <4>1 DEF History!Return, Trail
      <4> QED
        BY <4>2 DEF History!HistoryNext
    <3>3. CASE ~Back(walker).ok
      <4>1. walker' = walker
        BY <3>1, <3>3, BackSound
      <4> QED
        BY <4>1 DEF Trail
    <3> QED
      BY <3>2, <3>3
  <2>4. CASE \E id \in IDs : NavigateTo(id)
    <3>1. PICK id \in IDs : Apply(GoTo(walker, id))
      BY <2>4 DEF NavigateTo
    <3>2. walker' = GoTo(walker, id).walker
      BY <3>1 DEF Apply
    <3>3. CASE GoTo(walker, id).ok
      <4>1. id \in Steps /\ Trail(walker') = Append(Trail(walker), id)
        BY <3>2, <3>3, GoToSound
      <4>2. History!Visit(id)
        BY <4>1 DEF History!Visit, Trail
      <4> QED
        BY <4>1, <4>2 DEF History!HistoryNext
    <3>4. CASE ~GoTo(walker, id).ok
      <4>1. walker' = walker
        BY <3>2, <3>4, GoToSound
      <4> QED
        BY <4>1 DEF Trail
    <3> QED
      BY <3>3, <3>4
  <2>5. CASE \E label \in Labels : NavigateEdge(label)
    BY <2>1, <2>5 DEF NavigateEdge
  <2>6. CASE UNCHANGED walkerVars
    BY <2>6 DEF walkerVars, Trail
  <2> QED
    BY <2>2, <2>3, <2>4, <2>5, <2>6 DEF WalkerNext
<1> QED
  BY <1>1, <1>2, WalkerInvariant, PTL
     DEF WalkerSpec, WalkerIsHistory, History!HistorySpec
================================================================================
