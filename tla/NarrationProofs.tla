---------------------------- MODULE NarrationProofs ----------------------------
(***************************************************************************)
(* What the clients of one session are shown, for every graph, every       *)
(* number of calls, tokens and requests and every capacity of the channel. *)
(*                                                                         *)
(* The safety properties of Narration relate a call to the call whose      *)
(* answer it replays, so none of them is inductive.  The invariant below   *)
(* says what each handler holds at each of its points, and that the live   *)
(* call behind a cache entry has read its channel to the end and sends     *)
(* nothing but StepComplete any more.                                      *)
(***************************************************************************)
EXTENDS Narration, StepGraphProofs

Wires == [tokens   : Seq([src : Calls, n : Nat]),
          summary  : BOOLEAN,
          complete : CompleteEvents \cup {Nothing}]

\* What a handler holds at each of its points.
HandlerOK(c) ==
    /\ pc[c] = "returned" <=> result[c] # "pending"
    /\ pc[c] \notin {"idle", "returned"} => req[c] \in Request
    /\ pc[c] \in {"lookup", "replay", "drain"} =>
          req[c].method = "Navigate" /\ snap[c].step \in Steps
    /\ pc[c] \in {"ask", "range"} => req[c].method # "Navigate"
    /\ pc[c] = "ask" /\ Steps # {} => snap[c].step \in Steps
    /\ pc[c] \in {"lookup", "replay", "drain", "ask", "range", "complete"} =>
          snap[c] \in Snapshots
    /\ pc[c] \in {"idle", "got", "lookup", "ask"} =>
          /\ wire[c] = NoEvents
          /\ stream[c] = NoStream
          /\ summary[c] = "none"
          /\ hit[c] = Nothing
    /\ pc[c] = "replay" => hit[c] # Nothing /\ ~wire[c].summary
    /\ hit[c] # Nothing =>
          pc[c] \in {"replay", "complete", "returned"} /\ req[c].method = "Navigate"
    /\ summary[c] # "none" =>
          pc[c] \in {"drain", "complete", "returned"} /\ req[c].method = "Navigate"

\* The token goroutine commits itself to a token only while the answer has one left.
StreamOK(c) == stream[c].state = "sending" => stream[c].sent < NTokens

\* How much of which answer the client of a call has been sent.
WireOK(c) ==
    LET sent == Len(wire[c].tokens)
        done == wire[c].complete
    IN  /\ wire[c].tokens = Tokens(SourceOf(c), sent)
        /\ hit[c] # Nothing => sent <= hit[c].tokens
        /\ hit[c] # Nothing /\ (pc[c] = "complete" \/ result[c] = "OK") =>
              sent = hit[c].tokens /\ (wire[c].summary <=> hit[c].summary)
        /\ hit[c] = Nothing /\ pc[c] \in {"drain", "range", "complete"} =>
              sent = stream[c].got /\ (wire[c].summary <=> summary[c] = "taken")
        /\ done # Nothing <=> result[c] = "OK"
        /\ done # Nothing =>
              /\ done.after = sent
              /\ done.summary <=> wire[c].summary
              /\ done.step = snap[c].step
              /\ req[c].method = "Navigate" =>
                    done.crumb = snap[c].crumb /\ done.edges = snap[c].edges

\* All of the narration e of step s was put on the wire by the call that generated
\* it, which is past the point where it would send more of it.
Delivered(e, s) ==
    /\ pc[e.by] \in {"complete", "returned"}
    /\ hit[e.by] = Nothing
    /\ snap[e.by].step = s
    /\ wire[e.by].tokens = Tokens(e.by, e.tokens)
    /\ e.summary <=> wire[e.by].summary

\* The entry a handler replays, which the cache may no longer hold, was delivered for
\* the step the handler has moved to.
HitOK(c) == hit[c] # Nothing => Delivered(hit[c], snap[c].step)

\* What a Navigate call copied describes one moment of the session.
Moment(dest, copied) ==
    /\ Explains(dest, copied.crumb, copied.step)
    /\ Append(copied.crumb, copied.step)[1] = EntryID
    /\ copied.edges = NavigableEdges([current |-> copied.step])

MomentOK(c) ==
    /\ pc[c] \in {"lookup", "replay", "drain", "complete"} \/ result[c] = "OK"
    /\ req[c].method = "Navigate"
    => Moment(req[c].dest, snap[c])

NarrationInv ==
    /\ NarrationTypeOK
    /\ wire \in [Calls -> Wires]
    /\ SoundWalk(walker)
    /\ \A s \in Steps : cache[s] # Nothing => Delivered(cache[s], s)
    /\ \A c \in Calls :
          HandlerOK(c) /\ StreamOK(c) /\ WireOK(c) /\ HitOK(c) /\ MomentOK(c)

--------------------------------------------------------------------------------
(* The values *)

\* The first tokens of an answer are a sequence of that length, and the next token of
\* the same answer prolongs it.
LEMMA TokensGrow ==
  ASSUME NEW src \in Calls, NEW n \in Nat
  PROVE  /\ Tokens(src, n) \in Seq([src : Calls, n : Nat])
         /\ Len(Tokens(src, n)) = n
         /\ Append(Tokens(src, n), Token(src, n + 1)) = Tokens(src, n + 1)
<1>1. /\ Tokens(src, n) \in Seq([src : Calls, n : Nat])
      /\ Len(Tokens(src, n)) = n
  BY DEF Tokens, Token
<1>2. /\ Tokens(src, n + 1) \in Seq([src : Calls, n : Nat])
      /\ Len(Tokens(src, n + 1)) = n + 1
  BY DEF Tokens, Token
<1>3. Token(src, n + 1) \in [src : Calls, n : Nat]
  BY DEF Token
<1>4. ASSUME NEW i \in 1..(n + 1)
      PROVE  Append(Tokens(src, n), Token(src, n + 1))[i] = Tokens(src, n + 1)[i]
  <2>1. Tokens(src, n + 1)[i] = Token(src, i)
    BY DEF Tokens
  <2>2. i \in 1..n => Tokens(src, n)[i] = Token(src, i)
    BY DEF Tokens
  <2> QED
    BY <1>1, <1>3, <2>1, <2>2
<1>5. /\ Append(Tokens(src, n), Token(src, n + 1)) \in Seq([src : Calls, n : Nat])
      /\ Len(Append(Tokens(src, n), Token(src, n + 1))) = n + 1
  BY <1>1, <1>3
<1> QED
  BY <1>1, <1>2, <1>4, <1>5

\* A Navigate request keeps the walk sound and, when it succeeds, moves it to a step
\* that the breadcrumb and the request account for.
LEMMA TravelSound ==
  ASSUME NEW w, SoundWalk(w), NEW dest \in Destination
  PROVE  LET r == Travel(w, dest) IN
         /\ SoundWalk(r.walker)
         /\ r.ok \in BOOLEAN
         /\ r.ok => /\ r.walker.current \in Steps
                    /\ Explains(dest, r.walker.breadcrumb, r.walker.current)
<1> DEFINE r == Travel(w, dest)
<1>w. w.breadcrumb \in Seq(IDs) /\ w.current \in IDs
  BY DEF SoundWalk, Walkers
<1>1. dest.kind \in {"forward", "back", "none", "step", "edge"}
  BY DEF Destination
<1>2. ASSUME NEW label, r = FollowEdgeLabel(w, label), dest.kind \in {"forward", "edge"}
      PROVE  /\ SoundWalk(r.walker)
             /\ r.ok \in BOOLEAN
             /\ r.ok => /\ r.walker.current \in Steps
                        /\ Explains(dest, r.walker.breadcrumb, r.walker.current)
  <2> HIDE DEF r
  <2>1. SoundWalk(r.walker) /\ r.ok \in BOOLEAN
    BY <1>2, FollowSound
  <2>2. SUFFICES ASSUME r.ok
                 PROVE  /\ r.walker.current \in Steps
                        /\ Explains(dest, r.walker.breadcrumb, r.walker.current)
    BY <2>1
  <2>3. /\ r.walker.breadcrumb = Append(w.breadcrumb, w.current)
        /\ NavigableEdgeTo(w.current, r.walker.current)
    BY <1>2, <2>2, FollowTakesAnEdge
  <2>4. /\ r.walker.breadcrumb # << >>
        /\ r.walker.breadcrumb[Len(r.walker.breadcrumb)] = w.current
    BY <1>w, <2>3
  <2>5. Explains(dest, r.walker.breadcrumb, r.walker.current)
    BY <1>2, <2>3, <2>4 DEF Explains
  <2>6. r.walker.current \in Steps
    <3>1. PICK target \in Steps : Trail(r.walker) = Append(Trail(w), target)
      BY <1>2, <2>2, FollowSound
    <3>2. r.walker.breadcrumb \in Seq(IDs) /\ r.walker.current \in IDs /\ Trail(w) \in Seq(IDs)
      BY <1>w, <2>1 DEF SoundWalk, Walkers, Trail
    <3>3. target \in IDs
      BY GraphAssumption
    <3>4. Append(r.walker.breadcrumb, r.walker.current) = Append(Trail(w), target)
      BY <3>1 DEF Trail
    <3>5. r.walker.current = target
      BY <3>2, <3>3, <3>4
    <3> QED
      BY <3>5
  <2> QED
    BY <2>5, <2>6
<1>3. CASE dest.kind = "forward"
  BY <1>2, <1>3 DEF Travel, Forward
<1>4. CASE dest.kind = "edge"
  BY <1>2, <1>4 DEF Travel
<1>5. CASE dest.kind = "back"
  <2>1. r = Back(w)
    BY <1>5 DEF Travel
  <2>2. SoundWalk(Back(w).walker) /\ Back(w).ok \in BOOLEAN
    BY BackSound
  <2>3. Back(w).ok => Back(w).walker.current \in Steps
    BY DEF Back, Moved, Refused, HasStep
  <2>4. Explains(dest, Back(w).walker.breadcrumb, Back(w).walker.current)
    BY <1>5 DEF Explains
  <2> QED
    BY <2>1, <2>2, <2>3, <2>4
<1>6. CASE dest.kind = "step"
  <2>1. r = GoTo(w, dest.id)
    BY <1>6 DEF Travel
  <2>2. SoundWalk(GoTo(w, dest.id).walker) /\ GoTo(w, dest.id).ok \in BOOLEAN
    BY GoToSound
  <2>3. GoTo(w, dest.id).ok => /\ dest.id \in Steps
                               /\ GoTo(w, dest.id).walker.current = dest.id
                               /\ GoTo(w, dest.id).walker.breadcrumb # << >>
    <3>1. Append(w.breadcrumb, w.current) # << >>
      BY <1>w
    <3> QED
      BY <3>1 DEF GoTo, Moved, Refused, HasStep
  <2>4. GoTo(w, dest.id).ok => Explains(dest, r.walker.breadcrumb, r.walker.current)
    BY <1>6, <2>1, <2>3 DEF Explains
  <2> QED
    BY <2>1, <2>2, <2>3, <2>4
<1>7. CASE dest.kind = "none"
  BY <1>7 DEF Travel, Refused
<1> QED
  BY <1>1, <1>3, <1>4, <1>5, <1>6, <1>7

\* What a handler copies under the mutex is a step, a breadcrumb that begins at the entry
\* step and the edges on offer at this very step.
LEMMA SnapshotSound ==
  ASSUME NEW w, SoundWalk(w)
  PROVE  LET copied == Snapshot(w) IN
         /\ copied \in Snapshots
         /\ copied.step = w.current /\ copied.crumb = w.breadcrumb
         /\ Append(copied.crumb, copied.step)[1] = EntryID
         /\ copied.edges = NavigableEdges([current |-> copied.step])
<1>1. w.breadcrumb \in Seq(IDs) /\ w.current \in IDs
  BY DEF SoundWalk, Walkers
<1>2. Append(w.breadcrumb, w.current)[1] = EntryID
  BY DEF SoundWalk, StartsAtEntry, Trail
<1>3. NavigableEdges(w) = NavigableEdges([current |-> w.current])
  BY DEF NavigableEdges
<1>4. NavigableEdges(w) \in Seq(Edge)
  BY NavigableEdgesType
<1> QED
  BY <1>1, <1>2, <1>3, <1>4 DEF Snapshot, Snapshots

--------------------------------------------------------------------------------
(* The types *)

\* What a handler sends last is a StepComplete.
LEMMA CompleteEventType ==
  ASSUME NarrationTypeOK, wire \in [Calls -> Wires],
         NEW c \in Calls, HandlerOK(c), pc[c] = "complete"
  PROVE  /\ CompleteEvent(c) \in CompleteEvents
         /\ CompleteEvent(c).step = snap[c].step
         /\ CompleteEvent(c).after = Len(wire[c].tokens)
         /\ req[c].method = "Navigate" =>
              /\ CompleteEvent(c).crumb = snap[c].crumb
              /\ CompleteEvent(c).edges = snap[c].edges
<1>1. /\ snap[c] \in Snapshots
      /\ hit[c] # Nothing => hit[c] \in CachedStep
      /\ Len(wire[c].tokens) \in Nat
  BY DEF HandlerOK, NarrationTypeOK, Wires
<1>2. ASSUME NEW b \in BOOLEAN
      PROVE  /\ StepComplete(c, b) \in CompleteEvents
             /\ StepComplete(c, b).step = snap[c].step
             /\ StepComplete(c, b).crumb = snap[c].crumb
             /\ StepComplete(c, b).edges = snap[c].edges
             /\ StepComplete(c, b).after = Len(wire[c].tokens)
  BY <1>1 DEF StepComplete, Snapshots, CompleteEvents
<1>3. CASE req[c].method = "ExpandTerm"
  <2>0. hit[c] = Nothing
    BY <1>3 DEF HandlerOK
  <2>1. CompleteEvent(c) = TermComplete(c)
    BY <1>3, <2>0 DEF CompleteEvent
  <2>2. << >> \in Seq(IDs) /\ << >> \in Seq(Edge)
    OBVIOUS
  <2>3. /\ TermComplete(c) \in CompleteEvents
        /\ TermComplete(c).step = snap[c].step
        /\ TermComplete(c).after = Len(wire[c].tokens)
    BY <1>2, <2>2 DEF TermComplete, CompleteEvents
  <2> QED
    BY <1>3, <2>1, <2>3
<1>4. CASE req[c].method # "ExpandTerm" /\ hit[c] # Nothing
  BY <1>1, <1>2, <1>4 DEF CompleteEvent, CachedStep
<1>5. CASE req[c].method # "ExpandTerm" /\ hit[c] = Nothing
  BY <1>2, <1>5 DEF CompleteEvent
<1> QED
  BY <1>3, <1>4, <1>5

\* A session that was just opened has its type.
LEMMA InitialTypes == Init => NarrationTypeOK /\ wire \in [Calls -> Wires]
  BY NarrationAssumption, NewWalkerSound
     DEF Init, NarrationTypeOK, Points, Statuses, Streams, Wires, SoundWalk, NoStream, NoEvents

\* The types of what Goto and Return assign.
ControlTypes ==
    /\ pc \in [Calls -> Points]
    /\ result \in [Calls -> Statuses]
    /\ ctxDone \in [Calls -> BOOLEAN]

\* A handler that goes on keeps them, and so does one that returns.
LEMMA GotoTypes ==
  ASSUME NarrationTypeOK, NEW c \in Calls, NEW label \in Points,
         Goto(c, label), UNCHANGED << result, ctxDone >>
  PROVE  ControlTypes'
  BY DEF NarrationTypeOK, ControlTypes, Goto

LEMMA ReturnTypes ==
  ASSUME NarrationTypeOK, NEW c \in Calls, NEW status \in Statuses, Return(c, status)
  PROVE  ControlTypes'
  BY DEF NarrationTypeOK, ControlTypes, Return, Points

\* A Send of something in order, or one that fails.
LEMMA SendTypes ==
  ASSUME NarrationTypeOK, wire \in [Calls -> Wires], NEW c \in Calls,
         NEW events \in Wires, NEW label \in Points,
         Send(c, events, label) \/ SendFails(c)
  PROVE  ControlTypes' /\ wire' \in [Calls -> Wires]
<1>1. CASE Send(c, events, label)
  BY <1>1, GotoTypes DEF Send
<1>2. CASE SendFails(c)
  BY <1>2, ReturnTypes DEF SendFails, Statuses
<1> QED
  BY <1>1, <1>2

\* Tokens and a summary are in order.
LEMMA SentTypes ==
  ASSUME wire \in [Calls -> Wires], NEW c \in Calls
  PROVE  /\ wire[c].tokens \in Seq([src : Calls, n : Nat])
         /\ Len(wire[c].tokens) \in Nat
         /\ SentSummary(c) \in Wires
         /\ \A src \in Calls, n \in Nat : SentToken(c, Token(src, n + 1)) \in Wires
<1>1. wire[c] \in Wires
  OBVIOUS
<1>2. wire[c].tokens \in Seq([src : Calls, n : Nat])
  BY <1>1 DEF Wires
<1>3. SentSummary(c) \in Wires
  BY <1>1 DEF SentSummary, Wires
<1>4. ASSUME NEW src \in Calls, NEW n \in Nat
      PROVE  SentToken(c, Token(src, n + 1)) \in Wires
  <2>1. Token(src, n + 1) \in [src : Calls, n : Nat]
    BY DEF Token
  <2>2. Append(wire[c].tokens, Token(src, n + 1)) \in Seq([src : Calls, n : Nat])
    BY <1>2, <2>1
  <2> QED
    BY <1>1, <2>2 DEF SentToken, Wires
<1> QED
  BY <1>2, <1>3, <1>4

\* What a receiver and the token goroutine make of a stream is one again.
LEMMA StreamTypes ==
  ASSUME NarrationTypeOK, NEW c \in Calls
  PROVE  LET st == stream[c] IN
         /\ NewStream \in Streams /\ NewStream.sent - NewStream.got \in 0..ChanCap
         /\ st \in Streams /\ st.sent - st.got \in 0..ChanCap
         /\ [st EXCEPT !.open = FALSE] \in Streams
         /\ st.got < st.sent =>
              /\ [st EXCEPT !.got = @ + 1] \in Streams
              /\ st.sent - (st.got + 1) \in 0..ChanCap
         /\ st.sent < NTokens /\ st.sent - st.got < ChanCap =>
              /\ [st EXCEPT !.state = "next", !.sent = @ + 1] \in Streams
              /\ (st.sent + 1) - st.got \in 0..ChanCap
<1>1. stream[c] \in Streams /\ stream[c].sent - stream[c].got \in 0..ChanCap
  BY DEF NarrationTypeOK
<1>2. NewStream \in Streams /\ NewStream.sent - NewStream.got \in 0..ChanCap
  <2>1. NoStream \in Streams /\ NoStream.sent = 0 /\ NoStream.got = 0
    BY NarrationAssumption DEF Streams, NoStream
  <2>2. NewStream \in Streams /\ NewStream.sent = 0 /\ NewStream.got = 0
    BY <2>1 DEF Streams, NewStream
  <2> QED
    BY <2>2, NarrationAssumption
<1>3. [stream[c] EXCEPT !.open = FALSE] \in Streams
  BY <1>1 DEF Streams
<1>4. ASSUME stream[c].got < stream[c].sent
      PROVE  /\ [stream[c] EXCEPT !.got = @ + 1] \in Streams
             /\ stream[c].sent - (stream[c].got + 1) \in 0..ChanCap
  <2>1. stream[c].got + 1 \in 0..NTokens
    BY <1>1, <1>4, NarrationAssumption DEF Streams
  <2> QED
    BY <1>1, <1>4, <2>1, NarrationAssumption DEF Streams
<1>5. ASSUME stream[c].sent < NTokens, stream[c].sent - stream[c].got < ChanCap
      PROVE  /\ [stream[c] EXCEPT !.state = "next", !.sent = @ + 1] \in Streams
             /\ (stream[c].sent + 1) - stream[c].got \in 0..ChanCap
  <2>1. stream[c].sent + 1 \in 0..NTokens
    BY <1>1, <1>5, NarrationAssumption DEF Streams
  <2>2. (stream[c].sent + 1) - stream[c].got \in 0..ChanCap
    BY <1>1, <1>5, NarrationAssumption DEF Streams
  <2>3. [stream[c] EXCEPT !.state = "next", !.sent = @ + 1] \in Streams
    BY <1>1, <2>1 DEF Streams
  <2> QED
    BY <2>2, <2>3
<1> QED
  BY <1>1, <1>2, <1>3, <1>4, <1>5

\* Every step keeps the types.  The points that are not the mere shape of an assignment
\* are the counters, which the guards of the token goroutine and of the receivers bound.
LEMMA StepTypes ==
  ASSUME NarrationInv, [Next]_vars
  PROVE  NarrationTypeOK' /\ wire' \in [Calls -> Wires]
<1> DEFINE Typed == NarrationTypeOK' /\ wire' \in [Calls -> Wires]
<1>0. NarrationTypeOK /\ wire \in [Calls -> Wires] /\ SoundWalk(walker)
  BY DEF NarrationInv
<1>c. \A c \in Calls : HandlerOK(c) /\ StreamOK(c)
  BY DEF NarrationInv
<1>1. CASE UNCHANGED vars
  BY <1>0, <1>1 DEF vars, handlerVars, providerVars, NarrationTypeOK
<1>2. CASE DropSession
  BY <1>0, <1>2 DEF DropSession, handlerVars, providerVars, NarrationTypeOK
<1>3. ASSUME NEW c \in Calls, RejectRequest(c)
      PROVE  Typed
  <2>1. ControlTypes'
    BY <1>0, <1>3, ReturnTypes DEF RejectRequest, Statuses
  <2> QED
    BY <1>0, <1>3, <2>1 DEF RejectRequest, ControlTypes, providerVars, NarrationTypeOK
<1>4. ASSUME NEW c \in Calls, NEW r \in Requests, StartCall(c, r)
      PROVE  Typed
  <2>1. ControlTypes'
    BY <1>0, <1>4, GotoTypes, ReturnTypes DEF StartCall, Points, Statuses
  <2> QED
    BY <1>0, <1>4, <2>1, NarrationAssumption
       DEF StartCall, ControlTypes, providerVars, NarrationTypeOK
<1>5. ASSUME NEW c \in Calls, CancelCall(c)
      PROVE  Typed
  BY <1>0, <1>5 DEF CancelCall, handlerVars, providerVars, NarrationTypeOK
<1>6. ASSUME NEW c \in Calls, NavigateMove(c)
      PROVE  Typed
  <2> DEFINE r == Travel(walker, req[c].dest)
  <2>1. req[c].dest \in Destination
    BY <1>0, <1>c, <1>6 DEF NavigateMove, HandlerOK, Request
  <2>2. SoundWalk(r.walker)
    BY <1>0, <2>1, TravelSound
  <2>3. /\ walker' = r.walker
        /\ snap' = [snap EXCEPT ![c] = Snapshot(r.walker)] \/ snap' = snap
        /\ \/ Goto(c, "lookup") /\ UNCHANGED << result, ctxDone >>
           \/ Return(c, "InvalidArgument")
        /\ UNCHANGED << registered, cache, req, hit, providerVars, wire >>
    BY <1>6 DEF NavigateMove
  <2> HIDE DEF r
  <2>4. r.walker \in Walkers /\ Snapshot(r.walker) \in Snapshots
    BY <2>2, SnapshotSound DEF SoundWalk
  <2>5. ControlTypes'
    BY <1>0, <2>3, GotoTypes, ReturnTypes DEF Points, Statuses
  <2>6. snap' \in [Calls -> Snapshots \cup {Nothing}]
    BY <1>0, <2>3, <2>4 DEF NarrationTypeOK
  <2> QED
    BY <1>0, <2>3, <2>4, <2>5, <2>6 DEF ControlTypes, providerVars, NarrationTypeOK
<1>7. ASSUME NEW c \in Calls, CacheHit(c)
      PROVE  Typed
  <2>1. ControlTypes'
    BY <1>0, <1>7, GotoTypes DEF CacheHit, Points
  <2>2. cache[snap[c].step] \in CachedStep
    BY <1>0, <1>c, <1>7 DEF CacheHit, HandlerOK, NarrationTypeOK
  <2> QED
    BY <1>0, <1>7, <2>1, <2>2 DEF CacheHit, ControlTypes, providerVars, NarrationTypeOK
<1>8. ASSUME NEW c \in Calls, CacheMiss(c)
      PROVE  Typed
  <2>1. ControlTypes'
    BY <1>0, <1>8, GotoTypes, ReturnTypes DEF CacheMiss, Points, Statuses
  <2>2. /\ stream' \in [Calls -> Streams]
        /\ \A d \in Calls : stream'[d].sent - stream'[d].got \in 0..ChanCap
    <3>1. stream' = [stream EXCEPT ![c] = NewStream] \/ stream' = stream
      BY <1>8 DEF CacheMiss
    <3> QED
      BY <1>0, <3>1, StreamTypes DEF NarrationTypeOK
  <2>3. /\ prompt' \in [Calls -> {"none", "empty", "raw", "slice"}]
        /\ summary' \in [Calls -> {"none", "running", "value", "nil", "taken", "takenNil"}]
    BY <1>0, <1>8 DEF CacheMiss, NavigateCode, SourceCode, NarrationTypeOK
  <2> QED
    BY <1>0, <1>8, <2>1, <2>2, <2>3 DEF CacheMiss, ControlTypes, NarrationTypeOK
<1>9. ASSUME NEW c \in Calls, DrainCancelled(c)
      PROVE  Typed
  <2>1. ControlTypes'
    BY <1>0, <1>9, ReturnTypes DEF DrainCancelled, Statuses
  <2> QED
    BY <1>0, <1>9, <2>1 DEF DrainCancelled, ControlTypes, providerVars, NarrationTypeOK
<1>10. ASSUME NEW c \in Calls, DrainToken(c) \/ RangeToken(c)
       PROVE  Typed
  <2>1. /\ stream[c].got < stream[c].sent
        /\ stream' = [stream EXCEPT ![c].got = @ + 1]
        /\ UNCHANGED << registered, walker, cache, req, snap, hit, prompt, summary >>
    BY <1>10 DEF DrainToken, RangeToken
  <2>2. SentToken(c, Token(c, stream[c].got + 1)) \in Wires
    BY <1>0, SentTypes DEF NarrationTypeOK, Streams
  <2>3. ControlTypes' /\ wire' \in [Calls -> Wires]
    BY <1>0, <1>10, <2>2, SendTypes DEF DrainToken, RangeToken, Points
  <2>4. /\ stream' \in [Calls -> Streams]
        /\ \A d \in Calls : stream'[d].sent - stream'[d].got \in 0..ChanCap
    <3>1. stream' = [stream EXCEPT ![c] = [stream[c] EXCEPT !.got = @ + 1]]
      BY <2>1
    <3>2. /\ [stream[c] EXCEPT !.got = @ + 1] \in Streams
          /\ stream[c].sent - (stream[c].got + 1) \in 0..ChanCap
      BY <1>0, <2>1, StreamTypes
    <3>3. stream'[c].sent = stream[c].sent /\ stream'[c].got = stream[c].got + 1
      BY <1>0, <3>1 DEF NarrationTypeOK, Streams
    <3> QED
      BY <1>0, <3>1, <3>2, <3>3 DEF NarrationTypeOK
  <2> QED
    BY <1>0, <2>1, <2>3, <2>4 DEF ControlTypes, NarrationTypeOK
<1>11. ASSUME NEW c \in Calls, DrainClosed(c) \/ RangeClosed(c)
       PROVE  Typed
  <2>1. ControlTypes'
    BY <1>0, <1>11, GotoTypes
       DEF DrainClosed, RangeClosed, Points, handlerVars, ControlTypes, NarrationTypeOK
  <2>2. /\ stream' \in [Calls -> Streams]
        /\ \A d \in Calls : stream'[d].sent - stream'[d].got \in 0..ChanCap
    <3>1. stream' = [stream EXCEPT ![c] = [stream[c] EXCEPT !.open = FALSE]]
      BY <1>11 DEF DrainClosed, RangeClosed
    <3>2. [stream[c] EXCEPT !.open = FALSE] \in Streams
      BY <1>0, StreamTypes
    <3>3. stream'[c].sent = stream[c].sent /\ stream'[c].got = stream[c].got
      BY <1>0, <3>1 DEF NarrationTypeOK, Streams
    <3> QED
      BY <1>0, <3>1, <3>2, <3>3 DEF NarrationTypeOK
  <2> QED
    BY <1>0, <1>11, <2>1, <2>2 DEF DrainClosed, RangeClosed, handlerVars, ControlTypes, NarrationTypeOK
<1>12. ASSUME NEW c \in Calls, DrainSummary(c)
       PROVE  Typed
  <2>1. ControlTypes' /\ wire' \in [Calls -> Wires]
    <3>1. CASE UNCHANGED << pc, result, ctxDone, wire >>
      BY <1>0, <3>1 DEF ControlTypes, NarrationTypeOK
    <3>2. CASE Send(c, SentSummary(c), "drain") \/ SendFails(c)
      BY <1>0, <3>2, SentTypes, SendTypes DEF Points
    <3> QED
      BY <1>12, <3>1, <3>2 DEF DrainSummary
  <2>2. summary' \in [Calls -> {"none", "running", "value", "nil", "taken", "takenNil"}]
    BY <1>0, <1>12 DEF DrainSummary, NarrationTypeOK
  <2> QED
    BY <1>0, <1>12, <2>1, <2>2 DEF DrainSummary, ControlTypes, NarrationTypeOK
<1>13. ASSUME NEW c \in Calls, CacheNarration(c)
       PROVE  Typed
  <2>1. ControlTypes'
    BY <1>0, <1>13, GotoTypes DEF CacheNarration, Points
  <2>2. [by |-> c, tokens |-> stream[c].got, summary |-> summary[c] = "taken"] \in CachedStep
    BY <1>0 DEF NarrationTypeOK, Streams, CachedStep
  <2> QED
    BY <1>0, <1>13, <2>1, <2>2 DEF CacheNarration, ControlTypes, providerVars, NarrationTypeOK
<1>14. ASSUME NEW c \in Calls, ReplayToken(c)
       PROVE  Typed
  <2>1. hit[c] \in CachedStep
    BY <1>0, <1>c, <1>14 DEF ReplayToken, HandlerOK, NarrationTypeOK
  <2>2. SentToken(c, Token(hit[c].by, Len(wire[c].tokens) + 1)) \in Wires
    BY <1>0, <2>1, SentTypes DEF CachedStep
  <2>3. ControlTypes' /\ wire' \in [Calls -> Wires]
    BY <1>0, <1>14, <2>2, SendTypes DEF ReplayToken, Points
  <2> QED
    BY <1>0, <1>14, <2>3 DEF ReplayToken, ControlTypes, providerVars, NarrationTypeOK
<1>15. ASSUME NEW c \in Calls, ReplaySummary(c)
       PROVE  Typed
  <2>1. ControlTypes' /\ wire' \in [Calls -> Wires]
    <3>1. CASE Send(c, SentSummary(c), "complete") \/ SendFails(c)
      BY <1>0, <3>1, SentTypes, SendTypes DEF Points
    <3>2. CASE Goto(c, "complete") /\ UNCHANGED << result, ctxDone, wire >>
      BY <1>0, <3>2, GotoTypes DEF Points
    <3> QED
      BY <1>15, <3>1, <3>2 DEF ReplaySummary
  <2> QED
    BY <1>0, <1>15, <2>1 DEF ReplaySummary, ControlTypes, providerVars, NarrationTypeOK
<1>16. ASSUME NEW c \in Calls, RephraseSnapshot(c) \/ ExpandTermSnapshot(c)
       PROVE  Typed
  <2>1. Snapshot(walker) \in Snapshots
    BY <1>0, SnapshotSound
  <2>2. ControlTypes'
    BY <1>0, <1>16, GotoTypes, ReturnTypes
       DEF RephraseSnapshot, ExpandTermSnapshot, Points, Statuses
  <2>3. snap' \in [Calls -> Snapshots \cup {Nothing}]
    BY <1>0, <1>16, <2>1 DEF RephraseSnapshot, ExpandTermSnapshot, NarrationTypeOK
  <2> QED
    BY <1>0, <1>16, <2>2, <2>3
       DEF RephraseSnapshot, ExpandTermSnapshot, ControlTypes, providerVars, NarrationTypeOK
<1>17. ASSUME NEW c \in Calls, AskProvider(c)
       PROVE  Typed
  <2>1. ControlTypes'
    BY <1>0, <1>17, GotoTypes, ReturnTypes DEF AskProvider, Points, Statuses
  <2>2. /\ stream' \in [Calls -> Streams]
        /\ \A d \in Calls : stream'[d].sent - stream'[d].got \in 0..ChanCap
    <3>1. stream' = [stream EXCEPT ![c] = NewStream] \/ stream' = stream
      BY <1>17 DEF AskProvider
    <3> QED
      BY <1>0, <3>1, StreamTypes DEF NarrationTypeOK
  <2>3. prompt' \in [Calls -> {"none", "empty", "raw", "slice"}]
    BY <1>0, <1>17 DEF AskProvider, RephraseCode, ExpandTermCode, SourceCode, NarrationTypeOK
  <2> QED
    BY <1>0, <1>17, <2>1, <2>2, <2>3 DEF AskProvider, ControlTypes, NarrationTypeOK
<1>18. ASSUME NEW c \in Calls, SendComplete(c)
       PROVE  Typed
  <2>1. CompleteEvent(c) \in CompleteEvents
    BY <1>0, <1>c, <1>18, CompleteEventType DEF SendComplete
  <2>2. wire' \in [Calls -> Wires]
    BY <1>0, <1>18, <2>1 DEF SendComplete, SendFails, Wires
  <2>3. ControlTypes'
    BY <1>0, <1>18, ReturnTypes DEF SendComplete, SendFails, Statuses
  <2> QED
    BY <1>0, <1>18, <2>2, <2>3 DEF SendComplete, ControlTypes, providerVars, NarrationTypeOK
<1>19. ASSUME NEW c \in Calls, TokenGoroutine(c)
       PROVE  Typed
  <2>1. /\ stream' \in [Calls -> Streams]
        /\ \A d \in Calls : stream'[d].sent - stream'[d].got \in 0..ChanCap
    <3>1. stream[c] \in Streams /\ stream[c].sent - stream[c].got \in 0..ChanCap
      BY <1>0, StreamTypes
    <3>2. PICK st \in Streams : /\ stream' = [stream EXCEPT ![c] = st]
                                /\ st.sent - st.got \in 0..ChanCap
      <4>1. CASE ProviderRead(c) \/ ProviderEnd(c)
        <5>1. \/ stream' = [stream EXCEPT ![c] = [stream[c] EXCEPT !.state = "closed"]]
              \/ \E state \in {"sending", "closed"}, failed \in BOOLEAN :
                 stream' = [stream EXCEPT ![c] = [stream[c] EXCEPT !.state = state,
                                                                   !.failed = failed]]
          <6>1. ctxDone[c] \in BOOLEAN
            BY <1>0 DEF NarrationTypeOK
          <6>2. CASE ProviderRead(c)
            <7>1. stream' = [stream EXCEPT ![c] = [stream[c] EXCEPT
                     !.state = IF ctxDone[c] THEN "closed" ELSE "sending", !.failed = ctxDone[c]]]
              BY <6>2 DEF ProviderRead
            <7> QED
              BY <6>1, <7>1
          <6>3. CASE ProviderEnd(c)
            BY <6>3 DEF ProviderEnd
          <6> QED
            BY <4>1, <6>2, <6>3
        <5>2. \A state \in {"sending", "closed"}, failed \in BOOLEAN :
                LET st == [stream[c] EXCEPT !.state = state, !.failed = failed]
                IN  /\ st \in Streams
                    /\ st.sent = stream[c].sent /\ st.got = stream[c].got
          BY <3>1 DEF Streams
        <5>3. LET st == [stream[c] EXCEPT !.state = "closed"]
              IN  /\ st \in Streams
                  /\ st.sent = stream[c].sent /\ st.got = stream[c].got
          BY <3>1 DEF Streams
        <5> QED
          BY <3>1, <5>1, <5>2, <5>3
      <4>2. CASE ProviderPut(c)
        <5>1. stream[c].sent < NTokens /\ stream[c].sent - stream[c].got < ChanCap
          BY <1>c, <4>2 DEF ProviderPut, StreamOK
        <5> DEFINE st == [stream[c] EXCEPT !.state = "next", !.sent = @ + 1]
        <5>2. st \in Streams /\ (stream[c].sent + 1) - stream[c].got \in 0..ChanCap
          BY <1>0, <5>1, StreamTypes
        <5>3. st.sent = stream[c].sent + 1 /\ st.got = stream[c].got
          BY <3>1 DEF Streams
        <5>4. stream' = [stream EXCEPT ![c] = st]
          BY <4>2 DEF ProviderPut
        <5> QED
          BY <5>2, <5>3, <5>4
      <4> QED
        BY <1>19, <4>1, <4>2 DEF TokenGoroutine
    <3> QED
      BY <1>0, <3>2 DEF NarrationTypeOK
  <2> QED
    BY <1>0, <1>19, <2>1
       DEF TokenGoroutine, ProviderRead, ProviderPut, ProviderEnd, handlerVars, NarrationTypeOK
<1>20. ASSUME NEW c \in Calls, SummaryAnswer(c)
       PROVE  Typed
  BY <1>0, <1>20 DEF SummaryAnswer, handlerVars, NarrationTypeOK
<1> QED
  BY <1>1, <1>2, <1>3, <1>4, <1>5, <1>6, <1>7, <1>8, <1>9, <1>10, <1>11, <1>12, <1>13,
     <1>14, <1>15, <1>16, <1>17, <1>18, <1>19, <1>20
     DEF Next, Handler, Environment

--------------------------------------------------------------------------------
(* One call *)

\* All that a call's own steps must keep.
CallOK(c) == HandlerOK(c) /\ StreamOK(c) /\ WireOK(c) /\ MomentOK(c)

\* A step that is not one of call d's leaves it alone.
Untouched(d) ==
    UNCHANGED << pc[d], req[d], snap[d], hit[d], result[d], stream[d], summary[d], wire[d] >>

\* A call that others may replay stays so, and sends nothing that they would have to send.
Settled(d) ==
    pc[d] \in {"complete", "returned"} =>
        /\ pc'[d] \in {"complete", "returned"}
        /\ UNCHANGED << hit[d], snap[d], wire[d].tokens, wire[d].summary >>

\* A call that a step leaves alone keeps what it promised.
LEMMA UntouchedCall ==
  ASSUME NEW d \in Calls, CallOK(d), Untouched(d)
  PROVE  CallOK(d)' /\ Settled(d)
<1> USE DEF Untouched
<1>1. HandlerOK(d)'
  BY DEF CallOK, HandlerOK
<1>2. StreamOK(d)'
  BY DEF CallOK, StreamOK
<1>3. WireOK(d)'
  BY DEF CallOK, WireOK, SourceOf
<1>4. MomentOK(d)'
  BY DEF CallOK, MomentOK
<1>5. Settled(d)
  BY DEF Settled
<1> QED
  BY <1>1, <1>2, <1>3, <1>4, <1>5 DEF CallOK

\* What one call does.
CallStep(c) == Handler(c) \/ TokenGoroutine(c) \/ SummaryAnswer(c) \/ Environment(c)

\* Whatever one call's handler, goroutines and client do leaves every other call alone.
LEMMA OthersUntouched ==
  ASSUME NarrationTypeOK, wire \in [Calls -> Wires],
         NEW c \in Calls, NEW d \in Calls, d # c, CallStep(c)
  PROVE  Untouched(d)
<1>1. ASSUME NEW label, Goto(c, label)
      PROVE  pc'[d] = pc[d]
  BY <1>1 DEF Goto, NarrationTypeOK
<1>2. ASSUME NEW status, Return(c, status)
      PROVE  pc'[d] = pc[d] /\ result'[d] = result[d]
  BY <1>2 DEF Return, NarrationTypeOK
<1>3. ASSUME NEW events, NEW label, Send(c, events, label) \/ SendFails(c)
      PROVE  pc'[d] = pc[d] /\ result'[d] = result[d] /\ wire'[d] = wire[d]
  BY <1>1, <1>2, <1>3 DEF Send, SendFails, NarrationTypeOK
<1> USE DEF NarrationTypeOK, handlerVars, providerVars, Untouched
<1>4. CASE \/ RejectRequest(c) \/ CancelCall(c) \/ \E r \in Requests : StartCall(c, r)
  BY <1>1, <1>2, <1>4 DEF RejectRequest, CancelCall, StartCall
<1>5. CASE NavigateMove(c)
  BY <1>1, <1>2, <1>5 DEF NavigateMove
<1>6. CASE CacheHit(c) \/ CacheNarration(c)
  BY <1>1, <1>6 DEF CacheHit, CacheNarration
<1>7. CASE CacheMiss(c) \/ AskProvider(c)
  BY <1>1, <1>2, <1>7 DEF CacheMiss, AskProvider
<1>8. CASE DrainCancelled(c) \/ DrainClosed(c) \/ RangeClosed(c)
  BY <1>1, <1>2, <1>8 DEF DrainCancelled, DrainClosed, RangeClosed
<1>9. CASE DrainToken(c) \/ RangeToken(c) \/ ReplayToken(c)
  BY <1>3, <1>9 DEF DrainToken, RangeToken, ReplayToken
<1>10. CASE DrainSummary(c) \/ ReplaySummary(c)
  BY <1>1, <1>3, <1>10 DEF DrainSummary, ReplaySummary
<1>11. CASE RephraseSnapshot(c) \/ ExpandTermSnapshot(c)
  BY <1>1, <1>2, <1>11 DEF RephraseSnapshot, ExpandTermSnapshot
<1>12. CASE SendComplete(c)
  BY <1>2, <1>12 DEF SendComplete, SendFails
<1>13. CASE TokenGoroutine(c)
  BY <1>13 DEF TokenGoroutine, ProviderRead, ProviderPut, ProviderEnd
<1>14. CASE SummaryAnswer(c)
  BY <1>14 DEF SummaryAnswer
<1> QED
  BY <1>4, <1>5, <1>6, <1>7, <1>8, <1>9, <1>10, <1>11, <1>12, <1>13, <1>14
     DEF CallStep, Handler, Environment

\* A call that ends with an error has sent what it has sent, and no StepComplete.
LEMMA CallFails ==
  ASSUME NEW c \in Calls, CallOK(c), pc[c] # "returned",
         pc'[c] = "returned", result'[c] \notin {"OK", "pending"},
         UNCHANGED << wire[c], hit[c] >>,
         hit[c] # Nothing => req'[c].method = "Navigate",
         summary'[c] # "none" => req'[c].method = "Navigate",
         UNCHANGED << stream[c].state, stream[c].sent >>,
         pc[c] = "complete" => UNCHANGED snap[c]
  PROVE  CallOK(c)' /\ Settled(c)
<1>1. HandlerOK(c) /\ StreamOK(c) /\ WireOK(c) /\ result[c] # "OK"
  BY DEF CallOK, HandlerOK
<1>2. HandlerOK(c)'
  BY DEF HandlerOK
<1>3. StreamOK(c)'
  BY <1>1 DEF StreamOK
<1>4. WireOK(c)'
  BY <1>1 DEF WireOK, SourceOf
<1>5. MomentOK(c)'
  BY DEF MomentOK
<1>6. Settled(c)
  BY DEF Settled
<1> QED
  BY <1>2, <1>3, <1>4, <1>5, <1>6 DEF CallOK

\* A token that continues the answer of a call leaves its wire in order.
LEMMA TokenSent ==
  ASSUME wire \in [Calls -> Wires], NEW c \in Calls, NEW src \in Calls,
         wire[c].tokens = Tokens(src, Len(wire[c].tokens)),
         wire'[c] = SentToken(c, Token(src, Len(wire[c].tokens) + 1))
  PROVE  /\ Len(wire'[c].tokens) = Len(wire[c].tokens) + 1
         /\ wire'[c].tokens = Tokens(src, Len(wire'[c].tokens))
         /\ UNCHANGED << wire[c].summary, wire[c].complete >>
<1> DEFINE n == Len(wire[c].tokens)
<1>1. wire[c] \in Wires /\ n \in Nat
  BY SentTypes
<1>2. /\ wire'[c].tokens = Append(wire[c].tokens, Token(src, n + 1))
      /\ UNCHANGED << wire[c].summary, wire[c].complete >>
  BY <1>1 DEF SentToken, Wires
<1>3. wire'[c].tokens = Append(Tokens(src, n), Token(src, n + 1))
  BY <1>2
<1>4. wire'[c].tokens = Tokens(src, n + 1)
  BY <1>1, <1>3, TokensGrow
<1>5. Len(Tokens(src, n + 1)) = n + 1
  BY <1>1, TokensGrow
<1> QED
  BY <1>2, <1>4, <1>5

\* A session with steps stands on one.
LEMMA SoundWalkOnStep ==
  ASSUME NEW w, SoundWalk(w), Steps # {}
  PROVE  w.current \in Steps
<1>1. w.breadcrumb \in Seq(IDs) /\ w.current \in IDs
  BY DEF SoundWalk, Walkers
<1> DEFINE n == Len(w.breadcrumb) + 1
<1>2. /\ Append(w.breadcrumb, w.current)[n] = w.current
      /\ n \in DOMAIN Append(w.breadcrumb, w.current)
  BY <1>1
<1>3. \A i \in DOMAIN Append(w.breadcrumb, w.current) :
         Append(w.breadcrumb, w.current)[i] \in Steps
  BY DEF SoundWalk, StaysInGraph, Trail
<1> QED
  BY <1>2, <1>3

\* StepComplete carries the summary exactly when SummaryReady went before it.
LEMMA CompleteSummary ==
  ASSUME NarrationTypeOK, wire \in [Calls -> Wires],
         NEW c \in Calls, HandlerOK(c), WireOK(c), pc[c] = "complete"
  PROVE  CompleteEvent(c).summary <=> wire[c].summary
<1>1. ASSUME NEW b \in BOOLEAN
      PROVE  StepComplete(c, b).summary = b
  BY DEF StepComplete
<1>2. CASE req[c].method = "ExpandTerm"
  <2>1. hit[c] = Nothing /\ summary[c] = "none"
    BY <1>2 DEF HandlerOK
  <2>2. ~wire[c].summary
    BY <2>1 DEF WireOK
  <2>3. CompleteEvent(c) = TermComplete(c)
    BY <1>2, <2>1 DEF CompleteEvent
  <2>4. TermComplete(c).summary = FALSE
    BY <1>1 DEF TermComplete, StepComplete
  <2> QED
    BY <2>2, <2>3, <2>4
<1>3. CASE req[c].method # "ExpandTerm" /\ hit[c] # Nothing
  <2>1. CompleteEvent(c) = StepComplete(c, hit[c].summary) /\ hit[c] \in CachedStep
    BY <1>3 DEF CompleteEvent, NarrationTypeOK
  <2>2. CompleteEvent(c).summary = hit[c].summary
    BY <1>1, <2>1 DEF CachedStep
  <2> QED
    BY <1>3, <2>2 DEF WireOK
<1>4. CASE req[c].method # "ExpandTerm" /\ hit[c] = Nothing
  <2>1. CompleteEvent(c) = StepComplete(c, summary[c] = "taken")
    BY <1>4 DEF CompleteEvent
  <2>2. CompleteEvent(c).summary = (summary[c] = "taken")
    BY <1>1, <2>1
  <2> QED
    BY <1>4, <2>2 DEF WireOK
<1> QED
  BY <1>2, <1>3, <1>4

\* Every step of a call keeps what its handler, its goroutines and its wire promise.
LEMMA OwnStep ==
  ASSUME NarrationInv, NEW c \in Calls, CallStep(c)
  PROVE  CallOK(c)' /\ Settled(c)
<1>0. /\ NarrationTypeOK /\ wire \in [Calls -> Wires] /\ SoundWalk(walker)
      /\ CallOK(c)
  BY DEF NarrationInv, CallOK
<1>a. HandlerOK(c) /\ StreamOK(c) /\ WireOK(c) /\ MomentOK(c)
  BY <1>0 DEF CallOK
<1>b. ASSUME NEW label, Goto(c, label)
      PROVE  pc'[c] = label
  BY <1>0, <1>b DEF Goto, NarrationTypeOK
<1>d. ASSUME NEW status, Return(c, status)
      PROVE  pc'[c] = "returned" /\ result'[c] = status
  BY <1>0, <1>d DEF Return, NarrationTypeOK
<1>e. ASSUME SendFails(c)
      PROVE  pc'[c] = "returned" /\ result'[c] = "Canceled" /\ wire'[c] = wire[c]
  BY <1>d, <1>e DEF SendFails
<1>f. ASSUME NEW events, NEW label, Send(c, events, label)
      PROVE  pc'[c] = label /\ wire'[c] = events /\ result'[c] = result[c]
  BY <1>0, <1>b, <1>f DEF Send, NarrationTypeOK
<1>1. CASE RejectRequest(c)
  <2>1. /\ pc[c] = "idle" /\ pc'[c] = "returned" /\ result'[c] = "InvalidArgument"
        /\ UNCHANGED << req[c], snap[c], hit[c], stream[c], summary[c], wire[c] >>
    BY <1>1, <1>d DEF RejectRequest, providerVars
  <2> QED
    BY <1>0, <1>a, <2>1, CallFails DEF HandlerOK
<1>2. ASSUME NEW r \in Requests, StartCall(c, r)
      PROVE  CallOK(c)' /\ Settled(c)
  <2>1. /\ pc[c] = "idle" /\ req'[c] = r
        /\ UNCHANGED << snap[c], hit[c], stream[c], summary[c], wire[c] >>
    BY <1>0, <1>2 DEF StartCall, providerVars, NarrationTypeOK
  <2>2. CASE Return(c, "NotFound")
    BY <1>0, <1>a, <1>d, <2>1, <2>2, CallFails DEF HandlerOK
  <2>3. CASE Goto(c, "got") /\ UNCHANGED << result, ctxDone >>
    <3>1. pc'[c] = "got" /\ result'[c] = result[c] /\ r \in Request
      BY <1>b, <2>3, NarrationAssumption
    <3>2. HandlerOK(c)'
      BY <1>a, <2>1, <3>1 DEF HandlerOK, NoEvents, NoStream
    <3>3. StreamOK(c)' /\ WireOK(c)' /\ MomentOK(c)' /\ Settled(c)
      BY <1>a, <2>1, <3>1 DEF StreamOK, HandlerOK, WireOK, SourceOf, MomentOK, Settled
    <3> QED
      BY <3>2, <3>3 DEF CallOK
  <2> QED
    BY <1>2, <2>2, <2>3 DEF StartCall
<1>3. CASE CancelCall(c)
  BY <1>0, <1>3, UntouchedCall DEF CancelCall, Untouched, handlerVars, providerVars
<1>4. CASE NavigateMove(c)
  <2> DEFINE r == Travel(walker, req[c].dest)
  <2>1. req[c].dest \in Destination
    BY <1>a, <1>4 DEF NavigateMove, HandlerOK, Request
  <2>2. /\ SoundWalk(r.walker)
        /\ r.ok => /\ r.walker.current \in Steps
                   /\ Explains(req[c].dest, r.walker.breadcrumb, r.walker.current)
    BY <1>0, <2>1, TravelSound
  <2>3. /\ pc[c] = "got" /\ req[c].method = "Navigate"
        /\ UNCHANGED << req[c], hit[c], stream[c], summary[c], wire[c] >>
        /\ \/ /\ r.ok /\ snap' = [snap EXCEPT ![c] = Snapshot(r.walker)]
              /\ Goto(c, "lookup") /\ UNCHANGED << result, ctxDone >>
           \/ Return(c, "InvalidArgument")
    BY <1>4 DEF NavigateMove, providerVars
  <2> HIDE DEF r
  <2>4. CASE Return(c, "InvalidArgument")
    BY <1>0, <1>a, <1>d, <2>3, <2>4, CallFails DEF HandlerOK
  <2>5. CASE /\ r.ok /\ snap' = [snap EXCEPT ![c] = Snapshot(r.walker)]
             /\ Goto(c, "lookup") /\ UNCHANGED << result, ctxDone >>
    <3>1. pc'[c] = "lookup" /\ result'[c] = result[c] /\ snap'[c] = Snapshot(r.walker)
      BY <1>0, <1>b, <2>5 DEF NarrationTypeOK
    <3>2. /\ snap'[c] \in Snapshots /\ snap'[c].step \in Steps
          /\ Moment(req[c].dest, snap'[c])
      BY <2>2, <2>5, <3>1, SnapshotSound DEF Moment
    <3>3. HandlerOK(c)'
      BY <1>a, <2>3, <3>1, <3>2 DEF HandlerOK, NoEvents, NoStream
    <3>4. MomentOK(c)'
      BY <2>3, <3>2 DEF MomentOK, Moment
    <3>5. StreamOK(c)' /\ WireOK(c)' /\ Settled(c)
      BY <1>a, <2>3, <3>1 DEF HandlerOK, StreamOK, WireOK, SourceOf, Settled
    <3> QED
      BY <3>3, <3>4, <3>5 DEF CallOK
  <2> QED
    BY <2>3, <2>4, <2>5
<1>5. CASE CacheHit(c)
  <2>1. /\ pc[c] = "lookup" /\ pc'[c] = "replay" /\ hit'[c] = cache[snap[c].step]
        /\ hit'[c] # Nothing
        /\ UNCHANGED << req[c], snap[c], result[c], stream[c], summary[c], wire[c] >>
    BY <1>0, <1>b, <1>5 DEF CacheHit, providerVars, NarrationTypeOK
  <2>2. /\ wire[c] = NoEvents /\ snap[c].step \in Steps
        /\ req[c].method = "Navigate"
    BY <1>a, <2>1 DEF HandlerOK
  <2>3. hit'[c] \in CachedStep
    BY <1>0, <2>1, <2>2 DEF NarrationTypeOK
  <2>4. HandlerOK(c)'
    BY <1>a, <2>1, <2>2 DEF HandlerOK, NoEvents
  <2>5. WireOK(c)'
    <3>1. wire'[c].tokens = << >> /\ Len(wire'[c].tokens) = 0 /\ wire'[c].complete = Nothing
      BY <2>1, <2>2 DEF NoEvents
    <3>2. SourceOf(c)' \in Calls /\ hit'[c].tokens \in Nat
      BY <2>1, <2>3, NarrationAssumption DEF SourceOf, CachedStep
    <3>3. Tokens(SourceOf(c)', 0) = << >>
      BY <3>2, TokensGrow
    <3>4. result'[c] = "pending"
      BY <1>a, <2>1 DEF HandlerOK
    <3> QED
      BY <2>1, <3>1, <3>2, <3>3, <3>4 DEF WireOK
  <2>6. StreamOK(c)' /\ MomentOK(c)' /\ Settled(c)
    BY <1>a, <2>1 DEF HandlerOK, StreamOK, MomentOK, Settled
  <2> QED
    BY <2>4, <2>5, <2>6 DEF CallOK
<1>6. CASE CacheMiss(c)
  <2>1. /\ pc[c] = "lookup"
        /\ summary'[c] = IF snap[c].step \in HunkSteps THEN "running" ELSE "none"
        /\ UNCHANGED << req[c], snap[c], hit[c], wire[c] >>
        /\ \/ stream' = [stream EXCEPT ![c] = NewStream] /\ Goto(c, "drain")
              /\ UNCHANGED << result, ctxDone >>
           \/ Return(c, "Internal") /\ UNCHANGED stream
    BY <1>0, <1>6 DEF CacheMiss, NarrationTypeOK
  <2>2. /\ wire[c] = NoEvents /\ hit[c] = Nothing /\ snap[c] \in Snapshots
        /\ req[c].method = "Navigate" /\ snap[c].step \in Steps /\ req[c] \in Request
        /\ result[c] = "pending"
    BY <1>a, <2>1 DEF HandlerOK
  <2>3. CASE Return(c, "Internal") /\ UNCHANGED stream
    BY <1>0, <1>a, <1>d, <2>1, <2>2, <2>3, CallFails
  <2>4. CASE /\ stream' = [stream EXCEPT ![c] = NewStream] /\ Goto(c, "drain")
             /\ UNCHANGED << result, ctxDone >>
    <3>1. pc'[c] = "drain" /\ result'[c] = "pending" /\ stream'[c] = NewStream
      BY <1>0, <1>b, <2>2, <2>4 DEF NarrationTypeOK
    <3>2. NewStream.state = "next" /\ NewStream.got = 0
      BY DEF NewStream, NoStream
    <3>3. HandlerOK(c)'
      BY <2>1, <2>2, <3>1 DEF HandlerOK
    <3>4. WireOK(c)'
      BY <1>a, <2>1, <2>2, <3>1, <3>2 DEF WireOK, SourceOf, NoEvents
    <3>5. StreamOK(c)' /\ MomentOK(c)' /\ Settled(c)
      BY <1>a, <2>1, <3>1, <3>2 DEF StreamOK, MomentOK, Settled
    <3> QED
      BY <3>3, <3>4, <3>5 DEF CallOK
  <2> QED
    BY <2>1, <2>3, <2>4
<1>7. CASE DrainCancelled(c)
  <2>1. /\ pc[c] = "drain" /\ pc'[c] = "returned" /\ result'[c] = "Canceled"
        /\ UNCHANGED << req[c], snap[c], hit[c], stream[c], summary[c], wire[c] >>
    BY <1>7, <1>d DEF DrainCancelled, providerVars
  <2> QED
    BY <1>0, <1>a, <2>1, CallFails DEF HandlerOK
<1>g. ASSUME NEW label \in {"drain", "range"}, pc[c] = label,
             stream' = [stream EXCEPT ![c].got = @ + 1],
             UNCHANGED << req, snap, hit, summary >>,
             Send(c, SentToken(c, Token(c, stream[c].got + 1)), label) \/ SendFails(c)
      PROVE  CallOK(c)' /\ Settled(c)
  <2>1. /\ stream'[c].got = stream[c].got + 1
        /\ UNCHANGED << stream[c].state, stream[c].sent >>
    BY <1>0, <1>g DEF NarrationTypeOK, Streams
  <2>2. CASE SendFails(c)
    BY <1>0, <1>a, <1>e, <1>g, <2>1, <2>2, CallFails DEF HandlerOK
  <2>3. CASE Send(c, SentToken(c, Token(c, stream[c].got + 1)), label)
    <3>1. /\ pc'[c] = pc[c] /\ result'[c] = result[c]
          /\ wire'[c] = SentToken(c, Token(c, stream[c].got + 1))
          /\ UNCHANGED << req[c], snap[c], hit[c], summary[c] >>
      BY <1>f, <1>g, <2>3
    <3>2. /\ hit[c] = Nothing /\ result[c] = "pending" /\ pc[c] \notin {"complete", "returned"}
          /\ Len(wire[c].tokens) = stream[c].got
          /\ wire[c].tokens = Tokens(c, Len(wire[c].tokens))
      BY <1>a, <1>g DEF HandlerOK, WireOK, SourceOf
    <3>3. /\ Len(wire'[c].tokens) = Len(wire[c].tokens) + 1
          /\ wire'[c].tokens = Tokens(c, Len(wire'[c].tokens))
          /\ UNCHANGED << wire[c].summary, wire[c].complete >>
      BY <1>0, <3>1, <3>2, TokenSent
    <3>4. HandlerOK(c)'
      BY <1>a, <1>g, <3>1, <3>2 DEF HandlerOK
    <3>5. WireOK(c)'
      BY <1>a, <1>g, <2>1, <3>1, <3>2, <3>3 DEF WireOK, SourceOf
    <3>6. StreamOK(c)' /\ MomentOK(c)' /\ Settled(c)
      BY <1>a, <2>1, <3>1, <3>2 DEF StreamOK, MomentOK, Settled
    <3> QED
      BY <3>4, <3>5, <3>6 DEF CallOK
  <2> QED
    BY <1>g, <2>2, <2>3
<1>8. CASE DrainToken(c)
  BY <1>8, <1>g DEF DrainToken
<1>9. CASE DrainClosed(c)
  <2>1. /\ stream'[c] = [stream[c] EXCEPT !.open = FALSE] /\ pc[c] = "drain"
        /\ UNCHANGED << pc[c], req[c], snap[c], hit[c], result[c], summary[c], wire[c] >>
    BY <1>0, <1>9 DEF DrainClosed, handlerVars, NarrationTypeOK
  <2>2. UNCHANGED << stream[c].state, stream[c].sent, stream[c].got >>
    BY <1>0, <2>1 DEF NarrationTypeOK, Streams
  <2>3. HandlerOK(c)'
    BY <1>a, <2>1 DEF HandlerOK
  <2>4. StreamOK(c)' /\ WireOK(c)' /\ MomentOK(c)' /\ Settled(c)
    BY <1>a, <2>1, <2>2 DEF StreamOK, WireOK, SourceOf, MomentOK, Settled
  <2> QED
    BY <2>3, <2>4 DEF CallOK
<1>10. CASE DrainSummary(c)
  <2>1. /\ pc[c] = "drain" /\ UNCHANGED << req[c], snap[c], hit[c], stream[c] >>
        /\ \/ /\ summary[c] = "nil" /\ summary'[c] = "takenNil"
              /\ UNCHANGED << pc[c], result[c], wire[c] >>
           \/ /\ summary[c] = "value" /\ summary'[c] = "taken"
              /\ Send(c, SentSummary(c), "drain") \/ SendFails(c)
    BY <1>0, <1>10 DEF DrainSummary, NarrationTypeOK
  <2>2. hit[c] = Nothing /\ result[c] = "pending" /\ req[c].method = "Navigate"
    BY <1>a, <2>1 DEF HandlerOK
  <2>3. CASE SendFails(c) /\ summary'[c] = "taken"
    BY <1>0, <1>e, <2>1, <2>2, <2>3, CallFails
  <2>4. CASE Send(c, SentSummary(c), "drain") /\ summary[c] = "value" /\ summary'[c] = "taken"
    <3>1. pc'[c] = pc[c] /\ result'[c] = result[c] /\ wire'[c] = SentSummary(c)
      BY <1>f, <2>1, <2>4
    <3>2. /\ wire'[c].summary = TRUE
          /\ UNCHANGED << wire[c].tokens, wire[c].complete >>
      BY <1>0, <3>1 DEF SentSummary, Wires
    <3>3. HandlerOK(c)'
      BY <1>a, <2>1, <2>2, <3>1 DEF HandlerOK
    <3>4. WireOK(c)'
      BY <1>a, <2>1, <2>2, <2>4, <3>1, <3>2 DEF WireOK, HandlerOK, SourceOf
    <3>5. StreamOK(c)' /\ MomentOK(c)' /\ Settled(c)
      BY <1>a, <2>1, <3>1 DEF StreamOK, MomentOK, Settled
    <3> QED
      BY <3>3, <3>4, <3>5 DEF CallOK
  <2>5. CASE /\ summary[c] = "nil" /\ summary'[c] = "takenNil"
             /\ UNCHANGED << pc[c], result[c], wire[c] >>
    <3>1. HandlerOK(c)'
      BY <1>a, <2>1, <2>2, <2>5 DEF HandlerOK
    <3>2. WireOK(c)'
      BY <1>a, <2>1, <2>2, <2>5 DEF WireOK, SourceOf
    <3>3. StreamOK(c)' /\ MomentOK(c)' /\ Settled(c)
      BY <1>a, <2>1, <2>5 DEF StreamOK, MomentOK, Settled
    <3> QED
      BY <3>1, <3>2, <3>3 DEF CallOK
  <2> QED
    BY <2>1, <2>3, <2>4, <2>5
<1>11. CASE CacheNarration(c)
  <2>1. /\ pc[c] = "drain" /\ pc'[c] = "complete"
        /\ UNCHANGED << req[c], snap[c], hit[c], result[c], stream[c], summary[c], wire[c] >>
    BY <1>11, <1>b DEF CacheNarration, providerVars
  <2>2. HandlerOK(c)'
    BY <1>a, <2>1 DEF HandlerOK
  <2>3. hit[c] = Nothing
    BY <1>a, <2>1 DEF HandlerOK
  <2>4. WireOK(c)'
    BY <1>a, <2>1, <2>3 DEF WireOK, SourceOf
  <2>5. StreamOK(c)' /\ MomentOK(c)' /\ Settled(c)
    BY <1>a, <2>1 DEF StreamOK, MomentOK, Settled
  <2> QED
    BY <2>2, <2>4, <2>5 DEF CallOK
<1>h. pc[c] = "replay" =>
        /\ hit[c] # Nothing /\ hit[c] \in CachedStep /\ result[c] = "pending"
        /\ SourceOf(c) = hit[c].by /\ hit[c].by \in Calls /\ hit[c].tokens \in Nat
        /\ req[c].method = "Navigate" /\ ~wire[c].summary
  BY <1>0, <1>a, NarrationAssumption DEF HandlerOK, SourceOf, NarrationTypeOK, CachedStep
<1>12. CASE ReplayToken(c)
  <2>1. /\ pc[c] = "replay" /\ Len(wire[c].tokens) < hit[c].tokens
        /\ UNCHANGED << req[c], snap[c], hit[c], stream[c], summary[c] >>
        /\ \/ SendFails(c)
           \/ Send(c, SentToken(c, Token(hit[c].by, Len(wire[c].tokens) + 1)), "replay")
    BY <1>12 DEF ReplayToken, providerVars
  <2>2. CASE SendFails(c)
    BY <1>0, <1>a, <1>e, <1>h, <2>1, <2>2, CallFails DEF HandlerOK
  <2>3. CASE Send(c, SentToken(c, Token(hit[c].by, Len(wire[c].tokens) + 1)), "replay")
    <3>1. /\ pc'[c] = pc[c] /\ result'[c] = result[c]
          /\ wire'[c] = SentToken(c, Token(hit[c].by, Len(wire[c].tokens) + 1))
      BY <1>f, <2>1, <2>3
    <3>2. wire[c].tokens = Tokens(hit[c].by, Len(wire[c].tokens))
      BY <1>a, <1>h, <2>1 DEF WireOK
    <3>3. /\ Len(wire'[c].tokens) = Len(wire[c].tokens) + 1
          /\ wire'[c].tokens = Tokens(hit[c].by, Len(wire'[c].tokens))
          /\ UNCHANGED << wire[c].summary, wire[c].complete >>
      BY <1>0, <1>h, <2>1, <3>1, <3>2, TokenSent
    <3>4. HandlerOK(c)'
      BY <1>a, <1>h, <2>1, <3>1, <3>3 DEF HandlerOK
    <3>5. Len(wire'[c].tokens) <= hit'[c].tokens
      BY <1>0, <1>h, <2>1, <3>3, SentTypes
    <3>6. WireOK(c)'
      BY <1>a, <1>h, <2>1, <3>1, <3>3, <3>5 DEF WireOK, SourceOf
    <3>7. StreamOK(c)' /\ MomentOK(c)' /\ Settled(c)
      BY <1>a, <2>1, <3>1 DEF StreamOK, MomentOK, Settled
    <3> QED
      BY <3>4, <3>6, <3>7 DEF CallOK
  <2> QED
    BY <2>1, <2>2, <2>3
<1>13. CASE ReplaySummary(c)
  <2>1. /\ pc[c] = "replay" /\ Len(wire[c].tokens) = hit[c].tokens
        /\ UNCHANGED << req[c], snap[c], hit[c], stream[c], summary[c] >>
        /\ \/ SendFails(c)
           \/ hit[c].summary /\ Send(c, SentSummary(c), "complete")
           \/ ~hit[c].summary /\ Goto(c, "complete") /\ UNCHANGED << result, ctxDone, wire >>
    BY <1>13 DEF ReplaySummary, providerVars
  <2>2. CASE SendFails(c)
    BY <1>0, <1>a, <1>e, <1>h, <2>1, <2>2, CallFails DEF HandlerOK
  <2>3. CASE \/ hit[c].summary /\ Send(c, SentSummary(c), "complete")
             \/ ~hit[c].summary /\ Goto(c, "complete") /\ UNCHANGED << result, ctxDone, wire >>
    <3>1. /\ pc'[c] = "complete" /\ result'[c] = result[c]
          /\ wire'[c].summary <=> hit[c].summary
          /\ UNCHANGED << wire[c].tokens, wire[c].complete >>
      <4>1. SentSummary(c).summary /\ SentSummary(c).tokens = wire[c].tokens
            /\ SentSummary(c).complete = wire[c].complete
        BY <1>0 DEF SentSummary, Wires
      <4> QED
        BY <1>b, <1>f, <1>h, <2>1, <2>3, <4>1
    <3>2. HandlerOK(c)'
      BY <1>a, <1>h, <2>1, <3>1 DEF HandlerOK
    <3>3. WireOK(c)'
      BY <1>a, <1>h, <2>1, <3>1 DEF WireOK, SourceOf
    <3>4. StreamOK(c)' /\ MomentOK(c)' /\ Settled(c)
      BY <1>a, <2>1, <3>1 DEF StreamOK, MomentOK, Settled
    <3> QED
      BY <3>2, <3>3, <3>4 DEF CallOK
  <2> QED
    BY <2>1, <2>2, <2>3
<1>14. CASE RephraseSnapshot(c) \/ ExpandTermSnapshot(c)
  <2>1. /\ pc[c] = "got" /\ req[c].method # "Navigate" /\ snap'[c] = Snapshot(walker)
        /\ UNCHANGED << req[c], hit[c], stream[c], summary[c], wire[c] >>
        /\ \/ Goto(c, "ask") /\ UNCHANGED << result, ctxDone >>
           \/ Return(c, "FailedPrecondition")
    BY <1>0, <1>14
       DEF RephraseSnapshot, ExpandTermSnapshot, providerVars, NarrationTypeOK
  <2>2. CASE Return(c, "FailedPrecondition")
    BY <1>0, <1>a, <1>d, <2>1, <2>2, CallFails DEF HandlerOK
  <2>3. CASE Goto(c, "ask") /\ UNCHANGED << result, ctxDone >>
    <3>1. pc'[c] = "ask" /\ result'[c] = result[c]
      BY <1>b, <2>3
    <3>2. snap'[c] \in Snapshots /\ snap'[c].step = walker.current
      BY <1>0, <2>1, SnapshotSound
    <3>3. Steps # {} => walker.current \in Steps
      BY <1>0, SoundWalkOnStep
    <3>4. HandlerOK(c)'
      BY <1>a, <2>1, <3>1, <3>2, <3>3 DEF HandlerOK, NoEvents, NoStream
    <3>5. StreamOK(c)' /\ WireOK(c)' /\ MomentOK(c)' /\ Settled(c)
      BY <1>a, <2>1, <3>1 DEF HandlerOK, StreamOK, WireOK, SourceOf, MomentOK, Settled
    <3> QED
      BY <3>4, <3>5 DEF CallOK
  <2> QED
    BY <2>1, <2>2, <2>3
<1>15. CASE AskProvider(c)
  <2>1. /\ pc[c] = "ask"
        /\ UNCHANGED << req[c], snap[c], hit[c], summary[c], wire[c] >>
        /\ \/ stream' = [stream EXCEPT ![c] = NewStream] /\ Goto(c, "range")
              /\ UNCHANGED << result, ctxDone >>
           \/ Return(c, "Internal") /\ UNCHANGED stream
    BY <1>15 DEF AskProvider
  <2>2. /\ wire[c] = NoEvents /\ hit[c] = Nothing /\ summary[c] = "none"
        /\ result[c] = "pending"
    BY <1>a, <2>1 DEF HandlerOK
  <2>3. CASE Return(c, "Internal") /\ UNCHANGED stream
    BY <1>0, <1>d, <2>1, <2>2, <2>3, CallFails
  <2>4. CASE /\ stream' = [stream EXCEPT ![c] = NewStream] /\ Goto(c, "range")
             /\ UNCHANGED << result, ctxDone >>
    <3>1. pc'[c] = "range" /\ result'[c] = "pending" /\ stream'[c] = NewStream
      BY <1>0, <1>b, <2>2, <2>4 DEF NarrationTypeOK
    <3>2. NewStream.state = "next" /\ NewStream.got = 0
      BY DEF NewStream, NoStream
    <3>3. HandlerOK(c)'
      BY <1>a, <2>1, <2>2, <3>1 DEF HandlerOK
    <3>4. WireOK(c)'
      BY <1>a, <2>1, <2>2, <3>1, <3>2 DEF WireOK, SourceOf, NoEvents
    <3>5. StreamOK(c)' /\ MomentOK(c)' /\ Settled(c)
      BY <1>a, <2>1, <3>1, <3>2 DEF StreamOK, MomentOK, Settled
    <3> QED
      BY <3>3, <3>4, <3>5 DEF CallOK
  <2> QED
    BY <2>1, <2>3, <2>4
<1>16. CASE RangeToken(c)
  BY <1>16, <1>g DEF RangeToken
<1>17. CASE RangeClosed(c)
  <2>1. /\ stream'[c] = [stream[c] EXCEPT !.open = FALSE]
        /\ pc[c] = "range" /\ pc'[c] = "complete"
        /\ UNCHANGED << req[c], snap[c], hit[c], result[c], summary[c], wire[c] >>
    BY <1>0, <1>b, <1>17 DEF RangeClosed, NarrationTypeOK
  <2>2. UNCHANGED << stream[c].state, stream[c].sent, stream[c].got >>
    BY <1>0, <2>1 DEF NarrationTypeOK, Streams
  <2>3. HandlerOK(c)'
    BY <1>a, <2>1 DEF HandlerOK
  <2>4. hit[c] = Nothing /\ req[c].method # "Navigate"
    BY <1>a, <2>1 DEF HandlerOK
  <2>5. StreamOK(c)' /\ WireOK(c)' /\ MomentOK(c)' /\ Settled(c)
    BY <1>a, <2>1, <2>2, <2>4 DEF StreamOK, WireOK, SourceOf, MomentOK, Settled
  <2> QED
    BY <2>3, <2>5 DEF CallOK
<1>18. CASE SendComplete(c)
  <2>1. /\ pc[c] = "complete" /\ result[c] = "pending"
        /\ UNCHANGED << req[c], snap[c], hit[c], stream[c], summary[c] >>
        /\ \/ /\ wire' = [wire EXCEPT ![c].complete = CompleteEvent(c)]
              /\ Return(c, "OK")
           \/ SendFails(c)
    BY <1>a, <1>18 DEF SendComplete, HandlerOK, providerVars
  <2>2. CASE SendFails(c)
    BY <1>0, <1>a, <1>e, <2>1, <2>2, CallFails DEF HandlerOK
  <2>3. CASE wire' = [wire EXCEPT ![c].complete = CompleteEvent(c)] /\ Return(c, "OK")
    <3>1. pc'[c] = "returned" /\ result'[c] = "OK"
      BY <1>d, <2>3
    <3>2. /\ wire'[c].complete = CompleteEvent(c)
          /\ UNCHANGED << wire[c].tokens, wire[c].summary >>
      BY <1>0, <2>3 DEF Wires
    <3>3. /\ CompleteEvent(c) # Nothing
          /\ CompleteEvent(c).step = snap[c].step
          /\ CompleteEvent(c).after = Len(wire[c].tokens)
          /\ req[c].method = "Navigate" =>
               /\ CompleteEvent(c).crumb = snap[c].crumb
               /\ CompleteEvent(c).edges = snap[c].edges
      BY <1>0, <1>a, <2>1, CompleteEventType, NarrationAssumption
    <3>4. CompleteEvent(c).summary <=> wire[c].summary
      BY <1>0, <1>a, <2>1, CompleteSummary
    <3>5. HandlerOK(c)'
      BY <1>a, <2>1, <3>1 DEF HandlerOK
    <3>6. WireOK(c)'
      BY <1>a, <2>1, <3>1, <3>2, <3>3, <3>4 DEF WireOK, SourceOf
    <3>7. StreamOK(c)' /\ MomentOK(c)' /\ Settled(c)
      BY <1>a, <2>1, <3>1, <3>2 DEF StreamOK, MomentOK, Settled
    <3> QED
      BY <3>5, <3>6, <3>7 DEF CallOK
  <2> QED
    BY <2>1, <2>2, <2>3
<1>19. CASE TokenGoroutine(c)
  <2>1. /\ UNCHANGED << pc[c], req[c], snap[c], hit[c], result[c], summary[c], wire[c] >>
        /\ stream[c].state # "none"
        /\ stream'[c].got = stream[c].got
        /\ stream'[c].state = "sending" => stream'[c].sent < NTokens
    <3>1. stream[c] \in Streams /\ stream \in [Calls -> Streams]
      BY <1>0 DEF NarrationTypeOK
    <3>2. CASE ProviderRead(c)
      BY <3>1, <3>2 DEF ProviderRead, handlerVars, Streams
    <3>3. CASE ProviderPut(c)
      BY <3>1, <3>3 DEF ProviderPut, handlerVars, Streams
    <3>4. CASE ProviderEnd(c)
      BY <3>1, <3>4 DEF ProviderEnd, handlerVars, Streams
    <3> QED
      BY <1>19, <3>2, <3>3, <3>4 DEF TokenGoroutine
  <2>2. pc[c] \notin {"idle", "got", "lookup", "ask"}
    BY <1>a, <2>1 DEF HandlerOK, NoStream
  <2>3. HandlerOK(c)'
    BY <1>a, <2>1, <2>2 DEF HandlerOK
  <2>4. StreamOK(c)' /\ WireOK(c)' /\ MomentOK(c)' /\ Settled(c)
    BY <1>a, <2>1 DEF StreamOK, WireOK, SourceOf, MomentOK, Settled
  <2> QED
    BY <2>3, <2>4 DEF CallOK
<1>20. CASE SummaryAnswer(c)
  <2>1. /\ UNCHANGED << pc[c], req[c], snap[c], hit[c], result[c], stream[c], wire[c] >>
        /\ summary[c] = "running" /\ summary'[c] \in {"value", "nil"}
    BY <1>0, <1>20 DEF SummaryAnswer, handlerVars, NarrationTypeOK
  <2>2. HandlerOK(c)'
    BY <1>a, <2>1 DEF HandlerOK
  <2>3. StreamOK(c)' /\ WireOK(c)' /\ MomentOK(c)' /\ Settled(c)
    BY <1>a, <2>1 DEF StreamOK, WireOK, SourceOf, MomentOK, Settled
  <2> QED
    BY <2>2, <2>3 DEF CallOK
<1> QED
  BY <1>1, <1>2, <1>3, <1>4, <1>5, <1>6, <1>7, <1>8, <1>9, <1>10, <1>11, <1>12, <1>13,
     <1>14, <1>15, <1>16, <1>17, <1>18, <1>19, <1>20
     DEF CallStep, Handler, Environment

--------------------------------------------------------------------------------
(* The session *)

\* Before the first call arrives, nothing was sent and nothing is cached.
LEMMA InitialInv == Init => NarrationInv
<1> SUFFICES ASSUME Init
             PROVE  NarrationInv
  OBVIOUS
<1>1. NarrationTypeOK /\ wire \in [Calls -> Wires]
  BY InitialTypes
<1>2. SoundWalk(walker)
  BY NewWalkerSound DEF Init
<1>3. \A s \in Steps : cache[s] = Nothing
  BY DEF Init
<1>4. ASSUME NEW c \in Calls
      PROVE  HandlerOK(c) /\ StreamOK(c) /\ WireOK(c) /\ HitOK(c) /\ MomentOK(c)
  <2>1. /\ pc[c] = "idle" /\ hit[c] = Nothing /\ result[c] = "pending" /\ summary[c] = "none"
        /\ stream[c] = NoStream /\ wire[c] = NoEvents
    BY DEF Init
  <2>2. wire[c].tokens = << >> /\ Len(wire[c].tokens) = 0 /\ wire[c].complete = Nothing
    BY <2>1 DEF NoEvents
  <2>3. Tokens(c, 0) = << >>
    BY TokensGrow
  <2>4. HandlerOK(c) /\ HitOK(c) /\ MomentOK(c)
    BY <2>1 DEF HandlerOK, HitOK, MomentOK
  <2>5. StreamOK(c)
    BY <2>1 DEF StreamOK, NoStream
  <2>6. WireOK(c)
    BY <2>1, <2>2, <2>3 DEF WireOK, SourceOf
  <2> QED
    BY <2>4, <2>5, <2>6
<1> QED
  BY <1>1, <1>2, <1>3, <1>4 DEF NarrationInv

\* Only a Navigate request moves the walker, and it stays on a sound walk.
LEMMA WalkerStep ==
  ASSUME NarrationInv, [Next]_vars
  PROVE  SoundWalk(walker)'
<1>1. NarrationTypeOK /\ SoundWalk(walker)
  BY DEF NarrationInv
<1>2. CASE walker' = walker
  BY <1>1, <1>2 DEF SoundWalk, StaysInGraph, StartsAtEntry, WasVisited, Trail
<1>3. ASSUME NEW c \in Calls, NavigateMove(c)
      PROVE  SoundWalk(walker)'
  <2>1. req[c].dest \in Destination
    BY <1>3 DEF NavigateMove, NarrationInv, HandlerOK, Request
  <2>2. SoundWalk(Travel(walker, req[c].dest).walker)
    BY <1>1, <2>1, TravelSound
  <2>3. walker' = Travel(walker, req[c].dest).walker
    BY <1>3 DEF NavigateMove
  <2> QED
    BY <2>2, <2>3 DEF SoundWalk, StaysInGraph, StartsAtEntry, WasVisited, Trail
<1>4. ASSUME NEW c \in Calls, CallStep(c)
      PROVE  walker' = walker \/ NavigateMove(c)
  BY <1>4 DEF CallStep, Handler, TokenGoroutine, Environment, CacheHit, CacheMiss,
       DrainCancelled, DrainToken, DrainClosed, DrainSummary, CacheNarration, ReplayToken,
       ReplaySummary, RephraseSnapshot, ExpandTermSnapshot, AskProvider, RangeToken,
       RangeClosed, SendComplete, ProviderRead, ProviderPut, ProviderEnd, SummaryAnswer,
       RejectRequest, StartCall, CancelCall
<1> QED
  BY <1>2, <1>3, <1>4 DEF Next, vars, DropSession, CallStep

\* A call takes up a cache entry for the step of its snapshot and keeps both, and only
\* the end of a live narration changes the cache.
LEMMA CacheStep ==
  ASSUME NarrationTypeOK, NEW c \in Calls, HandlerOK(c), CallStep(c)
  PROVE  /\ \/ CacheHit(c)
            \/ hit'[c] = hit[c] /\ (hit[c] # Nothing => snap'[c] = snap[c])
         /\ cache' = cache \/ CacheNarration(c)
<1>1. CASE CacheHit(c)
  BY <1>1 DEF CacheHit
<1>2. CASE NavigateMove(c) \/ RephraseSnapshot(c) \/ ExpandTermSnapshot(c)
  BY <1>2 DEF NavigateMove, RephraseSnapshot, ExpandTermSnapshot, HandlerOK
<1>3. CASE ~CacheHit(c) /\ ~NavigateMove(c) /\ ~RephraseSnapshot(c) /\ ~ExpandTermSnapshot(c)
  BY <1>3 DEF CallStep, Handler, TokenGoroutine, Environment, CacheMiss,
       DrainCancelled, DrainToken, DrainClosed, DrainSummary, CacheNarration, ReplayToken,
       ReplaySummary, AskProvider, RangeToken, RangeClosed, SendComplete, ProviderRead,
       ProviderPut, ProviderEnd, SummaryAnswer, RejectRequest, StartCall, CancelCall,
       handlerVars
<1> QED
  BY <1>1, <1>2, <1>3

\* A step of one call keeps its own promises; those of the others hold because it leaves
\* them alone, and what they replay because the live call behind it is settled.
LEMMA InvStep == NarrationInv /\ [Next]_vars => NarrationInv'
<1> SUFFICES ASSUME NarrationInv, [Next]_vars
             PROVE  NarrationInv'
  OBVIOUS
<1>1. /\ NarrationTypeOK /\ wire \in [Calls -> Wires]
      /\ \A s \in Steps : cache[s] # Nothing => Delivered(cache[s], s)
      /\ \A c \in Calls : CallOK(c) /\ HandlerOK(c) /\ HitOK(c)
  BY DEF NarrationInv, CallOK
<1>2. /\ (NarrationTypeOK)' /\ (wire \in [Calls -> Wires])'
      /\ SoundWalk(walker)'
  BY StepTypes, WalkerStep
<1>3. /\ \A d \in Calls : CallStep(d) \/ Untouched(d)
      /\ cache' = cache \/ \E c \in Calls : CacheNarration(c)
  <2>1. CASE UNCHANGED vars \/ DropSession
    BY <2>1 DEF vars, DropSession, handlerVars, providerVars, Untouched
  <2>2. ASSUME NEW c \in Calls, CallStep(c)
        PROVE  /\ \A d \in Calls \ {c} : Untouched(d)
               /\ cache' = cache \/ CacheNarration(c)
    BY <1>1, <2>2, OthersUntouched, CacheStep
  <2>3. \/ UNCHANGED vars \/ DropSession
        \/ \E c \in Calls : CallStep(c)
    BY DEF Next, CallStep
  <2> QED
    BY <2>1, <2>2, <2>3
<1>4. ASSUME NEW d \in Calls
      PROVE  CallOK(d)' /\ Settled(d)
  BY <1>1, <1>3, OwnStep, UntouchedCall
<1>5. ASSUME NEW s \in Steps, cache'[s] # Nothing
      PROVE  Delivered(cache[s], s)'
  <2>1. CASE cache'[s] = cache[s]
    <3>1. Delivered(cache[s], s) /\ cache[s] \in CachedStep
      BY <1>1, <1>5, <2>1 DEF NarrationTypeOK
    <3>2. cache[s].by \in Calls
      BY <3>1 DEF CachedStep
    <3>3. Settled(cache[s].by)
      BY <1>4, <3>2
    <3> QED
      BY <2>1, <3>1, <3>3 DEF Delivered, Settled
  <2>2. ASSUME NEW c \in Calls, CacheNarration(c), cache'[s] # cache[s]
        PROVE  Delivered(cache[s], s)'
    <3>1. /\ s = snap[c].step
          /\ cache'[s] = [by |-> c, tokens |-> stream[c].got, summary |-> summary[c] = "taken"]
      BY <1>1, <2>2 DEF CacheNarration, NarrationTypeOK
    <3>2. /\ cache'[s].by = c /\ cache'[s].tokens = stream[c].got
          /\ cache'[s].summary = (summary[c] = "taken")
      BY <3>1
    <3>3. /\ pc'[c] = "complete" /\ pc[c] = "drain"
          /\ UNCHANGED << snap[c], hit[c], stream[c], summary[c], wire[c] >>
      BY <1>1, <2>2 DEF CacheNarration, Goto, providerVars, NarrationTypeOK
    <3>4. hit[c] = Nothing
      BY <1>1, <3>3 DEF HandlerOK
    <3>5. WireOK(c)
      BY <1>1 DEF CallOK
    <3>6. /\ wire[c].tokens = Tokens(c, stream[c].got)
          /\ wire[c].summary <=> summary[c] = "taken"
      BY <3>3, <3>4, <3>5 DEF WireOK, SourceOf
    <3>7. /\ pc'[c] = "complete" /\ hit'[c] = Nothing /\ snap'[c].step = s
          /\ wire'[c].tokens = Tokens(c, cache'[s].tokens)
          /\ cache'[s].summary <=> wire'[c].summary
      BY <3>1, <3>2, <3>3, <3>4, <3>6
    <3> QED
      BY <3>2, <3>7 DEF Delivered
  <2> QED
    BY <1>3, <2>1, <2>2
<1>6. ASSUME NEW d \in Calls
      PROVE  HitOK(d)'
  <2>1. SUFFICES ASSUME hit'[d] # Nothing
                 PROVE  Delivered(hit[d], snap[d].step)'
    BY DEF HitOK
  <2>2. CASE hit'[d] = hit[d] /\ snap'[d] = snap[d]
    <3>1. Delivered(hit[d], snap[d].step) /\ hit[d] \in CachedStep
      BY <1>1, <2>1, <2>2 DEF HitOK, NarrationTypeOK
    <3>2. hit[d].by \in Calls
      BY <3>1 DEF CachedStep
    <3>3. Settled(hit[d].by)
      BY <1>4, <3>2
    <3> QED
      BY <2>2, <3>1, <3>3 DEF Delivered, Settled
  <2>3. CASE CacheHit(d)
    <3>1. /\ hit'[d] = cache[snap[d].step] /\ snap'[d] = snap[d]
          /\ cache[snap[d].step] # Nothing
          /\ snap[d].step \in Steps
      BY <1>1, <2>3 DEF CacheHit, HandlerOK, NarrationTypeOK
    <3>2. PICK e \in CachedStep : e = cache[snap[d].step]
      BY <1>1, <3>1 DEF NarrationTypeOK
    <3>3. Delivered(e, snap[d].step) /\ e.by \in Calls
      BY <1>1, <3>1, <3>2 DEF CachedStep
    <3>4. Settled(e.by)
      BY <1>4, <3>3
    <3>5. hit'[d] = e
      BY <3>1, <3>2
    <3> QED
      BY <3>1, <3>3, <3>4, <3>5 DEF Delivered, Settled
  <2>4. CASE Untouched(d)
    BY <2>2, <2>4 DEF Untouched
  <2>5. CASE CallStep(d)
    BY <1>1, <2>1, <2>2, <2>3, <2>5, CacheStep
  <2> QED
    BY <1>3, <2>4, <2>5
<1> QED
  BY <1>2, <1>4, <1>5, <1>6 DEF NarrationInv, CallOK

\* The invariant holds in every state of every session.
THEOREM NarrationInvariant == Spec => []NarrationInv
<1>1. Init => NarrationInv
  BY InitialInv
<1>2. NarrationInv /\ [Next]_vars => NarrationInv'
  BY InvStep
<1> QED
  BY <1>1, <1>2, PTL DEF Spec

--------------------------------------------------------------------------------
(* What the clients are shown *)

\* The session, its calls, their channels and goroutines keep the shape the handlers
\* rely on, and no token channel ever holds more than its capacity.
THEOREM NarrationTypeCorrect == Spec => []NarrationTypeOK
<1>1. NarrationInv => NarrationTypeOK
  BY DEF NarrationInv
<1> QED
  BY <1>1, NarrationInvariant, PTL

\* The invariant says it of each call.
LEMMA InvWireInOrder == NarrationInv => WireInOrder
<1> SUFFICES ASSUME NarrationInv, NEW c \in Calls
             PROVE  /\ wire[c].tokens = Tokens(SourceOf(c), Len(wire[c].tokens))
                    /\ (wire[c].complete # Nothing) <=> (result[c] = "OK")
                    /\ wire[c].complete # Nothing =>
                          /\ wire[c].complete.after = Len(wire[c].tokens)
                          /\ wire[c].complete.summary <=> wire[c].summary
  BY DEF WireInOrder
<1>1. WireOK(c)
  BY DEF NarrationInv
<1> QED
  BY <1>1 DEF WireOK

\* Every client reads one answer from its beginning, without a gap, a duplicate or a token
\* of another call, and StepComplete after all of it, exactly when the call succeeds.
THEOREM WiresAreInOrder == Spec => []WireInOrder
  BY InvWireInOrder, NarrationInvariant, PTL

\* The invariant says it of each call.
LEMMA InvCacheWasDelivered == NarrationInv => CacheWasDelivered
  BY DEF NarrationInv, Delivered, CacheWasDelivered

\* All of a cached narration was sent by a call that had moved to the very step it is
\* cached for, wherever other calls have moved the session since.
THEOREM CacheHoldsDelivered == Spec => []CacheWasDelivered
  BY InvCacheWasDelivered, NarrationInvariant, PTL

\* The invariant says it of each call.
LEMMA InvReplayMatchesLive == NarrationInv => ReplayMatchesLive
<1> SUFFICES ASSUME NarrationInv, NEW c \in Calls, hit[c] # Nothing, result[c] = "OK"
             PROVE  LET live == hit[c].by IN
                    /\ wire[c].tokens = wire[live].tokens
                    /\ wire[c].summary <=> wire[live].summary
                    /\ wire[c].complete.step = snap[live].step
  BY DEF ReplayMatchesLive
<1>1. WireOK(c) /\ Delivered(hit[c], snap[c].step)
  BY DEF NarrationInv, HitOK
<1>2. wire[c].tokens = Tokens(hit[c].by, hit[c].tokens)
  BY <1>1 DEF WireOK, SourceOf
<1> QED
  BY <1>1, <1>2 DEF WireOK, Delivered

\* A replay gives its client what the client of the live call got, for the same step, even
\* when the entry it replays has since been replaced in the cache.
THEOREM ReplaysMatchLive == Spec => []ReplayMatchesLive
  BY InvReplayMatchesLive, NarrationInvariant, PTL

\* The invariant says it of each call.
LEMMA InvCompleteIsOneMoment == NarrationInv => CompleteIsOneMoment
<1> SUFFICES ASSUME NarrationInv, NEW c \in Calls,
                    wire[c].complete # Nothing, req[c].method = "Navigate"
             PROVE  LET done == wire[c].complete IN
                    /\ Explains(req[c].dest, done.crumb, done.step)
                    /\ Append(done.crumb, done.step)[1] = EntryID
                    /\ done.edges = NavigableEdges([current |-> done.step])
  BY DEF CompleteIsOneMoment
<1>1. WireOK(c) /\ MomentOK(c)
  BY DEF NarrationInv
<1>2. Moment(req[c].dest, snap[c])
  BY <1>1 DEF WireOK, MomentOK
<1>3. /\ wire[c].complete.step = snap[c].step
      /\ wire[c].complete.crumb = snap[c].crumb
      /\ wire[c].complete.edges = snap[c].edges
  BY <1>1 DEF WireOK
<1> QED
  BY <1>2, <1>3 DEF Moment

\* StepComplete describes one moment of the session, however many other calls have moved
\* the walker between the handler's critical section and this event.
THEOREM CompletesAreOneMoment == Spec => []CompleteIsOneMoment
  BY InvCompleteIsOneMoment, NarrationInvariant, PTL

--------------------------------------------------------------------------------
(* What cuts an answer off *)

\* A stream that is closed without a failure has put every token into its channel; a
\* handler that is done with a channel has taken all that was put in, and sent it.
DrainedOK(c) ==
    /\ stream[c].state = "closed" /\ ~stream[c].failed => stream[c].sent = NTokens
    /\ pc[c] = "drain" /\ ~stream[c].open =>
          stream[c].state = "closed" /\ stream[c].got = stream[c].sent
    /\ hit[c] = Nothing /\ (pc[c] = "complete" \/ result[c] = "OK") =>
          /\ stream[c].state = "closed"
          /\ Len(wire[c].tokens) = stream[c].sent

\* The stream behind the archived narration e has ended, and e has all its tokens unless
\* that stream failed.
EntryOK(e) ==
    /\ stream[e.by].state = "closed"
    /\ ~stream[e.by].failed => e.tokens = NTokens

DrainedInv ==
    /\ \A s \in Steps : cache[s] # Nothing => EntryOK(cache[s])
    /\ \A c \in Calls : hit[c] # Nothing => EntryOK(hit[c])
    /\ \A c \in Calls : DrainedOK(c)

\* A stream that is closed stays as it is, but for the reader's side of its channel.
ClosedStays(d) ==
    stream[d].state = "closed" =>
        UNCHANGED << stream[d].state, stream[d].sent, stream[d].failed >>

\* No call starts a second stream.
LEMMA StreamsEnd ==
  ASSUME NarrationInv, [Next]_vars, NEW d \in Calls
  PROVE  ClosedStays(d)
<1>1. NarrationTypeOK /\ wire \in [Calls -> Wires] /\ HandlerOK(d)
  BY DEF NarrationInv
<1> USE DEF ClosedStays
<1>2. CASE stream'[d] = stream[d]
  BY <1>2
<1>3. CASE CacheMiss(d) \/ AskProvider(d)
  BY <1>1, <1>3 DEF CacheMiss, AskProvider, HandlerOK, NoStream
<1>4. CASE DrainToken(d) \/ DrainClosed(d) \/ RangeToken(d) \/ RangeClosed(d)
  BY <1>1, <1>4 DEF DrainToken, DrainClosed, RangeToken, RangeClosed, NarrationTypeOK, Streams
<1>5. CASE TokenGoroutine(d)
  BY <1>1, <1>5 DEF TokenGoroutine, ProviderRead, ProviderPut, ProviderEnd
<1>6. ASSUME CallStep(d)
      PROVE  \/ stream' = stream \/ TokenGoroutine(d)
             \/ CacheMiss(d) \/ AskProvider(d)
             \/ DrainToken(d) \/ DrainClosed(d) \/ RangeToken(d) \/ RangeClosed(d)
  BY <1>6 DEF CallStep, Handler, Environment, NavigateMove, CacheHit, DrainCancelled,
       DrainSummary, CacheNarration, ReplayToken, ReplaySummary, RephraseSnapshot,
       ExpandTermSnapshot, SendComplete, SummaryAnswer, RejectRequest, StartCall,
       CancelCall, providerVars
<1>7. CASE UNCHANGED vars \/ DropSession
  BY <1>2, <1>7 DEF vars, DropSession, providerVars
<1>8. ASSUME NEW c \in Calls, CallStep(c), c # d
      PROVE  stream'[d] = stream[d]
  BY <1>1, <1>8, OthersUntouched DEF Untouched
<1> QED
  BY <1>2, <1>3, <1>4, <1>5, <1>6, <1>7, <1>8 DEF Next, CallStep

\* A handler leaves its loop only with the channel empty and closed.
LEMMA DrainedStep ==
  ASSUME NarrationInv, NEW c \in Calls, DrainedOK(c), CallStep(c)
  PROVE  DrainedOK(c)'
<1>1. /\ NarrationTypeOK /\ wire \in [Calls -> Wires] /\ HandlerOK(c) /\ WireOK(c)
      /\ stream[c] \in Streams
  BY DEF NarrationInv, NarrationTypeOK
<1>2. NarrationTypeOK' /\ (HandlerOK(c) /\ WireOK(c))'
  <2>1. [Next]_vars
    BY DEF Next, CallStep
  <2> QED
    BY <2>1, InvStep DEF NarrationInv
<1>3. ASSUME NEW label, Goto(c, label)
      PROVE  pc'[c] = label
  BY <1>1, <1>3 DEF Goto, NarrationTypeOK
<1>4. ASSUME NEW status, Return(c, status)
      PROVE  pc'[c] = "returned" /\ result'[c] = status
  BY <1>1, <1>4 DEF Return, NarrationTypeOK
<1>5. ASSUME NEW events, NEW label, Send(c, events, label) \/ SendFails(c)
      PROVE  \/ pc'[c] = label /\ result'[c] = result[c] /\ wire'[c] = events
             \/ pc'[c] = "returned" /\ result'[c] = "Canceled" /\ wire'[c] = wire[c]
  BY <1>1, <1>3, <1>4, <1>5 DEF Send, SendFails, NarrationTypeOK
<1>6. pc[c] # "returned" => result[c] # "OK"
  BY <1>1 DEF HandlerOK
<1>7. CASE \/ RejectRequest(c) \/ NavigateMove(c) \/ RephraseSnapshot(c)
           \/ ExpandTermSnapshot(c) \/ \E r \in Requests : StartCall(c, r)
  BY <1>1, <1>3, <1>4, <1>7 DEF RejectRequest, NavigateMove, RephraseSnapshot,
     ExpandTermSnapshot, StartCall, DrainedOK, HandlerOK, NoStream, providerVars
<1>8. CASE CancelCall(c) \/ SummaryAnswer(c)
  BY <1>8 DEF CancelCall, SummaryAnswer, DrainedOK, handlerVars, providerVars
<1>9. CASE CacheHit(c)
  BY <1>1, <1>3, <1>6, <1>9 DEF CacheHit, DrainedOK, HandlerOK, NoStream, providerVars
<1>10. CASE CacheMiss(c) \/ AskProvider(c)
  <2>1. stream[c] = NoStream /\ result[c] # "OK" /\ result'[c] # "OK"
    BY <1>1, <1>4, <1>6, <1>10 DEF CacheMiss, AskProvider, HandlerOK
  <2>2. pc'[c] \in {"drain", "range", "returned"}
    BY <1>3, <1>4, <1>10 DEF CacheMiss, AskProvider
  <2>3. stream'[c] \in {NoStream, NewStream}
    BY <1>1, <1>10, <2>1 DEF CacheMiss, AskProvider, NarrationTypeOK
  <2>4. stream'[c].state # "closed"
    <3>1. NoStream.state = "none"
      BY DEF NoStream
    <3>2. NewStream.state = "next"
      BY DEF NoStream, NewStream
    <3> QED
      BY <2>3, <3>1, <3>2
  <2>5. pc'[c] = "drain" => stream'[c].open
    <3>1. pc'[c] = "drain" => stream' = [stream EXCEPT ![c] = NewStream]
      BY <1>4, <1>10 DEF CacheMiss, AskProvider
    <3>2. NewStream.open
      BY DEF NoStream, NewStream
    <3> QED
      BY <1>1, <3>1, <3>2 DEF NarrationTypeOK
  <2> QED
    BY <2>1, <2>2, <2>4, <2>5 DEF DrainedOK
<1>11. CASE DrainCancelled(c)
  BY <1>4, <1>11 DEF DrainCancelled, DrainedOK, providerVars
<1>12. CASE DrainToken(c) \/ RangeToken(c)
  <2>1. /\ stream'[c] = [stream[c] EXCEPT !.got = @ + 1]
        /\ \/ pc[c] = "drain" /\ stream[c].open
           \/ pc[c] = "range"
        /\ \/ pc'[c] = pc[c] /\ result'[c] = result[c]
           \/ pc'[c] = "returned" /\ result'[c] = "Canceled"
    <3>1. CASE DrainToken(c)
      BY <1>1, <1>5, <3>1 DEF DrainToken, NarrationTypeOK
    <3>2. CASE RangeToken(c)
      BY <1>1, <1>5, <3>2 DEF RangeToken, NarrationTypeOK
    <3> QED
      BY <1>12, <3>1, <3>2
  <2>2. UNCHANGED << stream[c].state, stream[c].sent, stream[c].open, stream[c].failed >>
    BY <1>1, <2>1 DEF Streams
  <2> QED
    BY <1>6, <2>1, <2>2 DEF DrainedOK
<1>13. CASE DrainClosed(c) \/ RangeClosed(c)
  <2>1. stream'[c] = [stream[c] EXCEPT !.open = FALSE]
    BY <1>1, <1>13 DEF DrainClosed, RangeClosed, NarrationTypeOK
  <2>2. UNCHANGED << stream[c].state, stream[c].sent, stream[c].got, stream[c].failed >>
    BY <1>1, <2>1 DEF Streams
  <2>3. /\ pc[c] \in {"drain", "range"} /\ result'[c] = result[c] /\ wire' = wire
        /\ stream[c].state = "closed" /\ stream[c].got = stream[c].sent
        /\ hit'[c] = hit[c]
        /\ pc'[c] = IF pc[c] = "drain" THEN "drain" ELSE "complete"
    BY <1>1, <1>3, <1>13 DEF DrainClosed, RangeClosed, handlerVars
  <2>4. hit[c] = Nothing => Len(wire[c].tokens) = stream[c].got
    BY <1>1, <2>3 DEF WireOK
  <2> QED
    BY <1>6, <2>2, <2>3, <2>4 DEF DrainedOK
<1>14. CASE DrainSummary(c)
  <2>1. /\ pc[c] = "drain" /\ stream' = stream /\ hit' = hit
        /\ \/ pc'[c] = "drain" /\ result'[c] = result[c]
           \/ pc'[c] = "returned" /\ result'[c] = "Canceled"
    BY <1>1, <1>5, <1>14 DEF DrainSummary
  <2> QED
    BY <1>6, <2>1 DEF DrainedOK
<1>15. CASE CacheNarration(c)
  <2>1. /\ pc[c] = "drain" /\ ~stream[c].open
        /\ UNCHANGED << stream[c], hit[c], result[c], wire[c] >> /\ pc'[c] = "complete"
    BY <1>3, <1>15 DEF CacheNarration, providerVars
  <2>2. hit[c] = Nothing => Len(wire[c].tokens) = stream[c].got
    BY <1>1, <2>1 DEF WireOK
  <2> QED
    BY <2>1, <2>2 DEF DrainedOK
<1>16. CASE ReplayToken(c) \/ ReplaySummary(c)
  <2>1. pc[c] = "replay" /\ hit' = hit /\ stream' = stream
    BY <1>16 DEF ReplayToken, ReplaySummary, providerVars
  <2>2. hit'[c] # Nothing
    BY <1>1, <2>1 DEF HandlerOK
  <2>3. pc'[c] \in {"replay", "complete", "returned"}
    BY <1>3, <1>5, <1>16 DEF ReplayToken, ReplaySummary
  <2> QED
    BY <2>1, <2>2, <2>3 DEF DrainedOK
<1>17. CASE SendComplete(c)
  <2>1. /\ pc[c] = "complete" /\ hit' = hit /\ stream' = stream
        /\ pc'[c] = "returned"
        /\ \/ wire' = [wire EXCEPT ![c].complete = CompleteEvent(c)]
           \/ wire' = wire
    BY <1>4, <1>17 DEF SendComplete, SendFails, providerVars
  <2>2. wire'[c].tokens = wire[c].tokens
    BY <1>1, <2>1 DEF Wires
  <2> QED
    BY <2>1, <2>2 DEF DrainedOK
<1>18. CASE TokenGoroutine(c)
  <2>1. /\ UNCHANGED << pc, hit, result, wire >> /\ stream[c].state # "closed"
        /\ stream'[c].open = stream[c].open
        /\ stream'[c].state = "closed" /\ ~stream'[c].failed => stream'[c].sent = NTokens
    BY <1>1, <1>18 DEF TokenGoroutine, ProviderRead, ProviderPut, ProviderEnd, handlerVars,
       NarrationTypeOK, Streams
  <2> QED
    BY <2>1 DEF DrainedOK
<1> QED
  BY <1>7, <1>8, <1>9, <1>10, <1>11, <1>12, <1>13, <1>14, <1>15, <1>16, <1>17, <1>18
     DEF CallStep, Handler, Environment

\* What a call archives was all in its channel, and the stream behind an entry has ended.
LEMMA DrainedInvStep == NarrationInv /\ DrainedInv /\ [Next]_vars => DrainedInv'
<1> SUFFICES ASSUME NarrationInv, DrainedInv, [Next]_vars
             PROVE  DrainedInv'
  OBVIOUS
<1>1. /\ NarrationTypeOK /\ wire \in [Calls -> Wires]
      /\ \A c \in Calls : HandlerOK(c) /\ DrainedOK(c)
  BY DEF NarrationInv, DrainedInv
<1>2. /\ \A d \in Calls : CallStep(d) \/ Untouched(d)
      /\ cache' = cache \/ \E c \in Calls : CacheNarration(c)
  <2>1. CASE UNCHANGED vars \/ DropSession
    BY <2>1 DEF vars, DropSession, handlerVars, providerVars, Untouched
  <2>2. ASSUME NEW c \in Calls, CallStep(c)
        PROVE  /\ \A d \in Calls \ {c} : Untouched(d)
               /\ cache' = cache \/ CacheNarration(c)
    BY <1>1, <2>2, OthersUntouched, CacheStep
  <2> QED
    BY <2>1, <2>2 DEF Next, CallStep
<1>3. ASSUME NEW e \in CachedStep, EntryOK(e)
      PROVE  EntryOK(e)'
  <2>1. e.by \in Calls
    BY DEF CachedStep
  <2>2. ClosedStays(e.by)
    BY <2>1, StreamsEnd
  <2> QED
    BY <1>3, <2>2 DEF EntryOK, ClosedStays
<1>4. ASSUME NEW s \in Steps, cache'[s] # Nothing
      PROVE  EntryOK(cache[s])'
  <2>1. CASE cache'[s] = cache[s]
    BY <1>1, <1>3, <1>4, <2>1 DEF NarrationTypeOK, DrainedInv, EntryOK
  <2>2. ASSUME NEW c \in Calls, CacheNarration(c), cache'[s] # cache[s]
        PROVE  EntryOK(cache[s])'
    <3>1. cache'[s] = [by |-> c, tokens |-> stream[c].got, summary |-> summary[c] = "taken"]
      BY <1>1, <2>2 DEF CacheNarration, NarrationTypeOK
    <3>2. cache'[s].by = c /\ cache'[s].tokens = stream[c].got
      BY <3>1
    <3>3. pc[c] = "drain" /\ ~stream[c].open /\ stream' = stream
      BY <2>2 DEF CacheNarration, providerVars
    <3>4. /\ stream[c].state = "closed" /\ stream[c].got = stream[c].sent
          /\ ~stream[c].failed => stream[c].sent = NTokens
      BY <1>1, <3>3 DEF DrainedOK
    <3> QED
      BY <3>2, <3>3, <3>4 DEF EntryOK
  <2> QED
    BY <1>2, <2>1, <2>2
<1>5. ASSUME NEW d \in Calls, hit'[d] # Nothing
      PROVE  EntryOK(hit[d])'
  <2>1. CASE hit'[d] = hit[d]
    BY <1>1, <1>3, <1>5, <2>1 DEF NarrationTypeOK, DrainedInv, EntryOK
  <2>2. CASE CacheHit(d)
    <3>1. hit'[d] = cache[snap[d].step] /\ snap[d].step \in Steps /\ cache[snap[d].step] # Nothing
      BY <1>1, <2>2 DEF CacheHit, HandlerOK, NarrationTypeOK
    <3>2. PICK e \in CachedStep : e = cache[snap[d].step]
      BY <1>1, <3>1 DEF NarrationTypeOK
    <3>3. EntryOK(e)'
      BY <1>3, <3>1, <3>2 DEF DrainedInv
    <3> QED
      BY <3>1, <3>2, <3>3 DEF EntryOK
  <2> QED
    BY <1>1, <1>2, <2>1, <2>2, CacheStep DEF Untouched
<1>6. ASSUME NEW d \in Calls
      PROVE  DrainedOK(d)'
  BY <1>1, <1>2, DrainedStep DEF DrainedOK, Untouched
<1> QED
  BY <1>4, <1>5, <1>6 DEF DrainedInv

LEMMA InitialDrained == Init => DrainedInv
  BY DEF Init, DrainedInv, DrainedOK, NoStream

\* A completed answer is its channel's content or a delivered entry.
LEMMA InvCutOnlyByItsStream == NarrationInv /\ DrainedInv => CutOnlyByItsStream
<1> SUFFICES ASSUME NarrationInv, DrainedInv, NEW c \in Calls,
                    wire[c].complete # Nothing, ~stream[SourceOf(c)].failed
             PROVE  Len(wire[c].tokens) = NTokens
  BY DEF CutOnlyByItsStream
<1>1. WireOK(c) /\ DrainedOK(c) /\ (hit[c] # Nothing => EntryOK(hit[c]))
  BY DEF NarrationInv, DrainedInv
<1>2. result[c] = "OK"
  BY <1>1 DEF WireOK
<1>3. CASE hit[c] = Nothing
  BY <1>1, <1>2, <1>3 DEF DrainedOK, SourceOf
<1>4. CASE hit[c] # Nothing
  BY <1>1, <1>2, <1>4 DEF WireOK, EntryOK, SourceOf
<1> QED
  BY <1>3, <1>4

\* However the goroutines, the select loop and the replays interleave, a completed answer
\* is shorter than the LLM's only if the stream behind it failed or was cancelled.
THEOREM OnlyStreamsCutAnswers == Spec => []CutOnlyByItsStream
<1>1. Init => DrainedInv
  BY InitialDrained
<1>2. NarrationInv /\ DrainedInv /\ [Next]_vars => DrainedInv'
  BY DrainedInvStep
<1>3. NarrationInv /\ DrainedInv => CutOnlyByItsStream
  BY InvCutOnlyByItsStream
<1> QED
  BY <1>1, <1>2, <1>3, NarrationInvariant, PTL DEF Spec

--------------------------------------------------------------------------------
(* Walkthroughs *)

\* No step of a walkthrough, whose graph has steps and no hunks, asks about a step
\* without its code.
LEMMA PromptStep ==
  ASSUME HunkSteps = {}, Steps # {}, NarrationInv, PromptHasCode, [Next]_vars
  PROVE  PromptHasCode'
<1>1. NarrationTypeOK /\ \A c \in Calls : HandlerOK(c)
  BY DEF NarrationInv
<1>2. CASE prompt' = prompt
  BY <1>2 DEF PromptHasCode
<1>3. ASSUME NEW c \in Calls, CacheMiss(c) \/ AskProvider(c)
      PROVE  PromptHasCode'
  <2>1. pc[c] \in {"lookup", "ask"}
    BY <1>3 DEF CacheMiss, AskProvider
  <2>2. snap[c].step \in Steps
    BY <1>1, <2>1 DEF HandlerOK
  <2>3. prompt' = [prompt EXCEPT ![c] = SourceCode(snap[c].step)]
    <3>1. CASE CacheMiss(c)
      BY <3>1 DEF CacheMiss, NavigateCode
    <3>2. CASE AskProvider(c)
      <4>1. RephraseCode(snap[c].step) = SourceCode(snap[c].step)
        BY DEF RephraseCode
      <4>2. ExpandTermCode(snap[c].step) = SourceCode(snap[c].step)
        BY <2>2 DEF ExpandTermCode
      <4> QED
        BY <3>2, <4>1, <4>2 DEF AskProvider
    <3> QED
      BY <1>3, <3>1, <3>2
  <2>4. SourceCode(snap[c].step) # "empty"
    BY DEF SourceCode
  <2> QED
    BY <1>1, <2>3, <2>4 DEF PromptHasCode, NarrationTypeOK
<1>4. ASSUME NEW c \in Calls, CallStep(c)
      PROVE  prompt' = prompt \/ CacheMiss(c) \/ AskProvider(c)
  BY <1>4 DEF CallStep, Handler, TokenGoroutine, Environment, NavigateMove, CacheHit,
       DrainCancelled, DrainToken, DrainClosed, DrainSummary, CacheNarration, ReplayToken,
       ReplaySummary, RephraseSnapshot, ExpandTermSnapshot, RangeToken, RangeClosed,
       SendComplete, ProviderRead, ProviderPut, ProviderEnd, SummaryAnswer, RejectRequest,
       StartCall, CancelCall, providerVars
<1> QED
  BY <1>2, <1>3, <1>4 DEF Next, vars, DropSession, CallStep, providerVars

\* The answers of a walkthrough's racing calls agree with one another, with one moment of
\* the session and with the LLM's as far as its streams went: the five properties together,
\* for every walkthrough that has steps.
THEOREM WalkthroughAnswersAgree ==
  ASSUME HunkSteps = {}, Steps # {}
  PROVE  Spec => []AnswersAgree
<1>1. Init => PromptHasCode
  BY DEF Init, PromptHasCode
<1>2. NarrationInv /\ PromptHasCode /\ [Next]_vars => PromptHasCode'
  BY PromptStep
<1>3. NarrationInv /\ PromptHasCode /\ CutOnlyByItsStream => AnswersAgree
  BY InvCacheWasDelivered, InvReplayMatchesLive, InvCompleteIsOneMoment DEF AnswersAgree
<1> QED
  BY <1>1, <1>2, <1>3, NarrationInvariant, OnlyStreamsCutAnswers, PTL DEF Spec

--------------------------------------------------------------------------------
(* The session as a conversation *)

\* A Navigate request that is refused leaves the walker alone, and one that succeeds goes
\* to one more place or back to the previous one.
LEMMA TravelIsHistory ==
  ASSUME NEW w, SoundWalk(w), NEW dest \in Destination
  PROVE  LET r == Travel(w, dest) IN
         /\ ~r.ok => r.walker = w
         /\ r.ok => \/ \E p \in Steps : Trail(r.walker) = Append(Trail(w), p)
                    \/ /\ Len(Trail(w)) > 1
                       /\ Trail(r.walker) = SubSeq(Trail(w), 1, Len(Trail(w)) - 1)
<1>1. dest.kind \in {"forward", "back", "none", "step", "edge"}
  BY DEF Destination
<1>2. CASE dest.kind = "forward"
  BY <1>2, FollowSound DEF Travel, Forward
<1>3. CASE dest.kind = "edge"
  BY <1>3, FollowSound DEF Travel
<1>4. CASE dest.kind = "back"
  BY <1>4, BackSound DEF Travel
<1>5. CASE dest.kind = "step"
  BY <1>5, GoToSound DEF Travel
<1>6. CASE dest.kind = "none"
  BY <1>6 DEF Travel, Refused
<1> QED
  BY <1>1, <1>2, <1>3, <1>4, <1>5, <1>6

\* What a handler copies of a walker is the moment its trail has come to.
LEMMA SnapshotIsMoment ==
  ASSUME NEW w, SoundWalk(w)
  PROVE  Snapshot(w) = Abstract!Moment(Trail(w))
<1>1. w.breadcrumb \in Seq(IDs) /\ w.current \in IDs
  BY DEF SoundWalk, Walkers
<1> DEFINE t == Append(w.breadcrumb, w.current)
<1>2. t \in Seq(IDs) /\ Len(t) = Len(w.breadcrumb) + 1 /\ t[Len(t)] = w.current
  BY <1>1
<1>3. SubSeq(t, 1, Len(t) - 1) = w.breadcrumb
  <2>1. SubSeq(t, 1, Len(w.breadcrumb)) = w.breadcrumb
    BY <1>1
  <2> QED
    BY <1>1, <1>2, <2>1
<1>4. Offered[t[Len(t)]] = NavigableEdges(w)
  BY <1>1, <1>2 DEF Offered, NavigableEdges
<1>5. Abstract!Moment(t) = [step |-> t[Len(t)], crumb |-> SubSeq(t, 1, Len(t) - 1),
                            edges |-> Offered[t[Len(t)]]]
  BY DEF Abstract!Moment
<1> HIDE DEF t
<1>6. Abstract!Moment(t) = Snapshot(w)
  BY <1>2, <1>3, <1>4, <1>5 DEF Snapshot
<1> QED
  BY <1>6 DEF t, Trail

\* The step of one call changes how far this call has come and no other.
LEMMA MapsMoveOne ==
  ASSUME NEW c \in Calls, \A d \in Calls \ {c} : Untouched(d)
  PROVE  /\ Stages' = [Stages EXCEPT ![c] = Stages'[c]]
         /\ Asked' = [Asked EXCEPT ![c] = Asked'[c]]
         /\ About' = [About EXCEPT ![c] = About'[c]]
         /\ Retold' = [Retold EXCEPT ![c] = Retold'[c]]
<1>1. \A d \in Calls \ {c} : Stages'[d] = Stages[d]
  BY DEF Untouched, Stages, Stage
<1>2. \A d \in Calls \ {c} : Asked'[d] = Asked[d]
  BY DEF Untouched, Asked
<1>3. \A d \in Calls \ {c} : About'[d] = About[d]
  BY DEF Untouched, About
<1>4. \A d \in Calls \ {c} : Retold'[d] = Retold[d]
  BY DEF Untouched, Retold
<1>5. Stages' = [Stages EXCEPT ![c] = Stages'[c]]
  BY <1>1 DEF Stages
<1>6. Asked' = [Asked EXCEPT ![c] = Asked'[c]]
  BY <1>2 DEF Asked
<1>7. About' = [About EXCEPT ![c] = About'[c]]
  BY <1>3 DEF About
<1>8. Retold' = [Retold EXCEPT ![c] = Retold'[c]]
  BY <1>4 DEF Retold
<1> QED
  BY <1>5, <1>6, <1>7, <1>8

\* In the conversation's terms: a call goes from one stage to the next, a handler that has
\* returned leaves nothing behind, and what a handler keeps the call keeps.
LEMMA MapsStep ==
  ASSUME NEW c \in Calls, \A d \in Calls \ {c} : Untouched(d)
  PROVE  /\ Abstract!Step(c, Stages[c], Stages'[c])
         /\ Stages'[c] = Stages[c] => UNCHANGED Stages
         /\ pc'[c] = "returned" => Abstract!Ends(c)
         /\ /\ {pc[c], pc'[c]} \cap {"idle", "returned"} = {}
            /\ req'[c] = req[c]
            => UNCHANGED Asked
         /\ /\ \/ {pc[c], pc'[c]} \subseteq {"idle", "got", "returned"}
               \/ snap'[c] = snap[c] /\ {pc[c], pc'[c]} \cap {"idle", "got", "returned"} = {}
            => UNCHANGED About
         /\ /\ \/ {pc[c], pc'[c]} \cap {"replay", "complete"} = {}
               \/ /\ {pc[c], pc'[c]} \subseteq {"replay", "complete"}
                  /\ hit'[c] = hit[c]
               \/ hit[c] = Nothing /\ hit'[c] = Nothing
            => UNCHANGED Retold
<1>1. /\ Stages' = [Stages EXCEPT ![c] = Stages'[c]]
      /\ Asked' = [Asked EXCEPT ![c] = Asked'[c]]
      /\ About' = [About EXCEPT ![c] = About'[c]]
      /\ Retold' = [Retold EXCEPT ![c] = Retold'[c]]
  BY MapsMoveOne
<1>2. Abstract!Step(c, Stages[c], Stages'[c])
  BY <1>1 DEF Abstract!Step
<1>s. Stages'[c] = Stages[c] => UNCHANGED Stages
  BY <1>1 DEF Stages
<1>3. ASSUME pc'[c] = "returned"
      PROVE  Abstract!Ends(c)
  <2>1. Stages'[c] = "over" /\ Asked'[c] = Nothing /\ About'[c] = Nothing /\ Retold'[c] = Nothing
    BY <1>3 DEF Stages, Stage, Asked, About, Retold
  <2> QED
    BY <1>1, <2>1 DEF Abstract!Ends
<1>4. Asked'[c] = Asked[c] => UNCHANGED Asked
  BY <1>1 DEF Asked
<1>5. About'[c] = About[c] => UNCHANGED About
  BY <1>1 DEF About
<1>6. Retold'[c] = Retold[c] => UNCHANGED Retold
  BY <1>1 DEF Retold
<1>7. /\ {pc[c], pc'[c]} \cap {"idle", "returned"} = {}
      /\ req'[c] = req[c]
      => Asked'[c] = Asked[c]
  BY DEF Asked
<1>8. \/ {pc[c], pc'[c]} \subseteq {"idle", "got", "returned"}
      \/ snap'[c] = snap[c] /\ {pc[c], pc'[c]} \cap {"idle", "got", "returned"} = {}
      => About'[c] = About[c]
  BY DEF About
<1>9. \/ {pc[c], pc'[c]} \cap {"replay", "complete"} = {}
      \/ /\ {pc[c], pc'[c]} \subseteq {"replay", "complete"}
         /\ hit'[c] = hit[c]
      \/ hit[c] = Nothing /\ hit'[c] = Nothing
      => Retold'[c] = Retold[c]
  BY DEF Retold
<1> QED
  BY <1>2, <1>s, <1>3, <1>4, <1>5, <1>6, <1>7, <1>8, <1>9

\* What every step of a call starts from.
LEMMA CallContext ==
  ASSUME NarrationInv, NEW c \in Calls, CallStep(c)
  PROVE  /\ NarrationTypeOK /\ wire \in [Calls -> Wires] /\ SoundWalk(walker)
         /\ HandlerOK(c) /\ WireOK(c)
         /\ \A d \in Calls \ {c} : Untouched(d)
         /\ \A label : Goto(c, label) => pc'[c] = label
         /\ \A status : Return(c, status) => pc'[c] = "returned"
<1>1. /\ NarrationTypeOK /\ wire \in [Calls -> Wires] /\ SoundWalk(walker)
      /\ HandlerOK(c) /\ WireOK(c)
  BY DEF NarrationInv
<1>2. \A d \in Calls \ {c} : Untouched(d)
  BY <1>1, OthersUntouched
<1>3. \A label : Goto(c, label) => pc'[c] = label
  BY <1>1 DEF Goto, NarrationTypeOK
<1>4. \A status : Return(c, status) => pc'[c] = "returned"
  BY <1>1 DEF Return, NarrationTypeOK
<1> QED
  BY <1>1, <1>2, <1>3, <1>4

\* A handler that returns early is a call that was refused, or one that was given up.
LEMMA ReturnsImplement ==
  ASSUME NarrationInv, NEW c \in Calls, CallStep(c), NEW status, Return(c, status),
         pc[c] # "returned", UNCHANGED << walker, cache, wire >>
  PROVE  Abstract!Refuse(c) \/ Abstract!GiveUp(c)
<1>1. pc \in [Calls -> Points] /\ Abstract!Ends(c)
  BY CallContext, MapsStep DEF NarrationTypeOK
<1>2. Stages[c] \in {"new", "asked", "placed", "telling", "retelling", "told"}
  BY <1>1 DEF Stages, Stage, Points
<1>3. UNCHANGED << Trail(walker), cache, wire >>
  BY DEF Trail
<1> QED
  BY <1>1, <1>2, <1>3 DEF Abstract!Refuse, Abstract!GiveUp

\* A call arrives.
LEMMA ArrivalImplements ==
  ASSUME NarrationInv, NEW c \in Calls,
         RejectRequest(c) \/ \E r \in Requests : StartCall(c, r)
  PROVE  Abstract!ConversationNext
<1>1. CallStep(c)
  BY DEF CallStep, Environment
<1>2. ASSUME RejectRequest(c)
      PROVE  Abstract!Refuse(c) \/ Abstract!GiveUp(c)
  BY <1>1, <1>2, ReturnsImplement DEF RejectRequest
<1>3. ASSUME NEW r \in Requests, StartCall(c, r), Return(c, "NotFound")
      PROVE  Abstract!Refuse(c) \/ Abstract!GiveUp(c)
  BY <1>1, <1>3, ReturnsImplement DEF StartCall
<1>4. ASSUME NEW r \in Requests, StartCall(c, r), Goto(c, "got")
      PROVE  Abstract!Ask(c, r.method) /\ r.method \in {"Navigate", "Rephrase", "ExpandTerm"}
  <2>1. pc[c] = "idle" /\ pc'[c] = "got" /\ req'[c] = r /\ UNCHANGED << walker, cache, wire >>
    BY <1>1, <1>4, CallContext DEF StartCall, NarrationTypeOK
  <2>2. Stages[c] = "new" /\ Stages'[c] = "asked" /\ Asked'[c] = r.method
    BY <2>1 DEF Stages, Stage, Asked
  <2>3. UNCHANGED << About, Retold >> /\ Abstract!Step(c, "new", "asked")
    BY <1>1, <2>1, <2>2, CallContext, MapsStep
  <2>4. Asked' = [Asked EXCEPT ![c] = r.method]
    BY <1>1, <2>2, CallContext, MapsMoveOne
  <2>5. r.method \in {"Navigate", "Rephrase", "ExpandTerm"}
    BY NarrationAssumption DEF Request, Methods
  <2> QED
    BY <2>1, <2>3, <2>4, <2>5 DEF Abstract!Ask, Trail
<1> QED
  BY <1>2, <1>3, <1>4 DEF StartCall, Abstract!ConversationNext

\* Navigate's critical section is one step of the session's history, and the call is about
\* where it has come to.
LEMMA MoveImplements ==
  ASSUME NarrationInv, NEW c \in Calls, NavigateMove(c)
  PROVE  Abstract!Go(c) \/ Abstract!Refuse(c) \/ Abstract!GiveUp(c)
<1> DEFINE r == Travel(walker, req[c].dest)
<1>1. CallStep(c)
  BY DEF CallStep, Handler
<1>2. /\ pc[c] = "got" /\ req[c].method = "Navigate"
      /\ walker' = r.walker
      /\ UNCHANGED << cache, req, hit, wire >>
      /\ \/ /\ r.ok /\ snap' = [snap EXCEPT ![c] = Snapshot(r.walker)]
            /\ Goto(c, "lookup")
         \/ ~r.ok /\ Return(c, "InvalidArgument")
  BY DEF NavigateMove
<1>3. req[c].dest \in Destination /\ hit[c] = Nothing
  BY <1>1, <1>2, CallContext DEF HandlerOK, Request
<1>4. /\ ~r.ok => r.walker = walker
      /\ r.ok => \/ \E p \in Steps : Trail(r.walker) = Append(Trail(walker), p)
                 \/ /\ Len(Trail(walker)) > 1
                    /\ Trail(r.walker) = SubSeq(Trail(walker), 1, Len(Trail(walker)) - 1)
  BY <1>1, <1>3, CallContext, TravelIsHistory
<1>5. SoundWalk(r.walker)
  BY <1>1, <1>3, CallContext, TravelSound
<1> HIDE DEF r
<1>6. CASE ~r.ok
  BY <1>1, <1>2, <1>4, <1>6, ReturnsImplement
<1>7. CASE r.ok
  <2>1. pc'[c] = "lookup" /\ snap'[c] = Snapshot(r.walker)
    BY <1>1, <1>2, <1>7, CallContext DEF NarrationTypeOK
  <2>2. /\ Stages[c] = "asked" /\ Stages'[c] = "placed"
        /\ Asked[c] = "Navigate" /\ About'[c] = Snapshot(r.walker)
    BY <1>2, <2>1 DEF Stages, Stage, Asked, About
  <2>3. Abstract!Step(c, "asked", "placed") /\ UNCHANGED << Asked, Retold >>
    BY <1>1, <1>2, <1>3, <2>1, <2>2, CallContext, MapsStep
  <2>4. Abstract!HistoryNext
    <3>1. \/ \E p \in Steps : Trail(walker)' = Append(Trail(walker), p)
          \/ /\ Len(Trail(walker)) > 1
             /\ Trail(walker)' = SubSeq(Trail(walker), 1, Len(Trail(walker)) - 1)
      BY <1>2, <1>4, <1>7 DEF Trail
    <3> QED
      BY <3>1 DEF Abstract!HistoryNext, Abstract!Visit, Abstract!Return
  <2>5. About' = [About EXCEPT ![c] = Snapshot(r.walker)]
    BY <1>1, <2>2, CallContext, MapsMoveOne
  <2>6. Snapshot(r.walker) = Abstract!Moment(Trail(r.walker)) /\ Trail(walker)' = Trail(r.walker)
    BY <1>2, <1>5, SnapshotIsMoment DEF Trail
  <2>7. About' = [About EXCEPT ![c] = Abstract!Moment(Trail(walker)')]
    BY <2>5, <2>6
  <2> QED
    BY <1>2, <2>2, <2>3, <2>4, <2>7 DEF Abstract!Go
<1> QED
  BY <1>6, <1>7

\* The critical sections of Rephrase and ExpandTerm look at the present moment.
LEMMA LookImplements ==
  ASSUME NarrationInv, NEW c \in Calls, RephraseSnapshot(c) \/ ExpandTermSnapshot(c)
  PROVE  Abstract!Look(c) \/ Abstract!Refuse(c) \/ Abstract!GiveUp(c)
<1>1. CallStep(c)
  BY DEF CallStep, Handler
<1>2. /\ pc[c] = "got" /\ req[c].method # "Navigate"
      /\ snap' = [snap EXCEPT ![c] = Snapshot(walker)]
      /\ UNCHANGED << walker, cache, req, hit, wire >>
      /\ Goto(c, "ask") \/ Return(c, "FailedPrecondition")
  BY DEF RephraseSnapshot, ExpandTermSnapshot
<1>3. CASE Return(c, "FailedPrecondition")
  BY <1>1, <1>2, <1>3, ReturnsImplement
<1>4. CASE Goto(c, "ask")
  <2>1. pc'[c] = "ask" /\ snap'[c] = Snapshot(walker) /\ hit[c] = Nothing
    BY <1>1, <1>2, <1>4, CallContext DEF NarrationTypeOK, HandlerOK
  <2>2. /\ Stages[c] = "asked" /\ Stages'[c] = "placed"
        /\ Asked[c] # "Navigate" /\ About'[c] = Snapshot(walker)
    BY <1>2, <2>1 DEF Stages, Stage, Asked, About
  <2>3. Abstract!Step(c, "asked", "placed") /\ UNCHANGED << Asked, Retold >>
    BY <1>1, <1>2, <2>1, <2>2, CallContext, MapsStep
  <2>4. About' = [About EXCEPT ![c] = Snapshot(walker)]
    BY <1>1, <2>2, CallContext, MapsMoveOne
  <2>5. Snapshot(walker) = Abstract!Moment(Trail(walker))
    BY <1>1, CallContext, SnapshotIsMoment
  <2>6. About' = [About EXCEPT ![c] = Abstract!Moment(Trail(walker))]
    BY <2>4, <2>5
  <2>7. UNCHANGED Trail(walker)
    BY <1>2 DEF Trail
  <2> QED
    BY <1>2, <2>2, <2>3, <2>6, <2>7 DEF Abstract!Look
<1> QED
  BY <1>2, <1>3, <1>4

\* A cached narration is recalled; otherwise the call gets an answer of its own.
LEMMA AnswerImplements ==
  ASSUME NarrationInv, NEW c \in Calls, CacheHit(c) \/ CacheMiss(c) \/ AskProvider(c)
  PROVE  \/ Abstract!Recall(c) \/ Abstract!Begin(c)
         \/ Abstract!Refuse(c) \/ Abstract!GiveUp(c)
<1>1. CallStep(c)
  BY DEF CallStep, Handler
<1>2. UNCHANGED Trail(walker)
  BY DEF CacheHit, CacheMiss, AskProvider, Trail
<1>3. ASSUME CacheHit(c)
      PROVE  Abstract!Recall(c)
  <2>1. /\ pc[c] = "lookup" /\ pc'[c] = "replay" /\ req[c].method = "Navigate"
        /\ cache[snap[c].step] # Nothing /\ hit'[c] = cache[snap[c].step]
        /\ UNCHANGED << cache, req, snap, wire >>
    BY <1>1, <1>3, CallContext DEF CacheHit, NarrationTypeOK, HandlerOK
  <2>2. /\ Stages[c] = "placed" /\ Stages'[c] = "retelling"
        /\ Asked[c] = "Navigate" /\ About[c] = snap[c] /\ Retold'[c] = cache[snap[c].step]
    BY <2>1 DEF Stages, Stage, Asked, About, Retold
  <2>3. Abstract!Step(c, "placed", "retelling") /\ UNCHANGED << Asked, About >>
    BY <1>1, <2>1, <2>2, CallContext, MapsStep
  <2>4. Retold' = [Retold EXCEPT ![c] = cache[About[c].step]]
    BY <1>1, <2>2, CallContext, MapsMoveOne
  <2> QED
    BY <1>2, <2>1, <2>2, <2>3, <2>4 DEF Abstract!Recall
<1>4. ASSUME CacheMiss(c) \/ AskProvider(c), ~Return(c, "Internal")
      PROVE  Abstract!Begin(c)
  <2>1. /\ pc[c] \in {"lookup", "ask"} /\ pc'[c] \in {"drain", "range"}
        /\ req[c].method = "Navigate" => cache[snap[c].step] = Nothing
        /\ UNCHANGED << cache, req, snap, hit, wire >>
    BY <1>1, <1>4, CallContext DEF CacheMiss, AskProvider, HandlerOK
  <2>2. /\ Stages[c] = "placed" /\ Stages'[c] = "telling"
        /\ Asked[c] = req[c].method /\ About[c] = snap[c]
    BY <2>1 DEF Stages, Stage, Asked, About
  <2>3. Abstract!Step(c, "placed", "telling") /\ UNCHANGED << Asked, About, Retold >>
    BY <1>1, <2>1, <2>2, CallContext, MapsStep
  <2> QED
    BY <1>2, <2>1, <2>2, <2>3 DEF Abstract!Begin
<1>5. ASSUME CacheMiss(c) \/ AskProvider(c), Return(c, "Internal")
      PROVE  Abstract!Refuse(c) \/ Abstract!GiveUp(c)
  BY <1>1, <1>5, ReturnsImplement DEF CacheMiss, AskProvider
<1> QED
  BY <1>3, <1>4, <1>5

\* A call that has not returned has not heard StepComplete, so a Send adds to what it has
\* heard and to nothing else.
LEMMA SendIsHeard ==
  ASSUME NarrationInv, NEW c \in Calls, CallStep(c), pc[c] # "returned"
  PROVE  /\ \A token : wire' = [wire EXCEPT ![c] = SentToken(c, token)]
                         => Abstract!Hears(c, Append(wire[c].tokens, token), wire[c].summary)
         /\ wire' = [wire EXCEPT ![c] = SentSummary(c)]
              => Abstract!Hears(c, wire[c].tokens, TRUE)
<1>1. wire[c] \in Wires /\ wire[c].complete = Nothing
  BY CallContext DEF HandlerOK, WireOK
<1>2. wire[c] = [tokens |-> wire[c].tokens, summary |-> wire[c].summary, complete |-> Nothing]
  BY <1>1 DEF Wires
<1>3. \A token : SentToken(c, token) =
        [tokens |-> Append(wire[c].tokens, token), summary |-> wire[c].summary, complete |-> Nothing]
  <2> TAKE token
  <2>1. \A tokens, heard, more :
          [[tokens |-> tokens, summary |-> heard, complete |-> Nothing] EXCEPT !.tokens = more]
             = [tokens |-> more, summary |-> heard, complete |-> Nothing]
    OBVIOUS
  <2>2. SentToken(c, token) =
          [[tokens |-> wire[c].tokens, summary |-> wire[c].summary, complete |-> Nothing]
             EXCEPT !.tokens = Append(wire[c].tokens, token)]
    BY <1>2 DEF SentToken
  <2> QED
    BY <2>1, <2>2
<1>4. SentSummary(c) = [tokens |-> wire[c].tokens, summary |-> TRUE, complete |-> Nothing]
  <2>1. \A tokens, heard, flag :
          [[tokens |-> tokens, summary |-> heard, complete |-> Nothing] EXCEPT !.summary = flag]
             = [tokens |-> tokens, summary |-> flag, complete |-> Nothing]
    OBVIOUS
  <2>2. SentSummary(c) =
          [[tokens |-> wire[c].tokens, summary |-> wire[c].summary, complete |-> Nothing]
             EXCEPT !.summary = TRUE]
    BY <1>2 DEF SentSummary
  <2> QED
    BY <2>1, <2>2
<1> QED
  BY <1>3, <1>4 DEF Abstract!Hears

\* A live call tells its client the next token of its own answer, whichever of the two
\* loops receives it.
LEMMA TellImplements ==
  ASSUME NarrationInv, NEW c \in Calls, DrainToken(c) \/ RangeToken(c)
  PROVE  Abstract!Tell(c) \/ Abstract!Refuse(c) \/ Abstract!GiveUp(c)
<1> DEFINE token == Token(c, stream[c].got + 1)
<1>1. CallStep(c)
  BY DEF CallStep, Handler
<1>2. pc[c] \in {"drain", "range"} /\ UNCHANGED << walker, cache, req, snap, hit >>
  BY DEF DrainToken, RangeToken
<1>3. CASE SendFails(c)
  BY <1>1, <1>2, <1>3, ReturnsImplement DEF SendFails
<1>4. CASE ~SendFails(c)
  <2>1. wire' = [wire EXCEPT ![c] = SentToken(c, token)] /\ pc'[c] = pc[c]
    BY <1>1, <1>4, CallContext DEF DrainToken, RangeToken, Send
  <2>2. stream[c].got = Len(wire[c].tokens)
    BY <1>1, <1>2, CallContext DEF HandlerOK, WireOK
  <2>3. Abstract!Hears(c, Append(wire[c].tokens, token), wire[c].summary)
    BY <1>1, <1>2, <2>1, SendIsHeard
  <2>4. Append(wire[c].tokens, token) = Abstract!NextOf(c, c)
    BY <2>2 DEF Token, Abstract!NextOf
  <2>5. Stages[c] = "telling" /\ Stages'[c] = "telling"
    BY <1>2, <2>1 DEF Stages, Stage
  <2>6. UNCHANGED << Stages, Asked, About, Retold >>
    <3>1. UNCHANGED Stages
      BY <1>1, <2>5, CallContext, MapsStep
    <3>2. UNCHANGED << Asked, About, Retold >>
      BY <1>1, <1>2, <2>1, CallContext, MapsStep
    <3> QED
      BY <3>1, <3>2
  <2> HIDE DEF token
  <2> QED
    BY <1>2, <2>3, <2>4, <2>5, <2>6 DEF Abstract!Tell, Abstract!talkVars, Trail
<1> QED
  BY <1>3, <1>4

\* The summary of a live narration is sent, or was nil and is passed over.
LEMMA TellSummaryImplements ==
  ASSUME NarrationInv, NEW c \in Calls, DrainSummary(c), wire' # wire \/ pc' # pc
  PROVE  Abstract!TellSummary(c) \/ Abstract!Refuse(c) \/ Abstract!GiveUp(c)
<1>1. CallStep(c)
  BY DEF CallStep, Handler
<1>2. /\ pc[c] = "drain" /\ summary[c] = "value"
      /\ UNCHANGED << walker, cache, req, snap, hit >>
      /\ Send(c, SentSummary(c), "drain") \/ SendFails(c)
  BY DEF DrainSummary
<1>3. CASE SendFails(c)
  BY <1>1, <1>2, <1>3, ReturnsImplement DEF SendFails
<1>4. CASE Send(c, SentSummary(c), "drain")
  <2>1. wire' = [wire EXCEPT ![c] = SentSummary(c)] /\ pc'[c] = "drain"
    BY <1>1, <1>4, CallContext DEF Send
  <2>2. ~wire[c].summary /\ req[c].method = "Navigate"
    BY <1>1, <1>2, CallContext DEF HandlerOK, WireOK
  <2>3. Abstract!Hears(c, wire[c].tokens, TRUE)
    BY <1>1, <1>2, <2>1, SendIsHeard
  <2>4. Stages[c] = "telling" /\ Stages'[c] = "telling" /\ Asked[c] = "Navigate"
    BY <1>2, <2>1, <2>2 DEF Stages, Stage, Asked
  <2>5. UNCHANGED << Stages, Asked, About, Retold >>
    <3>1. UNCHANGED Stages
      BY <1>1, <2>4, CallContext, MapsStep
    <3>2. UNCHANGED << Asked, About, Retold >>
      BY <1>1, <1>2, <2>1, CallContext, MapsStep
    <3> QED
      BY <3>1, <3>2
  <2> QED
    BY <1>2, <2>2, <2>3, <2>4, <2>5 DEF Abstract!TellSummary, Abstract!talkVars, Trail
<1> QED
  BY <1>2, <1>3, <1>4
\* A whole narration is archived under the step it is about.
LEMMA ArchiveImplements ==
  ASSUME NarrationInv, NEW c \in Calls, CacheNarration(c)
  PROVE  Abstract!Archive(c)
<1>1. CallStep(c)
  BY DEF CallStep, Handler
<1>2. /\ pc[c] = "drain" /\ pc'[c] = "complete"
      /\ cache' = [cache EXCEPT ![snap[c].step] =
             [by |-> c, tokens |-> stream[c].got, summary |-> summary[c] = "taken"]]
      /\ UNCHANGED << walker, req, snap, hit, wire >>
  BY <1>1, CallContext DEF CacheNarration
<1>3. /\ req[c].method = "Navigate" /\ hit[c] = Nothing
      /\ stream[c].got = Len(wire[c].tokens)
      /\ wire[c].summary <=> summary[c] = "taken"
  BY <1>1, <1>2, CallContext DEF HandlerOK, WireOK
<1>4. (summary[c] = "taken") = wire[c].summary
  <2>1. wire[c].summary \in BOOLEAN /\ (summary[c] = "taken") \in BOOLEAN
    BY <1>1, CallContext DEF Wires
  <2> QED
    BY <1>3, <2>1
<1>5. /\ Stages[c] = "telling" /\ Stages'[c] = "told"
      /\ Asked[c] = "Navigate" /\ About[c] = snap[c]
  BY <1>2, <1>3 DEF Stages, Stage, Asked, About
<1>6. Abstract!Step(c, "telling", "told") /\ UNCHANGED << Asked, About, Retold >>
  BY <1>1, <1>2, <1>3, <1>5, CallContext, MapsStep
<1>7. cache' = [cache EXCEPT ![About[c].step] =
          [by |-> c, tokens |-> Len(wire[c].tokens), summary |-> wire[c].summary]]
  BY <1>2, <1>3, <1>4, <1>5
<1> QED
  BY <1>2, <1>5, <1>6, <1>7 DEF Abstract!Archive, Trail

\* The answer of any other call has been told once its channel is closed.
LEMMA SettleImplements ==
  ASSUME NarrationInv, NEW c \in Calls, RangeClosed(c)
  PROVE  Abstract!Settle(c)
<1>1. CallStep(c)
  BY DEF CallStep, Handler
<1>2. /\ pc[c] = "range" /\ pc'[c] = "complete" /\ req[c].method # "Navigate"
      /\ hit[c] = Nothing
      /\ UNCHANGED << walker, cache, req, snap, hit, wire >>
  BY <1>1, CallContext DEF RangeClosed, HandlerOK
<1>3. Stages[c] = "telling" /\ Stages'[c] = "told" /\ Asked[c] # "Navigate"
  BY <1>2 DEF Stages, Stage, Asked
<1>4. Abstract!Step(c, "telling", "told") /\ UNCHANGED << Asked, About, Retold >>
  BY <1>1, <1>2, <1>3, CallContext, MapsStep
<1> QED
  BY <1>2, <1>3, <1>4 DEF Abstract!Settle, Trail

\* A replay tells the next token of the entry it holds, whatever the cache holds by now.
LEMMA RetellImplements ==
  ASSUME NarrationInv, NEW c \in Calls, ReplayToken(c)
  PROVE  Abstract!Retell(c) \/ Abstract!Refuse(c) \/ Abstract!GiveUp(c)
<1> DEFINE token == Token(hit[c].by, Len(wire[c].tokens) + 1)
<1>1. CallStep(c)
  BY DEF CallStep, Handler
<1>2. /\ pc[c] = "replay" /\ Len(wire[c].tokens) < hit[c].tokens
      /\ UNCHANGED << walker, cache, req, snap, hit >>
  BY DEF ReplayToken
<1>3. CASE ctxDone[c]
  <2>1. Return(c, "Canceled") /\ UNCHANGED wire
    BY <1>3 DEF ReplayToken, SendFails
  <2> QED
    BY <1>1, <1>2, <2>1, ReturnsImplement
<1>4. CASE ~ctxDone[c]
  <2>1. wire' = [wire EXCEPT ![c] = SentToken(c, token)] /\ pc'[c] = "replay"
    BY <1>1, <1>4, CallContext DEF ReplayToken, Send
  <2>2. Abstract!Hears(c, Append(wire[c].tokens, token), wire[c].summary)
    BY <1>1, <1>2, <2>1, SendIsHeard
  <2>3. Append(wire[c].tokens, token) = Abstract!NextOf(c, hit[c].by)
    BY DEF Token, Abstract!NextOf
  <2>4. Stages[c] = "retelling" /\ Stages'[c] = "retelling" /\ Retold[c] = hit[c]
    BY <1>2, <2>1 DEF Stages, Stage, Retold
  <2>5. UNCHANGED Stages
    BY <1>1, <2>4, CallContext, MapsStep
  <2>6. UNCHANGED << Asked, About, Retold >>
    BY <1>1, <1>2, <2>1, CallContext, MapsStep
  <2> HIDE DEF token
  <2> QED
    BY <1>2, <2>2, <2>3, <2>4, <2>5, <2>6 DEF Abstract!Retell, Abstract!talkVars, Trail
<1> QED
  BY <1>3, <1>4

\* After its last token a replay tells the summary, if the entry has one.
LEMMA RetellSummaryImplements ==
  ASSUME NarrationInv, NEW c \in Calls, ReplaySummary(c)
  PROVE  Abstract!RetellSummary(c) \/ Abstract!Refuse(c) \/ Abstract!GiveUp(c)
<1>1. CallStep(c)
  BY DEF CallStep, Handler
<1>2. /\ pc[c] = "replay" /\ Len(wire[c].tokens) = hit[c].tokens
      /\ UNCHANGED << walker, cache, req, snap, hit >>
  BY DEF ReplaySummary
<1>3. hit[c] \in CachedStep /\ wire[c] \in Wires /\ wire \in [Calls -> Wires]
  BY <1>1, <1>2, CallContext DEF HandlerOK, NarrationTypeOK
<1>4. CASE SendFails(c)
  BY <1>1, <1>2, <1>4, ReturnsImplement DEF SendFails
<1>5. ASSUME pc'[c] = "complete", Abstract!Hears(c, wire[c].tokens, hit[c].summary)
      PROVE  Abstract!RetellSummary(c)
  <2>1. Stages[c] = "retelling" /\ Stages'[c] = "told" /\ Retold[c] = hit[c]
    BY <1>2, <1>5 DEF Stages, Stage, Retold
  <2>2. Abstract!Step(c, "retelling", "told") /\ UNCHANGED << Asked, About, Retold >>
    BY <1>1, <1>2, <1>5, <2>1, CallContext, MapsStep
  <2> QED
    BY <1>2, <1>5, <2>1, <2>2 DEF Abstract!RetellSummary, Trail
<1>6. CASE hit[c].summary /\ Send(c, SentSummary(c), "complete")
  <2>1. wire' = [wire EXCEPT ![c] = SentSummary(c)] /\ pc'[c] = "complete"
    BY <1>1, <1>6, CallContext DEF Send
  <2>2. Abstract!Hears(c, wire[c].tokens, TRUE)
    BY <1>1, <1>2, <2>1, SendIsHeard
  <2>3. hit[c].summary = TRUE
    BY <1>3, <1>6 DEF CachedStep
  <2> QED
    BY <1>5, <2>1, <2>2, <2>3
<1>7. CASE ~hit[c].summary /\ Goto(c, "complete") /\ UNCHANGED wire
  <2>1. pc'[c] = "complete"
    BY <1>1, <1>7, CallContext
  <2>2. wire[c].summary = FALSE /\ wire[c].complete = Nothing /\ hit[c].summary = FALSE
    <3>1. ~wire[c].summary /\ wire[c].complete = Nothing
      BY <1>1, <1>2, CallContext DEF HandlerOK, WireOK
    <3> QED
      BY <1>3, <1>7, <3>1 DEF Wires, CachedStep
  <2>3. wire[c] = [tokens |-> wire[c].tokens, summary |-> FALSE, complete |-> Nothing]
    <3>1. wire[c] = [tokens |-> wire[c].tokens, summary |-> wire[c].summary,
                     complete |-> wire[c].complete]
      BY <1>3 DEF Wires
    <3> QED
      BY <2>2, <3>1
  <2>4. wire' = [wire EXCEPT ![c] = wire[c]]
    BY <1>3, <1>7
  <2>5. Abstract!Hears(c, wire[c].tokens, hit[c].summary)
    BY <2>2, <2>3, <2>4 DEF Abstract!Hears
  <2> QED
    BY <1>5, <2>1, <2>5
<1> QED
  BY <1>4, <1>6, <1>7 DEF ReplaySummary

\* StepComplete says of which moment the answer was and how much of it there is.
LEMMA CompleteIsTold ==
  ASSUME NarrationTypeOK, wire \in [Calls -> Wires],
         NEW c \in Calls, HandlerOK(c), WireOK(c), pc[c] = "complete"
  PROVE  CompleteEvent(c) =
           [step    |-> snap[c].step,
            crumb   |-> IF req[c].method = "ExpandTerm" THEN << >> ELSE snap[c].crumb,
            edges   |-> IF req[c].method = "ExpandTerm" THEN << >> ELSE snap[c].edges,
            summary |-> wire[c].summary,
            after   |-> Len(wire[c].tokens)]
<1>1. CompleteEvent(c).summary = wire[c].summary
  <2>1. CompleteEvent(c).summary \in BOOLEAN
    BY CompleteEventType DEF CompleteEvents
  <2>2. wire[c].summary \in BOOLEAN
    BY DEF Wires
  <2> QED
    BY <2>1, <2>2, CompleteSummary
<1>2. CASE req[c].method = "ExpandTerm"
  <2>1. CompleteEvent(c) = TermComplete(c)
    BY <1>2 DEF CompleteEvent, HandlerOK
  <2>2. TermComplete(c) = [step |-> snap[c].step, crumb |-> << >>, edges |-> << >>,
                           summary |-> FALSE, after |-> Len(wire[c].tokens)]
    <3> DEFINE Event(crumb, edges, flag) ==
                 [step |-> snap[c].step, crumb |-> crumb, edges |-> edges,
                  summary |-> flag, after |-> Len(wire[c].tokens)]
    <3>1. ASSUME NEW crumb, NEW edges, NEW flag, NEW none
          PROVE  /\ [Event(crumb, edges, flag) EXCEPT !.crumb = none] = Event(none, edges, flag)
                 /\ [Event(crumb, edges, flag) EXCEPT !.edges = none] = Event(crumb, none, flag)
      OBVIOUS
    <3>2. TermComplete(c) =
            [[Event(snap[c].crumb, snap[c].edges, FALSE) EXCEPT !.crumb = << >>]
               EXCEPT !.edges = << >>]
      BY DEF TermComplete, StepComplete
    <3> HIDE DEF Event
    <3>3. \A flag : [[Event(snap[c].crumb, snap[c].edges, flag) EXCEPT !.crumb = << >>]
                        EXCEPT !.edges = << >>] = Event(<< >>, << >>, flag)
      <4> TAKE flag
      <4>1. [Event(snap[c].crumb, snap[c].edges, flag) EXCEPT !.crumb = << >>]
              = Event(<< >>, snap[c].edges, flag)
        BY <3>1
      <4>2. [Event(<< >>, snap[c].edges, flag) EXCEPT !.edges = << >>]
              = Event(<< >>, << >>, flag)
        BY <3>1
      <4> QED
        BY <4>1, <4>2
    <3>4. TermComplete(c) = Event(<< >>, << >>, FALSE)
      BY <3>2, <3>3
    <3> QED
      BY <3>4 DEF Event
  <2>3. wire[c].summary = FALSE
    <3>1. TermComplete(c).summary = FALSE
      BY <2>2
    <3> QED
      BY <1>1, <2>1, <3>1
  <2> QED
    BY <1>2, <2>1, <2>2, <2>3
<1>3. CASE req[c].method # "ExpandTerm"
  <2>1. PICK b \in BOOLEAN : CompleteEvent(c) = StepComplete(c, b)
    <3>1. hit[c] # Nothing => hit[c].summary \in BOOLEAN
      BY DEF NarrationTypeOK, CachedStep
    <3> QED
      BY <1>3, <3>1 DEF CompleteEvent
  <2>2. CompleteEvent(c) = [step |-> snap[c].step, crumb |-> snap[c].crumb,
                            edges |-> snap[c].edges, summary |-> b,
                            after |-> Len(wire[c].tokens)]
    BY <2>1 DEF StepComplete
  <2>3. b = wire[c].summary
    BY <1>1, <2>2
  <2> QED
    BY <1>3, <2>2, <2>3
<1> QED
  BY <1>2, <1>3

\* A successful call ends with StepComplete.
LEMMA CompleteImplements ==
  ASSUME NarrationInv, NEW c \in Calls, SendComplete(c)
  PROVE  Abstract!Complete(c) \/ Abstract!Refuse(c) \/ Abstract!GiveUp(c)
<1>1. CallStep(c)
  BY DEF CallStep, Handler
<1>2. pc[c] = "complete" /\ UNCHANGED << walker, cache, req, snap, hit >>
  BY DEF SendComplete
<1>3. CASE SendFails(c)
  BY <1>1, <1>2, <1>3, ReturnsImplement DEF SendFails
<1>4. CASE /\ wire' = [wire EXCEPT ![c].complete = CompleteEvent(c)]
           /\ Return(c, "OK")
  <2>1. Abstract!Ends(c)
    BY <1>1, <1>4, CallContext, MapsStep
  <2>2. Stages[c] = "told" /\ Asked[c] = req[c].method /\ About[c] = snap[c]
    BY <1>2 DEF Stages, Stage, Asked, About
  <2>3. CompleteEvent(c) =
          [step    |-> About[c].step,
           crumb   |-> IF Asked[c] = "ExpandTerm" THEN << >> ELSE About[c].crumb,
           edges   |-> IF Asked[c] = "ExpandTerm" THEN << >> ELSE About[c].edges,
           summary |-> wire[c].summary,
           after   |-> Len(wire[c].tokens)]
    BY <1>1, <1>2, <2>2, CallContext, CompleteIsTold
  <2> QED
    BY <1>2, <1>4, <2>1, <2>2, <2>3 DEF Abstract!Complete, Trail
<1> QED
  BY <1>3, <1>4 DEF SendComplete

\* A select loop that sees its context done leaves, and keeps nothing of the answer.
LEMMA CancelledImplements ==
  ASSUME NarrationInv, NEW c \in Calls, DrainCancelled(c)
  PROVE  Abstract!Refuse(c) \/ Abstract!GiveUp(c)
<1>1. CallStep(c)
  BY DEF CallStep, Handler
<1> QED
  BY <1>1, ReturnsImplement DEF DrainCancelled

\* What the clients do not see: the goroutines and their channels, a context that ends, a
\* store that forgets the session.
LEMMA InternalUnseen ==
  ASSUME NarrationInv,
         \/ \E c \in Calls : CancelCall(c) \/ DrainClosed(c) \/ TokenGoroutine(c)
                             \/ SummaryAnswer(c)
         \/ \E c \in Calls : DrainSummary(c) /\ UNCHANGED << wire, pc >>
         \/ DropSession
         \/ UNCHANGED vars
  PROVE  UNCHANGED Abstract!conversationVars
<1>1. UNCHANGED << walker, cache, pc, req, snap, hit, wire >>
  BY DEF CancelCall, DrainClosed, TokenGoroutine, ProviderRead, ProviderPut, ProviderEnd,
         SummaryAnswer, DrainSummary, DropSession, vars, handlerVars
<1>2. UNCHANGED << Stages, Asked, About, Retold >>
  BY <1>1 DEF Stages, Stage, Asked, About, Retold
<1> QED
  BY <1>1, <1>2 DEF Abstract!conversationVars, Abstract!talkVars, Trail

\* The handlers, their goroutines, channels and locks implement the conversation: each step
\* is one of its steps, or one that no client could tell from nothing.
THEOREM NarrationImplementsConversation == Spec => NarrationIsConversation
<1>1. Init => Abstract!ConversationInit
  <2> SUFFICES ASSUME Init
               PROVE  Abstract!ConversationInit
    OBVIOUS
  <2>1. Trail(walker) = << EntryID >>
    BY GraphAssumption DEF Init, NewWalker, Trail
  <2>2. /\ Stages = [c \in Calls |-> "new"] /\ Asked = [c \in Calls |-> Nothing]
        /\ About = [c \in Calls |-> Nothing] /\ Retold = [c \in Calls |-> Nothing]
    BY DEF Init, Stages, Stage, Asked, About, Retold
  <2> QED
    BY <2>1, <2>2 DEF Init, NoEvents, Abstract!ConversationInit, Abstract!HistoryInit
<1>2. NarrationInv /\ [Next]_vars
        => [Abstract!ConversationNext]_(Abstract!conversationVars)
  <2> SUFFICES ASSUME NarrationInv, [Next]_vars
               PROVE  Abstract!ConversationNext \/ UNCHANGED Abstract!conversationVars
    OBVIOUS
  <2>1. ASSUME NEW c \in Calls, Handler(c)
        PROVE  Abstract!ConversationNext \/ UNCHANGED Abstract!conversationVars
    <3>1. CASE DrainClosed(c) \/ (DrainSummary(c) /\ UNCHANGED << wire, pc >>)
      BY <3>1, InternalUnseen
    <3>2. CASE ~DrainClosed(c) /\ ~(DrainSummary(c) /\ UNCHANGED << wire, pc >>)
      <4>1. \/ Abstract!Refuse(c) \/ Abstract!Go(c) \/ Abstract!Look(c) \/ Abstract!Recall(c)
            \/ Abstract!Begin(c) \/ Abstract!Tell(c) \/ Abstract!TellSummary(c)
            \/ Abstract!Retell(c) \/ Abstract!RetellSummary(c) \/ Abstract!Archive(c)
            \/ Abstract!Settle(c) \/ Abstract!Complete(c) \/ Abstract!GiveUp(c)
        BY <2>1, <3>2, MoveImplements, LookImplements, AnswerImplements, TellImplements,
           TellSummaryImplements, ArchiveImplements, SettleImplements, RetellImplements,
           RetellSummaryImplements, CompleteImplements, CancelledImplements
           DEF Handler
      <4> QED
        BY <4>1 DEF Abstract!ConversationNext
    <3> QED
      BY <3>1, <3>2
  <2>2. ASSUME NEW c \in Calls, Environment(c), ~CancelCall(c)
        PROVE  Abstract!ConversationNext
    BY <2>2, ArrivalImplements DEF Environment
  <2>3. CASE \/ \E c \in Calls : CancelCall(c) \/ TokenGoroutine(c) \/ SummaryAnswer(c)
             \/ DropSession
             \/ UNCHANGED vars
    BY <2>3, InternalUnseen
  <2> QED
    BY <2>1, <2>2, <2>3 DEF Next
<1> QED
  BY <1>1, <1>2, NarrationInvariant, PTL
     DEF Spec, NarrationIsConversation, Abstract!ConversationSpec
================================================================================
