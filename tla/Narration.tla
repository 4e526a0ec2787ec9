------------------------------- MODULE Narration -------------------------------
(***************************************************************************)
(* The streaming calls of one session: Navigate, Rephrase and ExpandTerm   *)
(* (server/navigate.go, rephrase.go, expand_term.go), the narration cache  *)
(* of the session (internal/session/session.go) and the two goroutines     *)
(* behind a call: the one that copies the LLM's stream into a channel      *)
(* (internal/llm/anthropic.go) and the one that asks for a step summary.   *)
(*                                                                         *)
(* Each call slot serves one call.  A handler's steps are the points where *)
(* it touches what others see: the store, the session under its mutex, the *)
(* cache under its own, a channel, the wire.  A critical section is one    *)
(* step.  A receive and the Send that follows it are one step as well: a   *)
(* cancellation between them has the effect of one just before.            *)
(***************************************************************************)
EXTENDS StepGraph

CONSTANTS
    Calls,          \* the calls clients make, one per slot
    HunkSteps,      \* the steps with a HunkSpan: all of a review session's
    OmitRawSource,  \* the session was opened with omit_raw_source
    NTokens,        \* bound: the text deltas of one complete LLM answer
    ChanCap,        \* capacity of the token channel (32 in the code)
    UpstreamFails,  \* the LLM service may break a stream or refuse a request
    ClientCancels,  \* clients may cancel a call or disconnect
    Requests,       \* the requests the clients make
    Nothing         \* no cache entry, no snapshot, no event

Methods == {"Navigate", "Rephrase", "ExpandTerm"}

\* A Navigate destination; "none" stands for a missing or unknown one.
Destination ==
         [kind : {"forward", "back", "none"}]
    \cup [kind : {"step"}, id : IDs]
    \cup [kind : {"edge"}, label : Labels]

\* Only Navigate has a destination.
Request == [method : Methods, dest : Destination]

\* A StepComplete on the wire: the step, its breadcrumb and edges, whether it carries
\* a summary, and how many tokens were sent before it.
CompleteEvents == [step : IDs, crumb : Seq(IDs), edges : Seq(Edge),
                   summary : BOOLEAN, after : Nat]

\* Nothing stands for the absence of a value, so it is none itself.
ASSUME NarrationAssumption ==
    /\ HunkSteps \subseteq Steps
    /\ OmitRawSource \in BOOLEAN
    /\ NTokens \in Nat
    /\ ChanCap \in Nat \ {0}
    /\ UpstreamFails \in BOOLEAN
    /\ ClientCancels \in BOOLEAN
    /\ Requests \subseteq Request
    /\ Nothing \notin CompleteEvents

VARIABLES
    registered,     \* the store still holds the session
    walker,         \* Session.Walker
    cache,          \* Session.narrationCache
    pc,             \* where the handler of each call is
    req,            \* the request of each call
    snap,           \* what the handler copied under the session mutex
    hit,            \* the cache entry a handler replays
    result,         \* the status a handler returned
    ctxDone,        \* the call's context is done
    prompt,         \* what code the handler gave the LLM
    stream,         \* the token goroutine and its channel
    summary,        \* the summary goroutine and its channel
    wire            \* what the client of each call has been sent

handlerVars  == << pc, req, snap, hit, result >>
providerVars == << prompt, stream, summary >>
vars == << registered, walker, cache, handlerVars, ctxDone, providerVars, wire >>

--------------------------------------------------------------------------------
(* Values *)

Token(src, n) == [src |-> src, n |-> n]

\* The first n tokens of the answer that was generated for call src.
Tokens(src, n) == [i \in 1..n |-> Token(src, i)]

CachedStep == [by : Calls, tokens : 0..NTokens, summary : BOOLEAN]

\* The states of the token goroutine: reading the next event, holding a token it
\* has yet to put into the channel, ended with the channel closed.
NoStream  == [state |-> "none", sent |-> 0, got |-> 0, open |-> FALSE, failed |-> FALSE]
NewStream == [NoStream EXCEPT !.state = "next", !.open = TRUE]

NoEvents == [tokens |-> << >>, summary |-> FALSE, complete |-> Nothing]

Init ==
    /\ registered = TRUE
    /\ walker = NewWalker
    /\ cache = [s \in Steps |-> Nothing]
    /\ pc = [c \in Calls |-> "idle"]
    /\ req = [c \in Calls |-> Nothing]
    /\ snap = [c \in Calls |-> Nothing]
    /\ hit = [c \in Calls |-> Nothing]
    /\ result = [c \in Calls |-> "pending"]
    /\ ctxDone = [c \in Calls |-> FALSE]
    /\ prompt = [c \in Calls |-> "none"]
    /\ stream = [c \in Calls |-> NoStream]
    /\ summary = [c \in Calls |-> "none"]
    /\ wire = [c \in Calls |-> NoEvents]

--------------------------------------------------------------------------------
(* Steps every handler is made of *)

Goto(c, label) == pc' = [pc EXCEPT ![c] = label]

\* The handler returns: gRPC then cancels the stream's context.
Return(c, status) ==
    /\ pc' = [pc EXCEPT ![c] = "returned"]
    /\ result' = [result EXCEPT ![c] = status]
    /\ ctxDone' = [ctxDone EXCEPT ![c] = TRUE]

\* stream.Send, and what the handler does next: go on when the event was sent.
\* It fails only once the transport has ended the call's context, and the handler
\* then returns the error.
Send(c, events, label) ==
    /\ wire' = [wire EXCEPT ![c] = events]
    /\ Goto(c, label)
    /\ UNCHANGED << result, ctxDone >>

SendFails(c) ==
    /\ ctxDone[c]
    /\ Return(c, "Canceled")
    /\ UNCHANGED wire

SentToken(c, token) == [wire[c] EXCEPT !.tokens = Append(@, token)]
SentSummary(c) == [wire[c] EXCEPT !.summary = TRUE]

\* The StepComplete of Navigate and Rephrase, and the one of ExpandTerm, which
\* carries the expanded term in place of edges and a breadcrumb.
StepComplete(c, withSummary) ==
    [step    |-> snap[c].step,
     crumb   |-> snap[c].crumb,
     edges   |-> snap[c].edges,
     summary |-> withSummary,
     after   |-> Len(wire[c].tokens)]

TermComplete(c) ==
    [StepComplete(c, FALSE) EXCEPT !.crumb = << >>, !.edges = << >>]

\* What a handler copies out of the session while it holds the mutex: the step,
\* the breadcrumb and the edges on offer.
Snapshot(w) == [step  |-> w.current,
                crumb |-> w.breadcrumb,
                edges |-> NavigableEdges(w)]

\* Mutant: no fallback to the lines of the retained file.
SourceCodeRawOnly(step) == IF OmitRawSource THEN "empty" ELSE "raw"

\* The code a handler puts into the prompt: a step's raw text unless the session
\* omits it, then the lines of the retained file, which review sessions lack.
\* Navigate uses the diff of a hunk step; Rephrase and ExpandTerm look only at
\* Source, and ExpandTerm may find no step at all.
SourceCode(step) == IF OmitRawSource THEN "slice" ELSE "raw"

NavigateCode(step) ==
    IF step \in HunkSteps THEN IF OmitRawSource THEN "empty" ELSE "raw"
                          ELSE SourceCode(step)

RephraseCode(step) == IF step \in HunkSteps THEN "empty" ELSE SourceCode(step)

ExpandTermCode(step) ==
    IF step \in Steps \ HunkSteps THEN SourceCode(step) ELSE "empty"

--------------------------------------------------------------------------------
(* A call arrives: the request is validated and the session looked up *)

\* A request without a session id, or an ExpandTerm without a term.
RejectRequest(c) ==
    /\ pc[c] = "idle"
    /\ Return(c, "InvalidArgument")
    /\ UNCHANGED << registered, walker, cache, req, snap, hit, providerVars, wire >>

StartCall(c, r) ==
    /\ pc[c] = "idle"
    /\ req' = [req EXCEPT ![c] = r]
    /\ IF registered
       THEN Goto(c, "got") /\ UNCHANGED << result, ctxDone >>
       ELSE Return(c, "NotFound")
    /\ UNCHANGED << registered, walker, cache, snap, hit, providerVars, wire >>

\* The session leaves the store: CloseSession or the evictor.  Handlers that have
\* looked it up keep their pointer to it.
DropSession ==
    /\ registered
    /\ registered' = FALSE
    /\ UNCHANGED << walker, cache, handlerVars, ctxDone, providerVars, wire >>

\* The client gives up on a call that is in flight.
CancelCall(c) ==
    /\ ClientCancels
    /\ pc[c] \notin {"idle", "returned"}
    /\ ~ctxDone[c]
    /\ ctxDone' = [ctxDone EXCEPT ![c] = TRUE]
    /\ UNCHANGED << registered, walker, cache, handlerVars, providerVars, wire >>

--------------------------------------------------------------------------------
(* Navigate *)

Travel(w, dest) ==
    CASE dest.kind = "forward" -> Forward(w)
      [] dest.kind = "back"    -> Back(w)
      [] dest.kind = "step"    -> GoTo(w, dest.id)
      [] dest.kind = "edge"    -> FollowEdgeLabel(w, dest.label)
      [] dest.kind = "none"    -> Refused(w)

\* The critical section: the walker moves and the handler takes its snapshot.
NavigateMove(c) ==
    /\ pc[c] = "got"
    /\ req[c].method = "Navigate"
    /\ LET r == Travel(walker, req[c].dest)
       IN  /\ walker' = r.walker
           /\ IF r.ok
              THEN /\ snap' = [snap EXCEPT ![c] = Snapshot(r.walker)]
                   /\ Goto(c, "lookup")
                   /\ UNCHANGED << result, ctxDone >>
              ELSE /\ Return(c, "InvalidArgument")
                   /\ UNCHANGED snap
    /\ UNCHANGED << registered, cache, req, hit, providerVars, wire >>

\* Mutant: the cache is asked about the step the session now stands on.
CacheHitAtWalker(c) ==
    /\ pc[c] = "lookup"
    /\ HasStep(walker.current)
    /\ cache[walker.current] # Nothing
    /\ hit' = [hit EXCEPT ![c] = cache[walker.current]]
    /\ Goto(c, "replay")
    /\ UNCHANGED << registered, walker, cache, req, snap, result, ctxDone,
                    providerVars, wire >>

CacheHit(c) ==
    /\ pc[c] = "lookup"
    /\ cache[snap[c].step] # Nothing
    /\ hit' = [hit EXCEPT ![c] = cache[snap[c].step]]
    /\ Goto(c, "replay")
    /\ UNCHANGED << registered, walker, cache, req, snap, result, ctxDone,
                    providerVars, wire >>

\* Mutant: the breadcrumb is read again after the session was unlocked.
CacheMissRereads(c) ==
    /\ pc[c] = "lookup"
    /\ cache[snap[c].step] = Nothing
    /\ snap' = [snap EXCEPT ![c].crumb = walker.breadcrumb]
    /\ stream' = [stream EXCEPT ![c] = NewStream]
    /\ Goto(c, "drain")
    /\ UNCHANGED << registered, walker, cache, req, hit, result, ctxDone,
                    prompt, summary, wire >>

\* A miss: a hunk step's summary goroutine starts, then the provider is asked to
\* narrate, which may fail at once and leave that goroutine behind.
CacheMiss(c) ==
    /\ pc[c] = "lookup"
    /\ cache[snap[c].step] = Nothing
    /\ summary' = [summary EXCEPT ![c] =
           IF snap[c].step \in HunkSteps THEN "running" ELSE "none"]
    /\ prompt' = [prompt EXCEPT ![c] = NavigateCode(snap[c].step)]
    /\ \/ /\ stream' = [stream EXCEPT ![c] = NewStream]
          /\ Goto(c, "drain")
          /\ UNCHANGED << result, ctxDone >>
       \/ /\ UpstreamFails
          /\ Return(c, "Internal")
          /\ UNCHANGED stream
    /\ UNCHANGED << registered, walker, cache, req, snap, hit, wire >>

\* Mutant: what a cancelled call has sent so far is kept as the step's narration.
DrainCancelledCaches(c) ==
    /\ pc[c] = "drain"
    /\ stream[c].open \/ summary[c] \notin {"none", "taken", "takenNil"}
    /\ ctxDone[c]
    /\ cache' = [cache EXCEPT ![snap[c].step] =
           [by |-> c, tokens |-> stream[c].got, summary |-> summary[c] = "taken"]]
    /\ Return(c, "Canceled")
    /\ UNCHANGED << registered, walker, req, snap, hit, providerVars, wire >>

\* The select loop of the live path: any ready case may be taken.
DrainCancelled(c) ==
    /\ pc[c] = "drain"
    /\ stream[c].open \/ summary[c] \notin {"none", "taken", "takenNil"}
    /\ ctxDone[c]
    /\ Return(c, "Canceled")
    /\ UNCHANGED << registered, walker, cache, req, snap, hit, providerVars, wire >>

DrainToken(c) ==
    /\ pc[c] = "drain"
    /\ stream[c].open
    /\ stream[c].got < stream[c].sent
    /\ stream' = [stream EXCEPT ![c].got = @ + 1]
    /\ \/ Send(c, SentToken(c, Token(c, stream[c].got + 1)), "drain")
       \/ SendFails(c)
    /\ UNCHANGED << registered, walker, cache, req, snap, hit, prompt, summary >>

\* Mutant: a closed channel ends the loop although tokens are left in it.
DrainClosedEarly(c) ==
    /\ pc[c] = "drain"
    /\ stream[c].open
    /\ stream[c].state = "closed"
    /\ stream' = [stream EXCEPT ![c].open = FALSE]
    /\ UNCHANGED << registered, walker, cache, handlerVars, ctxDone, prompt, summary, wire >>

DrainClosed(c) ==
    /\ pc[c] = "drain"
    /\ stream[c].open
    /\ stream[c].state = "closed"
    /\ stream[c].got = stream[c].sent
    /\ stream' = [stream EXCEPT ![c].open = FALSE]
    /\ UNCHANGED << registered, walker, cache, handlerVars, ctxDone, prompt, summary, wire >>

DrainSummary(c) ==
    /\ pc[c] = "drain"
    /\ \/ /\ summary[c] = "nil"
          /\ summary' = [summary EXCEPT ![c] = "takenNil"]
          /\ UNCHANGED << pc, result, ctxDone, wire >>
       \/ /\ summary[c] = "value"
          /\ summary' = [summary EXCEPT ![c] = "taken"]
          /\ Send(c, SentSummary(c), "drain") \/ SendFails(c)
    /\ UNCHANGED << registered, walker, cache, req, snap, hit, prompt, stream >>

\* Mutant: the narration is filed under the step the session now stands on.
CacheNarrationAtWalker(c) ==
    /\ pc[c] = "drain"
    /\ ~stream[c].open
    /\ summary[c] \in {"none", "taken", "takenNil"}
    /\ cache' = [cache EXCEPT ![walker.current] =
           [by |-> c, tokens |-> stream[c].got, summary |-> summary[c] = "taken"]]
    /\ Goto(c, "complete")
    /\ UNCHANGED << registered, walker, req, snap, hit, result, ctxDone, providerVars, wire >>

\* Both channels are exhausted: the loop ends and the narration is cached, in
\* place of any other entry, before the client hears of completion.
CacheNarration(c) ==
    /\ pc[c] = "drain"
    /\ ~stream[c].open
    /\ summary[c] \in {"none", "taken", "takenNil"}
    /\ cache' = [cache EXCEPT ![snap[c].step] =
           [by |-> c, tokens |-> stream[c].got, summary |-> summary[c] = "taken"]]
    /\ Goto(c, "complete")
    /\ UNCHANGED << registered, walker, req, snap, hit, result, ctxDone, providerVars, wire >>

\* replayCached: the context is tested before each token, not after the last.
ReplayToken(c) ==
    /\ pc[c] = "replay"
    /\ Len(wire[c].tokens) < hit[c].tokens
    /\ IF ctxDone[c]
       THEN SendFails(c)
       ELSE Send(c, SentToken(c, Token(hit[c].by, Len(wire[c].tokens) + 1)), "replay")
    /\ UNCHANGED << registered, walker, cache, req, snap, hit, providerVars >>

\* Mutant: a replay leaves SummaryReady out, though Complete carries the summary.
ReplaySummarySkipped(c) ==
    /\ pc[c] = "replay"
    /\ Len(wire[c].tokens) = hit[c].tokens
    /\ Goto(c, "complete")
    /\ UNCHANGED << registered, walker, cache, req, snap, hit, result, ctxDone,
                    providerVars, wire >>

ReplaySummary(c) ==
    /\ pc[c] = "replay"
    /\ Len(wire[c].tokens) = hit[c].tokens
    /\ IF hit[c].summary
       THEN Send(c, SentSummary(c), "complete") \/ SendFails(c)
       ELSE Goto(c, "complete") /\ UNCHANGED << result, ctxDone, wire >>
    /\ UNCHANGED << registered, walker, cache, req, snap, hit, providerVars >>

--------------------------------------------------------------------------------
(* Rephrase and ExpandTerm *)

\* The critical section of Rephrase, which needs a current step.
RephraseSnapshot(c) ==
    /\ pc[c] = "got"
    /\ req[c].method = "Rephrase"
    /\ snap' = [snap EXCEPT ![c] = Snapshot(walker)]
    /\ IF HasStep(walker.current)
       THEN Goto(c, "ask") /\ UNCHANGED << result, ctxDone >>
       ELSE Return(c, "FailedPrecondition")
    /\ UNCHANGED << registered, walker, cache, req, hit, providerVars, wire >>

\* The critical section of ExpandTerm, which makes do with the step's identifier.
ExpandTermSnapshot(c) ==
    /\ pc[c] = "got"
    /\ req[c].method = "ExpandTerm"
    /\ snap' = [snap EXCEPT ![c] = Snapshot(walker)]
    /\ Goto(c, "ask")
    /\ UNCHANGED << registered, walker, cache, req, hit, result, ctxDone, providerVars, wire >>

AskProvider(c) ==
    /\ pc[c] = "ask"
    /\ prompt' = [prompt EXCEPT ![c] =
           IF req[c].method = "Rephrase" THEN RephraseCode(snap[c].step)
                                         ELSE ExpandTermCode(snap[c].step)]
    /\ \/ /\ stream' = [stream EXCEPT ![c] = NewStream]
          /\ Goto(c, "range")
          /\ UNCHANGED << result, ctxDone >>
       \/ /\ UpstreamFails
          /\ Return(c, "Internal")
          /\ UNCHANGED stream
    /\ UNCHANGED << registered, walker, cache, req, snap, hit, summary, wire >>

\* for token := range tokens.  The context is looked at only once a token is in
\* hand, so a cancelled call waits for the channel.
RangeToken(c) ==
    /\ pc[c] = "range"
    /\ stream[c].got < stream[c].sent
    /\ stream' = [stream EXCEPT ![c].got = @ + 1]
    /\ IF ctxDone[c]
       THEN SendFails(c)
       ELSE Send(c, SentToken(c, Token(c, stream[c].got + 1)), "range")
    /\ UNCHANGED << registered, walker, cache, req, snap, hit, prompt, summary >>

RangeClosed(c) ==
    /\ pc[c] = "range"
    /\ stream[c].state = "closed"
    /\ stream[c].got = stream[c].sent
    /\ stream' = [stream EXCEPT ![c].open = FALSE]
    /\ Goto(c, "complete")
    /\ UNCHANGED << registered, walker, cache, req, snap, hit, result, ctxDone,
                    prompt, summary, wire >>

--------------------------------------------------------------------------------
(* Every successful call ends with StepComplete *)

CompleteEvent(c) ==
    CASE req[c].method = "ExpandTerm" -> TermComplete(c)
      [] hit[c] # Nothing             -> StepComplete(c, hit[c].summary)
      [] OTHER                        -> StepComplete(c, summary[c] = "taken")

SendComplete(c) ==
    /\ pc[c] = "complete"
    /\ \/ /\ wire' = [wire EXCEPT ![c].complete = CompleteEvent(c)]
          /\ Return(c, "OK")
       \/ SendFails(c)
    /\ UNCHANGED << registered, walker, cache, req, snap, hit, providerVars >>

--------------------------------------------------------------------------------
(* The goroutines *)

\* The token goroutine has a text delta in hand: it looks at the context once and
\* then commits itself to the channel send, which does not look again.
ProviderRead(c) ==
    /\ stream[c].state = "next"
    /\ stream[c].sent < NTokens
    /\ stream' = [stream EXCEPT ![c].state = IF ctxDone[c] THEN "closed" ELSE "sending",
                                ![c].failed = ctxDone[c]]
    /\ UNCHANGED << registered, walker, cache, handlerVars, ctxDone, prompt, summary, wire >>

\* Mutant: the send does not wait for room in the channel.
ProviderPutUnbounded(c) ==
    /\ stream[c].state = "sending"
    /\ stream' = [stream EXCEPT ![c].state = "next", ![c].sent = @ + 1]
    /\ UNCHANGED << registered, walker, cache, handlerVars, ctxDone, prompt, summary, wire >>

ProviderPut(c) ==
    /\ stream[c].state = "sending"
    /\ stream[c].sent - stream[c].got < ChanCap
    /\ stream' = [stream EXCEPT ![c].state = "next", ![c].sent = @ + 1]
    /\ UNCHANGED << registered, walker, cache, handlerVars, ctxDone, prompt, summary, wire >>

\* The stream is over.  An error (the service's, or the context's) is logged and
\* looks to the receiver exactly like the end of the answer.
ProviderEnd(c) ==
    /\ stream[c].state = "next"
    /\ \/ /\ stream[c].sent = NTokens
          /\ stream' = [stream EXCEPT ![c].state = "closed"]
       \/ /\ UpstreamFails \/ ctxDone[c]
          /\ stream' = [stream EXCEPT ![c].state = "closed", ![c].failed = TRUE]
    /\ UNCHANGED << registered, walker, cache, handlerVars, ctxDone, prompt, summary, wire >>

\* Mutants: a failed summary sends nothing at all; the channel has no room, so the
\* goroutine can only hand its answer to a handler that is still there.
SummaryAnswerSilent(c) ==
    /\ summary[c] = "running"
    /\ \/ summary' = [summary EXCEPT ![c] = "value"]
       \/ /\ UpstreamFails \/ ctxDone[c]
          /\ summary' = [summary EXCEPT ![c] = "lost"]
    /\ UNCHANGED << registered, walker, cache, handlerVars, ctxDone, prompt, stream, wire >>

SummaryAnswerUnbuffered(c) ==
    /\ summary[c] = "running"
    /\ pc[c] = "drain"
    /\ \/ summary' = [summary EXCEPT ![c] = "value"]
       \/ /\ UpstreamFails \/ ctxDone[c]
          /\ summary' = [summary EXCEPT ![c] = "nil"]
    /\ UNCHANGED << registered, walker, cache, handlerVars, ctxDone, prompt, stream, wire >>

\* The summary goroutine puts its answer, or nil, into a channel of capacity one.
SummaryAnswer(c) ==
    /\ summary[c] = "running"
    /\ \/ summary' = [summary EXCEPT ![c] = "value"]
       \/ /\ UpstreamFails \/ ctxDone[c]
          /\ summary' = [summary EXCEPT ![c] = "nil"]
    /\ UNCHANGED << registered, walker, cache, handlerVars, ctxDone, prompt, stream, wire >>

--------------------------------------------------------------------------------

Handler(c) ==
    \/ NavigateMove(c) \/ CacheHit(c) \/ CacheMiss(c)
    \/ DrainCancelled(c) \/ DrainToken(c) \/ DrainClosed(c) \/ DrainSummary(c)
    \/ CacheNarration(c) \/ ReplayToken(c) \/ ReplaySummary(c)
    \/ RephraseSnapshot(c) \/ ExpandTermSnapshot(c) \/ AskProvider(c)
    \/ RangeToken(c) \/ RangeClosed(c)
    \/ SendComplete(c)

TokenGoroutine(c) == ProviderRead(c) \/ ProviderPut(c) \/ ProviderEnd(c)

Environment(c) ==
    \/ RejectRequest(c)
    \/ \E r \in Requests : StartCall(c, r)
    \/ CancelCall(c)

Next ==
    \/ \E c \in Calls :
          Handler(c) \/ TokenGoroutine(c) \/ SummaryAnswer(c) \/ Environment(c)
    \/ DropSession

Spec == Init /\ [][Next]_vars

\* The runtime schedules every goroutine that can run, so a token in hand is put into
\* the channel.  A streaming request has no timeout: the service may leave it without
\* an answer (its headers included) for ever, and only the end of the call's context
\* is sure to end the wait.  The summary is a plain request, which the SDK bounds.
\* Clients owe nothing; a Send finds room in the window of HTTP/2.
Fairness ==
    \A c \in Calls :
        /\ WF_vars(Handler(c))
        /\ WF_vars(ProviderPut(c))
        /\ WF_vars(ctxDone[c] /\ (ProviderRead(c) \/ ProviderEnd(c)))
        /\ WF_vars(SummaryAnswer(c))

FairSpec == Spec /\ Fairness

--------------------------------------------------------------------------------
(* Properties *)

Snapshots == [step : IDs, crumb : Seq(IDs), edges : Seq(Edge)]

Points == {"idle", "got", "lookup", "replay", "drain", "ask", "range", "complete", "returned"}

Statuses == {"pending", "OK", "InvalidArgument", "NotFound", "FailedPrecondition",
             "Internal", "Canceled"}

Streams == [state : {"none", "next", "sending", "closed"}, sent : 0..NTokens, got : 0..NTokens,
            open : BOOLEAN, failed : BOOLEAN]

\* The state of a session and of its calls has the shape the handlers rely on; in
\* particular the channel never holds more than its capacity.
NarrationTypeOK ==
    /\ registered \in BOOLEAN
    /\ walker \in Walkers
    /\ cache \in [Steps -> CachedStep \cup {Nothing}]
    /\ pc \in [Calls -> Points]
    /\ req \in [Calls -> Request \cup {Nothing}]
    /\ snap \in [Calls -> Snapshots \cup {Nothing}]
    /\ hit \in [Calls -> CachedStep \cup {Nothing}]
    /\ result \in [Calls -> Statuses]
    /\ ctxDone \in [Calls -> BOOLEAN]
    /\ prompt \in [Calls -> {"none", "empty", "raw", "slice"}]
    /\ stream \in [Calls -> Streams]
    /\ summary \in [Calls -> {"none", "running", "value", "nil", "taken", "takenNil"}]
    /\ \A c \in Calls : stream[c].sent - stream[c].got \in 0..ChanCap

\* The answer a call's client reads: the call's own, or the one it replays.
SourceOf(c) == IF hit[c] = Nothing THEN c ELSE hit[c].by

\* Every client reads one answer from its beginning, without a gap, a duplicate or
\* a token of another call; Complete comes after all of it, exactly when the call
\* succeeds, and carries the summary exactly when SummaryReady was sent before.
WireInOrder ==
    \A c \in Calls :
        /\ wire[c].tokens = Tokens(SourceOf(c), Len(wire[c].tokens))
        /\ (wire[c].complete # Nothing) <=> (result[c] = "OK")
        /\ wire[c].complete # Nothing =>
              /\ wire[c].complete.after = Len(wire[c].tokens)
              /\ wire[c].complete.summary <=> wire[c].summary

\* All that the cache holds for a step was put on the wire by the call that
\* generated it, and that call had moved to this very step: not to the step the
\* session stood on when the narration ended, after other calls moved it on.
CacheWasDelivered ==
    \A s \in Steps : cache[s] # Nothing =>
        LET live == cache[s].by IN
        /\ snap[live].step = s
        /\ wire[live].tokens = Tokens(live, cache[s].tokens)
        /\ cache[s].summary <=> wire[live].summary

\* A replay that completes gives its client the tokens and the summary that the
\* client of the live call got, for the same step.
ReplayMatchesLive ==
    \A c \in Calls : hit[c] # Nothing /\ result[c] = "OK" =>
        LET live == hit[c].by IN
        /\ wire[c].tokens = wire[live].tokens
        /\ wire[c].summary <=> wire[live].summary
        /\ wire[c].complete.step = snap[live].step

\* How a Navigate call reached its step from the end of its breadcrumb.
Explains(dest, crumb, step) ==
    LET from == crumb[Len(crumb)] IN
    CASE dest.kind = "step"    -> crumb # << >> /\ step = dest.id
      [] dest.kind = "forward" -> crumb # << >> /\ NavigableEdgeTo(from, step)
      [] dest.kind = "edge"    -> crumb # << >> /\ NavigableEdgeTo(from, step)
      [] OTHER                 -> TRUE

\* StepComplete describes one moment of the session: its step is the one the
\* request led to from the last place of its breadcrumb, the breadcrumb begins at
\* the entry step, and the edges are that step's, however many other calls have
\* moved the walker since.
CompleteIsOneMoment ==
    \A c \in Calls :
        wire[c].complete # Nothing /\ req[c].method = "Navigate" =>
            LET done == wire[c].complete IN
            /\ Explains(req[c].dest, done.crumb, done.step)
            /\ Append(done.crumb, done.step)[1] = EntryID
            /\ done.edges = NavigableEdges([current |-> done.step])

\* The LLM is never asked about a step without being shown its code: when the raw
\* text was omitted at opening, the lines of the retained file take its place.
PromptHasCode == \A c \in Calls : prompt[c] # "empty"

\* A call that succeeds has told all the LLM said, unless the stream behind its answer
\* broke or was cancelled: neither the closing of the channel, which a receiver may see
\* early or late, nor the summary, nor a replay cuts an answer off.
CutOnlyByItsStream ==
    \A c \in Calls :
        wire[c].complete # Nothing /\ ~stream[SourceOf(c)].failed =>
            Len(wire[c].tokens) = NTokens

\* In a walkthrough the answers of racing calls agree: each is about one moment of the
\* session and made from that step's code, each replay repeats what its live call told,
\* and where one is shorter than the LLM's its stream broke or was cancelled.  That such
\* a fragment is neither cached nor replayed does not hold (FailedNarrationNotCached).
AnswersAgree ==
    /\ PromptHasCode
    /\ CacheWasDelivered
    /\ ReplayMatchesLive
    /\ CompleteIsOneMoment
    /\ CutOnlyByItsStream

\* The handler has dealt with all it was given and waits for the next event of a
\* stream whose call nobody has cancelled.
AwaitsProvider(c) ==
    /\ pc[c] \in {"drain", "range"}
    /\ stream[c].state = "next"
    /\ stream[c].got = stream[c].sent
    /\ summary[c] \notin {"running", "value", "nil"}
    /\ ~ctxDone[c]

\* Nothing but the LLM's silence holds a call: every call the server accepts returns,
\* cancelled ones in particular, unless its stream stalls for ever with the client
\* still waiting.  A stream that breaks is closed, a failed summary sends nil, and no
\* goroutine waits for another in a circle.
OnlySilenceHoldsACall ==
    \A c \in Calls :
        <>[]AwaitsProvider(c) \/ (pc[c] # "idle" ~> pc[c] = "returned")

\* The summary goroutine ends even when the handler has gone: its channel has room
\* for the one answer that nobody will read.
SummaryGoroutineEnds == \A c \in Calls : summary[c] = "running" ~> summary[c] # "running"

\* The documents: a cached narration is the whole answer, since a failed narration
\* is not cached (codewalker-briefing.md, session.go's CacheNarration).
FailedNarrationNotCached ==
    \A s \in Steps : cache[s] # Nothing => ~stream[cache[s].by].failed

\* The documents: a token channel is closed when the stream ends or the context is
\* cancelled (anthropic.go, stream).
ChannelCloses ==
    \A c \in Calls : stream[c].state # "none" /\ ctxDone[c] ~> stream[c].state = "closed"

\* How far a call has come for its client, what it asked for, the moment it is about and
\* the answer it repeats.  What a failed or finished handler still holds does not count.
Stage(c) ==
    CASE pc[c] = "idle"                -> "new"
      [] pc[c] = "got"                 -> "asked"
      [] pc[c] \in {"lookup", "ask"}   -> "placed"
      [] pc[c] \in {"drain", "range"}  -> "telling"
      [] pc[c] = "replay"              -> "retelling"
      [] pc[c] = "complete"            -> "told"
      [] OTHER                         -> "over"

Stages  == [c \in Calls |-> Stage(c)]
Asked   == [c \in Calls |-> IF pc[c] \in {"idle", "returned"} THEN Nothing ELSE req[c].method]
About   == [c \in Calls |-> IF pc[c] \in {"idle", "got", "returned"} THEN Nothing ELSE snap[c]]
Retold  == [c \in Calls |-> IF pc[c] \in {"replay", "complete"} THEN hit[c] ELSE Nothing]

\* What is offered at each step.
Offered == [s \in IDs |-> NavigableEdges([current |-> s])]

Abstract == INSTANCE Conversation
              WITH Places <- Steps, Home <- EntryID, Offers <- Offered,
                   trail <- Trail(walker), archive <- cache,
                   stage <- Stages, asks <- Asked, about <- About, source <- Retold, told <- wire

\* For its clients the session is a conversation: each call is about one moment of one
\* history, tells one answer from its beginning, and the archive holds told answers.
\* The goroutines, the channels, the two mutexes and the walker do not show.
NarrationIsConversation == Abstract!ConversationSpec
================================================================================
