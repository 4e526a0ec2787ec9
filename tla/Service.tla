-------------------------------- MODULE Service --------------------------------
(***************************************************************************)
(* The life of the process (cmd/codewalker/main.go): configuration, the    *)
(* evictor's goroutine, the goroutine that accepts calls, signals and the  *)
(* graceful stop; and the way of every call through it: the client's stub  *)
(* and the server's dispatch (gen/codewalker/v1/codewalker_grpc.pb.go),    *)
(* the interceptors (server/middleware) and the handler.                   *)
(*                                                                         *)
(* The unary handlers are modelled here, with their requests to the forge  *)
(* (forges/github.go).  A streaming handler is only something that waits   *)
(* for an upstream and ends; modules Narration, WalkthroughOpening and     *)
(* ReviewOpening have their insides, SessionStore those of CloseSession    *)
(* and ListSessions.                                                       *)
(***************************************************************************)
EXTENDS Forge

CONSTANTS
    Calls,          \* the calls that clients make
    Requests,       \* what they may ask
    Environments,   \* the environment variables the process may be started with
    MaxSignals      \* how often SIGTERM or SIGINT arrives

VARIABLES
    main,           \* where run() is
    exit,           \* why it returns
    rootDone,       \* the root context is cancelled
    evictor,        \* the goroutine of StartEviction
    serving,        \* the goroutine in grpcServer.Serve
    serveErr,       \* what the channel serveErr holds
    quit,           \* the signals the channel quit holds
    signals,        \* the signals that have arrived since signal.Notify
    call            \* what has become of each call

mainVars == << main, exit, rootDone, evictor, serving, serveErr, quit, signals >>
vars     == << mainVars, call >>

--------------------------------------------------------------------------------
(* The service description, and the requests *)

UnaryMethods == {"GetVersion", "CloseSession", "ListSessions", "ListFileOrderers",
                 "ListPullRequests", "FetchFileAtRef"}
StreamMethods == {"OpenSession", "Navigate", "Rephrase", "ExpandTerm", "OpenReviewSession"}
ForgeMethods == {"ListPullRequests", "FetchFileAtRef"}

\* given: the fields that are not empty.  host is the field of that name.
Request == [method : UnaryMethods \cup StreamMethods,
            host : Seq(Pieces),
            given : SUBSET {"session_id", "owner", "repo", "path", "ref"}]

ASSUME ServiceAssumption == MaxSignals \in Nat /\ Requests \subseteq Request

RequiredFields(method) ==
    IF method = "FetchFileAtRef" THEN {"owner", "repo", "path", "ref"} ELSE {"owner", "repo"}

StatusCodes == {"OK", "Canceled", "InvalidArgument", "NotFound", "PermissionDenied", "Internal"}

\* asked: a request has gone to the forge; answer: the status it came back with;
\* body: the response's body is open; gone: the client has hung up; log: the records
\* the interceptors have written.
Fresh == [at |-> "none", request |-> << >>, asked |-> FALSE, answer |-> 0, body |-> FALSE,
          gone |-> FALSE, log |-> <<>>, code |-> "none"]

Init ==
    /\ main = "start"
    /\ exit = "none"
    /\ rootDone = FALSE
    /\ evictor = "none"
    /\ serving = "none"
    /\ serveErr = "empty"
    /\ quit = 0
    /\ signals = 0
    /\ call = [c \in Calls |-> Fresh]

Alive == main # "exited"
At(c, place) == call[c].at = place /\ Alive
Move(c, place) == call' = [call EXCEPT ![c].at = place]
Method(c) == call[c].request.method
InProgress(c) == call[c].at \notin {"none", "done"}

--------------------------------------------------------------------------------
(* Configuration, and run() *)

envOr(value, default) == IF value = "" THEN default ELSE value

\* Mutant: any duration that parses is taken.
parseDurationUnchecked(value, default) == IF value.parses THEN value.d ELSE default

\* What cannot be parsed, and what is not positive, gives way to the default.
parseDuration(value, default) == IF value.parses /\ value.d > 0 THEN value.d ELSE default

Load(env) == [LLMProvider |-> envOr(env.provider, "anthropic"),
              AnthropicAPIKey |-> env.key,
              EvictionInterval |-> parseDuration(env.interval, 5)]

\* A panic in a goroutine nobody recovers ends the process.
Crash == main' = "exited" /\ exit' = "panicked"

\* run returns; its deferred cancel ends the root context.
ReturnFromRun(why) == main' = "leaving" /\ exit' = why /\ rootDone' = TRUE

BadConfiguration(env) ==
    /\ main = "start"
    /\ Load(env).LLMProvider # "anthropic" \/ Load(env).AnthropicAPIKey = ""
    /\ main' = "leaving" /\ exit' = "configuration"
    /\ UNCHANGED << rootDone, evictor, serving, serveErr, quit, signals, call >>

\* The evictor is started; time.NewTicker panics on an interval that is not positive.
StartEviction(env) ==
    /\ main = "start"
    /\ Load(env).LLMProvider = "anthropic" /\ Load(env).AnthropicAPIKey # ""
    /\ IF Load(env).EvictionInterval > 0
       THEN main' = "listen" /\ evictor' = "running" /\ UNCHANGED exit
       ELSE Crash /\ UNCHANGED evictor
    /\ UNCHANGED << rootDone, serving, serveErr, quit, signals, call >>

EvictorEnds ==
    /\ Alive /\ rootDone /\ evictor = "running"
    /\ evictor' = "ended"
    /\ UNCHANGED << main, exit, rootDone, serving, serveErr, quit, signals, call >>

ListenFails ==
    /\ main = "listen"
    /\ ReturnFromRun("listen")
    /\ UNCHANGED << evictor, serving, serveErr, quit, signals, call >>

\* The port is open and Serve accepts calls in a goroutine of its own.
Listen ==
    /\ main = "listen"
    /\ main' = "notify"
    /\ serving' = "accepting"
    /\ UNCHANGED << exit, rootDone, evictor, serveErr, quit, signals, call >>

ServeFails ==
    /\ Alive /\ serving = "accepting"
    /\ serving' = "ended" /\ serveErr' = "error"
    /\ UNCHANGED << main, exit, rootDone, evictor, quit, signals, call >>

Notify ==
    /\ main = "notify"
    /\ main' = "select"
    /\ UNCHANGED << exit, rootDone, evictor, serving, serveErr, quit, signals, call >>

\* Before signal.Notify a signal kills the process.
SignalKills ==
    /\ main \in {"start", "listen", "notify"}
    /\ signals < MaxSignals
    /\ main' = "exited" /\ exit' = "killed"
    /\ signals' = signals + 1
    /\ UNCHANGED << rootDone, evictor, serving, serveErr, quit, call >>

\* Mutant: the channel has room for every signal.
SignalQueued ==
    /\ Alive /\ main \notin {"start", "listen", "notify"}
    /\ signals < MaxSignals
    /\ signals' = signals + 1
    /\ quit' = quit + 1
    /\ UNCHANGED << main, exit, rootDone, evictor, serving, serveErr, call >>

\* After it, the signal is put into quit unless one is already there.
Signal ==
    /\ Alive /\ main \notin {"start", "listen", "notify"}
    /\ signals < MaxSignals
    /\ signals' = signals + 1
    /\ quit' = 1
    /\ UNCHANGED << main, exit, rootDone, evictor, serving, serveErr, call >>

\* Mutant: run stops without waiting for the calls in progress.
TakeSignalStop ==
    /\ main = "select" /\ quit = 1
    /\ quit' = 0
    /\ main' = "drained"
    /\ serving' = "ended"
    /\ UNCHANGED << exit, rootDone, evictor, serveErr, signals, call >>

\* GracefulStop closes the listener; Serve returns nil into the channel.
TakeSignal ==
    /\ main = "select" /\ quit = 1
    /\ quit' = 0
    /\ main' = "draining"
    /\ serving' = "ended"
    /\ serveErr' = IF serving = "accepting" THEN "nil" ELSE serveErr
    /\ UNCHANGED << exit, rootDone, evictor, signals, call >>

TakeServeErr ==
    /\ main = "select" /\ serveErr # "empty"
    /\ serveErr' = "empty"
    /\ ReturnFromRun("serve")
    /\ UNCHANGED << evictor, serving, quit, signals, call >>

\* GracefulStop returns once the last call has.
Drained ==
    /\ main = "draining"
    /\ \A c \in Calls : ~InProgress(c)
    /\ main' = "drained"
    /\ UNCHANGED << exit, rootDone, evictor, serving, serveErr, quit, signals, call >>

Cancel ==
    /\ main = "drained"
    /\ ReturnFromRun("stopped")
    /\ UNCHANGED << evictor, serving, serveErr, quit, signals, call >>

\* The process ends and takes every goroutine with it.
Exit ==
    /\ main = "leaving"
    /\ main' = "exited"
    /\ UNCHANGED << exit, rootDone, evictor, serving, serveErr, quit, signals, call >>

--------------------------------------------------------------------------------
(* The interceptors: what becomes of an outcome of the handler *)

Returned(c, code) == [panicked |-> FALSE, code |-> code, log |-> call[c].log]
Panicked(c)       == [panicked |-> TRUE, code |-> "none", log |-> call[c].log]

Logger(out)   == IF out.panicked THEN out ELSE [out EXCEPT !.log = Append(@, "rpc")]
Recovery(out) == IF out.panicked
                 THEN [panicked |-> FALSE, code |-> "Internal", log |-> Append(out.log, "panic")]
                 ELSE out

\* Recovery is the outer one: a panic passes the logger by.
Chain(out) == Recovery(Logger(out))

\* The handler's goroutine ends.  Its deferred calls close the body first.
Leave(c, outcome) ==
    LET out == Chain(outcome)
    IN /\ call' = [call EXCEPT ![c].at = "done", ![c].body = FALSE, ![c].gone = FALSE,
                               ![c].code = out.code, ![c].log = out.log]
       /\ IF out.panicked THEN Crash ELSE UNCHANGED << main, exit >>
       /\ UNCHANGED << rootDone, evictor, serving, serveErr, quit, signals >>

Return(c, code) == Leave(c, Returned(c, code))

\* The call ends before the interceptors are entered.
Reject(c, code) ==
    /\ call' = [call EXCEPT ![c].at = "done", ![c].gone = FALSE, ![c].code = code]
    /\ UNCHANGED mainVars

--------------------------------------------------------------------------------
(* A call arrives *)

\* The client's stub sends the request along with the call.
Invoke(c, r) ==
    /\ At(c, "none") /\ serving = "accepting"
    /\ r.method \in UnaryMethods
    /\ call' = [call EXCEPT ![c].at = "arriving", ![c].request = r]
    /\ UNCHANGED mainVars

\* The stub opens a stream; the server enters the interceptors and waits for the
\* message, which the stub sends next.
NewStream(c, r) ==
    /\ At(c, "none") /\ serving = "accepting"
    /\ r.method \in StreamMethods
    /\ call' = [call EXCEPT ![c].at = "receiving", ![c].request = r]
    /\ UNCHANGED mainVars

HangUp(c) ==
    /\ Alive /\ InProgress(c) /\ ~call[c].gone
    /\ call' = [call EXCEPT ![c].gone = TRUE]
    /\ UNCHANGED mainVars

\* A unary request is decoded before the interceptors are entered.
Decode(c) ==
    /\ At(c, "arriving")
    /\ Move(c, "handler")
    /\ UNCHANGED mainVars

DecodeFails(c) ==
    /\ At(c, "arriving")
    /\ Reject(c, IF call[c].gone THEN "Canceled" ELSE "Internal")

\* A stream's request is decoded inside them.
RecvMsg(c) ==
    /\ At(c, "receiving")
    /\ Move(c, "streaming")
    /\ UNCHANGED mainVars

RecvMsgFails(c) ==
    /\ At(c, "receiving")
    /\ Return(c, IF call[c].gone THEN "Canceled" ELSE "Internal")

--------------------------------------------------------------------------------
(* The handlers *)

\* The LLM provider, the forge or the repository has answered or failed, or the call's
\* context has ended.
StreamEnds(c) ==
    /\ At(c, "streaming")
    /\ Return(c, "OK") \/ Return(c, IF call[c].gone THEN "Canceled" ELSE "Internal")

\* A handler indexes, dereferences or asserts its way into a panic.
HandlerPanics(c) ==
    /\ call[c].at \in {"handler", "streaming", "reading"} /\ Alive
    /\ Leave(c, Panicked(c))

GetVersion(c) ==
    /\ At(c, "handler") /\ Method(c) = "GetVersion"
    /\ Return(c, "OK")

ListFileOrderers(c) ==
    /\ At(c, "handler") /\ Method(c) = "ListFileOrderers"
    /\ Return(c, "OK")

ListSessions(c) ==
    /\ At(c, "handler") /\ Method(c) = "ListSessions"
    /\ Return(c, "OK")

CloseSession(c) ==
    /\ At(c, "handler") /\ Method(c) = "CloseSession"
    /\ IF "session_id" \in call[c].request.given
       THEN Return(c, "OK") \/ Return(c, "NotFound")
       ELSE Return(c, "InvalidArgument")

\* The requests whose fields are there and whose host some handler claims.
Valid ==
    {r \in Requests :
        /\ NormalizeHost(r.host) # <<>>
        /\ RequiredFields(r.method) \subseteq r.given
        /\ Resolves(handlers, NormalizeHost(r.host))}

RejectForgeCall(c) ==
    /\ At(c, "handler") /\ Method(c) \in ForgeMethods
    /\ call[c].request \notin Valid
    /\ Return(c, "InvalidArgument")

AskForge(c) ==
    /\ At(c, "handler") /\ Method(c) \in ForgeMethods
    /\ call[c].request \in Valid
    /\ call' = [call EXCEPT ![c].at = "asking", ![c].asked = TRUE]
    /\ UNCHANGED mainVars

\* Mutant: the request is made without the call's context.
ForgeFailsNoContext(c) ==
    /\ At(c, "asking") /\ ~call[c].gone
    /\ Return(c, "Internal")

\* The request cannot be made, the connection breaks, or the context ends.
ForgeFails(c) ==
    /\ At(c, "asking")
    /\ Return(c, "Internal")

ForgeAnswers(c, status) ==
    /\ At(c, "asking")
    /\ call' = [call EXCEPT ![c].at = "reading", ![c].answer = status, ![c].body = TRUE]
    /\ UNCHANGED mainVars

\* Mutant: the close is deferred only when the status is good.
ForgeRefusedKeepsBody(c) ==
    /\ At(c, "reading")
    /\ checkStatus(call[c].answer) # "none"
    /\ LET out == Chain(Returned(c, forgeErrToStatus(checkStatus(call[c].answer))))
       IN call' = [call EXCEPT ![c].at = "done", ![c].gone = FALSE,
                               ![c].code = out.code, ![c].log = out.log]
    /\ UNCHANGED mainVars

\* A snippet of the body becomes the detail of the error; not to get one is no error.
ForgeRefused(c) ==
    /\ At(c, "reading")
    /\ checkStatus(call[c].answer) # "none"
    /\ Return(c, forgeErrToStatus(checkStatus(call[c].answer)))

\* The body is read and decoded, or breaks off, or is not what was expected.
ForgeContent(c) ==
    /\ At(c, "reading")
    /\ checkStatus(call[c].answer) = "none"
    /\ Return(c, "OK") \/ Return(c, "Internal")

--------------------------------------------------------------------------------

\* What a call waits for has happened: the client has sent its request or hung up, the
\* upstream has answered or broken off, or the context has ended.
Resume(c) ==
    \/ DecodeFails(c) \/ RecvMsgFails(c) \/ StreamEnds(c)
    \/ ForgeFails(c) \/ ForgeRefused(c) \/ ForgeContent(c)

\* What the server does with a call by itself.
Handle(c) ==
    \/ GetVersion(c) \/ ListFileOrderers(c) \/ ListSessions(c) \/ CloseSession(c)
    \/ RejectForgeCall(c) \/ AskForge(c)

Arrive(c) == \E r \in Requests : Invoke(c, r) \/ NewStream(c, r)

Run ==
    \/ \E env \in Environments : BadConfiguration(env) \/ StartEviction(env)
    \/ ListenFails \/ Listen \/ Notify
    \/ TakeSignal \/ TakeServeErr \/ Drained \/ Cancel \/ Exit

Next ==
    \/ Run
    \/ EvictorEnds \/ ServeFails \/ SignalKills \/ Signal
    \/ \E c \in Calls :
          \/ Arrive(c) \/ HangUp(c) \/ Decode(c) \/ RecvMsg(c)
          \/ Handle(c) \/ Resume(c) \/ HandlerPanics(c)
          \/ \E status \in Statuses : ForgeAnswers(c, status)

Spec == Init /\ [][Next]_vars

\* run gets to run and so do the handlers, which notice the end of their context.
\* No client, LLM provider or forge owes the server an answer.
Fairness ==
    /\ WF_vars(Run)
    /\ \A c \in Calls : WF_vars(Handle(c)) /\ WF_vars(call[c].gone /\ Resume(c))

FairSpec == Spec /\ Fairness

--------------------------------------------------------------------------------
(* Properties *)

Places == {"none", "arriving", "receiving", "handler", "streaming", "asking", "reading", "done"}

\* The shape of the process and of its calls.
ServiceTypeOK ==
    /\ main \in {"start", "listen", "notify", "select", "draining", "drained", "leaving", "exited"}
    /\ exit \in {"none", "configuration", "listen", "serve", "stopped", "killed", "panicked"}
    /\ rootDone \in BOOLEAN
    /\ evictor \in {"none", "running", "ended"}
    /\ serving \in {"none", "accepting", "ended"}
    /\ serveErr \in {"empty", "nil", "error"}
    /\ quit \in {0, 1}
    /\ signals \in 0..MaxSignals
    /\ \A c \in Calls :
          /\ call[c].at \in Places
          /\ call[c].answer \in Statuses \cup {0}
          /\ call[c].asked \in BOOLEAN /\ call[c].body \in BOOLEAN /\ call[c].gone \in BOOLEAN
          /\ call[c].code \in StatusCodes \cup {"none"}
          /\ call[c].at # "none" => call[c].request \in Requests

\* A stop by signal cuts no call short: whatever was accepted has been answered when
\* the process leaves, and the evictor has worked until then.
StopCutsNoCall ==
    /\ exit = "stopped" => \A c \in Calls : ~InProgress(c)
    /\ main \in {"select", "draining"} => evictor = "running"

\* Neither a handler's panic nor any value of the environment crashes the process.
NothingCrashes == exit # "panicked"

\* Every call that reached the interceptors and is over has left exactly one record,
\* by the logger or by the recovery, and holds no connection to the forge open.
HandledCallsAreSettled ==
    \A c \in Calls : call[c].at = "done" =>
        /\ ~call[c].body
        /\ Len(call[c].log) <= 1
        /\ call[c].log = <<>> => Method(c) \in UnaryMethods /\ ~call[c].asked
                                 /\ call[c].code \in {"Internal", "Canceled"}

\* The status of a forge call tells what happened: a request that lacks a field or
\* names no known forge is refused before anything is asked of the forge, however the
\* host is spelt, and the forge's refusals arrive as what they were.
StatusTellsTheCause ==
    \A c \in Calls : call[c].at = "done" /\ Method(c) \in ForgeMethods =>
        LET r == call[c].request
            wellFormed == NamesGitHub(r.host) /\ RequiredFields(r.method) \subseteq r.given
        IN /\ call[c].asked => wellFormed
           /\ call[c].code = "InvalidArgument" => ~wellFormed
           /\ call[c].code = "PermissionDenied" => call[c].answer = 403
           /\ call[c].code = "NotFound" => call[c].answer = 404
           /\ call[c].code = "OK" => call[c].answer = 200
           /\ call[c].answer \in {403, 404} /\ "rpc" \in ToSet(call[c].log)
                 => call[c].code # "Internal"

WaitsForOthers(c) ==
    /\ call[c].at \in {"arriving", "receiving", "streaming", "asking", "reading"}
    /\ ~call[c].gone

\* The first signal after signal.Notify ends the process, unless some call waits for
\* ever on a client, an LLM provider or a forge that neither answers nor hangs up:
\* GracefulStop has no time limit.
SignalEndsTheProcess ==
    \/ <>[](\E c \in Calls : WaitsForOthers(c))
    \/ (signals > 0 ~> main = "exited")
================================================================================
