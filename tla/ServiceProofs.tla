----------------------------- MODULE ServiceProofs -----------------------------
(***************************************************************************)
(* The process's safety for any calls, requests, environments and signals. *)
(* The calls' part of the invariant says that a call leaves its record     *)
(* when it ends and not before, and holds a response only while it reads   *)
(* it.  The process's part says who has ended by the time run has got      *)
(* where it is: no new call can arrive once the listener is closed, so the *)
(* calls that have drained stay drained.                                   *)
(*                                                                         *)
(* What a status tells is proved apart, on top of that: first for every    *)
(* spelling of a host, that its normal form is the forge's name exactly if *)
(* it spells the name; then that a call is sent on only with such a host   *)
(* and ends with the status its request or the forge's answer deserves.    *)
(***************************************************************************)
EXTENDS Service, SequenceTheorems, SetInduction

CallStates ==
    [at : Places, request : Requests \cup {<< >>}, asked : BOOLEAN,
     answer : Statuses \cup {0}, body : BOOLEAN, gone : BOOLEAN,
     log : {<<>>, << "rpc" >>, << "panic" >>}, code : StatusCodes \cup {"none"}]

\* What holds of one call, given its state.
CallOK(k) ==
    /\ k.at # "none" => k.request \in Requests
    /\ k.at \in {"none", "arriving", "receiving", "handler", "streaming"} => k.asked = FALSE
    /\ k.at = "arriving" => k.request.method \in UnaryMethods
    /\ k.at # "reading" => k.body = FALSE
    /\ k.at # "done" => k.log = <<>>
    /\ k.at = "done" /\ k.log = <<>> =>
          /\ k.request.method \in UnaryMethods
          /\ k.asked = FALSE
          /\ k.code \in {"Internal", "Canceled"}

CallsOK == call \in [Calls -> CallStates] /\ \A c \in Calls : CallOK(call[c])

ProcessTypeOK ==
    /\ main \in {"start", "listen", "notify", "select", "draining", "drained", "leaving", "exited"}
    /\ exit \in {"none", "configuration", "listen", "serve", "stopped", "killed"}
    /\ rootDone \in BOOLEAN
    /\ evictor \in {"none", "running", "ended"}
    /\ serving \in {"none", "accepting", "ended"}
    /\ serveErr \in {"empty", "nil", "error"}
    /\ quit \in {0, 1}
    /\ signals \in 0..MaxSignals

ProcessOK ==
    /\ ProcessTypeOK
    /\ rootDone = TRUE => main \in {"leaving", "exited"}
    /\ exit = "stopped" => main \in {"leaving", "exited"}
    /\ main \in {"listen", "notify", "select", "draining", "drained"} => evictor = "running"
    /\ main \in {"draining", "drained"} \/ exit = "stopped" => serving = "ended"

DrainedOK == main = "drained" \/ exit = "stopped" => \A c \in Calls : ~InProgress(c)

ServiceInv == CallsOK /\ ProcessOK /\ DrainedOK

\* A duration from the environment is positive, or the default takes its place.
LEMMA DurationsArePositive ==
  ASSUME NEW value, NEW default \in Nat \ {0}
  PROVE  parseDuration(value, default) > 0
BY DEF parseDuration

\* The interceptors turn any outcome into a status and exactly one record.
LEMMA ChainRecords ==
  ASSUME NEW c, NEW code, call[c].log = <<>>
  PROVE  /\ Chain(Returned(c, code)).panicked = FALSE
         /\ Chain(Returned(c, code)).code = code
         /\ Chain(Returned(c, code)).log = << "rpc" >>
         /\ Chain(Panicked(c)).panicked = FALSE
         /\ Chain(Panicked(c)).code = "Internal"
         /\ Chain(Panicked(c)).log = << "panic" >>
BY DEF Chain, Recovery, Logger, Returned, Panicked

\* A call that is over, with its status and its record.
Settled(c, status, log) ==
    [call[c] EXCEPT !.at = "done", !.body = FALSE, !.gone = FALSE,
                    !.code = status, !.log = log]

\* What a handler that ends makes of its call.
LEMMA LeaveSettles ==
  ASSUME NEW c \in Calls, call[c].log = <<>>, NEW code \in StatusCodes
  PROVE  /\ Leave(c, Returned(c, code)) =>
               call' = [call EXCEPT ![c] = Settled(c, code, << "rpc" >>)]
         /\ Leave(c, Panicked(c)) =>
               call' = [call EXCEPT ![c] = Settled(c, "Internal", << "panic" >>)]
<1>1. /\ Chain(Returned(c, code)).code = code /\ Chain(Returned(c, code)).log = << "rpc" >>
      /\ Chain(Panicked(c)).code = "Internal" /\ Chain(Panicked(c)).log = << "panic" >>
  BY ChainRecords
<1>2. ASSUME Leave(c, Returned(c, code))
      PROVE  call' = [call EXCEPT ![c] = Settled(c, code, << "rpc" >>)]
  BY <1>1, <1>2 DEF Leave, Settled
<1>3. ASSUME Leave(c, Panicked(c))
      PROVE  call' = [call EXCEPT ![c] = Settled(c, "Internal", << "panic" >>)]
  BY <1>1, <1>3 DEF Leave, Settled
<1> QED
  BY <1>2, <1>3

LEMMA ServiceInitInv == Init => ServiceInv
<1> SUFFICES ASSUME Init
             PROVE  ServiceInv
  OBVIOUS
<1>1. CallsOK
  <2>1. Fresh \in CallStates
    BY DEF Fresh, CallStates, Places
  <2>2. CallOK(Fresh)
    BY Zenon DEF Fresh, CallOK
  <2> QED
    BY <2>1, <2>2 DEF Init, CallsOK
<1>2. ProcessOK
  <2>1. rootDone \in BOOLEAN /\ rootDone = FALSE
    BY Zenon DEF Init
  <2>2. signals \in 0..MaxSignals
    BY ServiceAssumption DEF Init
  <2> QED
    BY <2>1, <2>2 DEF Init, ProcessOK, ProcessTypeOK
<1>3. DrainedOK
  BY DEF Init, DrainedOK
<1> QED
  BY <1>1, <1>2, <1>3 DEF ServiceInv

\* A step that takes one call, accepted now or before, to a good state.
LEMMA CallStepKeeps ==
  ASSUME ServiceInv, NEW c \in Calls, NEW k \in CallStates, CallOK(k),
         InProgress(c) \/ serving = "accepting",
         call' = [call EXCEPT ![c] = k], UNCHANGED mainVars
  PROVE  ServiceInv'
<1>1. CallsOK'
  BY DEF ServiceInv, CallsOK, CallOK
<1>2. ProcessOK'
  BY DEF ServiceInv, ProcessOK, ProcessTypeOK, mainVars
<1>3. DrainedOK'
  BY DEF ServiceInv, ProcessOK, DrainedOK, InProgress, mainVars
<1> QED
  BY <1>1, <1>2, <1>3 DEF ServiceInv

\* A handler that ends, by returning or by panicking, settles its call and does not
\* disturb the process.
LEMMA LeaveKeeps ==
  ASSUME ServiceInv, NEW c \in Calls, InProgress(c), NEW code \in StatusCodes,
         Leave(c, Returned(c, code)) \/ Leave(c, Panicked(c))
  PROVE  ServiceInv'
<1>1. call[c] \in CallStates /\ CallOK(call[c]) /\ call[c].log = <<>>
  BY DEF ServiceInv, CallsOK, CallOK, InProgress
<1>2. ASSUME NEW status \in StatusCodes, NEW log \in {<< "rpc" >>, << "panic" >>},
             call' = [call EXCEPT ![c] = Settled(c, status, log)], UNCHANGED mainVars
      PROVE  ServiceInv'
  <2>1. Settled(c, status, log) \in CallStates
    BY <1>1 DEF CallStates, Places, Settled
  <2>2. CallOK(Settled(c, status, log))
    <3>1. call[c].request \in Requests
      BY <1>1 DEF CallOK, InProgress
    <3> QED
      BY <1>1, <3>1 DEF CallStates, CallOK, Settled
  <2> QED
    BY <1>2, <2>1, <2>2, CallStepKeeps
<1>3. CASE Leave(c, Returned(c, code))
  <2>1. call' = [call EXCEPT ![c] = Settled(c, code, << "rpc" >>)]
    BY <1>1, <1>3, LeaveSettles
  <2>2. UNCHANGED mainVars
    BY <1>1, <1>3, ChainRecords DEF Leave, mainVars
  <2> QED
    BY <1>2, <2>1, <2>2
<1>4. CASE Leave(c, Panicked(c))
  <2>1. call' = [call EXCEPT ![c] = Settled(c, "Internal", << "panic" >>)]
    BY <1>1, <1>4, LeaveSettles
  <2>2. UNCHANGED mainVars
    BY <1>1, <1>4, ChainRecords DEF Leave, mainVars
  <2> QED
    BY <1>2, <2>1, <2>2 DEF StatusCodes
<1> QED
  BY <1>3, <1>4

\* A call arrives, its request is read, or the client hangs up.
LEMMA ArrivalKeeps ==
  ASSUME ServiceInv, NEW c \in Calls,
         Arrive(c) \/ HangUp(c) \/ Decode(c) \/ RecvMsg(c)
  PROVE  ServiceInv'
<1>1. call[c] \in CallStates /\ CallOK(call[c]) /\ call[c].at \in Places
  BY DEF ServiceInv, CallsOK, CallStates
<1>2. ASSUME NEW r \in Requests, Invoke(c, r)
      PROVE  ServiceInv'
  <2> DEFINE k == [call[c] EXCEPT !.at = "arriving", !.request = r]
  <2>1. call' = [call EXCEPT ![c] = k] /\ UNCHANGED mainVars /\ serving = "accepting"
    BY <1>2 DEF Invoke
  <2>2. k \in CallStates
    BY <1>1 DEF CallStates, Places
  <2>3. CallOK(k)
    BY <1>1, <1>2 DEF CallStates, CallOK, Invoke, At, Places
  <2> QED
    BY <2>1, <2>2, <2>3, CallStepKeeps
<1>3. ASSUME NEW r \in Requests, NewStream(c, r)
      PROVE  ServiceInv'
  <2> DEFINE k == [call[c] EXCEPT !.at = "receiving", !.request = r]
  <2>1. call' = [call EXCEPT ![c] = k] /\ UNCHANGED mainVars /\ serving = "accepting"
    BY <1>3 DEF NewStream
  <2>2. k \in CallStates
    BY <1>1 DEF CallStates, Places
  <2>3. CallOK(k)
    BY <1>1, <1>3 DEF CallStates, CallOK, NewStream, At, Places
  <2> QED
    BY <2>1, <2>2, <2>3, CallStepKeeps
<1>4. CASE HangUp(c)
  <2> DEFINE k == [call[c] EXCEPT !.gone = TRUE]
  <2>1. call' = [call EXCEPT ![c] = k] /\ UNCHANGED mainVars /\ InProgress(c)
    BY <1>4 DEF HangUp
  <2>2. k \in CallStates
    BY <1>1 DEF CallStates
  <2>3. CallOK(k)
    BY <1>1 DEF CallStates, CallOK
  <2> QED
    BY <2>1, <2>2, <2>3, CallStepKeeps
<1>5. CASE Decode(c)
  <2> DEFINE k == [call[c] EXCEPT !.at = "handler"]
  <2>1. call' = [call EXCEPT ![c] = k] /\ UNCHANGED mainVars /\ InProgress(c)
    BY <1>5 DEF Decode, Move, At, InProgress
  <2>2. k \in CallStates
    BY <1>1 DEF CallStates, Places
  <2>3. CallOK(k)
    BY <1>1, <1>5 DEF CallStates, CallOK, Decode, At, Places
  <2> QED
    BY <2>1, <2>2, <2>3, CallStepKeeps
<1>6. CASE RecvMsg(c)
  <2> DEFINE k == [call[c] EXCEPT !.at = "streaming"]
  <2>1. call' = [call EXCEPT ![c] = k] /\ UNCHANGED mainVars /\ InProgress(c)
    BY <1>6 DEF RecvMsg, Move, At, InProgress
  <2>2. k \in CallStates
    BY <1>1 DEF CallStates, Places
  <2>3. CallOK(k)
    BY <1>1, <1>6 DEF CallStates, CallOK, RecvMsg, At, Places
  <2> QED
    BY <2>1, <2>2, <2>3, CallStepKeeps
<1> QED
  BY <1>2, <1>3, <1>4, <1>5, <1>6 DEF Arrive

\* A handler goes to the forge or hears from it.
LEMMA ForgeKeeps ==
  ASSUME ServiceInv, NEW c \in Calls,
         AskForge(c) \/ \E status \in Statuses : ForgeAnswers(c, status)
  PROVE  ServiceInv'
<1>1. call[c] \in CallStates /\ CallOK(call[c]) /\ call[c].at \in Places
  BY DEF ServiceInv, CallsOK, CallStates
<1>2. CASE AskForge(c)
  <2> DEFINE k == [call[c] EXCEPT !.at = "asking", !.asked = TRUE]
  <2>1. call' = [call EXCEPT ![c] = k] /\ UNCHANGED mainVars /\ InProgress(c)
    BY <1>2 DEF AskForge, At, InProgress
  <2>2. k \in CallStates
    BY <1>1 DEF CallStates, Places
  <2>3. CallOK(k)
    BY <1>1, <1>2 DEF CallStates, CallOK, AskForge, At, Places
  <2> QED
    BY <2>1, <2>2, <2>3, CallStepKeeps
<1>3. ASSUME NEW status \in Statuses, ForgeAnswers(c, status)
      PROVE  ServiceInv'
  <2> DEFINE k == [call[c] EXCEPT !.at = "reading", !.answer = status, !.body = TRUE]
  <2>1. call' = [call EXCEPT ![c] = k] /\ UNCHANGED mainVars /\ InProgress(c)
    BY <1>3 DEF ForgeAnswers, At, InProgress
  <2>2. k \in CallStates
    BY <1>1 DEF CallStates, Places
  <2>3. CallOK(k)
    BY <1>1, <1>3 DEF CallStates, CallOK, ForgeAnswers, At, Places
  <2> QED
    BY <2>1, <2>2, <2>3, CallStepKeeps
<1> QED
  BY <1>2, <1>3

\* A call ends.
LEMMA EndKeeps ==
  ASSUME ServiceInv, NEW c \in Calls,
         Resume(c) \/ HandlerPanics(c) \/ (Handle(c) /\ ~AskForge(c))
  PROVE  ServiceInv'
<1>1. ASSUME InProgress(c), NEW code \in StatusCodes, Return(c, code)
      PROVE  ServiceInv'
  BY <1>1, LeaveKeeps DEF Return
<1>2. CASE DecodeFails(c)
  <2>1. PICK code \in {"Canceled", "Internal"} :
          call' = [call EXCEPT ![c].at = "done", ![c].gone = FALSE, ![c].code = code]
    BY <1>2 DEF DecodeFails, Reject
  <2> DEFINE k == [call[c] EXCEPT !.at = "done", !.gone = FALSE, !.code = code]
  <2>2. call' = [call EXCEPT ![c] = k] /\ UNCHANGED mainVars /\ InProgress(c)
    BY <1>2, <2>1 DEF DecodeFails, Reject, At, InProgress
  <2>3. call[c] \in CallStates /\ CallOK(call[c])
    BY DEF ServiceInv, CallsOK
  <2>4. k \in CallStates
    BY <2>3 DEF CallStates, Places, StatusCodes
  <2>5. CallOK(k)
    BY <1>2, <2>3 DEF CallStates, CallOK, DecodeFails, At
  <2> QED
    BY <2>2, <2>4, <2>5, CallStepKeeps
<1>3. CASE RecvMsgFails(c) \/ StreamEnds(c) \/ ForgeFails(c) \/ ForgeContent(c)
  BY <1>1, <1>3 DEF RecvMsgFails, StreamEnds, ForgeFails, ForgeContent, At, InProgress, StatusCodes
<1>4. CASE ForgeRefused(c)
  <2>1. forgeErrToStatus(checkStatus(call[c].answer)) \in StatusCodes
    BY DEF forgeErrToStatus, StatusCodes
  <2> QED
    BY <1>1, <1>4, <2>1 DEF ForgeRefused, At, InProgress
<1>5. CASE HandlerPanics(c)
  <2>1. InProgress(c) /\ "OK" \in StatusCodes
    BY <1>5 DEF HandlerPanics, InProgress, StatusCodes
  <2> QED
    BY <1>5, <2>1, LeaveKeeps DEF HandlerPanics
<1>6. CASE GetVersion(c) \/ ListFileOrderers(c) \/ ListSessions(c) \/ CloseSession(c)
           \/ RejectForgeCall(c)
  BY <1>1, <1>6 DEF GetVersion, ListFileOrderers, ListSessions, CloseSession, RejectForgeCall,
                    At, InProgress, StatusCodes
<1> QED
  BY <1>2, <1>3, <1>4, <1>5, <1>6 DEF Resume, Handle

\* The evictor is started with an interval its ticker accepts.
LEMMA StartKeeps ==
  ASSUME ServiceInv, NEW env \in Environments, StartEviction(env)
  PROVE  ServiceInv'
<1>1. Load(env).EvictionInterval > 0
  BY DurationsArePositive DEF Load
<1>2. /\ main = "start" /\ main' = "listen" /\ evictor' = "running"
      /\ UNCHANGED << exit, rootDone, serving, serveErr, quit, signals, call >>
  BY <1>1 DEF StartEviction
<1> QED
  BY <1>2 DEF ServiceInv, CallsOK, ProcessOK, ProcessTypeOK, DrainedOK, InProgress

\* The steps of run and of the goroutines around it.
LEMMA ProcessKeeps ==
  ASSUME ServiceInv, Run \/ EvictorEnds \/ ServeFails \/ SignalKills \/ Signal
  PROVE  ServiceInv'
<1> USE DEF ServiceInv, CallsOK, ProcessOK, ProcessTypeOK, DrainedOK, InProgress
<1>1. ASSUME NEW env \in Environments, BadConfiguration(env)
      PROVE  ServiceInv'
  BY <1>1 DEF BadConfiguration
<1>2. ASSUME NEW env \in Environments, StartEviction(env)
      PROVE  ServiceInv'
  BY <1>2, StartKeeps
<1>3. CASE ListenFails
  BY <1>3 DEF ListenFails, ReturnFromRun
<1>4. CASE Listen
  BY <1>4 DEF Listen
<1>5. CASE Notify
  BY <1>5 DEF Notify
<1>6. CASE TakeSignal
  BY <1>6 DEF TakeSignal
<1>7. CASE TakeServeErr
  BY <1>7 DEF TakeServeErr, ReturnFromRun
<1>8. CASE Drained
  BY <1>8 DEF Drained
<1>9. CASE Cancel
  BY <1>9 DEF Cancel, ReturnFromRun
<1>10. CASE Exit
  BY <1>10 DEF Exit
<1>11. CASE EvictorEnds
  BY <1>11 DEF EvictorEnds
<1>12. CASE ServeFails
  BY <1>12 DEF ServeFails
<1>13. CASE SignalKills
  BY <1>13, ServiceAssumption DEF SignalKills
<1>14. CASE Signal
  BY <1>14, ServiceAssumption DEF Signal
<1> QED
  BY <1>1, <1>2, <1>3, <1>4, <1>5, <1>6, <1>7, <1>8, <1>9, <1>10, <1>11, <1>12, <1>13, <1>14
     DEF Run

\* The invariant holds in every state of every run of the process.
THEOREM ServiceInvariant == Spec => []ServiceInv
<1>1. Init => ServiceInv
  BY ServiceInitInv
<1>2. ServiceInv /\ [Next]_vars => ServiceInv'
  <2> SUFFICES ASSUME ServiceInv, [Next]_vars
               PROVE  ServiceInv'
    OBVIOUS
  <2>1. CASE Run \/ EvictorEnds \/ ServeFails \/ SignalKills \/ Signal
    BY <2>1, ProcessKeeps
  <2>2. ASSUME NEW c \in Calls,
               \/ Arrive(c) \/ HangUp(c) \/ Decode(c) \/ RecvMsg(c)
               \/ Handle(c) \/ Resume(c) \/ HandlerPanics(c)
               \/ \E status \in Statuses : ForgeAnswers(c, status)
        PROVE  ServiceInv'
    BY <2>2, ArrivalKeeps, ForgeKeeps, EndKeeps
  <2>3. CASE UNCHANGED vars
    BY <2>3 DEF vars, mainVars, ServiceInv, CallsOK, ProcessOK, ProcessTypeOK, DrainedOK, InProgress
  <2> QED
    BY <2>1, <2>2, <2>3 DEF Next
<1> QED
  BY <1>1, <1>2, PTL DEF Spec

\* The process and its calls keep their shape.
THEOREM ServiceTypeCorrect == Spec => []ServiceTypeOK
<1>1. ServiceInv => ServiceTypeOK
  BY DEF ServiceInv, CallsOK, CallOK, CallStates, ProcessOK, ProcessTypeOK, ServiceTypeOK
<1> QED
  BY <1>1, ServiceInvariant, PTL

\* However many calls there are, a process that a signal has stopped has answered
\* every call it accepted, and swept its sessions until then.
THEOREM NoCallIsCut == Spec => []StopCutsNoCall
<1>1. ServiceInv => StopCutsNoCall
  BY DEF ServiceInv, ProcessOK, DrainedOK, StopCutsNoCall
<1> QED
  BY <1>1, ServiceInvariant, PTL

\* No environment and no panic of a handler crashes the process.
THEOREM ServerSurvives == Spec => []NothingCrashes
<1>1. ServiceInv => NothingCrashes
  BY DEF ServiceInv, ProcessOK, ProcessTypeOK, NothingCrashes
<1> QED
  BY <1>1, ServiceInvariant, PTL

\* Every handled call leaves exactly one record and no open response, whatever it was
\* and however it ended.
THEOREM CallsAreSettled == Spec => []HandledCallsAreSettled
<1>1. ServiceInv => HandledCallsAreSettled
  <2> SUFFICES ASSUME ServiceInv, NEW c \in Calls, call[c].at = "done"
               PROVE  /\ ~call[c].body
                      /\ Len(call[c].log) <= 1
                      /\ call[c].log = <<>> => Method(c) \in UnaryMethods /\ ~call[c].asked
                                               /\ call[c].code \in {"Internal", "Canceled"}
    BY DEF HandledCallsAreSettled
  <2>1. call[c] \in CallStates /\ CallOK(call[c])
    BY DEF ServiceInv, CallsOK
  <2>2. ~call[c].body
    BY <2>1 DEF CallOK
  <2>3. Len(call[c].log) <= 1
    <3>1. call[c].log \in {<<>>, << "rpc" >>, << "panic" >>}
      BY <2>1 DEF CallStates
    <3>2. Len(<< >>) = 0 /\ Len(<< "rpc" >>) = 1 /\ Len(<< "panic" >>) = 1
      OBVIOUS
    <3>3. 0 <= 1 /\ 1 <= 1
      OBVIOUS
    <3> QED
      BY <3>1, <3>2, <3>3, Zenon
  <2>4. call[c].log = <<>> => Method(c) \in UnaryMethods /\ ~call[c].asked
                              /\ call[c].code \in {"Internal", "Canceled"}
    BY <2>1 DEF CallOK, Method
  <2> QED
    BY <2>2, <2>3, <2>4
<1> QED
  BY <1>1, ServiceInvariant, PTL

--------------------------------------------------------------------------------
(* The host of a request.                                                  *)

\* White space is cut off both ends, so what is left is still a sequence of pieces.
LEMMA TrimmedSpace ==
  ASSUME NEW s \in Seq(Pieces)
  PROVE  TrimSpace(s) \in Seq(Pieces)
<1> DEFINE N == Len(s)
           kept == {i \in DOMAIN s : s[i] # " "}
<1>1. N \in Nat /\ DOMAIN s = 1..N /\ \A i \in 1..N : s[i] \in Pieces
  BY LenProperties, ElementOfSeq
<1>2. CASE kept = {}
  <2>1. TrimSpace(s) = << >>
    BY <1>2 DEF TrimSpace
  <2> QED
    BY <2>1, EmptySeq
<1>3. CASE kept # {}
  <2> DEFINE mirrored == {N - i : i \in kept}
  <2>1. kept \subseteq 1..N
    <3>1. kept \subseteq DOMAIN s
      OBVIOUS
    <3> QED
      BY <1>1, <3>1
  <2> HIDE DEF kept, N
  <2>2. kept \in SUBSET Nat /\ mirrored \in SUBSET Nat /\ mirrored # {}
    <3>1. \A i \in kept : i \in Nat /\ N - i \in Nat
      BY <1>1, <2>1
    <3>2. PICK i \in kept : TRUE
      BY <1>3
    <3>3. N - i \in mirrored
      OBVIOUS
    <3> QED
      BY <3>1, <3>3
  <2>3. \E i \in kept : \A j \in kept : i <= j
    BY <1>3, <2>2, LeastMember
  <2>4. \E i \in kept : \A j \in kept : i >= j
    <3>1. PICK m \in mirrored : \A n \in mirrored : m <= n
      <4> HIDE DEF mirrored
      <4> QED
        BY <2>2, LeastMember
    <3>2. PICK i \in kept : m = N - i
      BY <3>1
    <3>3. \A j \in kept : N - i <= N - j
      BY <3>1, <3>2
    <3> QED
      BY <1>1, <2>1, <3>3
  <2>5. Min(kept) \in kept /\ Max(kept) \in kept
    BY <2>3, <2>4 DEF Min, Max
  <2>6. Min(kept) \in Int /\ Max(kept) \in Int /\ Min(kept) \in 1..N /\ Max(kept) \in 1..N
    <3>1. Min(kept) \in 1..N /\ Max(kept) \in 1..N
      BY <2>1, <2>5
    <3>2. \A i \in 1..N : i \in Int
      OBVIOUS
    <3> QED
      BY <3>1, <3>2
  <2>7. \A i \in Min(kept)..Max(kept) : s[i] \in Pieces
    BY <1>1, <2>6
  <2>8. SubSeq(s, Min(kept), Max(kept)) \in Seq(Pieces)
    BY <2>6, <2>7, SubSeqProperties
  <2> QED
    BY <1>3, <2>8 DEF TrimSpace, kept
<1> QED
  BY <1>2, <1>3

\* What a prefix was cut off begins with it or did not have it.
LEMMA TrimmedPrefix ==
  ASSUME NEW t \in Seq(Pieces), NEW p \in Pieces,
         NEW u \in Seq(Pieces), u # << >>, u[1] # p
  PROVE  TrimPrefix(t, p) = u <=> \E x \in {<< >>, << p >>} : t = x \o u
<1>1. << >> \o u = u
  BY ConcatEmptySeq
<1>2. << p >> \in Seq(Pieces) /\ Len(<< p >>) = 1 /\ << p >>[1] = p
  OBVIOUS
<1>3. Len(u) \in Nat \ {0} /\ Head(u) = u[1]
  BY EmptySeq
<1>4. << p >> \o u # << >> /\ Head(<< p >> \o u) = p /\ Tail(<< p >> \o u) = u
  <2> DEFINE w == << p >> \o u
  <2>1. /\ w \in Seq(Pieces) /\ Len(w) = 1 + Len(u)
        /\ \A i \in 1..(1 + Len(u)) : w[i] = IF i <= 1 THEN p ELSE u[i - 1]
    BY <1>2, ConcatProperties
  <2> HIDE DEF w
  <2>2. w # << >> /\ Head(w) = p
    BY <1>3, <2>1, EmptySeq
  <2>3. /\ Tail(w) \in Seq(Pieces) /\ Len(Tail(w)) = Len(u)
        /\ \A i \in 1..Len(u) : Tail(w)[i] = w[i + 1]
    BY <1>3, <2>1, <2>2, HeadTailProperties
  <2>4. \A i \in 1..Len(u) : Tail(w)[i] = u[i]
    BY <1>3, <2>1, <2>3
  <2>5. Tail(w) = u
    BY <2>3, <2>4, SeqEqual
  <2> QED
    BY <2>2, <2>5 DEF w
<1>5. ASSUME t # << >>, Head(t) = p, Tail(t) = u
      PROVE  t = << p >> \o u
  <2>1. t[1] = p /\ Len(t) \in Nat \ {0} /\ Len(u) = Len(t) - 1
        /\ \A i \in 1..Len(u) : u[i] = t[i + 1]
    <3>1. Len(t) \in Nat \ {0}
      BY <1>5, EmptySeq
    <3>2. Len(u) = Len(t) - 1 /\ \A i \in 1..Len(u) : u[i] = t[i + 1]
      BY <1>5, HeadTailProperties
    <3>3. t[1] = p
      BY <1>5
    <3> QED
      BY <3>1, <3>2, <3>3
  <2>2. /\ << p >> \o u \in Seq(Pieces) /\ Len(<< p >> \o u) = 1 + Len(u)
        /\ \A i \in 1..(1 + Len(u)) : (<< p >> \o u)[i] = IF i <= 1 THEN p ELSE u[i - 1]
    BY <1>2, ConcatProperties
  <2>3. \A i \in 1..Len(t) : t[i] = (<< p >> \o u)[i]
    <3>1. TAKE i \in 1..Len(t)
    <3>2. CASE i = 1
      BY <2>1, <2>2, <3>2
    <3>3. CASE i # 1
      <4>1. i - 1 \in 1..Len(u) /\ (i - 1) + 1 = i
        BY <2>1, <3>3
      <4>2. t[i] = u[i - 1]
        BY <2>1, <4>1
      <4>3. i \in 1..(1 + Len(u)) /\ ~(i <= 1)
        BY <2>1, <3>3
      <4> QED
        BY <2>2, <4>2, <4>3
    <3> QED
      BY <3>2, <3>3
  <2>4. Len(t) = Len(<< p >> \o u)
    BY <2>1, <2>2
  <2> QED
    BY <2>2, <2>3, <2>4, SeqEqual
<1> QED
  BY <1>1, <1>3, <1>4, <1>5 DEF TrimPrefix

\* What a suffix was cut off ends with it or did not have it.
LEMMA TrimmedSuffix ==
  ASSUME NEW t \in Seq(Pieces), NEW p \in Pieces,
         NEW u \in Seq(Pieces), u # << >>, u[Len(u)] # p
  PROVE  TrimSuffix(t, p) = u <=> \E x \in {<< >>, << p >>} : t = u \o x
<1>1. u \o << >> = u
  BY ConcatEmptySeq
<1>2. << p >> \in Seq(Pieces) /\ Len(<< p >>) = 1 /\ << p >>[1] = p
  OBVIOUS
<1>3. Len(u) \in Nat \ {0} /\ Last(u) = u[Len(u)]
  BY EmptySeq DEF Last
<1>4. u \o << p >> # << >> /\ Last(u \o << p >>) = p /\ Front(u \o << p >>) = u
  <2> DEFINE w == u \o << p >>
  <2>1. /\ w \in Seq(Pieces) /\ Len(w) = Len(u) + 1
        /\ \A i \in 1..(Len(u) + 1) : w[i] = IF i <= Len(u) THEN u[i] ELSE << p >>[i - Len(u)]
    BY <1>2, ConcatProperties
  <2> HIDE DEF w
  <2>2. w # << >> /\ w[Len(w)] = p
    BY <1>2, <1>3, <2>1, EmptySeq
  <2>3. \A i \in 1..Len(u) : w[i] \in Pieces /\ w[i] = u[i]
    BY <1>3, <2>1, ElementOfSeq
  <2>4. /\ SubSeq(w, 1, Len(u)) \in Seq(Pieces) /\ Len(SubSeq(w, 1, Len(u))) = Len(u)
        /\ \A i \in 1..Len(u) : SubSeq(w, 1, Len(u))[i] = w[i]
    <3>1. 1 \in Int /\ Len(u) \in Int /\ 1 <= Len(u)
      BY <1>3
    <3>2. /\ SubSeq(w, 1, Len(u)) \in Seq(Pieces) /\ Len(SubSeq(w, 1, Len(u))) = Len(u) - 1 + 1
          /\ \A i \in 1..(Len(u) - 1 + 1) : SubSeq(w, 1, Len(u))[i] = w[1 + i - 1]
      BY <2>3, <3>1, SubSeqProperties
    <3> QED
      BY <1>3, <3>2
  <2>5. SubSeq(w, 1, Len(u)) = u
    BY <2>3, <2>4, SeqEqual
  <2>6. Front(w) = u
    BY <1>3, <2>1, <2>5 DEF Front
  <2> QED
    BY <2>2, <2>6 DEF w, Last
<1>5. ASSUME t # << >>, Last(t) = p, Front(t) = u
      PROVE  t = u \o << p >>
  <2>1. Len(t) \in Nat \ {0} /\ t[Len(t)] = p /\ u = SubSeq(t, 1, Len(t) - 1)
    BY <1>5, EmptySeq DEF Last, Front
  <2>2. /\ Len(u) = Len(t) - 1 /\ \A i \in 1..Len(u) : u[i] = t[i]
    <3>1. 1 \in Int /\ Len(t) - 1 \in Int /\ \A i \in 1..(Len(t) - 1) : t[i] \in Pieces
      BY <2>1, ElementOfSeq
    <3>2. /\ Len(u) = IF 1 <= Len(t) - 1 THEN (Len(t) - 1) - 1 + 1 ELSE 0
          /\ \A i \in 1..((Len(t) - 1) - 1 + 1) : u[i] = t[1 + i - 1]
      BY <2>1, <3>1, SubSeqProperties
    <3> QED
      BY <2>1, <3>2
  <2>3. /\ u \o << p >> \in Seq(Pieces) /\ Len(u \o << p >>) = Len(u) + 1
        /\ \A i \in 1..(Len(u) + 1) :
               (u \o << p >>)[i] = IF i <= Len(u) THEN u[i] ELSE << p >>[i - Len(u)]
    BY <1>2, ConcatProperties
  <2>4. \A i \in 1..Len(t) : t[i] = (u \o << p >>)[i]
    <3>1. TAKE i \in 1..Len(t)
    <3>2. CASE i = Len(t)
      <4>1. i \in 1..(Len(u) + 1) /\ ~(i <= Len(u)) /\ i - Len(u) = 1
        BY <2>1, <2>2, <3>2
      <4> QED
        BY <1>2, <2>1, <2>3, <3>2, <4>1
    <3>3. CASE i # Len(t)
      <4>1. i \in 1..Len(u) /\ i \in 1..(Len(u) + 1) /\ i <= Len(u)
        BY <2>1, <2>2, <3>3
      <4> QED
        BY <2>2, <2>3, <4>1
    <3> QED
      BY <3>2, <3>3
  <2>5. Len(t) = Len(u \o << p >>)
    BY <2>1, <2>2, <2>3
  <2> QED
    BY <2>3, <2>4, <2>5, SeqEqual
<1> QED
  BY <1>1, <1>3, <1>4, <1>5 DEF TrimSuffix

\* Lower case is the form in which the forge's name is known.
LEMMA LowerCase ==
  ASSUME NEW x \in Pieces
  PROVE  Lower(x) = "github.com" <=> x \in {"github.com", "GitHub.com"}
BY DEF Lower, Pieces

\* The spellings of the forge's name.
Names == {"github.com", "GitHub.com"}

\* What may stand before and after the name.
Maybe(piece) == {<< >>, << piece >>}

\* What is left of a host when a piece is cut off is a host.
LEMMA CutsLeaveHosts ==
  ASSUME NEW v \in Seq(Pieces), NEW p \in Pieces
  PROVE  TrimPrefix(v, p) \in Seq(Pieces) /\ TrimSuffix(v, p) \in Seq(Pieces)
<1>1. v # << >> => Tail(v) \in Seq(Pieces)
  BY HeadTailProperties
<1>2. Front(v) \in Seq(Pieces)
  <2>1. Len(v) \in Nat /\ 1 \in Int /\ Len(v) - 1 \in Int
    BY LenProperties
  <2>2. \A i \in 1..(Len(v) - 1) : v[i] \in Pieces
    BY <2>1, ElementOfSeq
  <2> QED
    BY <2>1, <2>2, SubSeqProperties DEF Front
<1> QED
  BY <1>1, <1>2 DEF TrimPrefix, TrimSuffix

\* A host with at most one piece of each kind, each in its place, is that of the name:
\* the pieces are cut off one after the other, from outside to inside.
LEMMA CutToName ==
  ASSUME NEW t \in Seq(Pieces), NEW n \in Names
  PROVE  LET bare == TrimPrefix(TrimPrefix(t, "https://"), "http://")
         IN  TrimSuffix(TrimSuffix(bare, "/"), ".") = << n >>
             <=> \E dot \in Maybe("."), slash \in Maybe("/"),
                    http \in Maybe("http://"), https \in Maybe("https://") :
                    t = https \o (http \o ((<< n >> \o dot) \o slash))
<1> DEFINE y    == TrimPrefix(t, "https://")
           bare == TrimPrefix(y, "http://")
           z    == TrimSuffix(bare, "/")
<1>1. /\ n \in Pieces /\ "https://" \in Pieces /\ "http://" \in Pieces
      /\ "/" \in Pieces /\ "." \in Pieces
      /\ n # "https://" /\ n # "http://" /\ n # "/" /\ n # "."
      /\ "/" # "." /\ "http://" # "https://"
  BY DEF Pieces, Names
<1>2. y \in Seq(Pieces) /\ bare \in Seq(Pieces) /\ z \in Seq(Pieces)
  <2>1. y \in Seq(Pieces)
    BY <1>1, CutsLeaveHosts
  <2>2. bare \in Seq(Pieces)
    <3> HIDE DEF y
    <3> QED
      BY <1>1, CutsLeaveHosts, <2>1
  <2>3. z \in Seq(Pieces)
    <3> HIDE DEF bare
    <3> QED
      BY <1>1, CutsLeaveHosts, <2>2
  <2> QED
    BY <2>1, <2>2, <2>3
<1> HIDE DEF y, bare, z
<1>3. << n >> \in Seq(Pieces) /\ << n >> # << >> /\ Len(<< n >>) = 1 /\ << n >>[1] = n
  BY <1>1
<1>4. \A piece \in Pieces : \A x \in Maybe(piece) :
          x \in Seq(Pieces) /\ (x = << >> \/ (Len(x) = 1 /\ x[1] = piece))
  <2>1. TAKE piece \in Pieces
  <2>2. << piece >> \in Seq(Pieces) /\ Len(<< piece >>) = 1 /\ << piece >>[1] = piece
    OBVIOUS
  <2>3. << >> \in Seq(Pieces)
    BY EmptySeq
  <2> QED
    BY <2>2, <2>3, Zenon DEF Maybe
<1>5. ASSUME NEW dot \in Maybe(".")
      PROVE  LET u == << n >> \o dot
             IN  u \in Seq(Pieces) /\ u # << >> /\ u[1] = n /\ u[Len(u)] \in {n, "."}
  <2> DEFINE u == << n >> \o dot
  <2>1. dot \in Seq(Pieces) /\ (dot = << >> \/ (Len(dot) = 1 /\ dot[1] = "."))
    BY <1>1, <1>4
  <2>2. /\ u \in Seq(Pieces) /\ Len(u) = 1 + Len(dot)
        /\ \A i \in 1..(1 + Len(dot)) : u[i] = IF i <= 1 THEN << n >>[i] ELSE dot[i - 1]
    BY <1>3, <2>1, ConcatProperties
  <2>3. CASE dot = << >>
    BY <1>3, <2>3, ConcatEmptySeq
  <2>4. CASE Len(dot) = 1 /\ dot[1] = "."
    <3> HIDE DEF u
    <3>1. Len(u) = 2 /\ u[1] = n /\ u[2] = "."
      BY <1>3, <2>2, <2>4
    <3>2. u # << >>
      BY <2>2, <3>1, EmptySeq
    <3> QED
      BY <2>2, <3>1, <3>2 DEF u
  <2> QED
    BY <2>1, <2>3, <2>4
<1>6. ASSUME NEW u \in Seq(Pieces), u # << >>, NEW x, x \in Seq(Pieces)
      PROVE  u \o x \in Seq(Pieces) /\ u \o x # << >> /\ (u \o x)[1] = u[1]
  <2>1. Len(u) \in Nat \ {0} /\ Len(x) \in Nat
    BY <1>6, EmptySeq, LenProperties
  <2>2. /\ u \o x \in Seq(Pieces) /\ Len(u \o x) = Len(u) + Len(x)
        /\ \A i \in 1..(Len(u) + Len(x)) : (u \o x)[i] = IF i <= Len(u) THEN u[i] ELSE x[i - Len(u)]
    BY <1>6, ConcatProperties
  <2>3. 1 \in 1..(Len(u) + Len(x)) /\ 1 <= Len(u)
    BY <2>1
  <2>4. (u \o x)[1] = u[1]
    BY <2>2, <2>3
  <2>5. u \o x # << >>
    BY <2>1, <2>2, EmptySeq
  <2> QED
    BY <2>2, <2>4, <2>5
<1>7. ASSUME NEW dot \in Maybe("."), NEW slash \in Maybe("/")
      PROVE  LET b == (<< n >> \o dot) \o slash
             IN  b \in Seq(Pieces) /\ b # << >> /\ b[1] = n
  BY <1>1, <1>4, <1>5, <1>6
<1>8. ASSUME NEW b \in Seq(Pieces), b # << >>, b[1] = n, NEW http \in Maybe("http://")
      PROVE  LET u == http \o b
             IN  u \in Seq(Pieces) /\ u # << >> /\ u[1] \in {n, "http://"}
  <2>1. http \in Seq(Pieces) /\ (http = << >> \/ (Len(http) = 1 /\ http[1] = "http://"))
    BY <1>1, <1>4
  <2>2. CASE http = << >>
    <3>1. http \o b = b
      BY <2>2, ConcatEmptySeq
    <3> QED
      BY <1>8, <3>1
  <2>3. CASE Len(http) = 1 /\ http[1] = "http://"
    <3>1. http # << >>
      BY <2>3, EmptySeq
    <3> QED
      BY <1>6, <2>1, <2>3, <3>1
  <2> QED
    BY <2>1, <2>2, <2>3
<1>9. TrimSuffix(z, ".") = << n >> <=> \E dot \in Maybe(".") : z = << n >> \o dot
  BY <1>1, <1>2, <1>3, TrimmedSuffix DEF Maybe
<1>10. ASSUME NEW dot \in Maybe(".")
       PROVE  z = << n >> \o dot <=> \E slash \in Maybe("/") : bare = (<< n >> \o dot) \o slash
  <2> DEFINE u == << n >> \o dot
  <2>1. u \in Seq(Pieces) /\ u # << >> /\ u[Len(u)] # "/"
    BY <1>1, <1>5
  <2> HIDE DEF u
  <2>2. TrimSuffix(bare, "/") = u <=> \E slash \in Maybe("/") : bare = u \o slash
    <3>1. "/" \in Pieces /\ bare \in Seq(Pieces)
      BY <1>1, <1>2
    <3>2. TrimSuffix(bare, "/") = u <=> \E slash \in {<< >>, << "/" >>} : bare = u \o slash
      BY <2>1, <3>1, TrimmedSuffix
    <3> QED
      BY <3>2 DEF Maybe
  <2> QED
    BY <2>2 DEF z, u
<1>11. ASSUME NEW b \in Seq(Pieces), b # << >>, b[1] = n
       PROVE  bare = b <=> \E http \in Maybe("http://") : y = http \o b
  <2>1. TrimPrefix(y, "http://") = b <=> \E http \in Maybe("http://") : y = http \o b
    BY <1>1, <1>2, <1>11, TrimmedPrefix DEF Maybe
  <2> QED
    BY <2>1 DEF bare
<1>12. ASSUME NEW b \in Seq(Pieces), b # << >>, b[1] = n, NEW http \in Maybe("http://")
       PROVE  y = http \o b <=> \E https \in Maybe("https://") : t = https \o (http \o b)
  <2> DEFINE u == http \o b
  <2>1. u \in Seq(Pieces) /\ u # << >> /\ u[1] # "https://"
    BY <1>1, <1>8, <1>12
  <2> HIDE DEF u
  <2>2. TrimPrefix(t, "https://") = u <=> \E https \in Maybe("https://") : t = https \o u
    BY <1>1, <2>1, TrimmedPrefix DEF Maybe
  <2> QED
    BY <2>2 DEF y, u
<1>13. ASSUME NEW dot \in Maybe("."), NEW slash \in Maybe("/")
       PROVE  bare = (<< n >> \o dot) \o slash
              <=> \E http \in Maybe("http://"), https \in Maybe("https://") :
                     t = https \o (http \o ((<< n >> \o dot) \o slash))
  <2> DEFINE b == (<< n >> \o dot) \o slash
  <2>1. b \in Seq(Pieces) /\ b # << >> /\ b[1] = n
    BY <1>7
  <2> HIDE DEF b
  <2>2. bare = b <=> \E http \in Maybe("http://") : y = http \o b
    BY <1>11, <2>1
  <2>3. \A http \in Maybe("http://") :
            y = http \o b <=> \E https \in Maybe("https://") : t = https \o (http \o b)
    BY <1>12, <2>1
  <2> QED
    BY <2>2, <2>3 DEF b
<1>14. TrimSuffix(z, ".") = << n >>
       <=> \E dot \in Maybe("."), slash \in Maybe("/") : bare = (<< n >> \o dot) \o slash
  BY <1>9, <1>10
<1>15. TrimSuffix(z, ".") = << n >>
       <=> \E dot \in Maybe("."), slash \in Maybe("/"),
              http \in Maybe("http://"), https \in Maybe("https://") :
              t = https \o (http \o ((<< n >> \o dot) \o slash))
  BY <1>13, <1>14
<1> QED
  BY <1>15 DEF z, bare, y

\* It does not matter in which order pieces of a host are put together.
LEMMA PiecesAssociate ==
  \A p, q, r \in Seq(Pieces) : (p \o q) \o r = p \o (q \o r)
  BY ConcatAssociative

\* A host is normalised to the forge's name exactly if it is a spelling of the name:
\* white space around it, at most one scheme of each kind before it, a slash and a dot
\* after it.
LEMMA HostIsName ==
  ASSUME NEW s \in Seq(Pieces)
  PROVE  NormalizeHost(s) = << "github.com" >> <=> NamesGitHub(s)
<1> DEFINE t    == TrimSpace(s)
           bare == TrimPrefix(TrimPrefix(t, "https://"), "http://")
           cut  == TrimSuffix(bare, "/")
           name == TrimSuffix(cut, ".")
           Spelt(n) == \E dot \in Maybe("."), slash \in Maybe("/"),
                          http \in Maybe("http://"), https \in Maybe("https://") :
                          t = https \o (http \o ((<< n >> \o dot) \o slash))
<1>1. /\ "https://" \in Pieces /\ "http://" \in Pieces /\ "/" \in Pieces /\ "." \in Pieces
      /\ Names \subseteq Pieces
  BY DEF Pieces, Names
<1>2. t \in Seq(Pieces)
  BY TrimmedSpace
<1>3. name \in Seq(Pieces)
  <2>1. bare \in Seq(Pieces)
    <3>1. TrimPrefix(t, "https://") \in Seq(Pieces)
      BY <1>1, <1>2, CutsLeaveHosts
    <3> QED
      BY <1>1, <3>1, CutsLeaveHosts
  <2>2. cut \in Seq(Pieces)
    <3> HIDE DEF bare
    <3> QED
      BY <1>1, <2>1, CutsLeaveHosts
  <2> HIDE DEF cut
  <2> QED
    BY <1>1, <2>2, CutsLeaveHosts
<1>4. NormalizeHost(s) = [i \in DOMAIN name |-> Lower(name[i])]
  BY DEF NormalizeHost
<1>5. \A n \in Names : name = << n >> <=> Spelt(n)
  <2>1. TAKE n \in Names
  <2> HIDE DEF t
  <2> QED
    BY <1>2, CutToName
<1>6. NormalizeHost(s) = << "github.com" >> <=> \E n \in Names : name = << n >>
  <2> HIDE DEF name
  <2>1. Len(name) \in Nat /\ DOMAIN name = 1..Len(name) /\ \A i \in 1..Len(name) : name[i] \in Pieces
    BY <1>3, LenProperties, ElementOfSeq
  <2>2. ASSUME NEW n \in Names, name = << n >>
        PROVE  NormalizeHost(s) = << "github.com" >>
    <3>1. n \in Pieces /\ Lower(n) = "github.com"
      BY <1>1, <2>2, LowerCase DEF Names
    <3>2. DOMAIN name = {1} /\ name[1] = n
      BY <2>2
    <3>3. NormalizeHost(s) = [i \in {1} |-> "github.com"]
      BY <1>4, <3>1, <3>2
    <3>4. << "github.com" >> = [i \in {1} |-> "github.com"]
      OBVIOUS
    <3> QED
      BY <3>3, <3>4
  <2>3. ASSUME NormalizeHost(s) = << "github.com" >>
        PROVE  \E n \in Names : name = << n >>
    <3>1. [i \in 1..Len(name) |-> Lower(name[i])] = << "github.com" >>
      BY <1>4, <2>1, <2>3
    <3>2. 1..Len(name) = 1..1
      BY <3>1
    <3>3. Len(name) = 1
      BY <2>1, <3>2
    <3>4. Lower(name[1]) = "github.com"
      BY <3>1, <3>3
    <3>5. name[1] \in Names
      BY <2>1, <3>3, <3>4, LowerCase DEF Names
    <3>6. << name[1] >> \in Seq(Pieces) /\ Len(<< name[1] >>) = 1 /\ << name[1] >>[1] = name[1]
      BY <2>1, <3>3
    <3>7. name = << name[1] >>
      BY <1>3, <3>3, <3>6, SeqEqual
    <3> QED
      BY <3>5, <3>7
  <2> QED
    BY <2>2, <2>3
<1>7. ASSUME NEW n \in Names, NEW dot \in Maybe("."), NEW slash \in Maybe("/"),
             NEW http \in Maybe("http://"), NEW https \in Maybe("https://")
      PROVE  https \o (http \o ((<< n >> \o dot) \o slash))
             = https \o http \o << n >> \o dot \o slash
  <2>1. /\ << n >> \in Seq(Pieces) /\ dot \in Seq(Pieces) /\ slash \in Seq(Pieces)
        /\ http \in Seq(Pieces) /\ https \in Seq(Pieces)
    <3>1. \A piece \in Pieces : << piece >> \in Seq(Pieces) /\ << >> \in Seq(Pieces)
      BY EmptySeq
    <3> QED
      BY <1>1, <3>1 DEF Maybe
  <2> DEFINE nd == << n >> \o dot
             nds == nd \o slash
             hh == https \o http
  <2>2. nd \in Seq(Pieces) /\ hh \in Seq(Pieces)
    BY <2>1, ConcatProperties
  <2>3. (hh \o << n >>) \o dot = hh \o nd
    <3>1. << n >> \in Seq(Pieces) /\ dot \in Seq(Pieces)
      BY <2>1
    <3> HIDE DEF hh
    <3>2. (hh \o << n >>) \o dot = hh \o (<< n >> \o dot)
      BY <2>2, <3>1, PiecesAssociate
    <3> QED
      BY <3>2
  <2>4. (hh \o nd) \o slash = hh \o nds
    <3>1. slash \in Seq(Pieces)
      BY <2>1
    <3> HIDE DEF nd, hh
    <3>2. (hh \o nd) \o slash = hh \o (nd \o slash)
      BY <2>2, <3>1, PiecesAssociate
    <3> QED
      BY <3>2
  <2>5. nds \in Seq(Pieces)
    <3> HIDE DEF nd
    <3> QED
      BY <2>1, <2>2, ConcatProperties
  <2>6. hh \o nds = https \o (http \o nds)
    <3>1. https \in Seq(Pieces) /\ http \in Seq(Pieces)
      BY <2>1
    <3> HIDE DEF nds
    <3>2. (https \o http) \o nds = https \o (http \o nds)
      BY <2>5, <3>1, PiecesAssociate
    <3> QED
      BY <3>2
  <2>7. ((hh \o << n >>) \o dot) \o slash = https \o (http \o nds)
    BY <2>3, <2>4, <2>6
  <2> QED
    BY <2>7
<1>8. NamesGitHub(s) <=> \E n \in Names : Spelt(n)
  <2> HIDE DEF t
  <2>1. ASSUME NEW n \in Names, Spelt(n)
        PROVE  \E https \in Maybe("https://"), http \in Maybe("http://"),
                  dot \in Maybe("."), slash \in Maybe("/") :
                  t = https \o http \o << n >> \o dot \o slash
    <3>1. PICK dot \in Maybe("."), slash \in Maybe("/"),
               http \in Maybe("http://"), https \in Maybe("https://") :
               t = https \o (http \o ((<< n >> \o dot) \o slash))
      BY <2>1
    <3>2. t = https \o http \o << n >> \o dot \o slash
      BY <1>7, <3>1
    <3> QED
      BY <3>2
  <2>2. ASSUME NEW n \in Names, NEW https \in Maybe("https://"), NEW http \in Maybe("http://"),
               NEW dot \in Maybe("."), NEW slash \in Maybe("/"),
               t = https \o http \o << n >> \o dot \o slash
        PROVE  Spelt(n)
    <3>1. t = https \o (http \o ((<< n >> \o dot) \o slash))
      BY <1>7, <2>2
    <3> QED
      BY <3>1
  <2>3. NamesGitHub(s) <=>
            \E n \in Names, https \in Maybe("https://"), http \in Maybe("http://"),
               dot \in Maybe("."), slash \in Maybe("/") :
               t = https \o http \o << n >> \o dot \o slash
    BY Zenon DEF NamesGitHub, Names, Maybe, t
  <2> HIDE DEF Spelt
  <2> QED
    BY <2>1, <2>2, <2>3, Zenon
<1> QED
  <2> HIDE DEF name, Spelt
  <2> QED
    BY <1>5, <1>6, <1>8

\* The registry knows one forge and no pattern with a star.
LEMMA OneForge ==
  ASSUME NEW host
  PROVE  Resolves(handlers, host) <=> host = << "github.com" >>
<1>1. matchHost(<< "github.com" >>, host) <=> << "github.com" >> = host
  <2>1. << "github.com" >> # << >> /\ Head(<< "github.com" >>) = "github.com" /\ "github.com" # "*"
    OBVIOUS
  <2> QED
    BY <2>1 DEF matchHost
<1>2. DOMAIN handlers = {1} /\ handlers[1] = {<< "github.com" >>}
  BY DEF handlers
<1> QED
  BY <1>1, <1>2 DEF Resolves, Claiming

\* The requests that are sent on to the forge are those that name it and lack no field.
LEMMA ValidRequests ==
  ASSUME NEW r \in Requests
  PROVE  r \in Valid <=> NamesGitHub(r.host) /\ RequiredFields(r.method) \subseteq r.given
<1>1. r.host \in Seq(Pieces)
  BY ServiceAssumption DEF Request
<1>2. Resolves(handlers, NormalizeHost(r.host)) <=> NamesGitHub(r.host)
  BY <1>1, HostIsName, OneForge
<1>3. Resolves(handlers, NormalizeHost(r.host)) => NormalizeHost(r.host) # << >>
  BY OneForge
<1> QED
  BY <1>2, <1>3 DEF Valid

--------------------------------------------------------------------------------
(* What a status tells.                                                    *)

\* What the status of a forge call says of its request and of the forge's answer.
Told(k) ==
    /\ k.code = "InvalidArgument" => k.request \notin Valid
    /\ k.code = "PermissionDenied" => k.answer = 403
    /\ k.code = "NotFound" => k.answer = 404
    /\ k.code = "OK" => k.answer = 200
    /\ k.answer \in {403, 404} /\ k.log = << "rpc" >> => k.code # "Internal"

\* Only a valid request of a forge call is sent on, an answer is there once the call
\* reads it, and a stream is no forge call.
CauseOK(k) ==
    /\ k.at \in {"asking", "reading"} => k.asked = TRUE
    /\ k.asked = TRUE => k.request \in Valid
    /\ k.at \in {"receiving", "streaming"} => k.request.method \in StreamMethods
    /\ k.at \notin {"reading", "done"} => k.answer = 0
    /\ k.at = "reading" => k.answer \in Statuses
    /\ k.at = "done" /\ k.request.method \in ForgeMethods => Told(k)

CausesOK == \A c \in Calls : CauseOK(call[c])

\* The step of one call disturbs no other call.
LEMMA CauseStepKeeps ==
  ASSUME ServiceInv, CausesOK, NEW c \in Calls, NEW k, CauseOK(k),
         call' = [call EXCEPT ![c] = k]
  PROVE  CausesOK'
<1>1. DOMAIN call = Calls
  BY DEF ServiceInv, CallsOK
<1>2. \A d \in Calls : call'[d] = IF d = c THEN k ELSE call[d]
  BY <1>1
<1>3. \A d \in Calls : CauseOK(call'[d])
  BY <1>2 DEF CausesOK
<1> QED
  BY <1>3 DEF CausesOK, CauseOK, Told

\* A handler that returns with a status that tells the cause, or panics, leaves a call
\* whose status does.
LEMMA LeaveTells ==
  ASSUME ServiceInv, CausesOK, NEW c \in Calls, InProgress(c), NEW code \in StatusCodes,
         \/ Leave(c, Panicked(c))
         \/ /\ Leave(c, Returned(c, code))
            /\ Method(c) \in ForgeMethods =>
                  /\ code = "InvalidArgument" => call[c].request \notin Valid
                  /\ code = "PermissionDenied" => call[c].answer = 403
                  /\ code = "NotFound" => call[c].answer = 404
                  /\ code = "OK" => call[c].answer = 200
                  /\ call[c].answer \in {403, 404} => code # "Internal"
  PROVE  CausesOK'
<1>1. call[c] \in CallStates /\ CauseOK(call[c])
  BY DEF ServiceInv, CallsOK, CausesOK
<1>2. call[c].log = <<>>
  BY DEF ServiceInv, CallsOK, CallOK, InProgress
<1>3. ASSUME NEW status, NEW log
      PROVE  /\ Settled(c, status, log).at = "done" /\ Settled(c, status, log).code = status
             /\ Settled(c, status, log).log = log
             /\ Settled(c, status, log).request = call[c].request
             /\ Settled(c, status, log).answer = call[c].answer
             /\ Settled(c, status, log).asked = call[c].asked
  BY <1>1 DEF CallStates, Settled
<1>4. CASE Leave(c, Panicked(c))
  <2>1. call' = [call EXCEPT ![c] = Settled(c, "Internal", << "panic" >>)]
    BY <1>2, <1>4, LeaveSettles
  <2> DEFINE k == Settled(c, "Internal", << "panic" >>)
  <2>2. /\ k.at = "done" /\ k.code = "Internal" /\ k.log # << "rpc" >>
        /\ k.request = call[c].request /\ k.asked = call[c].asked
    <3>1. << "panic" >> # << "rpc" >>
      OBVIOUS
    <3> QED
      BY <1>3, <3>1
  <2> HIDE DEF k
  <2>3. CauseOK(k)
    BY <1>1, <2>2 DEF CauseOK, Told
  <2> QED
    BY <2>1, <2>3, CauseStepKeeps DEF k
<1>5. CASE Leave(c, Returned(c, code)) /\ ~Leave(c, Panicked(c))
  <2>1. call' = [call EXCEPT ![c] = Settled(c, code, << "rpc" >>)]
    <3>1. Leave(c, Returned(c, code))
      BY <1>5
    <3> QED
      BY <1>2, <3>1, LeaveSettles
  <2> DEFINE k == Settled(c, code, << "rpc" >>)
  <2>2. /\ k.at = "done" /\ k.code = code /\ k.log = << "rpc" >>
        /\ k.request = call[c].request /\ k.asked = call[c].asked /\ k.answer = call[c].answer
    BY <1>3
  <2> HIDE DEF k
  <2>3. CauseOK(k)
    BY <1>1, <1>5, <2>2 DEF CauseOK, Told, Method
  <2> QED
    BY <2>1, <2>3, CauseStepKeeps DEF k
<1> QED
  BY <1>4, <1>5

\* A call that moves on without ending keeps what is known of its cause.
LEMMA MoveTells ==
  ASSUME ServiceInv, CausesOK, NEW c \in Calls,
         \/ Arrive(c) \/ HangUp(c) \/ Decode(c) \/ RecvMsg(c) \/ AskForge(c)
         \/ \E status \in Statuses : ForgeAnswers(c, status)
  PROVE  CausesOK'
<1>1. call[c] \in CallStates /\ CallOK(call[c]) /\ CauseOK(call[c]) /\ call[c].at \in Places
  BY DEF ServiceInv, CallsOK, CallStates, CausesOK
<1>2. ASSUME NEW r \in Requests, Invoke(c, r) \/ NewStream(c, r)
      PROVE  CausesOK'
  <2>1. PICK place \in {"arriving", "receiving"} :
          /\ call' = [call EXCEPT ![c] = [call[c] EXCEPT !.at = place, !.request = r]]
          /\ place = "receiving" => r.method \in StreamMethods
    BY <1>2 DEF Invoke, NewStream
  <2> DEFINE k == [call[c] EXCEPT !.at = place, !.request = r]
  <2>2. k.at = place /\ k.request = r /\ k.asked = call[c].asked /\ k.answer = call[c].answer
    BY <1>1 DEF CallStates
  <2>3. call[c].asked = FALSE /\ call[c].answer = 0
    BY <1>1, <1>2 DEF Invoke, NewStream, At, CallOK, CauseOK
  <2> HIDE DEF k
  <2>4. CauseOK(k)
    BY <2>1, <2>2, <2>3 DEF CauseOK
  <2> QED
    BY <2>1, <2>4, CauseStepKeeps DEF k
<1>3. CASE HangUp(c)
  <2> DEFINE k == [call[c] EXCEPT !.gone = TRUE]
  <2>1. call' = [call EXCEPT ![c] = k]
    BY <1>3 DEF HangUp
  <2>2. /\ k.at = call[c].at /\ k.request = call[c].request /\ k.asked = call[c].asked
        /\ k.answer = call[c].answer /\ k.code = call[c].code /\ k.log = call[c].log
    BY <1>1 DEF CallStates
  <2> HIDE DEF k
  <2>3. CauseOK(k)
    BY <1>1, <2>2 DEF CauseOK, Told
  <2> QED
    BY <2>1, <2>3, CauseStepKeeps
<1>4. CASE Decode(c) \/ RecvMsg(c)
  <2>1. PICK place \in {"handler", "streaming"} :
          /\ call' = [call EXCEPT ![c] = [call[c] EXCEPT !.at = place]]
          /\ place = "streaming" => call[c].at = "receiving"
          /\ call[c].at \in {"arriving", "receiving"}
    BY <1>4 DEF Decode, RecvMsg, Move, At
  <2> DEFINE k == [call[c] EXCEPT !.at = place]
  <2>2. k.at = place /\ k.request = call[c].request /\ k.asked = call[c].asked
        /\ k.answer = call[c].answer
    BY <1>1 DEF CallStates
  <2> HIDE DEF k
  <2>3. CauseOK(k)
    BY <1>1, <2>1, <2>2 DEF CauseOK
  <2> QED
    BY <2>1, <2>3, CauseStepKeeps DEF k
<1>5. CASE AskForge(c)
  <2> DEFINE k == [call[c] EXCEPT !.at = "asking", !.asked = TRUE]
  <2>1. /\ call' = [call EXCEPT ![c] = k] /\ call[c].request \in Valid
        /\ call[c].at = "handler"
    BY <1>5 DEF AskForge, At
  <2>2. k.at = "asking" /\ k.request = call[c].request /\ k.asked = TRUE
        /\ k.answer = call[c].answer
    BY <1>1 DEF CallStates
  <2> HIDE DEF k
  <2>3. CauseOK(k)
    BY <1>1, <2>1, <2>2 DEF CauseOK
  <2> QED
    BY <2>1, <2>3, CauseStepKeeps
<1>6. ASSUME NEW status \in Statuses, ForgeAnswers(c, status)
      PROVE  CausesOK'
  <2> DEFINE k == [call[c] EXCEPT !.at = "reading", !.answer = status, !.body = TRUE]
  <2>1. call' = [call EXCEPT ![c] = k] /\ call[c].at = "asking"
    BY <1>6 DEF ForgeAnswers, At
  <2>2. k.at = "reading" /\ k.request = call[c].request /\ k.asked = call[c].asked
        /\ k.answer = status
    BY <1>1 DEF CallStates
  <2> HIDE DEF k
  <2>3. CauseOK(k)
    BY <1>1, <1>6, <2>1, <2>2 DEF CauseOK
  <2> QED
    BY <2>1, <2>3, CauseStepKeeps
<1> QED
  BY <1>2, <1>3, <1>4, <1>5, <1>6 DEF Arrive

\* A call that ends has a status that tells the cause.
LEMMA EndTells ==
  ASSUME ServiceInv, CausesOK, NEW c \in Calls,
         Resume(c) \/ HandlerPanics(c) \/ (Handle(c) /\ ~AskForge(c))
  PROVE  CausesOK'
<1>1. call[c] \in CallStates /\ CallOK(call[c]) /\ CauseOK(call[c])
  BY DEF ServiceInv, CallsOK, CallStates, CausesOK
<1>2. /\ ForgeMethods \cap StreamMethods = {}
      /\ ForgeMethods \cap {"GetVersion", "CloseSession", "ListSessions", "ListFileOrderers"} = {}
  BY DEF ForgeMethods, StreamMethods
<1>3. ASSUME InProgress(c), NEW code \in StatusCodes, Return(c, code), Method(c) \notin ForgeMethods
      PROVE  CausesOK'
  BY <1>3, LeaveTells DEF Return
<1>4. CASE DecodeFails(c)
  <2>1. PICK code \in {"Canceled", "Internal"} :
          call' = [call EXCEPT ![c] = [call[c] EXCEPT !.at = "done", !.gone = FALSE, !.code = code]]
    BY <1>4 DEF DecodeFails, Reject
  <2> DEFINE k == [call[c] EXCEPT !.at = "done", !.gone = FALSE, !.code = code]
  <2>2. /\ k.at = "done" /\ k.request = call[c].request /\ k.asked = call[c].asked
        /\ k.answer = call[c].answer /\ k.code = code
    BY <1>1 DEF CallStates
  <2>3. call[c].answer = 0
    BY <1>1, <1>4 DEF DecodeFails, At, CauseOK
  <2> HIDE DEF k
  <2>4. CauseOK(k)
    BY <1>1, <2>1, <2>2, <2>3 DEF CauseOK, Told
  <2> QED
    BY <2>1, <2>4, CauseStepKeeps DEF k
<1>5. CASE RecvMsgFails(c) \/ StreamEnds(c)
  <2>1. InProgress(c) /\ Method(c) \notin ForgeMethods
    BY <1>1, <1>2, <1>5 DEF RecvMsgFails, StreamEnds, At, InProgress, Method, CauseOK
  <2> QED
    BY <1>3, <1>5, <2>1 DEF RecvMsgFails, StreamEnds, StatusCodes
<1>6. CASE ForgeFails(c)
  <2>1. InProgress(c) /\ call[c].answer = 0 /\ Leave(c, Returned(c, "Internal"))
    BY <1>1, <1>6 DEF ForgeFails, At, InProgress, CauseOK, Return
  <2> QED
    BY <2>1, LeaveTells DEF StatusCodes
<1>7. CASE ForgeRefused(c)
  <2> DEFINE code == forgeErrToStatus(checkStatus(call[c].answer))
  <2>1. InProgress(c) /\ call[c].answer \in Statuses /\ checkStatus(call[c].answer) # "none"
        /\ Leave(c, Returned(c, code))
    BY <1>1, <1>7 DEF ForgeRefused, At, InProgress, CauseOK, Return
  <2>2. \/ call[c].answer = 403 /\ code = "PermissionDenied"
        \/ call[c].answer = 404 /\ code = "NotFound"
        \/ call[c].answer = 500 /\ code = "Internal"
    BY <2>1 DEF Statuses, checkStatus, forgeErrToStatus
  <2> HIDE DEF code
  <2> QED
    BY <2>1, <2>2, LeaveTells DEF StatusCodes
<1>8. CASE ForgeContent(c)
  <2>1. InProgress(c) /\ call[c].answer = 200
    BY <1>1, <1>8 DEF ForgeContent, At, InProgress, CauseOK, Statuses, checkStatus
  <2>2. PICK code \in {"OK", "Internal"} : Leave(c, Returned(c, code))
    BY <1>8 DEF ForgeContent, Return
  <2> QED
    BY <2>1, <2>2, LeaveTells DEF StatusCodes
<1>9. CASE HandlerPanics(c)
  BY <1>9, LeaveTells DEF HandlerPanics, InProgress, StatusCodes
<1>10. CASE GetVersion(c) \/ ListFileOrderers(c) \/ ListSessions(c) \/ CloseSession(c)
  <2>1. InProgress(c) /\ Method(c) \notin ForgeMethods
    BY <1>2, <1>10 DEF GetVersion, ListFileOrderers, ListSessions, CloseSession, At, InProgress
  <2> QED
    BY <1>3, <1>10, <2>1
       DEF GetVersion, ListFileOrderers, ListSessions, CloseSession, StatusCodes
<1>11. CASE RejectForgeCall(c)
  <2>1. /\ InProgress(c) /\ call[c].request \notin Valid /\ call[c].answer = 0
        /\ Leave(c, Returned(c, "InvalidArgument"))
    BY <1>1, <1>11 DEF RejectForgeCall, At, InProgress, CauseOK, Return
  <2> QED
    BY <2>1, LeaveTells DEF StatusCodes
<1> QED
  BY <1>4, <1>5, <1>6, <1>7, <1>8, <1>9, <1>10, <1>11 DEF Resume, Handle

\* However a host is spelt and whatever the forge answers, the status of a forge call
\* tells what happened: nothing is asked of the forge for a request that lacks a field or
\* names no forge, and only such a request is an invalid argument.
THEOREM StatusTellsCause == Spec => []StatusTellsTheCause
<1>1. Init => CausesOK
  <2> SUFFICES ASSUME Init
               PROVE  CausesOK
    OBVIOUS
  <2>1. CauseOK(Fresh)
    BY Zenon DEF Fresh, CauseOK
  <2> QED
    BY <2>1 DEF Init, CausesOK
<1>2. ServiceInv /\ CausesOK /\ [Next]_vars => CausesOK'
  <2> SUFFICES ASSUME ServiceInv, CausesOK, [Next]_vars
               PROVE  CausesOK'
    OBVIOUS
  <2>1. CASE Run \/ EvictorEnds \/ ServeFails \/ SignalKills \/ Signal \/ UNCHANGED vars
    <3>1. UNCHANGED call
      BY <2>1 DEF Run, BadConfiguration, StartEviction, ListenFails, Listen, Notify, TakeSignal,
                  TakeServeErr, Drained, Cancel, Exit, EvictorEnds, ServeFails, SignalKills,
                  Signal, vars
    <3> QED
      BY <3>1 DEF CausesOK, CauseOK, Told
  <2>2. ASSUME NEW c \in Calls,
               \/ Arrive(c) \/ HangUp(c) \/ Decode(c) \/ RecvMsg(c)
               \/ Handle(c) \/ Resume(c) \/ HandlerPanics(c)
               \/ \E status \in Statuses : ForgeAnswers(c, status)
        PROVE  CausesOK'
    BY <2>2, MoveTells, EndTells
  <2> QED
    BY <2>1, <2>2 DEF Next
<1>3. ServiceInv /\ CausesOK => StatusTellsTheCause
  <2> SUFFICES ASSUME ServiceInv, CausesOK, NEW c \in Calls, call[c].at = "done",
                      Method(c) \in ForgeMethods
               PROVE  LET r == call[c].request
                          wellFormed == /\ NamesGitHub(r.host)
                                        /\ RequiredFields(r.method) \subseteq r.given
                      IN /\ call[c].asked => wellFormed
                         /\ call[c].code = "InvalidArgument" => ~wellFormed
                         /\ call[c].code = "PermissionDenied" => call[c].answer = 403
                         /\ call[c].code = "NotFound" => call[c].answer = 404
                         /\ call[c].code = "OK" => call[c].answer = 200
                         /\ call[c].answer \in {403, 404} /\ "rpc" \in ToSet(call[c].log)
                               => call[c].code # "Internal"
    BY DEF StatusTellsTheCause
  <2> DEFINE r == call[c].request
  <2>1. /\ call[c] \in CallStates /\ r \in Requests /\ CauseOK(call[c]) /\ Told(call[c])
        /\ call[c].asked \in BOOLEAN
    BY DEF ServiceInv, CallsOK, CallOK, CallStates, CausesOK, CauseOK, Method
  <2>2. r \in Valid <=> NamesGitHub(r.host) /\ RequiredFields(r.method) \subseteq r.given
    BY <2>1, ValidRequests
  <2>3. "rpc" \in ToSet(call[c].log) => call[c].log = << "rpc" >>
    <3>1. call[c].log \in {<<>>, << "rpc" >>, << "panic" >>}
      BY <2>1 DEF CallStates
    <3>2. "rpc" \notin ToSet(<< >>) /\ "rpc" \notin ToSet(<< "panic" >>)
      BY DEF ToSet
    <3> QED
      BY <3>1, <3>2, Zenon
  <2> QED
    BY <2>1, <2>2, <2>3 DEF CauseOK, Told
<1> QED
  BY <1>1, <1>2, <1>3, ServiceInvariant, PTL DEF Spec
================================================================================
