-------------------------------- MODULE Opening --------------------------------
(***************************************************************************)
(* What OpenSession and OpenReviewSession share: a server-streaming call   *)
(* that reports its progress, fails with a status, and ends by registering *)
(* a session and then announcing it.  Every event goes through send, which *)
(* looks at the call's context first (server/open_session.go).  The        *)
(* modules WalkthroughOpening and ReviewOpening extend this one with the   *)
(* steps of each pipeline.                                                 *)
(***************************************************************************)
EXTENDS Integers, Sequences

VARIABLES
    pc,         \* where the handler is; "returned" once it is over
    ctxDone,    \* the client has cancelled, or its deadline has passed
    percents,   \* the progress events sent so far
    status,     \* the gRPC status the handler returned, "none" before
    registered  \* store.Set has run: ListSessions shows the session

callVars == << pc, ctxDone, percents, status, registered >>

Codes == {"none", "OK", "InvalidArgument", "NotFound", "PermissionDenied",
          "Internal", "Canceled"}

CallInit ==
    /\ pc = "start"
    /\ ctxDone = FALSE
    /\ percents = << >>
    /\ status = "none"
    /\ registered = FALSE

Return(code) == pc' = "returned" /\ status' = code

\* The handler gives up: nothing is sent and nothing is registered.
Fail(code) ==
    /\ Return(code)
    /\ UNCHANGED << ctxDone, percents, registered >>

\* The handler goes on without sending anything.
Continue(next) ==
    /\ pc' = next
    /\ UNCHANGED << ctxDone, percents, status, registered >>

\* send(stream, progress(_, percent)).
SendProgress(percent, next) ==
    \/ /\ ctxDone
       /\ Fail("Canceled")
    \/ /\ ~ctxDone
       /\ percents' = Append(percents, percent)
       /\ pc' = next
       /\ UNCHANGED << ctxDone, status, registered >>

\* store.Set; from here on the session outlives the call.
Register(next) ==
    /\ registered' = TRUE
    /\ pc' = next
    /\ UNCHANGED << ctxDone, percents, status >>

\* The last send, whose error is the handler's result.
SendReady ==
    /\ Return(IF ctxDone THEN "Canceled" ELSE "OK")
    /\ UNCHANGED << ctxDone, percents, registered >>

\* The client hangs up while the handler runs.
CancelCall ==
    /\ pc # "returned"
    /\ ~ctxDone
    /\ ctxDone' = TRUE
    /\ UNCHANGED << pc, percents, status, registered >>

CallTypeOK ==
    /\ ctxDone \in BOOLEAN
    /\ registered \in BOOLEAN
    /\ status \in Codes
    /\ (status = "none") = (pc # "returned")
================================================================================
