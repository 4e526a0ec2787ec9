------------------------------- MODULE Registry --------------------------------
(***************************************************************************)
(* What the session registry promises to the calls, with no lock and no    *)
(* sweep: each operation happens at one moment.  A lookup that succeeds    *)
(* starts the session's idle time afresh in the same moment, so a session  *)
(* is never handed out when it is already as good as gone; at most one     *)
(* call is inside a session, and lookups and summaries wait for it to      *)
(* leave.  Closing is the one operation of two moments: the lookup, and    *)
(* then the removal, between which the session may have gone.              *)
(***************************************************************************)
EXTENDS Integers

CONSTANTS Threads, Sessions, TTL, None

VARIABLES
    open,      \* the registered sessions
    born,      \* the sessions that have been created
    known,     \* the sessions some client has been told of
    idle,      \* how long ago each was created or last looked up
    stage,     \* how far each thread's call has come
    on,        \* the session the call is about
    rest       \* the sessions a listing has still to report

calls == << stage, on, rest >>

RegistryInit ==
    /\ open = {} /\ born = {} /\ known = {}
    /\ idle = [s \in Sessions |-> 0]
    /\ stage = [t \in Threads |-> "free"]
    /\ on = [t \in Threads |-> None]
    /\ rest = [t \in Threads |-> {}]

Step(t, from, to) == stage[t] = from /\ stage' = [stage EXCEPT ![t] = to]
Take(t, s)        == on' = [on EXCEPT ![t] = s]

\* The step ends the call.
Ends(t, from) == Step(t, from, "free") /\ Take(t, None)

\* No call is inside session s.
Unoccupied(s) == \A t \in Threads : ~ (stage[t] = "inside" /\ on[t] = s)

--------------------------------------------------------------------------------

\* A client names a session it has been told of, to use it or to close it.
Ask(t, s) ==
    /\ s \in known
    /\ Step(t, "free", "using") \/ Step(t, "free", "closing")
    /\ Take(t, s)
    /\ UNCHANGED << open, born, known, idle, rest >>

\* The session is not there.
NotFound(t) ==
    /\ Ends(t, "using") \/ Ends(t, "closing")
    /\ on[t] \notin open
    /\ UNCHANGED << open, born, known, idle, rest >>

\* The session is there and counts as used from now on.
Find(t) ==
    /\ Step(t, "using", "found") \/ Step(t, "closing", "removing")
    /\ on[t] \in open
    /\ Unoccupied(on[t])
    /\ idle' = [idle EXCEPT ![on[t]] = 0]
    /\ UNCHANGED << open, born, known, on, rest >>

Enter(t) ==
    /\ Step(t, "found", "inside")
    /\ Unoccupied(on[t])
    /\ UNCHANGED << open, born, known, idle, on, rest >>

Leave(t) ==
    /\ Ends(t, "inside")
    /\ UNCHANGED << open, born, known, idle, rest >>

\* Closing a session that has just gone is no error.
Remove(t) ==
    /\ Ends(t, "removing")
    /\ open' = open \ {on[t]}
    /\ UNCHANGED << born, known, idle, rest >>

Create(t, s) ==
    /\ s \notin born
    /\ born' = born \cup {s}
    /\ idle' = [idle EXCEPT ![s] = 0]
    /\ Step(t, "free", "opening")
    /\ Take(t, s)
    /\ UNCHANGED << open, known, rest >>

Register(t) ==
    /\ Step(t, "opening", "registered")
    /\ open' = open \cup {on[t]}
    /\ UNCHANGED << born, known, idle, on, rest >>

\* The client is told of its session, unless it has gone.
Announce(t) ==
    /\ Ends(t, "registered")
    /\ known' \in {known, known \cup {on[t]}}
    /\ UNCHANGED << open, born, idle, rest >>

AskList(t) ==
    /\ Step(t, "free", "asking")
    /\ UNCHANGED << open, born, known, idle, on, rest >>

\* Which sessions are listed is settled at one moment, what is said of each later.
Collect(t) ==
    /\ Step(t, "asking", "listing")
    /\ rest' = [rest EXCEPT ![t] = open]
    /\ UNCHANGED << open, born, known, idle, on >>

Report(t, s) ==
    /\ stage[t] = "listing"
    /\ s \in rest[t]
    /\ Unoccupied(s)
    /\ rest' = [rest EXCEPT ![t] = @ \ {s}]
    /\ known' = known \cup {s}
    /\ UNCHANGED << open, born, idle, stage, on >>

Reported(t) ==
    /\ rest[t] = {}
    /\ Step(t, "listing", "free")
    /\ UNCHANGED << open, born, known, idle, on, rest >>

\* Only a session that has been idle for too long, at this very moment, is evicted.
Evict(s) ==
    /\ s \in open
    /\ idle[s] > TTL
    /\ open' = open \ {s}
    /\ UNCHANGED << born, known, idle, calls >>

Tick ==
    /\ idle' = [s \in Sessions |-> IF s \in born /\ idle[s] <= TTL THEN idle[s] + 1 ELSE idle[s]]
    /\ UNCHANGED << open, born, known, calls >>

RegistryNext ==
    \/ \E t \in Threads :
          \/ NotFound(t) \/ Find(t) \/ Enter(t) \/ Leave(t) \/ Remove(t)
          \/ Register(t) \/ Announce(t) \/ AskList(t) \/ Collect(t) \/ Reported(t)
          \/ \E s \in Sessions : Ask(t, s) \/ Create(t, s) \/ Report(t, s)
    \/ \E s \in Sessions : Evict(s)
    \/ Tick

RegistrySpec == RegistryInit /\ [][RegistryNext]_<< open, born, known, idle, calls >>
================================================================================
