----------------------------- MODULE SessionStore ------------------------------
(***************************************************************************)
(* The session registry (internal/session/store.go) with its evictor, the  *)
(* session mutex (session.go) and the calls that go through both:          *)
(* CloseSession and ListSessions (server/session_mgmt.go), the end of the  *)
(* two Open calls (open_session.go, open_review_session.go) and the first  *)
(* part of Navigate, Rephrase and ExpandTerm, which look a session up and  *)
(* then enter it.                                                          *)
(*                                                                         *)
(* The locks are Go's.  An RWMutex writer first announces itself, which    *)
(* shuts out new readers, then waits for the readers inside to leave.      *)
(* Time is the idle age of each session, which is all the evictor sees.    *)
(***************************************************************************)
EXTENDS Integers, FiniteSets

CONSTANTS
    Threads,        \* the goroutines that serve calls
    Sessions,       \* the sessions that may ever be opened; identifiers are random
    TTL,            \* cfg.SessionTTL, in clock ticks
    Interval,       \* cfg.EvictionInterval, in clock ticks
    Evictor,        \* the goroutine of StartEviction
    None            \* nobody

Operations == {"Use", "Close", "List", "Open"}

\* None is not one of the things it stands for the absence of.
ASSUME StoreAssumption ==
    /\ TTL \in Nat
    /\ Interval \in Nat \ {0}
    /\ Evictor \notin Threads
    /\ None \notin Threads \cup {Evictor}
    /\ None \notin Sessions \cup Operations

VARIABLES
    sessions,       \* Store.sessions
    born,           \* sessions that have been created
    known,          \* session identifiers some client has been told
    age,            \* now - LastAccessed, capped just past the TTL
    left,           \* ticks until the ticker fires
    fired,          \* ticker.C holds a tick
    announced,      \* the goroutine that holds or waits for Store.mu as a writer
    readers,        \* the goroutines that hold Store.mu as readers
    mu,             \* the holder of each Session.mu
    pc,             \* where each thread is
    op,             \* the operation it runs
    target,         \* the session it runs it on
    todo,           \* the sessions ListSessions has still to summarise
    sweep,          \* where the evictor is
    doomed          \* the sessions the evictor is about to delete

clockVars  == << age, left, fired >>
lockVars   == << announced, readers, mu >>
threadVars == << pc, op, target, todo >>
storeVars  == << sessions, born, known, clockVars, lockVars, threadVars, sweep, doomed >>

\* Ages past the TTL are all alike.
Ages == 0..(TTL + 1)

StoreInit ==
    /\ sessions = {}
    /\ born = {}
    /\ known = {}
    /\ age = [s \in Sessions |-> 0]
    /\ left = Interval
    /\ fired = FALSE
    /\ announced = None
    /\ readers = {}
    /\ mu = [s \in Sessions |-> None]
    /\ pc = [t \in Threads |-> "idle"]
    /\ op = [t \in Threads |-> None]
    /\ target = [t \in Threads |-> None]
    /\ todo = [t \in Threads |-> {}]
    /\ sweep = "wait"
    /\ doomed = {}

At(t, label) == pc[t] = label
Move(t, label) == pc' = [pc EXCEPT ![t] = label]

\* The call is over, or no longer the store's concern.
Finish(t) ==
    /\ Move(t, "idle")
    /\ op' = [op EXCEPT ![t] = None]
    /\ target' = [target EXCEPT ![t] = None]

--------------------------------------------------------------------------------
(* Calls arrive *)

\* A client names a session it has been told of.
StartUse(t, o, s) ==
    /\ At(t, "idle")
    /\ o \in {"Use", "Close"}
    /\ s \in known
    /\ op' = [op EXCEPT ![t] = o]
    /\ target' = [target EXCEPT ![t] = s]
    /\ Move(t, "wantRead")
    /\ UNCHANGED << sessions, born, known, clockVars, lockVars, todo, sweep, doomed >>

StartList(t) ==
    /\ At(t, "idle")
    /\ op' = [op EXCEPT ![t] = "List"]
    /\ Move(t, "wantRead")
    /\ UNCHANGED << sessions, born, known, clockVars, lockVars, target, todo, sweep, doomed >>

\* An Open call has done its work: session.New stamps the session, Set follows.
StartOpen(t, s) ==
    /\ At(t, "idle")
    /\ s \in Sessions \ born
    /\ born' = born \cup {s}
    /\ age' = [age EXCEPT ![s] = 0]
    /\ op' = [op EXCEPT ![t] = "Open"]
    /\ target' = [target EXCEPT ![t] = s]
    /\ Move(t, "wantWrite")
    /\ UNCHANGED << sessions, known, left, fired, lockVars, todo, sweep, doomed >>

--------------------------------------------------------------------------------
(* Store.mu *)

ReadLock(t) ==
    /\ At(t, "wantRead")
    /\ announced = None
    /\ readers' = readers \cup {t}
    /\ Move(t, "reading")
    /\ UNCHANGED << sessions, born, known, clockVars, announced, mu,
                    op, target, todo, sweep, doomed >>

WriteAnnounce(t) ==
    /\ At(t, "wantWrite")
    /\ announced = None
    /\ announced' = t
    /\ Move(t, "announced")
    /\ UNCHANGED << sessions, born, known, clockVars, readers, mu,
                    op, target, todo, sweep, doomed >>

WriteLock(t) ==
    /\ At(t, "announced")
    /\ readers = {}
    /\ Move(t, "writing")
    /\ UNCHANGED << sessions, born, known, clockVars, lockVars,
                    op, target, todo, sweep, doomed >>

--------------------------------------------------------------------------------
(* Get: look up and touch, under the read lock *)

GetMissing(t) ==
    /\ At(t, "reading")
    /\ op[t] \in {"Use", "Close"}
    /\ target[t] \notin sessions
    /\ readers' = readers \ {t}
    /\ Finish(t)
    /\ UNCHANGED << sessions, born, known, clockVars, announced, mu,
                    todo, sweep, doomed >>

\* Mutant: Get gives the read lock back before it touches the session.
GetFoundUnlocked(t) ==
    /\ At(t, "reading")
    /\ op[t] \in {"Use", "Close"}
    /\ target[t] \in sessions
    /\ mu[target[t]] = None
    /\ mu' = [mu EXCEPT ![target[t]] = t]
    /\ readers' = readers \ {t}
    /\ Move(t, "touching")
    /\ UNCHANGED << sessions, born, known, clockVars, announced,
                    op, target, todo, sweep, doomed >>

\* The lookup succeeded and Touch has taken the session mutex.
GetFound(t) ==
    /\ At(t, "reading")
    /\ op[t] \in {"Use", "Close"}
    /\ target[t] \in sessions
    /\ mu[target[t]] = None
    /\ mu' = [mu EXCEPT ![target[t]] = t]
    /\ Move(t, "touching")
    /\ UNCHANGED << sessions, born, known, clockVars, announced, readers,
                    op, target, todo, sweep, doomed >>

\* Mutant: CloseSession keeps the read lock while it asks for the write lock.
TouchKeepsReadLock(t) ==
    /\ At(t, "touching")
    /\ age' = [age EXCEPT ![target[t]] = 0]
    /\ mu' = [mu EXCEPT ![target[t]] = None]
    /\ readers' = IF op[t] = "Close" THEN readers ELSE readers \ {t}
    /\ Move(t, IF op[t] = "Use" THEN "wantSession" ELSE "wantWrite")
    /\ UNCHANGED << sessions, born, known, left, fired, announced,
                    op, target, todo, sweep, doomed >>

\* Mutant: Get returns the session without touching it.
TouchForgotten(t) ==
    /\ At(t, "touching")
    /\ mu' = [mu EXCEPT ![target[t]] = None]
    /\ readers' = readers \ {t}
    /\ Move(t, IF op[t] = "Use" THEN "wantSession" ELSE "wantWrite")
    /\ UNCHANGED << sessions, born, known, clockVars, announced,
                    op, target, todo, sweep, doomed >>

\* LastAccessed is written, then both locks are released.
Touch(t) ==
    /\ At(t, "touching")
    /\ age' = [age EXCEPT ![target[t]] = 0]
    /\ mu' = [mu EXCEPT ![target[t]] = None]
    /\ readers' = readers \ {t}
    /\ Move(t, IF op[t] = "Use" THEN "wantSession" ELSE "wantWrite")
    /\ UNCHANGED << sessions, born, known, left, fired, announced,
                    op, target, todo, sweep, doomed >>

--------------------------------------------------------------------------------
(* The session's critical section, and the writers of the map *)

EnterSession(t) ==
    /\ At(t, "wantSession")
    /\ mu[target[t]] = None
    /\ mu' = [mu EXCEPT ![target[t]] = t]
    /\ Move(t, "inside")
    /\ UNCHANGED << sessions, born, known, clockVars, announced, readers,
                    op, target, todo, sweep, doomed >>

\* The walker has been moved or read; the rest of the call is not the store's.
LeaveSession(t) ==
    /\ At(t, "inside")
    /\ mu' = [mu EXCEPT ![target[t]] = None]
    /\ Finish(t)
    /\ UNCHANGED << sessions, born, known, clockVars, announced, readers,
                    todo, sweep, doomed >>

Delete(t) ==
    /\ At(t, "writing")
    /\ op[t] = "Close"
    /\ sessions' = sessions \ {target[t]}
    /\ announced' = None
    /\ Finish(t)
    /\ UNCHANGED << born, known, clockVars, readers, mu, todo, sweep, doomed >>

Set(t) ==
    /\ At(t, "writing")
    /\ op[t] = "Open"
    /\ sessions' = sessions \cup {target[t]}
    /\ announced' = None
    /\ Move(t, "ready")
    /\ UNCHANGED << born, known, clockVars, readers, mu, op, target, todo, sweep, doomed >>

\* The steps are copied into the Ready event and it is sent, or the client has
\* gone and never hears of the session it caused.
SendReady(t) ==
    /\ At(t, "ready")
    /\ known' \in {known, known \cup {target[t]}}
    /\ Finish(t)
    /\ UNCHANGED << sessions, born, clockVars, lockVars, todo, sweep, doomed >>

--------------------------------------------------------------------------------
(* ListSessions: a snapshot under the read lock, then one summary at a time *)

All(t) ==
    /\ At(t, "reading")
    /\ op[t] = "List"
    /\ todo' = [todo EXCEPT ![t] = sessions]
    /\ readers' = readers \ {t}
    /\ target' = [target EXCEPT ![t] = None]
    /\ Move(t, "listing")
    /\ UNCHANGED << sessions, born, known, clockVars, announced, mu, op, sweep, doomed >>

SummaryLock(t, s) ==
    /\ At(t, "listing")
    /\ s \in todo[t]
    /\ mu[s] = None
    /\ mu' = [mu EXCEPT ![s] = t]
    /\ target' = [target EXCEPT ![t] = s]
    /\ Move(t, "summing")
    /\ UNCHANGED << sessions, born, known, clockVars, announced, readers,
                    op, todo, sweep, doomed >>

Summary(t) ==
    /\ At(t, "summing")
    /\ mu' = [mu EXCEPT ![target[t]] = None]
    /\ todo' = [todo EXCEPT ![t] = @ \ {target[t]}]
    /\ known' = known \cup {target[t]}
    /\ Move(t, "listing")
    /\ UNCHANGED << sessions, born, clockVars, announced, readers,
                    op, target, sweep, doomed >>

ListDone(t) ==
    /\ At(t, "listing")
    /\ todo[t] = {}
    /\ Finish(t)
    /\ UNCHANGED << sessions, born, known, clockVars, lockVars,
                    todo, sweep, doomed >>

--------------------------------------------------------------------------------
(* The evictor and the clock *)

\* Mutant: the evictor chooses its victims, and deletes them, without the lock.
EvictTickUnlocked ==
    /\ sweep = "wait"
    /\ fired
    /\ fired' = FALSE
    /\ doomed' = {s \in sessions : age[s] > TTL}
    /\ sweep' = "sweeping"
    /\ UNCHANGED << sessions, born, known, age, left, lockVars, threadVars >>

EvictTick ==
    /\ sweep = "wait"
    /\ fired
    /\ fired' = FALSE
    /\ sweep' = "wantWrite"
    /\ UNCHANGED << sessions, born, known, age, left, lockVars, threadVars, doomed >>

EvictAnnounce ==
    /\ sweep = "wantWrite"
    /\ announced = None
    /\ announced' = Evictor
    /\ sweep' = "announced"
    /\ UNCHANGED << sessions, born, known, clockVars, readers, mu, threadVars, doomed >>

\* The lock is held: the cutoff is computed and the map scanned against it.
EvictScan ==
    /\ sweep = "announced"
    /\ readers = {}
    /\ doomed' = {s \in sessions : age[s] > TTL}
    /\ sweep' = "sweeping"
    /\ UNCHANGED << sessions, born, known, clockVars, lockVars, threadVars >>

EvictDelete(s) ==
    /\ sweep = "sweeping"
    /\ s \in doomed
    /\ sessions' = sessions \ {s}
    /\ doomed' = doomed \ {s}
    /\ UNCHANGED << born, known, clockVars, lockVars, threadVars, sweep >>

\* Mutant: the evictor returns without unlocking the store.
EvictDoneKeepsLock ==
    /\ sweep = "sweeping"
    /\ doomed = {}
    /\ sweep' = "wait"
    /\ UNCHANGED << sessions, born, known, clockVars, lockVars, threadVars, doomed >>

EvictDone ==
    /\ sweep = "sweeping"
    /\ doomed = {}
    /\ announced' = None
    /\ sweep' = "wait"
    /\ UNCHANGED << sessions, born, known, clockVars, readers, mu, threadVars, doomed >>

\* Mutant: the ticker is rearmed one tick late.
ClockTickLate ==
    /\ age' = [s \in Sessions |-> IF s \in born /\ age[s] <= TTL THEN age[s] + 1 ELSE age[s]]
    /\ IF left = 0 THEN left' = Interval /\ fired' = TRUE
                   ELSE left' = left - 1 /\ UNCHANGED fired
    /\ UNCHANGED << sessions, born, known, lockVars, threadVars, sweep, doomed >>

\* A ticker drops the tick that finds its channel full.
ClockTick ==
    /\ age' = [s \in Sessions |-> IF s \in born /\ age[s] <= TTL THEN age[s] + 1 ELSE age[s]]
    /\ IF left = 1 THEN left' = Interval /\ fired' = TRUE
                   ELSE left' = left - 1 /\ UNCHANGED fired
    /\ UNCHANGED << sessions, born, known, lockVars, threadVars, sweep, doomed >>

--------------------------------------------------------------------------------

Thread(t) ==
    \/ ReadLock(t) \/ WriteAnnounce(t) \/ WriteLock(t)
    \/ GetMissing(t) \/ GetFound(t) \/ Touch(t)
    \/ EnterSession(t) \/ LeaveSession(t) \/ Delete(t) \/ Set(t) \/ SendReady(t)
    \/ All(t) \/ (\E s \in Sessions : SummaryLock(t, s)) \/ Summary(t) \/ ListDone(t)

Evict ==
    \/ EvictTick \/ EvictAnnounce \/ EvictScan
    \/ (\E s \in Sessions : EvictDelete(s)) \/ EvictDone

StoreNext ==
    \/ \E t \in Threads :
          \/ Thread(t)
          \/ \E s \in Sessions : StartOpen(t, s)
          \/ \E o \in {"Use", "Close"}, s \in Sessions : StartUse(t, o, s)
          \/ StartList(t)
    \/ Evict
    \/ ClockTick

StoreSpec == StoreInit /\ [][StoreNext]_storeVars

\* Every goroutine that can run does, a goroutine that waits for a Go mutex gets
\* it when it is released over and over (both mutexes are starvation free), and
\* time passes.
StoreFairness ==
    /\ \A t \in Threads : SF_storeVars(Thread(t))
    /\ SF_storeVars(Evict)
    /\ WF_storeVars(ClockTick)

FairStoreSpec == StoreSpec /\ StoreFairness

--------------------------------------------------------------------------------
(* Properties *)

ThreadPlaces == {"idle", "wantRead", "reading", "touching", "wantSession", "inside",
                 "wantWrite", "announced", "writing", "ready", "listing", "summing"}

\* The shape of the registry, its locks and its calls.
StoreTypeOK ==
    /\ sessions \subseteq born /\ born \subseteq Sessions /\ known \subseteq born
    /\ age \in [Sessions -> Ages]
    /\ left \in 1..Interval /\ fired \in BOOLEAN
    /\ announced \in Threads \cup {Evictor, None}
    /\ readers \subseteq Threads
    /\ mu \in [Sessions -> Threads \cup {None}]
    /\ pc \in [Threads -> ThreadPlaces]
    /\ op \in [Threads -> Operations \cup {None}]
    /\ target \in [Threads -> Sessions \cup {None}]
    /\ todo \in [Threads -> SUBSET Sessions]
    /\ sweep \in {"wait", "wantWrite", "announced", "sweeping"}
    /\ doomed \subseteq Sessions

Reading(t) == pc[t] \in {"reading", "touching"}
InSession(t, s) == pc[t] \in {"touching", "inside", "summing"} /\ target[t] = s

\* The session map and LastAccessed are never written while someone else reads or
\* writes them.  LastAccessed is written under the read lock and the session's
\* mutex, but the evictor reads it under the write lock alone: only because Touch
\* keeps the read lock are the two never at work together.
NoStoreRace ==
    /\ sweep = "sweeping" => \A t \in Threads : ~Reading(t) /\ pc[t] # "writing"
    /\ \A t, u \in Threads : t # u /\ pc[t] = "writing" => ~Reading(u) /\ pc[u] # "writing"
    /\ \A t, u \in Threads, s \in Sessions : InSession(t, s) /\ InSession(u, s) => t = u

\* The session that Get touches and returns is still registered at that moment: no
\* close or sweep comes between the lookup and the touch.
TouchedIsRegistered == \A t \in Threads : pc[t] = "touching" => target[t] \in sessions

\* A session leaves the registry only by a CloseSession call on it or because it
\* has been idle for longer than the TTL at that moment: a session that was looked
\* up in time is never lost to a sweep already under way.
EvictedWasIdle ==
    [][\A s \in sessions \ sessions' :
          \/ age[s] > TTL
          \/ \E t \in Threads : pc[t] = "writing" /\ op[t] = "Close" /\ target[t] = s]_storeVars

\* No call waits for ever on the store or on a session: the read lock may be held
\* while waiting for a session's mutex, but never the other way round.
EveryCallFinishes == \A t \in Threads : pc[t] # "idle" ~> pc[t] = "idle"

\* A session nobody asks for, the ones whose client never heard of them included,
\* does not stay: once past the TTL it is evicted or looked up again.
IdleSessionsLeave ==
    \A s \in Sessions : s \in sessions /\ age[s] > TTL ~> s \notin sessions \/ age[s] <= TTL

\* How far a call has come, as its client could tell: the waits for the locks and the
\* moments inside them do not show.
Stage(t) ==
    CASE op[t] = "Use"   -> (CASE pc[t] = "wantSession" -> "found"
                               [] pc[t] = "inside"      -> "inside"
                               [] OTHER                 -> "using")
      [] op[t] = "Close" -> IF pc[t] \in {"wantRead", "reading", "touching"} THEN "closing" ELSE "removing"
      [] op[t] = "Open"  -> IF pc[t] = "ready" THEN "registered" ELSE "opening"
      [] op[t] = "List"  -> IF pc[t] \in {"wantRead", "reading"} THEN "asking" ELSE "listing"
      [] OTHER           -> "free"

\* What each call is about, and what a listing has still to report.
Stages   == [t \in Threads |-> Stage(t)]
Subjects == [t \in Threads |-> IF op[t] = "List" THEN None ELSE target[t]]
Unlisted == [t \in Threads |-> IF pc[t] \in {"listing", "summing"} THEN todo[t] ELSE {}]

Abstract == INSTANCE Registry
              WITH open <- sessions, idle <- age,
                   stage <- Stages, on <- Subjects, rest <- Unlisted

\* The locks make every operation look as if it happened at one moment: the lookup and
\* the touch of Get, which two locks guard, the sweep, which reads and deletes one
\* session after the other, and the list, whose summaries come later.
StoreIsRegistry == Abstract!RegistrySpec
================================================================================
