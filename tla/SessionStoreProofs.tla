-------------------------- MODULE SessionStoreProofs ---------------------------
(***************************************************************************)
(* The registry's safety for any number of threads and sessions.  The      *)
(* inductive invariant says what each lock's state means: who is among the *)
(* readers, who has announced himself as the writer, who holds a session's *)
(* mutex.  The three properties follow from it, and it needs one of them:  *)
(* that the session a reader touches stays registered.                     *)
(***************************************************************************)
EXTENDS SessionStore, TLAPS

\* Where the calls are and what they work on.
ThreadsOK ==
    /\ pc \in [Threads -> ThreadPlaces]
    /\ op \in [Threads -> Operations \cup {None}]
    /\ target \in [Threads -> Sessions \cup {None}]
    /\ todo \in [Threads -> SUBSET Sessions]
    /\ \A t \in Threads :
          /\ pc[t] \in {"touching", "wantSession", "inside", "summing"} => target[t] \in Sessions
          /\ pc[t] \in {"touching", "wantSession", "inside"} => op[t] \in {"Use", "Close"}
          /\ pc[t] \in {"wantWrite", "announced", "writing", "ready"}
                => target[t] \in Sessions /\ op[t] \in {"Open", "Close"}
          /\ pc[t] \in {"wantRead", "reading"} => op[t] = "List" \/ target[t] \in Sessions

\* The registry and the ages.
RegistryOK ==
    /\ sessions \subseteq born /\ born \subseteq Sessions /\ known \subseteq born
    /\ age \in [Sessions -> Ages]
    /\ left \in 1..Interval /\ fired \in BOOLEAN
    /\ doomed \subseteq Sessions
    /\ sweep \in {"wait", "wantWrite", "announced", "sweeping"}
    /\ \A t \in Threads :
          /\ pc[t] \in {"wantWrite", "announced", "writing", "ready", "summing"}
                => target[t] \in born
          /\ todo[t] \subseteq born

\* What the locks mean.
LocksOK ==
    /\ readers = {t \in Threads : Reading(t)}
    /\ announced \in Threads \cup {Evictor, None}
    /\ \A t \in Threads : pc[t] \in {"announced", "writing"} <=> announced = t
    /\ sweep \in {"announced", "sweeping"} <=> announced = Evictor
    /\ \A t \in Threads : pc[t] = "writing" => readers = {}
    /\ sweep = "sweeping" => readers = {}
    /\ mu \in [Sessions -> Threads \cup {None}]
    /\ \A t \in Threads, s \in Sessions : InSession(t, s) => mu[s] = t

\* The evictor's victims are registered and have been idle for too long.
DoomedOK == sweep = "sweeping" => \A s \in doomed : s \in sessions /\ age[s] > TTL

StoreInv == ThreadsOK /\ RegistryOK /\ LocksOK /\ DoomedOK /\ TouchedIsRegistered

LEMMA StoreInitInv == StoreInit => StoreInv
<1> SUFFICES ASSUME StoreInit
             PROVE  StoreInv
  OBVIOUS
<1> USE StoreAssumption DEF StoreInit
<1>1. ThreadsOK
  BY DEF ThreadsOK, ThreadPlaces
<1>2. RegistryOK
  <2>1. fired \in BOOLEAN
    BY Zenon
  <2>2. left \in 1..Interval /\ age \in [Sessions -> Ages]
    BY DEF Ages
  <2> QED
    BY <2>1, <2>2 DEF RegistryOK
<1>3. LocksOK
  BY DEF LocksOK, Reading, InSession
<1>4. DoomedOK /\ TouchedIsRegistered
  BY DEF DoomedOK, TouchedIsRegistered
<1> QED
  BY <1>1, <1>2, <1>3, <1>4 DEF StoreInv

\* A call arrives.
LEMMA StartKeeps ==
  ASSUME StoreInv, NEW t \in Threads,
         \/ \E o \in {"Use", "Close"}, s \in Sessions : StartUse(t, o, s)
         \/ \E s \in Sessions : StartOpen(t, s)
         \/ StartList(t)
  PROVE  StoreInv'
<1> USE StoreAssumption DEF StoreInv, ThreadPlaces, Operations, Ages
<1>1. ASSUME NEW o \in {"Use", "Close"}, NEW s \in Sessions, StartUse(t, o, s)
      PROVE  StoreInv'
  <2> USE <1>1 DEF StartUse, At, Move, clockVars, lockVars
  <2>1. ThreadsOK'
    BY DEF ThreadsOK
  <2>2. RegistryOK'
    BY DEF ThreadsOK, RegistryOK
  <2>3. LocksOK'
    BY DEF ThreadsOK, LocksOK, Reading, InSession
  <2>4. DoomedOK' /\ TouchedIsRegistered'
    BY DEF ThreadsOK, DoomedOK, TouchedIsRegistered
  <2> QED
    BY <2>1, <2>2, <2>3, <2>4
<1>2. ASSUME NEW s \in Sessions, StartOpen(t, s)
      PROVE  StoreInv'
  <2> USE <1>2 DEF StartOpen, At, Move, lockVars
  <2>1. ThreadsOK'
    BY DEF ThreadsOK
  <2>2. RegistryOK'
    BY DEF ThreadsOK, RegistryOK
  <2>3. LocksOK'
    BY DEF ThreadsOK, LocksOK, Reading, InSession
  <2>4. DoomedOK' /\ TouchedIsRegistered'
    BY DEF ThreadsOK, RegistryOK, DoomedOK, TouchedIsRegistered
  <2> QED
    BY <2>1, <2>2, <2>3, <2>4
<1>3. ASSUME StartList(t)
      PROVE  StoreInv'
  <2> USE <1>3 DEF StartList, At, Move, clockVars, lockVars
  <2>1. ThreadsOK'
    BY DEF ThreadsOK
  <2>2. RegistryOK'
    BY DEF ThreadsOK, RegistryOK
  <2>3. LocksOK'
    BY DEF ThreadsOK, LocksOK, Reading, InSession
  <2>4. DoomedOK' /\ TouchedIsRegistered'
    BY DEF ThreadsOK, DoomedOK, TouchedIsRegistered
  <2> QED
    BY <2>1, <2>2, <2>3, <2>4
<1> QED
  BY <1>1, <1>2, <1>3

\* A goroutine waits for Store.mu or gets it.
LEMMA LocksKeep ==
  ASSUME StoreInv, NEW t \in Threads,
         \/ ReadLock(t)
         \/ WriteAnnounce(t)
         \/ WriteLock(t)
  PROVE  StoreInv'
<1> USE StoreAssumption DEF StoreInv, ThreadPlaces, Operations, Ages
<1>1. ASSUME ReadLock(t)
      PROVE  StoreInv'
  <2> USE <1>1 DEF ReadLock, At, Move, clockVars
  <2>1. ThreadsOK'
    BY DEF ThreadsOK
  <2>2. RegistryOK'
    BY DEF ThreadsOK, RegistryOK
  <2>3. LocksOK'
    BY DEF ThreadsOK, LocksOK, Reading, InSession
  <2>4. DoomedOK' /\ TouchedIsRegistered'
    BY DEF ThreadsOK, RegistryOK, LocksOK, DoomedOK, TouchedIsRegistered, Reading, InSession
  <2> QED
    BY <2>1, <2>2, <2>3, <2>4
<1>2. ASSUME WriteAnnounce(t)
      PROVE  StoreInv'
  <2> USE <1>2 DEF WriteAnnounce, At, Move, clockVars
  <2>1. ThreadsOK'
    BY DEF ThreadsOK
  <2>2. RegistryOK'
    BY DEF ThreadsOK, RegistryOK
  <2>3. LocksOK'
    BY DEF ThreadsOK, LocksOK, Reading, InSession
  <2>4. DoomedOK' /\ TouchedIsRegistered'
    BY DEF ThreadsOK, RegistryOK, LocksOK, DoomedOK, TouchedIsRegistered, Reading, InSession
  <2> QED
    BY <2>1, <2>2, <2>3, <2>4
<1>3. ASSUME WriteLock(t)
      PROVE  StoreInv'
  <2> USE <1>3 DEF WriteLock, At, Move, clockVars, lockVars
  <2>1. ThreadsOK'
    BY DEF ThreadsOK
  <2>2. RegistryOK'
    BY DEF ThreadsOK, RegistryOK
  <2>3. LocksOK'
    BY DEF ThreadsOK, LocksOK, Reading, InSession
  <2>4. DoomedOK' /\ TouchedIsRegistered'
    BY DEF ThreadsOK, RegistryOK, LocksOK, DoomedOK, TouchedIsRegistered, Reading, InSession
  <2> QED
    BY <2>1, <2>2, <2>3, <2>4
<1> QED
  BY <1>1, <1>2, <1>3

\* A lookup fails, or succeeds and touches the session.
LEMMA GetKeeps ==
  ASSUME StoreInv, NEW t \in Threads,
         \/ GetMissing(t)
         \/ GetFound(t)
         \/ Touch(t)
  PROVE  StoreInv'
<1> USE StoreAssumption DEF StoreInv, ThreadPlaces, Operations, Ages
<1>1. ASSUME GetMissing(t)
      PROVE  StoreInv'
  <2> USE <1>1 DEF GetMissing, At, Move, Finish, clockVars
  <2>1. ThreadsOK'
    BY DEF ThreadsOK
  <2>2. RegistryOK'
    BY DEF ThreadsOK, RegistryOK
  <2>3. LocksOK'
    BY DEF ThreadsOK, LocksOK, Reading, InSession
  <2>4. DoomedOK' /\ TouchedIsRegistered'
    BY DEF ThreadsOK, RegistryOK, LocksOK, DoomedOK, TouchedIsRegistered, Reading, InSession
  <2> QED
    BY <2>1, <2>2, <2>3, <2>4
<1>2. ASSUME GetFound(t)
      PROVE  StoreInv'
  <2> USE <1>2 DEF GetFound, At, Move, clockVars
  <2>1. ThreadsOK'
    BY DEF ThreadsOK
  <2>2. RegistryOK'
    BY DEF ThreadsOK, RegistryOK
  <2>3. LocksOK'
    BY DEF ThreadsOK, LocksOK, Reading, InSession
  <2>4. DoomedOK' /\ TouchedIsRegistered'
    BY DEF ThreadsOK, RegistryOK, LocksOK, DoomedOK, TouchedIsRegistered, Reading, InSession
  <2> QED
    BY <2>1, <2>2, <2>3, <2>4
<1>3. ASSUME Touch(t)
      PROVE  StoreInv'
  <2> USE <1>3 DEF Touch, At, Move
  <2>1. ThreadsOK'
    BY DEF ThreadsOK
  <2>2. RegistryOK'
    BY DEF ThreadsOK, RegistryOK, TouchedIsRegistered
  <2>3. LocksOK'
    BY DEF ThreadsOK, LocksOK, Reading, InSession
  <2>4. DoomedOK' /\ TouchedIsRegistered'
    BY DEF ThreadsOK, RegistryOK, LocksOK, DoomedOK, TouchedIsRegistered, Reading, InSession
  <2> QED
    BY <2>1, <2>2, <2>3, <2>4
<1> QED
  BY <1>1, <1>2, <1>3

\* A call works inside a session.
LEMMA SessionKeeps ==
  ASSUME StoreInv, NEW t \in Threads,
         \/ EnterSession(t)
         \/ LeaveSession(t)
  PROVE  StoreInv'
<1> USE StoreAssumption DEF StoreInv, ThreadPlaces, Operations, Ages
<1>1. ASSUME EnterSession(t)
      PROVE  StoreInv'
  <2> USE <1>1 DEF EnterSession, At, Move, clockVars
  <2>1. ThreadsOK'
    BY DEF ThreadsOK
  <2>2. RegistryOK'
    BY DEF ThreadsOK, RegistryOK
  <2>3. LocksOK'
    BY DEF ThreadsOK, LocksOK, Reading, InSession
  <2>4. DoomedOK' /\ TouchedIsRegistered'
    BY DEF ThreadsOK, RegistryOK, LocksOK, DoomedOK, TouchedIsRegistered, Reading, InSession
  <2> QED
    BY <2>1, <2>2, <2>3, <2>4
<1>2. ASSUME LeaveSession(t)
      PROVE  StoreInv'
  <2> USE <1>2 DEF LeaveSession, At, Move, Finish, clockVars
  <2>1. ThreadsOK'
    BY DEF ThreadsOK
  <2>2. RegistryOK'
    BY DEF ThreadsOK, RegistryOK
  <2>3. LocksOK'
    BY DEF ThreadsOK, LocksOK, Reading, InSession
  <2>4. DoomedOK' /\ TouchedIsRegistered'
    BY DEF ThreadsOK, RegistryOK, LocksOK, DoomedOK, TouchedIsRegistered, Reading, InSession
  <2> QED
    BY <2>1, <2>2, <2>3, <2>4
<1> QED
  BY <1>1, <1>2

\* A call writes the map, or tells its client of the session.
LEMMA WritersKeep ==
  ASSUME StoreInv, NEW t \in Threads,
         \/ Delete(t)
         \/ Set(t)
         \/ SendReady(t)
  PROVE  StoreInv'
<1> USE StoreAssumption DEF StoreInv, ThreadPlaces, Operations, Ages
<1>1. ASSUME Delete(t)
      PROVE  StoreInv'
  <2> USE <1>1 DEF Delete, At, Move, Finish, clockVars
  <2>1. ThreadsOK'
    BY DEF ThreadsOK
  <2>2. RegistryOK'
    BY DEF ThreadsOK, RegistryOK
  <2>3. LocksOK'
    BY DEF ThreadsOK, LocksOK, Reading, InSession
  <2>4. DoomedOK' /\ TouchedIsRegistered'
    BY DEF ThreadsOK, RegistryOK, LocksOK, DoomedOK, TouchedIsRegistered, Reading, InSession
  <2> QED
    BY <2>1, <2>2, <2>3, <2>4
<1>2. ASSUME Set(t)
      PROVE  StoreInv'
  <2> USE <1>2 DEF Set, At, Move, clockVars
  <2>1. ThreadsOK'
    BY DEF ThreadsOK
  <2>2. RegistryOK'
    BY DEF ThreadsOK, RegistryOK
  <2>3. LocksOK'
    BY DEF ThreadsOK, LocksOK, Reading, InSession
  <2>4. DoomedOK' /\ TouchedIsRegistered'
    BY DEF ThreadsOK, RegistryOK, LocksOK, DoomedOK, TouchedIsRegistered, Reading, InSession
  <2> QED
    BY <2>1, <2>2, <2>3, <2>4
<1>3. ASSUME SendReady(t)
      PROVE  StoreInv'
  <2> USE <1>3 DEF SendReady, At, Move, Finish, clockVars, lockVars
  <2>1. ThreadsOK'
    BY DEF ThreadsOK
  <2>2. RegistryOK'
    BY DEF ThreadsOK, RegistryOK
  <2>3. LocksOK'
    BY DEF ThreadsOK, LocksOK, Reading, InSession
  <2>4. DoomedOK' /\ TouchedIsRegistered'
    BY DEF ThreadsOK, RegistryOK, LocksOK, DoomedOK, TouchedIsRegistered, Reading, InSession
  <2> QED
    BY <2>1, <2>2, <2>3, <2>4
<1> QED
  BY <1>1, <1>2, <1>3

\* ListSessions takes its snapshot and sums it up.
LEMMA ListKeeps ==
  ASSUME StoreInv, NEW t \in Threads,
         \/ All(t)
         \/ \E s \in Sessions : SummaryLock(t, s)
         \/ Summary(t)
         \/ ListDone(t)
  PROVE  StoreInv'
<1> USE StoreAssumption DEF StoreInv, ThreadPlaces, Operations, Ages
<1>1. ASSUME All(t)
      PROVE  StoreInv'
  <2> USE <1>1 DEF All, At, Move, clockVars
  <2>1. ThreadsOK'
    BY DEF ThreadsOK, RegistryOK
  <2>2. RegistryOK'
    BY DEF ThreadsOK, RegistryOK
  <2>3. LocksOK'
    BY DEF ThreadsOK, LocksOK, Reading, InSession
  <2>4. DoomedOK' /\ TouchedIsRegistered'
    BY DEF ThreadsOK, RegistryOK, LocksOK, DoomedOK, TouchedIsRegistered, Reading, InSession
  <2> QED
    BY <2>1, <2>2, <2>3, <2>4
<1>2. ASSUME NEW s \in Sessions, SummaryLock(t, s)
      PROVE  StoreInv'
  <2> USE <1>2 DEF SummaryLock, At, Move, clockVars
  <2>1. ThreadsOK'
    BY DEF ThreadsOK
  <2>2. RegistryOK'
    BY DEF ThreadsOK, RegistryOK
  <2>3. LocksOK'
    BY DEF ThreadsOK, LocksOK, Reading, InSession
  <2>4. DoomedOK' /\ TouchedIsRegistered'
    BY DEF ThreadsOK, RegistryOK, LocksOK, DoomedOK, TouchedIsRegistered, Reading, InSession
  <2> QED
    BY <2>1, <2>2, <2>3, <2>4
<1>3. ASSUME Summary(t)
      PROVE  StoreInv'
  <2> USE <1>3 DEF Summary, At, Move, clockVars
  <2>1. ThreadsOK'
    BY DEF ThreadsOK
  <2>2. RegistryOK'
    BY DEF ThreadsOK, RegistryOK
  <2>3. LocksOK'
    BY DEF ThreadsOK, LocksOK, Reading, InSession
  <2>4. DoomedOK' /\ TouchedIsRegistered'
    BY DEF ThreadsOK, RegistryOK, LocksOK, DoomedOK, TouchedIsRegistered, Reading, InSession
  <2> QED
    BY <2>1, <2>2, <2>3, <2>4
<1>4. ASSUME ListDone(t)
      PROVE  StoreInv'
  <2> USE <1>4 DEF ListDone, At, Move, Finish, clockVars, lockVars
  <2>1. ThreadsOK'
    BY DEF ThreadsOK
  <2>2. RegistryOK'
    BY DEF ThreadsOK, RegistryOK
  <2>3. LocksOK'
    BY DEF ThreadsOK, LocksOK, Reading, InSession
  <2>4. DoomedOK' /\ TouchedIsRegistered'
    BY DEF ThreadsOK, RegistryOK, LocksOK, DoomedOK, TouchedIsRegistered, Reading, InSession
  <2> QED
    BY <2>1, <2>2, <2>3, <2>4
<1> QED
  BY <1>1, <1>2, <1>3, <1>4

\* The evictor sweeps.
LEMMA EvictKeeps ==
  ASSUME StoreInv,
         \/ EvictTick
         \/ EvictAnnounce
         \/ EvictScan
         \/ \E s \in Sessions : EvictDelete(s)
         \/ EvictDone
  PROVE  StoreInv'
<1> USE StoreAssumption DEF StoreInv, ThreadPlaces, Operations, Ages
<1>1. ASSUME EvictTick
      PROVE  StoreInv'
  <2> USE <1>1 DEF EvictTick, lockVars, threadVars
  <2>1. ThreadsOK'
    BY DEF ThreadsOK
  <2>2. RegistryOK'
    BY DEF ThreadsOK, RegistryOK
  <2>3. LocksOK'
    BY DEF ThreadsOK, LocksOK, Reading, InSession
  <2>4. DoomedOK' /\ TouchedIsRegistered'
    BY DEF ThreadsOK, RegistryOK, LocksOK, DoomedOK, TouchedIsRegistered, Reading, InSession
  <2> QED
    BY <2>1, <2>2, <2>3, <2>4
<1>2. ASSUME EvictAnnounce
      PROVE  StoreInv'
  <2> USE <1>2 DEF EvictAnnounce, clockVars, threadVars
  <2>1. ThreadsOK'
    BY DEF ThreadsOK
  <2>2. RegistryOK'
    BY DEF ThreadsOK, RegistryOK
  <2>3. LocksOK'
    BY DEF ThreadsOK, LocksOK, Reading, InSession
  <2>4. DoomedOK' /\ TouchedIsRegistered'
    BY DEF ThreadsOK, RegistryOK, LocksOK, DoomedOK, TouchedIsRegistered, Reading, InSession
  <2> QED
    BY <2>1, <2>2, <2>3, <2>4
<1>3. ASSUME EvictScan
      PROVE  StoreInv'
  <2> USE <1>3 DEF EvictScan, clockVars, lockVars, threadVars
  <2>1. ThreadsOK'
    BY DEF ThreadsOK
  <2>2. RegistryOK'
    BY DEF ThreadsOK, RegistryOK
  <2>3. LocksOK'
    BY DEF ThreadsOK, LocksOK, Reading, InSession
  <2>4. DoomedOK' /\ TouchedIsRegistered'
    BY DEF ThreadsOK, RegistryOK, LocksOK, DoomedOK, TouchedIsRegistered, Reading, InSession
  <2> QED
    BY <2>1, <2>2, <2>3, <2>4
<1>4. ASSUME NEW s \in Sessions, EvictDelete(s)
      PROVE  StoreInv'
  <2> USE <1>4 DEF EvictDelete, clockVars, lockVars, threadVars
  <2>1. ThreadsOK'
    BY DEF ThreadsOK
  <2>2. RegistryOK'
    BY DEF ThreadsOK, RegistryOK
  <2>3. LocksOK'
    BY DEF ThreadsOK, LocksOK, Reading, InSession
  <2>4. DoomedOK' /\ TouchedIsRegistered'
    BY DEF ThreadsOK, RegistryOK, LocksOK, DoomedOK, TouchedIsRegistered, Reading, InSession
  <2> QED
    BY <2>1, <2>2, <2>3, <2>4
<1>5. ASSUME EvictDone
      PROVE  StoreInv'
  <2> USE <1>5 DEF EvictDone, clockVars, threadVars
  <2>1. ThreadsOK'
    BY DEF ThreadsOK
  <2>2. RegistryOK'
    BY DEF ThreadsOK, RegistryOK
  <2>3. LocksOK'
    BY DEF ThreadsOK, LocksOK, Reading, InSession
  <2>4. DoomedOK' /\ TouchedIsRegistered'
    BY DEF ThreadsOK, RegistryOK, LocksOK, DoomedOK, TouchedIsRegistered, Reading, InSession
  <2> QED
    BY <2>1, <2>2, <2>3, <2>4
<1> QED
  BY <1>1, <1>2, <1>3, <1>4, <1>5

\* Time passes, or nothing happens to the store.
LEMMA ClockKeeps ==
  ASSUME StoreInv,
         \/ ClockTick
         \/ UNCHANGED storeVars
  PROVE  StoreInv'
<1> USE StoreAssumption DEF StoreInv, ThreadPlaces, Operations, Ages
<1>1. ASSUME ClockTick
      PROVE  StoreInv'
  <2> USE <1>1 DEF ClockTick, lockVars, threadVars
  <2>1. ThreadsOK'
    BY DEF ThreadsOK
  <2>2. RegistryOK'
    <3>1. age' \in [Sessions -> Ages]
      BY DEF RegistryOK
    <3>2. left' \in 1..Interval
      BY DEF RegistryOK
    <3>3. fired' \in BOOLEAN
      <4>1. fired' = TRUE \/ fired' = fired
        BY Zenon
      <4> QED
        BY <4>1 DEF RegistryOK
    <3> QED
      BY <3>1, <3>2, <3>3 DEF RegistryOK
  <2>3. LocksOK'
    BY DEF ThreadsOK, LocksOK, Reading, InSession
  <2>4. DoomedOK' /\ TouchedIsRegistered'
    BY DEF ThreadsOK, RegistryOK, LocksOK, DoomedOK, TouchedIsRegistered, Reading, InSession
  <2> QED
    BY <2>1, <2>2, <2>3, <2>4
<1>2. ASSUME UNCHANGED storeVars
      PROVE  StoreInv'
  <2> USE <1>2 DEF storeVars, clockVars, lockVars, threadVars
  <2>1. ThreadsOK'
    BY DEF ThreadsOK
  <2>2. RegistryOK'
    BY DEF ThreadsOK, RegistryOK
  <2>3. LocksOK'
    BY DEF ThreadsOK, LocksOK, Reading, InSession
  <2>4. DoomedOK' /\ TouchedIsRegistered'
    BY DEF ThreadsOK, RegistryOK, LocksOK, DoomedOK, TouchedIsRegistered, Reading, InSession
  <2> QED
    BY <2>1, <2>2, <2>3, <2>4
<1> QED
  BY <1>1, <1>2

\* Every step keeps the invariant.
LEMMA StoreStepKeeps == StoreInv /\ [StoreNext]_storeVars => StoreInv'
<1> SUFFICES ASSUME StoreInv, [StoreNext]_storeVars
             PROVE  StoreInv'
  OBVIOUS
<1>1. ASSUME NEW t \in Threads, Thread(t)
      PROVE  StoreInv'
  BY <1>1, LocksKeep, GetKeeps, SessionKeeps, WritersKeep, ListKeeps DEF Thread
<1>2. ASSUME NEW t \in Threads,
             \/ \E s \in Sessions : StartOpen(t, s)
             \/ \E o \in {"Use", "Close"}, s \in Sessions : StartUse(t, o, s)
             \/ StartList(t)
      PROVE  StoreInv'
  BY <1>2, StartKeeps
<1>3. CASE Evict
  BY <1>3, EvictKeeps DEF Evict
<1>4. CASE ClockTick \/ UNCHANGED storeVars
  BY <1>4, ClockKeeps
<1> QED
  BY <1>1, <1>2, <1>3, <1>4 DEF StoreNext

\* The invariant holds in every state of every run of the store.
THEOREM StoreInvariant == StoreSpec => []StoreInv
<1>1. StoreInit => StoreInv
  BY StoreInitInv
<1>2. StoreInv /\ [StoreNext]_storeVars => StoreInv'
  BY StoreStepKeeps
<1> QED
  BY <1>1, <1>2, PTL DEF StoreSpec

\* The registry, its locks and its calls keep their shape.
THEOREM StoreTypeCorrect == StoreSpec => []StoreTypeOK
<1>1. StoreInv => StoreTypeOK
  BY DEF StoreInv, ThreadsOK, RegistryOK, LocksOK, StoreTypeOK
<1> QED
  BY <1>1, StoreInvariant, PTL

\* However many goroutines there are, the session map and a session's fields are
\* never written while another goroutine reads or writes them.
THEOREM StoreHasNoRace == StoreSpec => []NoStoreRace
<1>1. StoreInv => NoStoreRace
  <2> SUFFICES ASSUME StoreInv
               PROVE  NoStoreRace
    OBVIOUS
  <2> USE StoreAssumption DEF StoreInv
  <2>1. sweep = "sweeping" => \A t \in Threads : ~Reading(t) /\ pc[t] # "writing"
    BY DEF LocksOK, ThreadsOK
  <2>2. \A t, u \in Threads : t # u /\ pc[t] = "writing" => ~Reading(u) /\ pc[u] # "writing"
    BY DEF LocksOK, ThreadsOK
  <2>3. \A t, u \in Threads, s \in Sessions : InSession(t, s) /\ InSession(u, s) => t = u
    BY DEF LocksOK
  <2> QED
    BY <2>1, <2>2, <2>3 DEF NoStoreRace
<1> QED
  BY <1>1, StoreInvariant, PTL

\* A session that Get touches is registered when it is touched.
THEOREM TouchesAreSafe == StoreSpec => []TouchedIsRegistered
<1>1. StoreInv => TouchedIsRegistered
  BY DEF StoreInv
<1> QED
  BY <1>1, StoreInvariant, PTL

\* A session leaves the registry only when it is closed or has been idle for too
\* long at that very moment: only the last step of a sweep and CloseSession's write
\* shrink the map.
THEOREM EvictionIsJust == StoreSpec => EvictedWasIdle
<1> DEFINE Just == \A s \in sessions \ sessions' :
                     \/ age[s] > TTL
                     \/ \E t \in Threads : pc[t] = "writing" /\ op[t] = "Close" /\ target[t] = s
<1>1. StoreInv /\ [StoreNext]_storeVars => [Just]_storeVars
  <2> SUFFICES ASSUME StoreInv, StoreNext, NEW s \in sessions \ sessions'
               PROVE  \/ age[s] > TTL
                      \/ \E t \in Threads : pc[t] = "writing" /\ op[t] = "Close" /\ target[t] = s
    BY DEF storeVars
  <2>1. CASE \E x \in Sessions : EvictDelete(x)
    BY <2>1 DEF EvictDelete, StoreInv, DoomedOK
  <2>2. ASSUME NEW t \in Threads, Thread(t)
        PROVE  pc[t] = "writing" /\ op[t] = "Close" /\ target[t] = s
    BY <2>2 DEF Thread, ReadLock, WriteAnnounce, WriteLock, GetMissing, GetFound, Touch,
                EnterSession, LeaveSession, Delete, Set, SendReady, All, SummaryLock,
                Summary, ListDone, At
  <2>3. ASSUME NEW t \in Threads,
               \/ \E x \in Sessions : StartOpen(t, x)
               \/ \E o \in {"Use", "Close"}, x \in Sessions : StartUse(t, o, x)
               \/ StartList(t)
        PROVE  FALSE
    BY <2>3 DEF StartOpen, StartUse, StartList
  <2>4. CASE EvictTick \/ EvictAnnounce \/ EvictScan \/ EvictDone \/ ClockTick
    BY <2>4 DEF EvictTick, EvictAnnounce, EvictScan, EvictDone, ClockTick
  <2> QED
    BY <2>1, <2>2, <2>3, <2>4 DEF StoreNext, Evict
<1> QED
  BY <1>1, StoreInvariant, PTL DEF StoreSpec, EvictedWasIdle

--------------------------------------------------------------------------------
(* The registry without locks *)

\* Operation o is at one of its places p, a call that has ended is about nothing, and a
\* summary is made of a session the list has still to report.
CallOK(p, o, s, d) ==
    /\ p = "idle" <=> o = None
    /\ p = "idle" => s = None
    /\ o = "Use" => p \in {"wantRead", "reading", "touching", "wantSession", "inside"}
    /\ o = "Close" => p \in {"wantRead", "reading", "touching", "wantWrite", "announced", "writing"}
    /\ o = "Open" => p \in {"wantWrite", "announced", "writing", "ready"}
    /\ o = "List" => p \in {"wantRead", "reading", "listing", "summing"}
    /\ p = "summing" => s \in d

CallsOK == \A t \in Threads : CallOK(pc[t], op[t], target[t], todo[t])

\* The step of one thread leaves the others' calls where they were.
OnlyMoves(t) ==
    /\ pc' = [pc EXCEPT ![t] = pc'[t]]
    /\ op' = [op EXCEPT ![t] = op'[t]]
    /\ target' = [target EXCEPT ![t] = target'[t]]
    /\ todo' = [todo EXCEPT ![t] = todo'[t]]

LEMMA StepsMoveOne ==
  ASSUME ThreadsOK, NEW t \in Threads,
         \/ Thread(t)
         \/ \E s \in Sessions : StartOpen(t, s)
         \/ \E o \in {"Use", "Close"}, s \in Sessions : StartUse(t, o, s)
         \/ StartList(t)
  PROVE  OnlyMoves(t)
<1> USE DEF ThreadsOK, OnlyMoves, Move, Finish
<1>1. CASE \/ \E s \in Sessions : StartOpen(t, s)
           \/ \E o \in {"Use", "Close"}, s \in Sessions : StartUse(t, o, s)
           \/ StartList(t)
  BY <1>1 DEF StartOpen, StartUse, StartList
<1>2. CASE ReadLock(t) \/ WriteAnnounce(t) \/ WriteLock(t)
  BY <1>2 DEF ReadLock, WriteAnnounce, WriteLock
<1>3. CASE GetMissing(t) \/ GetFound(t) \/ Touch(t)
  BY <1>3 DEF GetMissing, GetFound, Touch
<1>4. CASE EnterSession(t) \/ LeaveSession(t) \/ Delete(t) \/ Set(t) \/ SendReady(t)
  BY <1>4 DEF EnterSession, LeaveSession, Delete, Set, SendReady
<1>5. CASE All(t) \/ (\E s \in Sessions : SummaryLock(t, s)) \/ Summary(t) \/ ListDone(t)
  BY <1>5 DEF All, SummaryLock, Summary, ListDone
<1> QED
  BY <1>1, <1>2, <1>3, <1>4, <1>5 DEF Thread

\* So the mapped call of every other thread is what it was.
LEMMA MapsMoveOne ==
  ASSUME ThreadsOK, NEW t \in Threads, OnlyMoves(t)
  PROVE  /\ Stages' = [Stages EXCEPT ![t] = Stages'[t]]
         /\ Subjects' = [Subjects EXCEPT ![t] = Subjects'[t]]
         /\ Unlisted' = [Unlisted EXCEPT ![t] = Unlisted'[t]]
<1>1. \A u \in Threads \ {t} : /\ pc'[u] = pc[u] /\ op'[u] = op[u]
                               /\ target'[u] = target[u] /\ todo'[u] = todo[u]
  BY DEF OnlyMoves, ThreadsOK
<1>2. \A u \in Threads \ {t} : Stages'[u] = Stages[u]
  BY <1>1 DEF Stages, Stage
<1>3. \A u \in Threads \ {t} : Subjects'[u] = Subjects[u] /\ Unlisted'[u] = Unlisted[u]
  BY <1>1 DEF Subjects, Unlisted
<1>4. Stages' = [Stages EXCEPT ![t] = Stages'[t]]
  BY <1>2 DEF Stages
<1>5. Subjects' = [Subjects EXCEPT ![t] = Subjects'[t]]
  BY <1>3 DEF Subjects
<1>6. Unlisted' = [Unlisted EXCEPT ![t] = Unlisted'[t]]
  BY <1>3 DEF Unlisted
<1> QED
  BY <1>4, <1>5, <1>6

\* Every step leaves each operation at one of its places.
LEMMA CallsStepKeeps ==
  ASSUME ThreadsOK, CallsOK, [StoreNext]_storeVars
  PROVE  CallsOK'
<1>1. ASSUME NEW t \in Threads, OnlyMoves(t), CallOK(pc'[t], op'[t], target'[t], todo'[t])
      PROVE  CallsOK'
  <2>1. \A u \in Threads \ {t} : /\ pc'[u] = pc[u] /\ op'[u] = op[u]
                                 /\ target'[u] = target[u] /\ todo'[u] = todo[u]
    BY <1>1 DEF OnlyMoves, ThreadsOK
  <2> QED
    BY <1>1, <2>1 DEF CallsOK
<1>2. ASSUME NEW t \in Threads,
             \/ \E s \in Sessions : StartOpen(t, s)
             \/ \E o \in {"Use", "Close"}, s \in Sessions : StartUse(t, o, s)
             \/ StartList(t)
      PROVE  CallsOK'
  <2>1. /\ op'[t] \in Operations
        /\ op'[t] \in {"Use", "Close", "List"} => pc'[t] = "wantRead"
        /\ op'[t] = "Open" => pc'[t] = "wantWrite"
    BY <1>2 DEF StartOpen, StartUse, StartList, ThreadsOK, Move, Operations
  <2>2. CallOK(pc'[t], op'[t], target'[t], todo'[t])
    BY <2>1, StoreAssumption DEF CallOK, Operations
  <2> QED
    BY <1>1, <1>2, <2>2, StepsMoveOne
<1>3. ASSUME NEW t \in Threads, Thread(t)
      PROVE  CallsOK'
  <2> DEFINE Kept == CallOK(pc'[t], op'[t], target'[t], todo'[t])
  <2>1. CallOK(pc[t], op[t], target[t], todo[t])
    BY DEF CallsOK
  <2> USE <2>1, StoreAssumption DEF CallOK, ThreadsOK, At, Move, Finish, Operations
  <2>2. ASSUME ReadLock(t) \/ WriteAnnounce(t) \/ WriteLock(t)
        PROVE  Kept
    BY <2>2 DEF ReadLock, WriteAnnounce, WriteLock
  <2>3. ASSUME GetMissing(t) \/ GetFound(t) \/ Touch(t)
        PROVE  Kept
    BY <2>3 DEF GetMissing, GetFound, Touch
  <2>4. ASSUME EnterSession(t) \/ LeaveSession(t) \/ Delete(t) \/ Set(t) \/ SendReady(t)
        PROVE  Kept
    BY <2>4 DEF EnterSession, LeaveSession, Delete, Set, SendReady
  <2>5. ASSUME All(t) \/ (\E s \in Sessions : SummaryLock(t, s)) \/ Summary(t) \/ ListDone(t)
        PROVE  Kept
    BY <2>5 DEF All, SummaryLock, Summary, ListDone
  <2> QED
    <3>1. Kept
      BY <1>3, <2>2, <2>3, <2>4, <2>5 DEF Thread
    <3> QED
      BY <1>1, <1>3, <3>1, StepsMoveOne
<1>4. CASE Evict \/ ClockTick \/ UNCHANGED storeVars
  <2>1. UNCHANGED threadVars
    BY <1>4 DEF Evict, EvictTick, EvictAnnounce, EvictScan, EvictDelete, EvictDone, ClockTick, storeVars
  <2> QED
    BY <2>1 DEF threadVars, CallsOK
<1> QED
  BY <1>2, <1>3, <1>4 DEF StoreNext

\* In the registry's terms: the call moves from one stage to the next, takes another
\* subject or keeps what it has.
LEMMA MapsStep ==
  ASSUME ThreadsOK, NEW t \in Threads, OnlyMoves(t)
  PROVE  /\ Abstract!Step(t, Stages[t], Stages'[t])
         /\ Abstract!Take(t, Subjects'[t])
         /\ Stages'[t] = Stages[t] => UNCHANGED Stages
         /\ Subjects'[t] = Subjects[t] => UNCHANGED Subjects
         /\ Unlisted'[t] = Unlisted[t] => UNCHANGED Unlisted
<1>1. Stages' = [Stages EXCEPT ![t] = Stages'[t]]
  BY MapsMoveOne
<1>2. Subjects' = [Subjects EXCEPT ![t] = Subjects'[t]]
  BY MapsMoveOne
<1>3. Unlisted' = [Unlisted EXCEPT ![t] = Unlisted'[t]]
  BY MapsMoveOne
<1>4. Stages'[t] = Stages[t] => Stages' = Stages
  BY <1>1 DEF Stages
<1>5. Subjects'[t] = Subjects[t] => Subjects' = Subjects
  BY <1>2 DEF Subjects
<1>6. Unlisted'[t] = Unlisted[t] => Unlisted' = Unlisted
  BY <1>3 DEF Unlisted
<1> QED
  BY <1>1, <1>2, <1>4, <1>5, <1>6 DEF Abstract!Step, Abstract!Take

\* A call that is inside a session holds its mutex.
LEMMA MutexExcludes ==
  ASSUME StoreInv, CallsOK, NEW s \in Sessions,
         mu[s] = None \/ \E t \in Threads : mu[s] = t /\ pc[t] # "inside"
  PROVE  Abstract!Unoccupied(s)
<1> SUFFICES ASSUME NEW u \in Threads, Stages[u] = "inside", Subjects[u] = s
             PROVE  FALSE
  BY DEF Abstract!Unoccupied
<1>1. pc[u] = "inside" /\ op[u] = "Use"
  BY DEF Stages, Stage
<1>2. target[u] = s
  BY <1>1 DEF Subjects
<1>3. mu[s] = u
  BY <1>1, <1>2 DEF StoreInv, LocksOK, InSession
<1> QED
  BY <1>1, <1>3, StoreAssumption

Unseen == UNCHANGED << sessions, born, known, age, Stages, Subjects, Unlisted >>

\* Waiting for the registry's lock and getting it does not show, nor does taking the
\* mutex of the session that a lookup or a summary is about.
LEMMA LockingUnseen ==
  ASSUME StoreInv, CallsOK, NEW t \in Threads,
         \/ ReadLock(t) \/ WriteAnnounce(t) \/ WriteLock(t) \/ GetFound(t)
         \/ \E s \in Sessions : SummaryLock(t, s)
  PROVE  Unseen
<1> USE DEF StoreInv
<1>1. OnlyMoves(t)
  BY StepsMoveOne DEF Thread
<1>2. UNCHANGED << sessions, born, known, age >>
  BY DEF ReadLock, WriteAnnounce, WriteLock, GetFound, SummaryLock, clockVars
<1>3. CallOK(pc[t], op[t], target[t], todo[t])
  BY DEF CallsOK
<1>4. Stages'[t] = Stages[t] /\ Subjects'[t] = Subjects[t] /\ Unlisted'[t] = Unlisted[t]
  <2> USE <1>3, StoreAssumption DEF Stages, Stage, Subjects, Unlisted, CallOK, ThreadsOK, At, Move,
                   Operations
  <2>1. CASE ReadLock(t)
    BY <2>1 DEF ReadLock
  <2>2. CASE WriteAnnounce(t)
    BY <2>2 DEF WriteAnnounce
  <2>3. CASE WriteLock(t)
    BY <2>3 DEF WriteLock
  <2>4. CASE GetFound(t)
    BY <2>4 DEF GetFound
  <2>5. ASSUME NEW s \in Sessions, SummaryLock(t, s)
        PROVE  Stages'[t] = Stages[t] /\ Subjects'[t] = Subjects[t] /\ Unlisted'[t] = Unlisted[t]
    BY <2>5 DEF SummaryLock
  <2> QED
    BY <2>1, <2>2, <2>3, <2>4, <2>5
<1>5. UNCHANGED << Stages, Subjects, Unlisted >>
  BY <1>1, <1>4, MapsStep
<1> QED
  BY <1>2, <1>5 DEF Unseen

\* A call arrives, as a question about a session the client knows of, a list, or the
\* end of an Open call.
LEMMA ArrivalsImplement ==
  ASSUME StoreInv, CallsOK, NEW t \in Threads,
         \/ \E s \in Sessions : StartOpen(t, s)
         \/ \E o \in {"Use", "Close"}, s \in Sessions : StartUse(t, o, s)
         \/ StartList(t)
  PROVE  Abstract!RegistryNext
<1> USE DEF StoreInv
<1>1. OnlyMoves(t)
  BY StepsMoveOne
<1>2. CallOK(pc[t], op[t], target[t], todo[t])
  BY DEF CallsOK
<1>3. pc[t] = "idle" /\ Stages[t] = "free" /\ Subjects[t] = None /\ Unlisted[t] = {}
  BY <1>2, StoreAssumption
     DEF StartOpen, StartUse, StartList, At, CallOK, Stages, Stage, Subjects, Unlisted, Operations
<1>4. ASSUME NEW o \in {"Use", "Close"}, NEW s \in Sessions, StartUse(t, o, s)
      PROVE  Abstract!Ask(t, s)
  <2>1. /\ Stages'[t] \in {"using", "closing"}
        /\ Subjects'[t] = s
        /\ Unlisted'[t] = {}
    BY <1>4 DEF StartUse, Stages, Stage, Subjects, Unlisted, ThreadsOK, Move
  <2>2. UNCHANGED << sessions, born, known, age >> /\ s \in known
    BY <1>4 DEF StartUse, clockVars
  <2> QED
    BY <1>1, <1>3, <2>1, <2>2, MapsStep DEF Abstract!Ask
<1>5. ASSUME NEW s \in Sessions, StartOpen(t, s)
      PROVE  Abstract!Create(t, s)
  <2>1. Stages'[t] = "opening" /\ Subjects'[t] = s /\ Unlisted'[t] = {}
    BY <1>5 DEF StartOpen, Stages, Stage, Subjects, Unlisted, ThreadsOK, Move
  <2> QED
    BY <1>1, <1>3, <1>5, <2>1, MapsStep DEF Abstract!Create, StartOpen
<1>6. ASSUME StartList(t)
      PROVE  Abstract!AskList(t)
  <2>1. Stages'[t] = "asking" /\ Subjects'[t] = None /\ Unlisted'[t] = {}
    BY <1>6 DEF StartList, Stages, Stage, Subjects, Unlisted, ThreadsOK, Move
  <2> QED
    BY <1>1, <1>3, <1>6, <2>1, MapsStep DEF Abstract!AskList, StartList, clockVars
<1> QED
  BY <1>4, <1>5, <1>6 DEF Abstract!RegistryNext

\* A lookup misses the session, or finds it and touches it, at the moment of the step.
LEMMA LookupsImplement ==
  ASSUME StoreInv, CallsOK, NEW t \in Threads, GetMissing(t) \/ Touch(t)
  PROVE  Abstract!NotFound(t) \/ Abstract!Find(t)
<1> USE DEF StoreInv
<1>1. OnlyMoves(t)
  BY StepsMoveOne DEF Thread
<1>2. CallOK(pc[t], op[t], target[t], todo[t])
  BY DEF CallsOK
<1>3. ASSUME GetMissing(t)
      PROVE  Abstract!NotFound(t)
  <2>1. /\ Stages[t] \in {"using", "closing"} /\ Stages'[t] = "free"
        /\ Subjects[t] = target[t] /\ Subjects'[t] = None
        /\ Unlisted'[t] = Unlisted[t]
    BY <1>2, <1>3, StoreAssumption
       DEF GetMissing, Stages, Stage, Subjects, Unlisted, ThreadsOK, At, Finish, Move, Operations
  <2>2. target[t] \notin sessions /\ UNCHANGED << sessions, born, known, age >>
    BY <1>3 DEF GetMissing, clockVars
  <2> QED
    BY <1>1, <2>1, <2>2, MapsStep DEF Abstract!NotFound, Abstract!Ends
<1>4. ASSUME Touch(t)
      PROVE  Abstract!Find(t)
  <2>1. /\ \/ Stages[t] = "using" /\ Stages'[t] = "found"
           \/ Stages[t] = "closing" /\ Stages'[t] = "removing"
        /\ Subjects[t] = target[t] /\ Subjects'[t] = Subjects[t]
        /\ Unlisted'[t] = Unlisted[t]
    BY <1>2, <1>4, StoreAssumption
       DEF Touch, Stages, Stage, Subjects, Unlisted, CallOK, ThreadsOK, At, Move, Operations
  <2>2. target[t] \in sessions /\ target[t] \in Sessions /\ mu[target[t]] = t /\ pc[t] # "inside"
    BY <1>4 DEF Touch, At, TouchedIsRegistered, ThreadsOK, LocksOK, InSession
  <2>3. Abstract!Unoccupied(target[t])
    BY <2>2, MutexExcludes
  <2>4. age' = [age EXCEPT ![target[t]] = 0] /\ UNCHANGED << sessions, born, known >>
    BY <1>4 DEF Touch
  <2> QED
    BY <1>1, <2>1, <2>2, <2>3, <2>4, MapsStep DEF Abstract!Find
<1> QED
  BY <1>3, <1>4

\* A call enters the session it has found, and leaves it.
LEMMA SessionsImplement ==
  ASSUME StoreInv, CallsOK, NEW t \in Threads, EnterSession(t) \/ LeaveSession(t)
  PROVE  Abstract!Enter(t) \/ Abstract!Leave(t)
<1> USE DEF StoreInv
<1>1. OnlyMoves(t)
  BY StepsMoveOne DEF Thread
<1>2. CallOK(pc[t], op[t], target[t], todo[t])
  BY DEF CallsOK
<1>3. ASSUME EnterSession(t)
      PROVE  Abstract!Enter(t)
  <2>1. /\ Stages[t] = "found" /\ Stages'[t] = "inside"
        /\ Subjects[t] = target[t] /\ Subjects'[t] = Subjects[t]
        /\ Unlisted'[t] = Unlisted[t]
    BY <1>2, <1>3, StoreAssumption
       DEF EnterSession, Stages, Stage, Subjects, Unlisted, CallOK, ThreadsOK, At, Move, Operations
  <2>2. target[t] \in Sessions /\ mu[target[t]] = None
    BY <1>3 DEF EnterSession, At, ThreadsOK
  <2>3. Abstract!Unoccupied(target[t])
    BY <2>2, MutexExcludes
  <2>4. UNCHANGED << sessions, born, known, age >>
    BY <1>3 DEF EnterSession, clockVars
  <2> QED
    BY <1>1, <2>1, <2>3, <2>4, MapsStep DEF Abstract!Enter
<1>4. ASSUME LeaveSession(t)
      PROVE  Abstract!Leave(t)
  <2>1. /\ Stages[t] = "inside" /\ Stages'[t] = "free"
        /\ Subjects'[t] = None
        /\ Unlisted'[t] = Unlisted[t]
    BY <1>2, <1>4, StoreAssumption
       DEF LeaveSession, Stages, Stage, Subjects, Unlisted, CallOK, ThreadsOK, At, Move, Finish,
           Operations
  <2>2. UNCHANGED << sessions, born, known, age >>
    BY <1>4 DEF LeaveSession, clockVars
  <2> QED
    BY <1>1, <2>1, <2>2, MapsStep DEF Abstract!Leave, Abstract!Ends
<1> QED
  BY <1>3, <1>4

\* The write lock's owner removes a session or registers it; its client is then told.
LEMMA WritersImplement ==
  ASSUME StoreInv, CallsOK, NEW t \in Threads, Delete(t) \/ Set(t) \/ SendReady(t)
  PROVE  Abstract!Remove(t) \/ Abstract!Register(t) \/ Abstract!Announce(t)
<1> USE DEF StoreInv
<1>1. OnlyMoves(t)
  BY StepsMoveOne DEF Thread
<1>2. CallOK(pc[t], op[t], target[t], todo[t])
  BY DEF CallsOK
<1>3. ASSUME Delete(t)
      PROVE  Abstract!Remove(t)
  <2>1. /\ Stages[t] = "removing" /\ Stages'[t] = "free"
        /\ Subjects[t] = target[t] /\ Subjects'[t] = None
        /\ Unlisted'[t] = Unlisted[t]
    BY <1>2, <1>3, StoreAssumption
       DEF Delete, Stages, Stage, Subjects, Unlisted, ThreadsOK, At, Move, Finish, Operations
  <2>2. sessions' = sessions \ {target[t]} /\ UNCHANGED << born, known, age >>
    BY <1>3 DEF Delete, clockVars
  <2> QED
    BY <1>1, <2>1, <2>2, MapsStep DEF Abstract!Remove, Abstract!Ends
<1>4. ASSUME Set(t)
      PROVE  Abstract!Register(t)
  <2>1. /\ Stages[t] = "opening" /\ Stages'[t] = "registered"
        /\ Subjects[t] = target[t] /\ Subjects'[t] = Subjects[t]
        /\ Unlisted'[t] = Unlisted[t]
    BY <1>2, <1>4, StoreAssumption
       DEF Set, Stages, Stage, Subjects, Unlisted, ThreadsOK, At, Move, Operations
  <2>2. sessions' = sessions \cup {target[t]} /\ UNCHANGED << born, known, age >>
    BY <1>4 DEF Set, clockVars
  <2> QED
    BY <1>1, <2>1, <2>2, MapsStep DEF Abstract!Register
<1>5. ASSUME SendReady(t)
      PROVE  Abstract!Announce(t)
  <2>1. /\ Stages[t] = "registered" /\ Stages'[t] = "free"
        /\ Subjects[t] = target[t] /\ Subjects'[t] = None
        /\ Unlisted'[t] = Unlisted[t]
    BY <1>2, <1>5, StoreAssumption
       DEF SendReady, Stages, Stage, Subjects, Unlisted, CallOK, ThreadsOK, At, Move, Finish,
           Operations
  <2>2. known' \in {known, known \cup {target[t]}} /\ UNCHANGED << sessions, born, age >>
    BY <1>5 DEF SendReady, clockVars
  <2> QED
    BY <1>1, <2>1, <2>2, MapsStep DEF Abstract!Announce, Abstract!Ends
<1> QED
  BY <1>3, <1>4, <1>5

\* ListSessions takes its snapshot, reports on one session after the other, and ends.
LEMMA ListsImplement ==
  ASSUME StoreInv, CallsOK, NEW t \in Threads, All(t) \/ Summary(t) \/ ListDone(t)
  PROVE  \/ Abstract!Collect(t) \/ Abstract!Reported(t)
         \/ \E s \in Sessions : Abstract!Report(t, s)
<1> USE DEF StoreInv
<1>1. OnlyMoves(t)
  BY StepsMoveOne DEF Thread
<1>2. CallOK(pc[t], op[t], target[t], todo[t])
  BY DEF CallsOK
<1>3. ASSUME All(t)
      PROVE  Abstract!Collect(t)
  <2>1. /\ Stages[t] = "asking" /\ Stages'[t] = "listing"
        /\ Subjects'[t] = Subjects[t]
        /\ Unlisted'[t] = sessions
    BY <1>2, <1>3, StoreAssumption
       DEF All, Stages, Stage, Subjects, Unlisted, ThreadsOK, At, Move, Operations
  <2>2. UNCHANGED << sessions, born, known, age >>
    BY <1>3 DEF All, clockVars
  <2>3. Unlisted' = [Unlisted EXCEPT ![t] = sessions]
    BY <1>1, <2>1, MapsMoveOne
  <2> QED
    BY <1>1, <2>1, <2>2, <2>3, MapsStep DEF Abstract!Collect
<1>4. ASSUME Summary(t)
      PROVE  Abstract!Report(t, target[t]) /\ target[t] \in Sessions
  <2>1. /\ Stages[t] = "listing" /\ Stages'[t] = Stages[t]
        /\ Subjects'[t] = Subjects[t]
        /\ Unlisted[t] = todo[t] /\ Unlisted'[t] = Unlisted[t] \ {target[t]}
    BY <1>2, <1>4, StoreAssumption
       DEF Summary, Stages, Stage, Subjects, Unlisted, CallOK, ThreadsOK, At, Move, Operations
  <2>2. target[t] \in Sessions /\ mu[target[t]] = t /\ pc[t] # "inside"
    BY <1>4 DEF Summary, At, ThreadsOK, LocksOK, InSession
  <2>3. Abstract!Unoccupied(target[t])
    BY <2>2, MutexExcludes
  <2>4. known' = known \cup {target[t]} /\ UNCHANGED << sessions, born, age >>
    BY <1>4 DEF Summary, clockVars
  <2>5. Unlisted' = [Unlisted EXCEPT ![t] = @ \ {target[t]}]
    BY <1>1, <2>1, MapsMoveOne
  <2>6. target[t] \in Unlisted[t]
    BY <1>2, <1>4, <2>1 DEF Summary, At, CallOK
  <2> QED
    BY <1>1, <2>1, <2>2, <2>3, <2>4, <2>5, <2>6, MapsStep DEF Abstract!Report
<1>5. ASSUME ListDone(t)
      PROVE  Abstract!Reported(t)
  <2>1. /\ Stages[t] = "listing" /\ Stages'[t] = "free"
        /\ Subjects'[t] = Subjects[t]
        /\ Unlisted[t] = {} /\ Unlisted'[t] = {}
    BY <1>2, <1>5, StoreAssumption
       DEF ListDone, Stages, Stage, Subjects, Unlisted, CallOK, ThreadsOK, At, Move, Finish,
           Operations
  <2>2. UNCHANGED << sessions, born, known, age >>
    BY <1>5 DEF ListDone, clockVars
  <2> QED
    BY <1>1, <2>1, <2>2, MapsStep DEF Abstract!Reported
<1> QED
  BY <1>3, <1>4, <1>5

\* The sweep removes one idle session at a time; the rest of it does not show.
LEMMA EvictionsImplement ==
  ASSUME StoreInv, Evict \/ ClockTick \/ UNCHANGED storeVars
  PROVE  (\E s \in Sessions : Abstract!Evict(s)) \/ Abstract!Tick \/ Unseen
<1>1. UNCHANGED << Stages, Subjects, Unlisted >>
  <2>1. UNCHANGED threadVars
    BY DEF Evict, EvictTick, EvictAnnounce, EvictScan, EvictDelete, EvictDone, ClockTick, storeVars
  <2> QED
    BY <2>1 DEF threadVars, Stages, Stage, Subjects, Unlisted
<1>2. CASE EvictTick \/ EvictAnnounce \/ EvictScan \/ EvictDone \/ UNCHANGED storeVars
  BY <1>1, <1>2 DEF EvictTick, EvictAnnounce, EvictScan, EvictDone, storeVars, clockVars, Unseen
<1>3. ASSUME NEW s \in Sessions, EvictDelete(s)
      PROVE  Abstract!Evict(s)
  <2>1. s \in sessions /\ age[s] > TTL
    BY <1>3 DEF EvictDelete, StoreInv, DoomedOK
  <2>2. sessions' = sessions \ {s} /\ UNCHANGED << born, known, age >>
    BY <1>3 DEF EvictDelete, clockVars
  <2> QED
    BY <1>1, <2>1, <2>2 DEF Abstract!Evict, Abstract!calls
<1>4. CASE ClockTick
  BY <1>1, <1>4 DEF ClockTick, Abstract!Tick, Abstract!calls
<1> QED
  BY <1>2, <1>3, <1>4 DEF Evict

\* The locked registry implements the one without locks: each step is one operation of
\* it, or one that no client could tell from nothing.
THEOREM StoreImplementsRegistry == StoreSpec => StoreIsRegistry
<1>1. StoreInit => CallsOK /\ Abstract!RegistryInit
  <2> SUFFICES ASSUME StoreInit
               PROVE  CallsOK /\ Abstract!RegistryInit
    OBVIOUS
  <2>1. CallsOK
    BY StoreAssumption DEF StoreInit, CallsOK, CallOK, Operations
  <2>2. /\ Stages = [t \in Threads |-> "free"]
        /\ Subjects = [t \in Threads |-> None]
        /\ Unlisted = [t \in Threads |-> {}]
    BY StoreAssumption DEF StoreInit, Stages, Stage, Subjects, Unlisted, Operations
  <2> QED
    BY <2>1, <2>2 DEF StoreInit, Abstract!RegistryInit
<1>2. StoreInv /\ CallsOK /\ [StoreNext]_storeVars => CallsOK'
  BY CallsStepKeeps DEF StoreInv
<1>3. StoreInv /\ CallsOK /\ [StoreNext]_storeVars
        => [Abstract!RegistryNext]_<< sessions, born, known, age, Abstract!calls >>
  <2> SUFFICES ASSUME StoreInv, CallsOK, [StoreNext]_storeVars
               PROVE  Abstract!RegistryNext \/ Unseen
    BY DEF Unseen, Abstract!calls
  <2>1. ASSUME NEW t \in Threads, Thread(t)
        PROVE  Abstract!RegistryNext \/ Unseen
    BY <2>1, LockingUnseen, LookupsImplement, SessionsImplement, WritersImplement, ListsImplement
       DEF Thread, Abstract!RegistryNext
  <2>2. ASSUME NEW t \in Threads,
               \/ \E s \in Sessions : StartOpen(t, s)
               \/ \E o \in {"Use", "Close"}, s \in Sessions : StartUse(t, o, s)
               \/ StartList(t)
        PROVE  Abstract!RegistryNext
    BY <2>2, ArrivalsImplement
  <2>3. CASE Evict \/ ClockTick \/ UNCHANGED storeVars
    BY <2>3, EvictionsImplement DEF Abstract!RegistryNext
  <2> QED
    BY <2>1, <2>2, <2>3 DEF StoreNext
<1> QED
  BY <1>1, <1>2, <1>3, StoreInvariant, PTL
     DEF StoreSpec, StoreIsRegistry, Abstract!RegistrySpec
================================================================================
