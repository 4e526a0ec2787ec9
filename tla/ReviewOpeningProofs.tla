-------------------------- MODULE ReviewOpeningProofs --------------------------
(***************************************************************************)
(* OpenReviewSession for every diff, every request and every number of     *)
(* pushes.  A failed call leaves no session behind, the context in the     *)
(* review of a commit is the commit's, the call keeps its types, the graph *)
(* it registers can be walked, Forward walks what is announced file by     *)
(* file, the default order goes from the entry points to the tests, and    *)
(* the steps of a file show its patch, line for line.                      *)
(*                                                                         *)
(* The first two have invariants of their own, EventsInv and PinnedInv;    *)
(* the others follow from OpeningInv, which says what the patches were     *)
(* parsed into, how the files are ordered, and how far the chain of steps  *)
(* has come.  The last one also needs HunksInv, about whose hunks the      *)
(* steps are, and what parseHunks cuts a patch into.                       *)
(***************************************************************************)
EXTENDS ReviewOpening, SequenceTheorems, SetInduction

--------------------------------------------------------------------------------
(* The order of the events.                                                *)

Places == {"start", "parse", "fetching", "fetch pr", "fetch diff", "order", "context",
           "building", "build", "creating", "register", "ready", "returned"}

\* What the handler has sent when it is at a given place.
SentSoFar ==
    /\ pc = "start" => percents = << >>
    /\ pc \in {"parse", "fetching"} => percents = << 5 >>
    /\ pc \in {"fetch pr", "fetch diff", "order", "context", "building"} =>
           percents = << 5, 20 >>
    /\ pc \in {"build", "creating"} => percents = << 5, 20, 50 >>
    /\ pc \in {"register", "ready"} => percents = << 5, 20, 50, 90 >>

\* A session is registered by a handler that has sent all its progress events and has
\* only the announcement left, so that nothing but a cancelled context can make it fail.
EventsInv ==
    /\ pc \in Places
    /\ registered \in BOOLEAN /\ ctxDone \in BOOLEAN
    /\ SentSoFar
    /\ pc # "returned" => status = "none"
    /\ pc \notin {"ready", "returned"} => registered = FALSE
    /\ registered = TRUE /\ pc = "returned" =>
           /\ percents = << 5, 20, 50, 90 >>
           /\ status = "OK" \/ ctxDone = TRUE

\* Nothing has been sent when the handler starts (OpenReviewSession).
LEMMA EventsInit == Init => EventsInv
  BY DEF Init, CallInit, EventsInv, Places, SentSoFar

\* A send either ends the call or adds its event (send and progress).
LEMMA SendProgressEffect ==
  ASSUME NEW percent, NEW next, SendProgress(percent, next)
  PROVE  /\ UNCHANGED << ctxDone, registered >>
         /\ \/ pc' = "returned"
            \/ pc' = next /\ percents' = Append(percents, percent) /\ status' = status
  BY DEF SendProgress, Fail, Return

\* What each of the four progress events makes of the ones before.
LEMMA ProgressEvents ==
  /\ Append(<< >>, 5) = << 5 >>
  /\ Append(<< 5 >>, 20) = << 5, 20 >>
  /\ Append(<< 5, 20 >>, 50) = << 5, 20, 50 >>
  /\ Append(<< 5, 20, 50 >>, 90) = << 5, 20, 50, 90 >>
  <1>1. Append(<< >>, 5) = << 5 >>
    OBVIOUS
  <1>2. Append(<< 5 >>, 20) = << 5, 20 >>
    <2>1. << 5 >> \in Seq(Nat) /\ << 5, 20 >> \in Seq(Nat)
      OBVIOUS
    <2>2. Append(<< 5 >>, 20) \in Seq(Nat)
      BY <2>1
    <2>3. Len(Append(<< 5 >>, 20)) = Len(<< 5, 20 >>)
      OBVIOUS
    <2>4. \A i \in 1..Len(Append(<< 5 >>, 20)) : Append(<< 5 >>, 20)[i] = << 5, 20 >>[i]
      OBVIOUS
    <2>5. QED
      BY <2>1, <2>2, <2>3, <2>4, SeqEqual
  <1>3. Append(<< 5, 20 >>, 50) = << 5, 20, 50 >>
    <2>1. << 5, 20 >> \in Seq(Nat) /\ << 5, 20, 50 >> \in Seq(Nat)
      OBVIOUS
    <2>2. Append(<< 5, 20 >>, 50) \in Seq(Nat)
      BY <2>1
    <2>3. Len(Append(<< 5, 20 >>, 50)) = Len(<< 5, 20, 50 >>)
      OBVIOUS
    <2>4. \A i \in 1..Len(Append(<< 5, 20 >>, 50)) : Append(<< 5, 20 >>, 50)[i] = << 5, 20, 50 >>[i]
      OBVIOUS
    <2>5. QED
      BY <2>1, <2>2, <2>3, <2>4, SeqEqual
  <1>4. Append(<< 5, 20, 50 >>, 90) = << 5, 20, 50, 90 >>
    <2>1. << 5, 20, 50 >> \in Seq(Nat) /\ << 5, 20, 50, 90 >> \in Seq(Nat)
      OBVIOUS
    <2>2. Append(<< 5, 20, 50 >>, 90) \in Seq(Nat)
      BY <2>1
    <2>3. Len(Append(<< 5, 20, 50 >>, 90)) = Len(<< 5, 20, 50, 90 >>)
      OBVIOUS
    <2>4. \A i \in 1..Len(Append(<< 5, 20, 50 >>, 90)) : Append(<< 5, 20, 50 >>, 90)[i] = << 5, 20, 50, 90 >>[i]
      OBVIOUS
    <2>5. QED
      BY <2>1, <2>2, <2>3, <2>4, SeqEqual
  <1>5. QED
    BY <1>1, <1>2, <1>3, <1>4

\* A step that leaves the call alone keeps EventsInv.
LEMMA EventsKept ==
  ASSUME EventsInv, UNCHANGED << pc, ctxDone, percents, status, registered >>
  PROVE  EventsInv'
  <1>1. SentSoFar'
    BY DEF EventsInv, SentSoFar
  <1>2. QED
    BY <1>1 DEF EventsInv

\* The places between one event and the next.
Stretches == {{"parse", "fetching"},
              {"fetch pr", "fetch diff", "order", "context", "building"},
              {"build", "creating"}}

\* A step from one place to another between the same two events keeps EventsInv (Continue).
LEMMA EventsMove ==
  ASSUME EventsInv, NEW S \in Stretches, pc \in S, pc' \in S,
         UNCHANGED << ctxDone, percents, status, registered >>
  PROVE  EventsInv'
  <1>1. pc' \in Places /\ pc' \notin {"ready", "returned"} /\ pc \notin {"ready", "returned"}
    BY DEF Places, Stretches
  <1>2. SentSoFar'
    <2>1. CASE S = {"parse", "fetching"}
      BY <2>1 DEF EventsInv, SentSoFar
    <2>2. CASE S = {"fetch pr", "fetch diff", "order", "context", "building"}
      BY <2>2 DEF EventsInv, SentSoFar
    <2>3. CASE S = {"build", "creating"}
      BY <2>3 DEF EventsInv, SentSoFar
    <2>4. QED
      BY <2>1, <2>2, <2>3 DEF Stretches
  <1>3. QED
    BY <1>1, <1>2 DEF EventsInv

\* A handler that gives up before it has registered its session keeps EventsInv (Fail).
LEMMA EventsGiveUp ==
  ASSUME EventsInv, pc \notin {"ready", "returned"}, pc' = "returned",
         UNCHANGED << ctxDone, registered >>
  PROVE  EventsInv'
  BY DEF EventsInv, Places, SentSoFar

\* Every step of the handler, of the client and of the forge keeps EventsInv.
LEMMA EventsStep == EventsInv /\ [Next]_vars => EventsInv'
  <1> SUFFICES ASSUME EventsInv, [Next]_vars
               PROVE  EventsInv'
    OBVIOUS
  <1>1. CASE RejectEmptyURL
    <2>1. pc = "start" /\ pc' = "returned" /\ UNCHANGED << ctxDone, registered >>
      BY <1>1 DEF RejectEmptyURL, Fail, Return
    <2>2. QED
      BY <2>1, EventsGiveUp
  <1>2. CASE SendParsing
    <2>1. pc = "start" /\ UNCHANGED << ctxDone, registered >>
      BY <1>2, SendProgressEffect DEF SendParsing, EventsInv, SentSoFar
    <2>2. \/ pc' = "returned"
          \/ pc' = "parse" /\ percents' = Append(<< >>, 5) /\ status' = status
      BY <1>2, SendProgressEffect DEF SendParsing, EventsInv, SentSoFar
    <2>3. QED
      BY <2>1, <2>2, ProgressEvents DEF EventsInv, Places, SentSoFar
  <1>3. CASE FindContext
    <2>1. /\ pc = "parse" /\ UNCHANGED << ctxDone, registered >>
          /\ \/ pc' = "returned"
             \/ pc' = "fetching" /\ UNCHANGED << percents, status >>
      BY <1>3 DEF FindContext, Continue, Fail, Return
    <2>2. QED
      BY <2>1, EventsGiveUp, EventsMove DEF Stretches
  <1>4. CASE SendFetching
    <2>1. pc = "fetching" /\ UNCHANGED << ctxDone, registered >>
      BY <1>4, SendProgressEffect DEF SendFetching, EventsInv, SentSoFar
    <2>2. \/ pc' = "returned"
          \/ pc' \in {"fetch pr", "fetch diff"} /\ percents' = Append(<< 5 >>, 20) /\ status' = status
      BY <1>4, SendProgressEffect DEF SendFetching, EventsInv, SentSoFar
    <2>3. QED
      BY <2>1, <2>2, ProgressEvents DEF EventsInv, Places, SentSoFar
  <1>5. CASE RequestFails
    <2>1. /\ pc \in {"fetch pr", "fetch diff"} /\ pc' = "returned"
          /\ UNCHANGED << ctxDone, percents, registered >>
      BY <1>5 DEF RequestFails, Fail, Return
    <2>2. QED
      BY <2>1, EventsGiveUp
  <1>6. CASE FetchPR \/ FetchDiff
    <2>1. /\ pc \in {"fetch pr", "fetch diff"} /\ pc' \in {"fetch diff", "order"}
          /\ UNCHANGED << ctxDone, percents, status, registered >>
      BY <1>6 DEF FetchPR, FetchDiff, Continue
    <2>2. QED
      BY <2>1, EventsMove DEF Stretches
  <1>7. CASE OrderFiles
    <2>1. /\ pc = "order" /\ UNCHANGED << ctxDone, registered >>
          /\ \/ pc' = "returned"
             \/ pc' \in {"context", "building"} /\ UNCHANGED << percents, status >>
      BY <1>7 DEF OrderFiles, Continue, Fail, Return
    <2>2. QED
      BY <2>1, EventsGiveUp, EventsMove DEF Stretches
  <1>8. CASE SkipDeleted \/ FetchFile \/ FetchFileFails \/ ContextDone
    <2>1. /\ pc = "context" /\ pc' \in {"context", "building"}
          /\ UNCHANGED << ctxDone, percents, status, registered >>
      BY <1>8 DEF SkipDeleted, FetchFile, FetchFileFails, ContextDone, Continue
    <2>2. QED
      BY <2>1, EventsMove DEF Stretches
  <1>9. CASE SendBuilding
    <2>1. pc = "building" /\ UNCHANGED << ctxDone, registered >>
      BY <1>9, SendProgressEffect DEF SendBuilding, EventsInv, SentSoFar
    <2>2. \/ pc' = "returned"
          \/ pc' = "build" /\ percents' = Append(<< 5, 20 >>, 50) /\ status' = status
      BY <1>9, SendProgressEffect DEF SendBuilding, EventsInv, SentSoFar
    <2>3. QED
      BY <2>1, <2>2, ProgressEvents DEF EventsInv, Places, SentSoFar
  <1>10. CASE AddHunkStep \/ NextFile \/ BuildDone
    <2>1. /\ pc = "build" /\ pc' \in {"build", "creating"}
          /\ UNCHANGED << ctxDone, percents, status, registered >>
      BY <1>10 DEF AddHunkStep, NextFile, BuildDone, Continue
    <2>2. QED
      BY <2>1, EventsMove DEF Stretches
  <1>11. CASE SendCreating
    <2>1. pc = "creating" /\ UNCHANGED << ctxDone, registered >>
      BY <1>11, SendProgressEffect DEF SendCreating, EventsInv, SentSoFar
    <2>2. \/ pc' = "returned"
          \/ pc' = "register" /\ percents' = Append(<< 5, 20, 50 >>, 90) /\ status' = status
      BY <1>11, SendProgressEffect DEF SendCreating, EventsInv, SentSoFar
    <2>3. QED
      BY <2>1, <2>2, ProgressEvents DEF EventsInv, Places, SentSoFar
  <1>12. CASE RegisterSession
    <2>1. /\ pc = "register" /\ pc' = "ready" /\ registered' = TRUE
          /\ UNCHANGED << ctxDone, percents, status >>
      BY <1>12 DEF RegisterSession, Register
    <2>2. QED
      BY <2>1 DEF EventsInv, Places, SentSoFar
  <1>13. CASE SendReviewReady
    <2>1. /\ pc = "ready" /\ pc' = "returned"
          /\ UNCHANGED << ctxDone, percents, registered >>
          /\ status' = "OK" \/ ctxDone = TRUE
      BY <1>13 DEF SendReviewReady, SendReady, Return, EventsInv
    <2>2. QED
      BY <2>1 DEF EventsInv, Places, SentSoFar
  <1>14. CASE Cancel
    <2>1. ctxDone' = TRUE /\ UNCHANGED << pc, percents, status, registered >>
      BY <1>14 DEF Cancel, CancelCall
    <2>2. SentSoFar'
      BY <2>1 DEF EventsInv, SentSoFar
    <2>3. QED
      BY <2>1, <2>2 DEF EventsInv
  <1>15. CASE Push
    <2>1. UNCHANGED << pc, ctxDone, percents, status, registered >>
      BY <1>15 DEF Push, callVars
    <2>2. QED
      BY <2>1, EventsKept
  <1>16. CASE UNCHANGED vars
    <2>1. UNCHANGED << pc, ctxDone, percents, status, registered >>
      BY <1>16 DEF vars, callVars
    <2>2. QED
      BY <2>1, EventsKept
  <1>17. QED
    BY <1>1, <1>2, <1>3, <1>4, <1>5, <1>6, <1>7, <1>8, <1>9, <1>10, <1>11, <1>12,
       <1>13, <1>14, <1>15, <1>16 DEF Next, Handler, Idle

\* Whatever the forge answers and whenever the client hangs up, a failed
\* OpenReviewSession leaves a session behind only when the hang-up came after all the
\* progress events, before or after store.Set, and was noticed by the last send.
THEOREM FailedOpenLeavesNothing == Spec => []FailureLeavesNothing
  <1>1. EventsInv => FailureLeavesNothing
    BY DEF EventsInv, FailureLeavesNothing
  <1>2. QED
    BY EventsInit, EventsStep, <1>1, PTL DEF Spec

--------------------------------------------------------------------------------
(* The version of the context.                                             *)

BeforeDiff == {"start", "parse", "fetching", "fetch pr", "fetch diff"}

\* In the review of a commit the ref is pinned to the version of the diff before the
\* first content is fetched, and stays so while contents are fetched.
PinnedInv ==
    fcKind = "commit" =>
        /\ pc \in BeforeDiff => DOMAIN fileLines = {} /\ steps = {}
        /\ pc \in {"order", "context"} => head = diffAt /\ diffAt \in Versions
        /\ \A p \in DOMAIN fileLines : fileLines[p] = diffAt
        /\ \A s \in steps : spans[s].at \in {NoRef, diffAt}

\* Nothing has been fetched when the handler starts (OpenReviewSession).
LEMMA PinnedInit == Init => PinnedInv
  BY DEF Init, CallInit, PinnedInv, BeforeDiff

\* A version is not the name of a branch, so a pinned ref is answered as it is.
LEMMA PinnedRefStays == ASSUME NEW v \in Versions PROVE At(v) = v
  BY ReviewAssumption DEF At, Versions, BranchRef

\* The span of a new step takes its context from the content that was fetched.
LEMMA HunkSpanAt ==
  ASSUME NEW f, NEW h
  PROVE  HunkSpan(f, h).at = IF f.Path \in DOMAIN fileLines THEN fileLines[f.Path] ELSE NoRef
  BY DEF HunkSpan

\* Every step of the handler, of the client and of the forge keeps PinnedInv.
LEMMA PinnedStep == PinnedInv /\ [Next]_vars => PinnedInv'
  <1> SUFFICES ASSUME PinnedInv, [Next]_vars, fcKind' = "commit"
               PROVE  PinnedInv'
    BY DEF PinnedInv
  <1> USE DEF PinnedInv, BeforeDiff, fcKind
  <1>1. CASE RejectEmptyURL
    BY <1>1 DEF RejectEmptyURL, Fail, Return, forgeVars, graphVars
  <1>2. CASE SendParsing \/ SendFetching \/ SendBuilding \/ SendCreating
    BY <1>2 DEF SendParsing, SendFetching, SendBuilding, SendCreating, SendProgress,
                Fail, Return, forgeVars, graphVars
  <1>3. CASE FindContext
    BY <1>3 DEF FindContext, Continue, Fail, Return, graphVars
  <1>4. CASE RequestFails
    BY <1>4 DEF RequestFails, Fail, Return, forgeVars, graphVars
  <1>5. CASE FetchPR
    BY <1>5 DEF FetchPR, Continue, graphVars
  <1>6. CASE FetchDiff
    BY <1>6 DEF FetchDiff, Continue, graphVars
  <1>7. CASE OrderFiles
    BY <1>7 DEF OrderFiles, Continue, Fail, Return, graphVars
  <1>8. CASE SkipDeleted \/ FetchFileFails \/ ContextDone
    BY <1>8 DEF SkipDeleted, FetchFileFails, ContextDone, Continue, forgeVars, graphVars
  <1>9. CASE FetchFile
    <2>1. /\ pc = "context" /\ pc' = "context"
          /\ UNCHANGED << req, head, diffAt, steps, spans >>
      BY <1>9 DEF FetchFile, Continue, forgeVars, graphVars
    <2>2. ContentAt = {diffAt}
      BY <2>1, PinnedRefStays DEF ContentAt
    <2>3. \A p \in DOMAIN fileLines' : fileLines'[p] = diffAt
      BY <1>9, <2>1, <2>2 DEF FetchFile
    <2>4. QED
      BY <2>1, <2>3
  <1>10. CASE AddHunkStep
    <2>1. /\ pc = "build" /\ pc' = "build"
          /\ UNCHANGED << req, head, diffAt, fileLines >>
      BY <1>10 DEF AddHunkStep, Continue, forgeVars
    <2> DEFINE f  == files[fi]
               h  == f.Hunks[hi]
               id == StepID(f, h)
    <2>2. /\ steps' = steps \cup {id}
          /\ spans' = [s \in steps \cup {id} |-> IF s = id THEN HunkSpan(f, h) ELSE spans[s]]
      BY <1>10 DEF AddHunkStep, StepsWith
    <2>3. HunkSpan(f, h).at \in {NoRef, diffAt}
      BY <2>1, HunkSpanAt
    <2> HIDE DEF f, h, id
    <2>4. \A s \in steps' : spans'[s].at \in {NoRef, diffAt}
      BY <2>1, <2>2, <2>3
    <2>5. QED
      BY <2>1, <2>4 DEF NoRef
  <1>11. CASE NextFile \/ BuildDone
    BY <1>11 DEF NextFile, BuildDone, Continue, forgeVars, graphVars
  <1>12. CASE RegisterSession \/ SendReviewReady
    BY <1>12 DEF RegisterSession, Register, SendReviewReady, SendReady, Return,
                 forgeVars, graphVars
  <1>13. CASE Push \/ Cancel
    BY <1>13 DEF Push, Cancel, CancelCall, callVars, forgeVars, graphVars
  <1>14. CASE UNCHANGED vars
    BY <1>14 DEF vars, callVars, forgeVars, graphVars
  <1>15. QED
    BY <1>1, <1>2, <1>3, <1>4, <1>5, <1>6, <1>7, <1>8, <1>9, <1>10, <1>11, <1>12,
       <1>13, <1>14 DEF Next, Handler, Idle

\* However often the branch moves while OpenReviewSession runs, all context in the
\* review of a commit comes from the version its diff shows.
THEOREM CommitContextIsTheCommits == Spec => []CommitContextMatchesDiff
  <1>1. PinnedInv => CommitContextMatchesDiff
    BY DEF PinnedInv, CommitContextMatchesDiff
  <1>2. QED
    BY PinnedInit, PinnedStep, <1>1, PTL DEF Spec

--------------------------------------------------------------------------------
(* The parsing of patches.                                                 *)

\* What the loop of parseHunks carries from line to line.
Loops == {l \in [hunks : Seq(Hunk), current : Seq(Hunk)] : Len(l.current) <= 1}

\* The hunks the loop has begun, the current one included.
Begun(l) == l.hunks \o l.current

\* Every round of parseHunks' loop leaves complete hunks and at most one current one: a
\* header begins a hunk, any other line goes to the current hunk or is dropped.
LEMMA ParseLineType ==
  ASSUME NEW l \in Loops, NEW line \in Line
  PROVE  /\ parseLine(l, line) \in Loops
         /\ IsHeader(line) =>
                /\ parseLine(l, line).hunks = Begun(l)
                /\ parseLine(l, line).current = << parseHunkHeader(line) >>
         /\ ~IsHeader(line) =>
                /\ parseLine(l, line).hunks = l.hunks
                /\ Len(parseLine(l, line).current) = Len(l.current)
                /\ \A i \in DOMAIN l.current :
                       parseLine(l, line).current[i].NewStart = l.current[i].NewStart
<1>1. l.hunks \in Seq(Hunk) /\ l.current \in Seq(Hunk) /\ Len(l.current) <= 1
  BY DEF Loops
<1>2. CASE IsHeader(line)
  <2>1. parseLine(l, line) = [hunks |-> Begun(l), current |-> << parseHunkHeader(line) >>]
    BY <1>2 DEF parseLine, Begun
  <2>2. parseHunkHeader(line) \in Hunk
    <3>1. RangeCount(line) \in Nat
      BY DEF RangeCount, Line, Omitted
    <3>2. line.start \in Nat /\ << line >> \in Seq(Line)
      BY DEF Line
    <3> QED
      BY <3>1, <3>2 DEF parseHunkHeader, Hunk
  <2>3. Begun(l) \in Seq(Hunk) /\ << parseHunkHeader(line) >> \in Seq(Hunk)
    BY <1>1, <2>2 DEF Begun
  <2>4. /\ parseLine(l, line).hunks = Begun(l)
        /\ parseLine(l, line).current = << parseHunkHeader(line) >>
    BY <2>1
  <2>5. parseLine(l, line) \in [hunks : Seq(Hunk), current : Seq(Hunk)]
    BY <2>1, <2>3
  <2>6. Len(parseLine(l, line).current) <= 1
    BY <2>4
  <2> QED
    BY <1>2, <2>4, <2>5, <2>6 DEF Loops
<1>3. CASE ~IsHeader(line) /\ l.current # << >>
  <2> DEFINE longer == [l.current[1] EXCEPT !.RawDiff = Append(@, line)]
  <2>1. parseLine(l, line) = [hunks |-> l.hunks, current |-> << longer >>]
    BY <1>3 DEF parseLine
  <2>2. Len(l.current) = 1 /\ l.current[1] \in Hunk
    <3> DEFINE n == Len(l.current)
    <3>1. n \in Nat /\ n # 0 /\ n <= 1
      BY <1>1, <1>3, EmptySeq
    <3>2. n = 1
      <4> HIDE DEF n
      <4> QED
        BY <3>1
    <3> QED
      BY <1>1, <3>2
  <2>3. longer \in Hunk /\ longer.NewStart = l.current[1].NewStart
    <3>1. /\ l.current[1] \in [NewStart : Nat, NewLines : Nat, RawDiff : Seq(Line)]
          /\ l.current[1].RawDiff \in Seq(Line)
      BY <2>2 DEF Hunk
    <3>2. Append(l.current[1].RawDiff, line) \in Seq(Line)
      BY <3>1
    <3> QED
      BY <3>1, <3>2 DEF Hunk
  <2> HIDE DEF longer
  <2>4. << longer >> \in Seq(Hunk)
    BY <2>3
  <2> QED
    BY <1>1, <1>3, <2>1, <2>2, <2>3, <2>4 DEF Loops
<1>4. CASE ~IsHeader(line) /\ l.current = << >>
  <2>1. parseLine(l, line) = l
    BY <1>4 DEF parseLine
  <2> QED
    BY <1>4, <2>1
<1> QED
  BY <1>2, <1>3, <1>4

\* Appending to a sequence leaves what it had and adds one place.
LEMMA OneMore ==
  ASSUME NEW T, NEW s \in Seq(T), NEW x \in T
  PROVE  /\ s \o << x >> \in Seq(T)
         /\ Len(s \o << x >>) = Len(s) + 1
         /\ \A k \in 1..Len(s) : (s \o << x >>)[k] = s[k]
         /\ (s \o << x >>)[Len(s) + 1] = x
  OBVIOUS

\* Hunks that start where others do, behind the same hunks, make a sequence of the same starts.
LEMMA SameStarts ==
  ASSUME NEW a \in Seq(Hunk), NEW b \in Seq(Hunk), NEW c \in Seq(Hunk),
         Len(c) = Len(b), \A i \in DOMAIN b : c[i].NewStart = b[i].NewStart
  PROVE  /\ Len(a \o c) = Len(a \o b)
         /\ \A k \in 1..Len(a \o b) : (a \o c)[k].NewStart = (a \o b)[k].NewStart
<1>1. Len(a \o c) = Len(a \o b)
  <2>1. Len(a \o c) = Len(a) + Len(c) /\ Len(a \o b) = Len(a) + Len(b)
    BY ConcatProperties
  <2> QED
    BY <2>1
<1>2. ASSUME NEW k \in 1..Len(a \o b)
      PROVE  (a \o c)[k].NewStart = (a \o b)[k].NewStart
  <2>1. CASE k <= Len(a)
    <3>1. (a \o c)[k] = a[k] /\ (a \o b)[k] = a[k]
      BY <2>1
    <3> QED
      BY <3>1
  <2>2. CASE k > Len(a)
    <3>1. (a \o c)[k] = c[k - Len(a)] /\ (a \o b)[k] = b[k - Len(a)]
      BY <2>2
    <3>2. k - Len(a) \in DOMAIN b
      BY <2>2
    <3> QED
      BY <3>1, <3>2
  <2> QED
    BY <2>1, <2>2
<1> QED
  BY <1>1, <1>2

\* A round of the loop begins a hunk at a header, and otherwise changes neither the number
\* of hunks nor where they start.
LEMMA BegunStep ==
  ASSUME NEW l \in Loops, NEW line \in Line
  PROVE  /\ Begun(l) \in Seq(Hunk) /\ Begun(parseLine(l, line)) \in Seq(Hunk)
         /\ IsHeader(line) =>
                /\ Len(Begun(parseLine(l, line))) = Len(Begun(l)) + 1
                /\ Begun(parseLine(l, line))[Len(Begun(l)) + 1].NewStart = line.start
                /\ \A k \in 1..Len(Begun(l)) : Begun(parseLine(l, line))[k] = Begun(l)[k]
         /\ ~IsHeader(line) =>
                /\ Len(Begun(parseLine(l, line))) = Len(Begun(l))
                /\ \A k \in 1..Len(Begun(l)) :
                       Begun(parseLine(l, line))[k].NewStart = Begun(l)[k].NewStart
<1> DEFINE next == parseLine(l, line)
<1>1. next \in Loops
  BY ParseLineType
<1>2. /\ l.hunks \in Seq(Hunk) /\ l.current \in Seq(Hunk)
      /\ next.hunks \in Seq(Hunk) /\ next.current \in Seq(Hunk)
  <2> HIDE DEF next
  <2> QED
    BY <1>1 DEF Loops
<1>3. Begun(l) \in Seq(Hunk) /\ Begun(next) \in Seq(Hunk)
  <2> HIDE DEF next
  <2> QED
    BY <1>2 DEF Begun
<1>4. CASE IsHeader(line)
  <2>1. next.hunks = Begun(l) /\ next.current = << parseHunkHeader(line) >>
    BY <1>4, ParseLineType
  <2>2. Begun(next) = Begun(l) \o << parseHunkHeader(line) >>
    <3> HIDE DEF next
    <3> QED
      BY <2>1 DEF Begun
  <2>3. parseHunkHeader(line) \in Hunk /\ parseHunkHeader(line).NewStart = line.start
    <3>1. << parseHunkHeader(line) >> \in Seq(Hunk)
      BY <1>2, <2>1
    <3>2. parseHunkHeader(line) \in Hunk
      <4> DEFINE h == parseHunkHeader(line)
      <4>1. << h >> \in Seq(Hunk)
        BY <3>1
      <4>2. h \in Hunk
        <5> HIDE DEF h
        <5> QED
          BY <4>1
      <4> QED
        BY <4>2
    <3> QED
      BY <3>2 DEF parseHunkHeader
  <2> HIDE DEF next
  <2>4. /\ Len(Begun(next)) = Len(Begun(l)) + 1
        /\ Begun(next)[Len(Begun(l)) + 1] = parseHunkHeader(line)
        /\ \A k \in 1..Len(Begun(l)) : Begun(next)[k] = Begun(l)[k]
    BY <1>3, <2>2, <2>3, OneMore
  <2> QED
    BY <1>3, <1>4, <2>3, <2>4 DEF next
<1>5. CASE ~IsHeader(line)
  <2>1. /\ next.hunks = l.hunks /\ Len(next.current) = Len(l.current)
        /\ \A i \in DOMAIN l.current : next.current[i].NewStart = l.current[i].NewStart
    BY <1>5, ParseLineType
  <2> HIDE DEF next
  <2>2. /\ Len(l.hunks \o next.current) = Len(l.hunks \o l.current)
        /\ \A k \in 1..Len(l.hunks \o l.current) :
               (l.hunks \o next.current)[k].NewStart = (l.hunks \o l.current)[k].NewStart
    BY <1>2, <2>1, SameStarts
  <2>3. /\ Len(Begun(next)) = Len(Begun(l))
        /\ \A k \in 1..Len(Begun(l)) : Begun(next)[k].NewStart = Begun(l)[k].NewStart
    BY <2>1, <2>2 DEF Begun
  <2> QED
    BY <1>3, <1>5, <2>3 DEF next
<1> QED
  BY <1>3, <1>4, <1>5

\* The hunks that the loop has begun after n lines of a patch start, each, where one of the
\* headers among those lines says, and one below the other.
Descending(patch, l, n) ==
    /\ l \in Loops
    /\ \A k \in 1..Len(Begun(l)) : \E m \in 1..n :
           IsHeader(patch[m]) /\ patch[m].start = Begun(l)[k].NewStart
    /\ \A j, k \in 1..Len(Begun(l)) : j < k => Begun(l)[j].NewStart < Begun(l)[k].NewStart

\* A line more keeps that: the headers of a patch start further and further down.
LEMMA DescendingStep ==
  ASSUME NEW patch, WellFormedPatch(patch), NEW n \in Nat, n + 1 <= Len(patch),
         NEW l, Descending(patch, l, n)
  PROVE  Descending(patch, parseLine(l, patch[n + 1]), n + 1)
<1> DEFINE line == patch[n + 1]
           next == parseLine(l, line)
           N == Len(Begun(l))
<1>1. /\ patch \in Seq(Line) /\ line \in Line
      /\ \A i, j \in DOMAIN patch :
             i < j /\ IsHeader(patch[i]) /\ IsHeader(patch[j]) => patch[i].start < patch[j].start
  BY DEF WellFormedPatch
<1>2. next \in Loops /\ l \in Loops
  BY <1>1, ParseLineType DEF Descending
<1> HIDE DEF line
<1>3. /\ Begun(l) \in Seq(Hunk) /\ Begun(next) \in Seq(Hunk)
      /\ IsHeader(line) => /\ Len(Begun(next)) = N + 1
                           /\ Begun(next)[N + 1].NewStart = line.start
                           /\ \A k \in 1..N : Begun(next)[k] = Begun(l)[k]
      /\ ~IsHeader(line) => /\ Len(Begun(next)) = N
                            /\ \A k \in 1..N : Begun(next)[k].NewStart = Begun(l)[k].NewStart
  BY <1>1, <1>2, BegunStep
<1>4. /\ N \in Nat
      /\ \A k \in 1..N : \E m \in 1..n : IsHeader(patch[m]) /\ patch[m].start = Begun(l)[k].NewStart
      /\ \A j, k \in 1..N : j < k => Begun(l)[j].NewStart < Begun(l)[k].NewStart
  BY <1>3 DEF Descending
<1> HIDE DEF next, N
<1>5. CASE IsHeader(line)
  <2>1. \A k \in 1..N : Begun(next)[k].NewStart < line.start
    <3>1. TAKE k \in 1..N
    <3>2. PICK m \in 1..n : IsHeader(patch[m]) /\ patch[m].start = Begun(l)[k].NewStart
      BY <1>4
    <3>3. m \in DOMAIN patch /\ n + 1 \in DOMAIN patch /\ m < n + 1
      BY <1>1, <3>2
    <3>4. patch[m].start < patch[n + 1].start
      BY <1>1, <1>5, <3>2, <3>3 DEF line
    <3> QED
      BY <1>3, <1>5, <3>2, <3>4 DEF line
  <2>2. ASSUME NEW k \in 1..(N + 1)
        PROVE  \E m \in 1..(n + 1) : IsHeader(patch[m]) /\ patch[m].start = Begun(next)[k].NewStart
    <3>1. CASE k = N + 1
      <4>1. n + 1 \in 1..(n + 1) /\ IsHeader(patch[n + 1]) /\ patch[n + 1].start = Begun(next)[k].NewStart
        BY <1>3, <1>5, <3>1 DEF line
      <4> QED
        BY <4>1
    <3>2. CASE k \in 1..N
      <4>1. PICK m \in 1..n : IsHeader(patch[m]) /\ patch[m].start = Begun(l)[k].NewStart
        BY <1>4, <3>2
      <4>2. m \in 1..(n + 1) /\ Begun(next)[k] = Begun(l)[k]
        BY <1>3, <1>5, <3>2
      <4> QED
        BY <4>1, <4>2
    <3> QED
      BY <1>4, <3>1, <3>2
  <2>3. ASSUME NEW j \in 1..(N + 1), NEW k \in 1..(N + 1), j < k
        PROVE  Begun(next)[j].NewStart < Begun(next)[k].NewStart
    <3>1. j \in 1..N
      BY <1>4, <2>3
    <3>2. CASE k = N + 1
      BY <1>3, <1>5, <2>1, <3>1, <3>2
    <3>3. CASE k \in 1..N
      BY <1>3, <1>4, <1>5, <2>3, <3>1, <3>3
    <3> QED
      BY <1>4, <3>2, <3>3
  <2>4. Len(Begun(next)) = N + 1
    BY <1>3, <1>5
  <2>5. Descending(patch, next, n + 1)
    BY <1>2, <2>2, <2>3, <2>4 DEF Descending
  <2> QED
    BY <2>5 DEF next, line
<1>6. CASE ~IsHeader(line)
  <2>1. Len(Begun(next)) = N /\ \A k \in 1..N : Begun(next)[k].NewStart = Begun(l)[k].NewStart
    BY <1>3, <1>6
  <2>2. ASSUME NEW k \in 1..N
        PROVE  \E m \in 1..(n + 1) : IsHeader(patch[m]) /\ patch[m].start = Begun(next)[k].NewStart
    <3>1. PICK m \in 1..n : IsHeader(patch[m]) /\ patch[m].start = Begun(l)[k].NewStart
      BY <1>4
    <3>2. m \in 1..(n + 1)
      OBVIOUS
    <3> QED
      BY <2>1, <3>1, <3>2
  <2>3. Descending(patch, next, n + 1)
    BY <1>2, <1>4, <2>1, <2>2 DEF Descending
  <2> QED
    BY <2>3 DEF next, line
<1> QED
  BY <1>5, <1>6

\* The rounds of parseHunks' loop, and what it returns after the last of them.
Parses(loop, patch) ==
    /\ loop \in [0..Len(patch) -> Loops]
    /\ loop[0] = [hunks |-> << >>, current |-> << >>]
    /\ \A i \in 1..Len(patch) : loop[i] = parseLine(loop[i - 1], patch[i])
    /\ parseHunks(patch) = Begun(loop[Len(patch)])

\* Every patch is parsed round by round (parseHunks).
LEMMA PatchIsParsed ==
  ASSUME NEW patch \in Seq(Line)
  PROVE  \E loop : Parses(loop, patch)
<1> DEFINE N == Len(patch)
           none == [hunks |-> << >>, current |-> << >>]
           body == [p \in (1..N) \X Loops |-> parseLine(p[2], patch[p[1]])]
           Loop(f) == f = [i \in 0..N |-> IF i = 0 THEN none ELSE parseLine(f[i - 1], patch[i])]
           loop == CHOOSE f : Loop(f)
<1>1. N \in Nat /\ \A i \in 1..N : patch[i] \in Line
  OBVIOUS
<1>2. none \in Loops
  <2>1. << >> \in Seq(Hunk) /\ Len(<< >>) <= 1
    OBVIOUS
  <2> QED
    BY <2>1 DEF Loops
<1>3. body \in LoopBodies(N, Loops)
  <2>1. ASSUME NEW p \in (1..N) \X Loops
        PROVE  parseLine(p[2], patch[p[1]]) \in Loops
    <3>1. p[1] \in 1..N /\ p[2] \in Loops
      OBVIOUS
    <3> QED
      BY <1>1, <3>1, ParseLineType
  <2> QED
    BY <2>1 DEF LoopBodies
<1>4. PICK g \in [0..N -> Loops] : Runs(g, none, body, N)
  <2> HIDE DEF N, body, none
  <2> QED
    BY <1>1, <1>2, <1>3, LoopRuns
<1>5. /\ g[0] = none
      /\ \A i \in 1..N : g[i] = parseLine(g[i - 1], patch[i])
  <2>1. ASSUME NEW i \in 1..N
        PROVE  g[i] = parseLine(g[i - 1], patch[i])
    <3>1. << i, g[i - 1] >> \in (1..N) \X Loops
      BY <1>1
    <3>2. g[i] = body[<< i, g[i - 1] >>]
      BY <1>4 DEF Runs
    <3> QED
      BY <3>1, <3>2
  <2> QED
    BY <1>4, <2>1 DEF Runs
<1>6. Loop(g)
  <2>1. ASSUME NEW i \in 0..N
        PROVE  g[i] = IF i = 0 THEN none ELSE parseLine(g[i - 1], patch[i])
    <3>1. i # 0 => i \in 1..N
      BY <1>1
    <3> QED
      BY <1>5, <3>1
  <2> HIDE DEF N, none
  <2> QED
    BY <2>1
<1>7. loop \in [0..N -> Loops] /\ loop[0] = none
      /\ \A i \in 1..N : loop[i] = parseLine(loop[i - 1], patch[i])
  <2>1. Loop(loop)
    BY <1>6
  <2> DEFINE S == {i \in Nat : i <= N => loop[i] = g[i]}
  <2>2. \A i \in 0..N : loop[i] = IF i = 0 THEN none ELSE parseLine(loop[i - 1], patch[i])
    <3> HIDE DEF N, loop, none
    <3> QED
      BY <2>1
  <2>3. 0 \in S
    <3>1. 0 \in 0..N
      BY <1>1
    <3> HIDE DEF N, loop
    <3> QED
      BY <1>5, <2>2, <3>1
  <2>4. ASSUME NEW n \in Nat, n \in S
        PROVE  n + 1 \in S
    <3> HIDE DEF N, loop
    <3>1. SUFFICES ASSUME n + 1 <= N PROVE loop[n + 1] = g[n + 1]
      OBVIOUS
    <3>2. n + 1 \in 1..N /\ n + 1 \in 0..N /\ n + 1 # 0 /\ (n + 1) - 1 = n /\ n <= N
      BY <1>1, <3>1
    <3>3. loop[n] = g[n]
      BY <2>4, <3>2
    <3>4. loop[n + 1] = parseLine(loop[(n + 1) - 1], patch[n + 1])
      BY <2>2, <3>2
    <3>5. g[n + 1] = parseLine(g[(n + 1) - 1], patch[n + 1])
      BY <1>5, <3>2
    <3> QED
      BY <3>2, <3>3, <3>4, <3>5
  <2>5. Nat \subseteq S
    <3> HIDE DEF S
    <3> QED
      BY <2>3, <2>4, SetInduction
  <2>6. \A i \in 0..N : loop[i] = g[i]
    BY <1>1, <2>5
  <2>7. DOMAIN loop = 0..N /\ loop = [i \in 0..N |-> loop[i]]
    <3> HIDE DEF N, loop, none
    <3> QED
      BY <2>1
  <2>8. 0 \in 0..N /\ \A i \in 1..N : i \in 0..N /\ i # 0
    BY <1>1
  <2> HIDE DEF N, loop, none, S
  <2>9. loop \in [0..N -> Loops]
    BY <1>4, <2>6, <2>7
  <2> QED
    BY <2>2, <2>8, <2>9
<1>8. parsedLines(patch) = loop[N]
  BY DEF parsedLines
<1>9. parseHunks(patch) = Begun(loop[N])
  BY <1>8 DEF parseHunks, Begun
<1> HIDE DEF loop
<1> QED
  BY <1>7, <1>9 DEF Parses

\* A patch as git writes it is parsed into hunks that lie one below the other.
LEMMA ParsedHunks ==
  ASSUME NEW patch, WellFormedPatch(patch)
  PROVE  /\ parseHunks(patch) \in Seq(Hunk)
         /\ \A j, k \in DOMAIN parseHunks(patch) :
                j < k => parseHunks(patch)[j].NewStart < parseHunks(patch)[k].NewStart
<1> DEFINE N == Len(patch)
           none == [hunks |-> << >>, current |-> << >>]
<1>1. patch \in Seq(Line) /\ N \in Nat /\ \A i \in 1..N : patch[i] \in Line
  BY DEF WellFormedPatch
<1>2. PICK loop : Parses(loop, patch)
  BY <1>1, PatchIsParsed
<1> DEFINE S == {i \in Nat : i <= N => Descending(patch, loop[i], i)}
<1>3. 0 \in S
  <2>1. loop[0] = none /\ loop[0] \in Loops
    BY <1>1, <1>2 DEF Parses
  <2>2. Len(Begun(none)) = 0
    BY DEF Begun
  <2> HIDE DEF none
  <2>3. Descending(patch, none, 0)
    BY <2>1, <2>2 DEF Descending
  <2> QED
    BY <2>1, <2>3
<1>4. ASSUME NEW n \in Nat, n \in S
      PROVE  n + 1 \in S
  <2>1. SUFFICES ASSUME n + 1 <= N
                 PROVE  Descending(patch, loop[n + 1], n + 1)
    OBVIOUS
  <2>2. n + 1 \in 1..N /\ (n + 1) - 1 = n
    BY <1>1, <2>1
  <2>3. loop[n + 1] = parseLine(loop[n], patch[n + 1])
    BY <1>2, <2>2 DEF Parses
  <2>4. Descending(patch, loop[n], n)
    BY <1>1, <1>4, <2>1
  <2> QED
    BY <2>1, <2>3, <2>4, DescendingStep
<1>5. Nat \subseteq S
  <2> HIDE DEF S
  <2> QED
    BY <1>3, <1>4, SetInduction
<1>6. Descending(patch, loop[N], N)
  BY <1>1, <1>5
<1>7. parseHunks(patch) = Begun(loop[N])
  BY <1>2 DEF Parses
<1>8. Begun(loop[N]) \in Seq(Hunk)
  BY <1>6 DEF Descending, Begun, Loops
<1>9. DOMAIN Begun(loop[N]) = 1..Len(Begun(loop[N]))
  BY <1>8
<1> HIDE DEF N
<1> QED
  BY <1>6, <1>7, <1>8, <1>9 DEF Descending

--------------------------------------------------------------------------------
(* Sorting.                                                                *)

\* A relation that decides between any two of the numbers from 1 to n.
StrictOrders(n) ==
    {before \in SUBSET ((1..n) \X (1..n)) :
        /\ \A i \in 1..n : << i, i >> \notin before
        /\ \A i, j, k \in 1..n :
               << i, j >> \in before /\ << j, k >> \in before => << i, k >> \in before
        /\ \A i, j \in 1..n : i # j => << i, j >> \in before \/ << j, i >> \in before}

\* The place of j among the numbers from 1 to n.
PlaceOf(n, before, j) == 1 + Cardinality({i \in 1..n : << i, j >> \in before})

\* Places are numbers from 1 to n, and what comes before has a lower place.
LEMMA PlacesInOrder ==
  ASSUME NEW n \in Nat, NEW before \in StrictOrders(n), NEW j \in 1..n
  PROVE  /\ PlaceOf(n, before, j) \in 1..n
         /\ \A i \in 1..n : << i, j >> \in before => PlaceOf(n, before, i) < PlaceOf(n, before, j)
<1> DEFINE Below(k) == {i \in 1..n : << i, k >> \in before}
<1>1. IsFiniteSet(1..n) /\ Cardinality(1..n) = n
  BY FS_Interval
<1>2. \A k \in 1..n : IsFiniteSet(Below(k)) /\ Cardinality(Below(k)) \in Nat
  BY <1>1, FS_Subset, FS_CardinalityType
<1>3. Cardinality(Below(j)) <= n - 1
  <2>1. IsFiniteSet((1..n) \ {j}) /\ Cardinality((1..n) \ {j}) = n - 1
    BY <1>1, FS_RemoveElement
  <2>2. Below(j) \subseteq (1..n) \ {j}
    BY DEF StrictOrders
  <2> HIDE DEF Below
  <2>3. Cardinality(Below(j)) <= Cardinality((1..n) \ {j})
    BY <2>1, <2>2, FS_Subset
  <2> QED
    BY <2>1, <2>3
<1>4. ASSUME NEW i \in 1..n, << i, j >> \in before
      PROVE  Cardinality(Below(i)) < Cardinality(Below(j))
  <2>1. Below(i) \subseteq Below(j)
    BY <1>4 DEF StrictOrders
  <2>2. i \in Below(j) /\ i \notin Below(i)
    BY <1>4 DEF StrictOrders
  <2>3. /\ Cardinality(Below(i)) <= Cardinality(Below(j))
        /\ Cardinality(Below(j)) = Cardinality(Below(i)) => Below(j) = Below(i)
    <3> HIDE DEF Below
    <3> QED
      BY <1>2, <2>1, FS_Subset
  <2> QED
    BY <1>2, <2>2, <2>3
<1>5. \A k \in 1..n : PlaceOf(n, before, k) = 1 + Cardinality(Below(k))
  BY DEF PlaceOf
<1> HIDE DEF Below
<1>6. PlaceOf(n, before, j) \in 1..n
  BY <1>2, <1>3, <1>5
<1>7. ASSUME NEW i \in 1..n, << i, j >> \in before
      PROVE  PlaceOf(n, before, i) < PlaceOf(n, before, j)
  BY <1>2, <1>4, <1>5, <1>7
<1> QED
  BY <1>6, <1>7

\* Every place is taken: if one were free, two would share another.
LEMMA PlacesAreTaken ==
  ASSUME NEW n \in Nat, NEW before \in StrictOrders(n), NEW m \in 1..n
  PROVE  \E j \in 1..n : PlaceOf(n, before, j) = m
<1>1. SUFFICES ASSUME \A j \in 1..n : PlaceOf(n, before, j) # m
               PROVE  FALSE
  OBVIOUS
<1> DEFINE Others == (1..n) \ {m}
           place == [j \in 1..n |-> PlaceOf(n, before, j)]
<1>2. place \in [1..n -> Others]
  BY <1>1, PlacesInOrder
<1>3. /\ IsFiniteSet(1..n) /\ IsFiniteSet(Others)
      /\ Cardinality(Others) < Cardinality(1..n)
  <2>1. IsFiniteSet(1..n) /\ Cardinality(1..n) = n
    BY FS_Interval
  <2>2. IsFiniteSet(Others) /\ Cardinality(Others) = n - 1
    BY <2>1, FS_RemoveElement
  <2> QED
    BY <2>1, <2>2
<1>4. PICK i \in 1..n, j \in 1..n : i # j /\ place[i] = place[j]
  <2> HIDE DEF Others, place
  <2> QED
    BY <1>2, <1>3, FS_PigeonHole
<1>5. << i, j >> \in before \/ << j, i >> \in before
  BY <1>4 DEF StrictOrders
<1>6. PlaceOf(n, before, i) < PlaceOf(n, before, j) \/ PlaceOf(n, before, j) < PlaceOf(n, before, i)
  BY <1>5, PlacesInOrder
<1>7. PlaceOf(n, before, i) \in 1..n /\ PlaceOf(n, before, i) = PlaceOf(n, before, j)
  BY <1>4, PlacesInOrder
<1> QED
  BY <1>6, <1>7

\* What takes the places in their order: each number once, every number, and none after one
\* that it comes before.
LEMMA PlacesSort ==
  ASSUME NEW n \in Nat, NEW before \in StrictOrders(n)
  PROVE  \E g \in [1..n -> 1..n] :
            /\ \A m \in 1..n : g[m] = CHOOSE j \in 1..n : PlaceOf(n, before, j) = m
            /\ \A l, m \in 1..n : l < m => << g[l], g[m] >> \in before
            /\ \A j \in 1..n : \E m \in 1..n : g[m] = j
<1> DEFINE g == [m \in 1..n |-> CHOOSE j \in 1..n : PlaceOf(n, before, j) = m]
<1>1. \A m \in 1..n : g[m] \in 1..n /\ PlaceOf(n, before, g[m]) = m
  BY PlacesAreTaken
<1>2. g \in [1..n -> 1..n] /\ \A m \in 1..n : g[m] = CHOOSE j \in 1..n : PlaceOf(n, before, j) = m
  BY <1>1
<1> HIDE DEF g
<1>3. ASSUME NEW l \in 1..n, NEW m \in 1..n, l < m
      PROVE  << g[l], g[m] >> \in before
  <2>1. g[l] # g[m] /\ g[l] \in 1..n /\ g[m] \in 1..n
    BY <1>1, <1>3
  <2>2. << g[m], g[l] >> \notin before
    <3>1. ASSUME << g[m], g[l] >> \in before
          PROVE  FALSE
      <4>1. PlaceOf(n, before, g[m]) < PlaceOf(n, before, g[l])
        BY <2>1, <3>1, PlacesInOrder
      <4>2. m < l
        BY <1>1, <4>1
      <4> QED
        BY <1>3, <4>2
    <3> QED
      BY <3>1
  <2> QED
    BY <2>1, <2>2 DEF StrictOrders
<1>4. ASSUME NEW j \in 1..n
      PROVE  \E m \in 1..n : g[m] = j
  <2> DEFINE m == PlaceOf(n, before, j)
  <2>1. m \in 1..n
    BY PlacesInOrder
  <2>2. g[m] \in 1..n /\ PlaceOf(n, before, g[m]) = m
    BY <1>1, <2>1
  <2>3. g[m] # j => << g[m], j >> \in before \/ << j, g[m] >> \in before
    BY <2>2 DEF StrictOrders
  <2>4. << g[m], j >> \in before => PlaceOf(n, before, g[m]) < m
    BY <2>2, PlacesInOrder
  <2>5. << j, g[m] >> \in before => m < PlaceOf(n, before, g[m])
    BY <2>2, PlacesInOrder
  <2>6. g[m] = j
    BY <2>1, <2>2, <2>3, <2>4, <2>5
  <2> QED
    BY <2>1, <2>6
<1> QED
  BY <1>2, <1>3, <1>4

\* A changed file list as the handler passes it on: every path once, and the hunks of a
\* file from top to bottom.
WellFormedFiles(fs) ==
    /\ fs \in Seq(ReviewFile)
    /\ \A i, j \in DOMAIN fs : fs[i].Path = fs[j].Path => i = j
    /\ \A i \in DOMAIN fs : \A g, h \in DOMAIN fs[i].Hunks :
           g < h => fs[i].Hunks[g].NewStart < fs[i].Hunks[h].NewStart

\* The same files in another order.
SameMembers(fs, out) ==
    /\ \A i \in DOMAIN fs : \E j \in DOMAIN out : out[j] = fs[i]
    /\ \A j \in DOMAIN out : \E i \in DOMAIN fs : out[j] = fs[i]

\* Each of the first n places gets one of what was there.
Rearranges(g, n) ==
    /\ g \in [1..n -> 1..n]
    /\ \A l, m \in 1..n : l < m => g[l] # g[m]
    /\ \A j \in 1..n : \E m \in 1..n : g[m] = j

\* The same files at other places are still well formed.
LEMMA MovedFiles ==
  ASSUME NEW fs, WellFormedFiles(fs), NEW g, Rearranges(g, Len(fs)),
         NEW out, out = [m \in 1..Len(fs) |-> fs[g[m]]]
  PROVE  WellFormedFiles(out) /\ Len(out) = Len(fs) /\ SameMembers(fs, out)
<1> USE DEF Rearranges
<1>1. /\ fs \in Seq(ReviewFile) /\ Len(fs) \in Nat /\ DOMAIN fs = 1..Len(fs)
      /\ \A i \in 1..Len(fs) : fs[i] \in ReviewFile
  BY DEF WellFormedFiles
<1>2. out \in Seq(ReviewFile) /\ Len(out) = Len(fs) /\ DOMAIN out = 1..Len(fs)
  BY <1>1
<1>3. ASSUME NEW i \in DOMAIN out, NEW j \in DOMAIN out, out[i].Path = out[j].Path
      PROVE  i = j
  <2>1. g[i] \in DOMAIN fs /\ g[j] \in DOMAIN fs /\ out[i] = fs[g[i]] /\ out[j] = fs[g[j]]
    BY <1>1, <1>2
  <2>2. g[i] = g[j]
    BY <1>3, <2>1 DEF WellFormedFiles
  <2>3. ~(i < j) /\ ~(j < i)
    BY <1>2, <2>2
  <2> QED
    BY <1>2, <2>3
<1>4. ASSUME NEW i \in DOMAIN out, NEW h \in DOMAIN out[i].Hunks, NEW k \in DOMAIN out[i].Hunks, h < k
      PROVE  out[i].Hunks[h].NewStart < out[i].Hunks[k].NewStart
  <2>1. g[i] \in DOMAIN fs /\ out[i] = fs[g[i]]
    BY <1>1, <1>2
  <2> QED
    BY <1>4, <2>1 DEF WellFormedFiles
<1>5. SameMembers(fs, out)
  <2>1. ASSUME NEW i \in DOMAIN fs
        PROVE  \E m \in DOMAIN out : out[m] = fs[i]
    <3>1. PICK m \in 1..Len(fs) : g[m] = i
      BY <1>1
    <3> QED
      BY <1>2, <3>1
  <2>2. ASSUME NEW m \in DOMAIN out
        PROVE  \E i \in DOMAIN fs : out[m] = fs[i]
    <3>1. g[m] \in DOMAIN fs /\ out[m] = fs[g[m]]
      BY <1>1, <1>2
    <3> QED
      BY <3>1
  <2> QED
    BY <2>1, <2>2 DEF SameMembers
<1> QED
  BY <1>2, <1>3, <1>4, <1>5 DEF WellFormedFiles

\* The tier of a path is a number.
LEMMA TierType == ASSUME NEW p PROVE tier(p) \in Nat
  BY DEF tier

\* A sort by tier and path keeps the files, and no file follows one of a later tier.
LEMMA SortedByTier ==
  ASSUME NEW fs, WellFormedFiles(fs)
  PROVE  LET out == Sorted(fs, TierBefore)
         IN  /\ WellFormedFiles(out) /\ Len(out) = Len(fs) /\ SameMembers(fs, out)
             /\ \A i, j \in 1..Len(fs) : i < j => tier(out[i].Path) <= tier(out[j].Path)
<1> DEFINE n == Len(fs)
           before == {p \in (1..n) \X (1..n) : TierBefore(fs[p[1]], fs[p[2]])}
           out == Sorted(fs, TierBefore)
<1>1. /\ n \in Nat /\ DOMAIN fs = 1..n
      /\ \A i \in 1..n : fs[i].Path \in Paths
      /\ \A i, j \in 1..n : fs[i].Path = fs[j].Path => i = j
  <2>1. fs \in Seq(ReviewFile)
    BY DEF WellFormedFiles
  <2>2. \A i \in 1..n : fs[i] \in ReviewFile
    BY <2>1
  <2> QED
    BY <2>1, <2>2 DEF WellFormedFiles, ReviewFile
<1>2. /\ \A p \in Paths : Rank[p] \in Nat
      /\ \A p, q \in Paths : Rank[p] = Rank[q] => p = q
  BY ReviewAssumption
<1>3. \A i, j \in 1..n : << i, j >> \in before <=>
          \/ tier(fs[i].Path) < tier(fs[j].Path)
          \/ tier(fs[i].Path) = tier(fs[j].Path) /\ Rank[fs[i].Path] < Rank[fs[j].Path]
  BY DEF TierBefore
<1>4. before \in SUBSET ((1..n) \X (1..n))
  OBVIOUS
<1>5. before \in StrictOrders(n)
  <2> HIDE DEF before, n
  <2>1. \A i \in 1..n : << i, i >> \notin before
    BY <1>1, <1>2, <1>3, TierType
  <2>2. \A i, j, k \in 1..n :
            << i, j >> \in before /\ << j, k >> \in before => << i, k >> \in before
    <3>1. TAKE i, j, k \in 1..n
    <3>2. /\ tier(fs[i].Path) \in Nat /\ tier(fs[j].Path) \in Nat /\ tier(fs[k].Path) \in Nat
          /\ Rank[fs[i].Path] \in Nat /\ Rank[fs[j].Path] \in Nat /\ Rank[fs[k].Path] \in Nat
      BY <1>1, <1>2, TierType
    <3> QED
      BY <1>3, <3>2
  <2>3. \A i, j \in 1..n : i # j => << i, j >> \in before \/ << j, i >> \in before
    <3>1. TAKE i, j \in 1..n
    <3>2. HAVE i # j
    <3>3. Rank[fs[i].Path] # Rank[fs[j].Path]
      BY <1>1, <1>2, <3>2
    <3>4. /\ tier(fs[i].Path) \in Nat /\ tier(fs[j].Path) \in Nat
          /\ Rank[fs[i].Path] \in Nat /\ Rank[fs[j].Path] \in Nat
      BY <1>1, <1>2, TierType
    <3> QED
      BY <1>3, <3>3, <3>4
  <2> QED
    BY <1>4, <2>1, <2>2, <2>3 DEF StrictOrders
<1>6. PICK g \in [1..n -> 1..n] :
         /\ \A m \in 1..n : g[m] = CHOOSE j \in 1..n : PlaceOf(n, before, j) = m
         /\ \A l, m \in 1..n : l < m => << g[l], g[m] >> \in before
         /\ \A j \in 1..n : \E m \in 1..n : g[m] = j
  <2> HIDE DEF before, n
  <2> QED
    BY <1>1, <1>5, PlacesSort
<1>7. out = [m \in 1..n |-> fs[g[m]]]
  <2>1. \A j \in 1..n : PlaceOf(n, before, j) = 1 + Cardinality({i \in 1..n : TierBefore(fs[i], fs[j])})
    <3>1. TAKE j \in 1..n
    <3>2. {i \in 1..n : << i, j >> \in before} = {i \in 1..n : TierBefore(fs[i], fs[j])}
      OBVIOUS
    <3> QED
      BY <3>2 DEF PlaceOf
  <2> DEFINE taken(m) == CHOOSE j \in 1..n : 1 + Cardinality({i \in 1..n : TierBefore(fs[i], fs[j])}) = m
  <2>2. out = [m \in 1..n |-> fs[taken(m)]]
    BY <1>1 DEF Sorted
  <2>3. \A m \in 1..n : (CHOOSE j \in 1..n : PlaceOf(n, before, j) = m) = taken(m)
    <3> HIDE DEF n, before
    <3> QED
      BY <2>1
  <2> HIDE DEF out, n, before, taken
  <2> QED
    BY <1>6, <2>2, <2>3
<1>8. /\ \A l, m \in 1..n : l < m => g[l] # g[m]
      /\ \A j \in 1..n : \E m \in 1..n : g[m] = j
  <2> HIDE DEF before, n
  <2>1. \A i \in 1..n : << i, i >> \notin before
    BY <1>5 DEF StrictOrders
  <2>2. \A l, m \in 1..n : l < m => g[l] # g[m]
    BY <1>6, <2>1
  <2> QED
    BY <1>6, <2>2
<1>9. WellFormedFiles(out) /\ Len(out) = n /\ SameMembers(fs, out)
  <2>1. Rearranges(g, n)
    BY <1>8 DEF Rearranges
  <2> HIDE DEF before, out
  <2> QED
    BY <1>7, <2>1, MovedFiles
<1>10. ASSUME NEW i \in 1..n, NEW j \in 1..n, i < j
       PROVE  tier(out[i].Path) <= tier(out[j].Path)
  <2>1. out[i] = fs[g[i]] /\ out[j] = fs[g[j]]
    <3> HIDE DEF out, n
    <3> QED
      BY <1>7
  <2>2. << g[i], g[j] >> \in before /\ g[i] \in 1..n /\ g[j] \in 1..n
    BY <1>6, <1>10
  <2> HIDE DEF before, out, n
  <2> QED
    BY <1>3, <2>1, <2>2, TierType
<1> QED
  BY <1>9, <1>10

\* A sort by path keeps the files.
LEMMA SortedByPath ==
  ASSUME NEW fs, WellFormedFiles(fs)
  PROVE  LET out == Sorted(fs, PathBefore)
         IN  WellFormedFiles(out) /\ Len(out) = Len(fs) /\ SameMembers(fs, out)
<1> DEFINE n == Len(fs)
           before == {p \in (1..n) \X (1..n) : PathBefore(fs[p[1]], fs[p[2]])}
           out == Sorted(fs, PathBefore)
<1>1. /\ n \in Nat /\ DOMAIN fs = 1..n
      /\ \A i \in 1..n : fs[i].Path \in Paths
      /\ \A i, j \in 1..n : fs[i].Path = fs[j].Path => i = j
  <2>1. fs \in Seq(ReviewFile)
    BY DEF WellFormedFiles
  <2>2. \A i \in 1..n : fs[i] \in ReviewFile
    BY <2>1
  <2> QED
    BY <2>1, <2>2 DEF WellFormedFiles, ReviewFile
<1>2. /\ \A p \in Paths : Rank[p] \in Nat
      /\ \A p, q \in Paths : Rank[p] = Rank[q] => p = q
  BY ReviewAssumption
<1>3. \A i, j \in 1..n : << i, j >> \in before <=> Rank[fs[i].Path] < Rank[fs[j].Path]
  BY DEF PathBefore
<1>4. before \in SUBSET ((1..n) \X (1..n))
  OBVIOUS
<1>5. before \in StrictOrders(n)
  <2> HIDE DEF before, n
  <2>1. \A i \in 1..n : << i, i >> \notin before
    BY <1>1, <1>2, <1>3
  <2>2. \A i, j, k \in 1..n :
            << i, j >> \in before /\ << j, k >> \in before => << i, k >> \in before
    BY <1>1, <1>2, <1>3
  <2>3. \A i, j \in 1..n : i # j => << i, j >> \in before \/ << j, i >> \in before
    BY <1>1, <1>2, <1>3
  <2> QED
    BY <1>4, <2>1, <2>2, <2>3 DEF StrictOrders
<1>6. PICK g \in [1..n -> 1..n] :
         /\ \A m \in 1..n : g[m] = CHOOSE j \in 1..n : PlaceOf(n, before, j) = m
         /\ \A l, m \in 1..n : l < m => << g[l], g[m] >> \in before
         /\ \A j \in 1..n : \E m \in 1..n : g[m] = j
  <2> HIDE DEF before, n
  <2> QED
    BY <1>1, <1>5, PlacesSort
<1>7. out = [m \in 1..n |-> fs[g[m]]]
  <2>1. \A j \in 1..n : PlaceOf(n, before, j) = 1 + Cardinality({i \in 1..n : PathBefore(fs[i], fs[j])})
    <3>1. TAKE j \in 1..n
    <3>2. {i \in 1..n : << i, j >> \in before} = {i \in 1..n : PathBefore(fs[i], fs[j])}
      OBVIOUS
    <3> QED
      BY <3>2 DEF PlaceOf
  <2> DEFINE taken(m) == CHOOSE j \in 1..n : 1 + Cardinality({i \in 1..n : PathBefore(fs[i], fs[j])}) = m
  <2>2. out = [m \in 1..n |-> fs[taken(m)]]
    BY <1>1 DEF Sorted
  <2>3. \A m \in 1..n : (CHOOSE j \in 1..n : PlaceOf(n, before, j) = m) = taken(m)
    <3> HIDE DEF n, before
    <3> QED
      BY <2>1
  <2> HIDE DEF out, n, before, taken
  <2> QED
    BY <1>6, <2>2, <2>3
<1>8. /\ \A l, m \in 1..n : l < m => g[l] # g[m]
      /\ \A j \in 1..n : \E m \in 1..n : g[m] = j
  <2> HIDE DEF before, n
  <2>1. \A i \in 1..n : << i, i >> \notin before
    BY <1>5 DEF StrictOrders
  <2>2. \A l, m \in 1..n : l < m => g[l] # g[m]
    BY <1>6, <2>1
  <2> QED
    BY <1>6, <2>2
<1> HIDE DEF before, out
<1>9. WellFormedFiles(out) /\ Len(out) = n /\ SameMembers(fs, out)
  <2>1. Rearranges(g, n)
    BY <1>8 DEF Rearranges
  <2> QED
    BY <1>7, <2>1, MovedFiles
<1> QED
  BY <1>9 DEF out
--------------------------------------------------------------------------------
(* What was fetched.                                                       *)

\* GitHub's list of changed files becomes a well-formed list of files to review
\* (ghFilesToReviewFiles).
LEMMA FetchedFiles ==
  ASSUME NEW v \in Versions
  PROVE  WellFormedFiles(ghFilesToReviewFiles(Diff[v]))
<1> DEFINE fs == Diff[v]
           out == ghFilesToReviewFiles(fs)
<1>1. /\ fs \in Seq(ghFile)
      /\ \A i, j \in DOMAIN fs : fs[i].Filename = fs[j].Filename => i = j
      /\ \A i \in DOMAIN fs : WellFormedPatch(fs[i].Patch)
  BY ReviewAssumption DEF WellFormedDiff
<1>2. /\ DOMAIN out = DOMAIN fs
      /\ \A i \in DOMAIN fs :
            out[i] = [Path       |-> fs[i].Filename,
                      ChangeKind |-> ghStatusToChangeKind(fs[i].Status),
                      Hunks      |-> parseHunks(fs[i].Patch)]
  BY DEF ghFilesToReviewFiles
<1> HIDE DEF fs, out
<1>3. ASSUME NEW i \in DOMAIN fs
      PROVE  /\ out[i] \in ReviewFile /\ out[i].Path = fs[i].Filename
             /\ \A g, h \in DOMAIN out[i].Hunks :
                    g < h => out[i].Hunks[g].NewStart < out[i].Hunks[h].NewStart
  <2>1. fs[i] \in ghFile
    BY <1>1
  <2>2. fs[i].Filename \in Paths
    BY <2>1 DEF ghFile
  <2>3. ghStatusToChangeKind(fs[i].Status) \in ChangeKinds
    BY DEF ghStatusToChangeKind, ChangeKinds
  <2>4. /\ parseHunks(fs[i].Patch) \in Seq(Hunk)
        /\ \A g, h \in DOMAIN parseHunks(fs[i].Patch) :
               g < h => parseHunks(fs[i].Patch)[g].NewStart < parseHunks(fs[i].Patch)[h].NewStart
    BY <1>1, ParsedHunks
  <2>5. /\ out[i].Path = fs[i].Filename
        /\ out[i].Hunks = parseHunks(fs[i].Patch)
        /\ out[i] \in [Path : Paths, ChangeKind : ChangeKinds, Hunks : Seq(Hunk)]
    BY <1>2, <2>2, <2>3, <2>4
  <2> QED
    BY <2>4, <2>5 DEF ReviewFile
<1>4. DOMAIN fs = 1..Len(fs) /\ Len(fs) \in Nat
  BY <1>1
<1>5. out \in Seq(ReviewFile)
  <2>1. out = [i \in 1..Len(fs) |-> out[i]]
    BY <1>2, <1>4 DEF out, ghFilesToReviewFiles
  <2> QED
    BY <1>3, <1>4, <2>1
<1>6. WellFormedFiles(out)
  BY <1>1, <1>2, <1>3, <1>5 DEF WellFormedFiles
<1> QED
  BY <1>6 DEF out, fs

\* The files go from earlier tiers to later ones.
TiersAscend(fs) == \A i, j \in DOMAIN fs : i < j => tier(fs[i].Path) <= tier(fs[j].Path)

\* Every orderer keeps the files, and the default one orders them by tier (Order).
LEMMA OrderedFiles ==
  ASSUME NEW fs, WellFormedFiles(fs), NEW name \in Orderers
  PROVE  /\ WellFormedFiles(Order(name, fs)) /\ Len(Order(name, fs)) = Len(fs)
         /\ SameMembers(fs, Order(name, fs))
         /\ name = "entry-points-first" => TiersAscend(Order(name, fs))
<1>1. CASE name = "as-fetched"
  <2>1. Order(name, fs) = fs
    BY <1>1 DEF Order
  <2>2. SameMembers(fs, fs)
    BY DEF SameMembers
  <2> QED
    BY <1>1, <2>1, <2>2
<1>2. CASE name = "alphabetical"
  <2>1. Order(name, fs) = Sorted(fs, PathBefore)
    BY <1>2 DEF Order
  <2> QED
    BY <1>2, <2>1, SortedByPath
<1>3. CASE name = "entry-points-first"
  <2> DEFINE out == Sorted(fs, TierBefore)
  <2>1. Order(name, fs) = out
    BY <1>3 DEF Order
  <2>2. /\ WellFormedFiles(out) /\ Len(out) = Len(fs) /\ SameMembers(fs, out)
        /\ \A i, j \in 1..Len(fs) : i < j => tier(out[i].Path) <= tier(out[j].Path)
    BY SortedByTier
  <2> HIDE DEF out
  <2>3. DOMAIN out = 1..Len(fs)
    <3>1. out \in Seq(ReviewFile)
      BY <2>2 DEF WellFormedFiles
    <3> QED
      BY <2>2, <3>1
  <2> QED
    BY <2>1, <2>2, <2>3 DEF TiersAscend
<1> QED
  BY <1>1, <1>2, <1>3 DEF Orderers

BeforeOrder == {"start", "parse", "fetching", "fetch pr", "fetch diff", "order"}
AfterBuild  == {"creating", "register", "ready"}

\* What is known of the request, the forge and its answers: outside of a pull request,
\* contents are asked for only at a ref that names a version.
FetchInv ==
    /\ req \in Requests
    /\ branch \in Versions /\ head \in Refs /\ diffAt \in Versions \cup {NoRef}
    /\ pc \in {"order", "context"} /\ fcKind # "pull" => At(head) \in Versions
    /\ \A p \in DOMAIN fileLines : p \in Paths /\ fileLines[p] \in Versions

\* What is known of the files: once ordered by default they go from tier to tier.
FilesInv ==
    /\ WellFormedFiles(files)
    /\ pc \in {"context", "building", "build"} \cup AfterBuild \/ ready # << >> =>
           (req.FileOrdering = "" => TiersAscend(files))

\* Where the loops over the files and their hunks are.
LoopsInv ==
    /\ fi \in 1..(Len(files) + 1) /\ hi \in Nat \ {0}
    /\ pc \in BeforeOrder \cup {"building"} => fi = 1
    /\ pc \in BeforeOrder \cup {"context", "building"} =>
           hi = 1 /\ orderedStepIDs = << >> /\ DOMAIN fileEntryStepIDs = {}
    /\ fi <= Len(files) => hi <= Len(files[fi].Hunks) + 1
    /\ pc \in AfterBuild \/ registered = TRUE => fi = Len(files) + 1

\* Files have a path and a number of hunks.
LEMMA FilesShape ==
  ASSUME NEW fs, WellFormedFiles(fs)
  PROVE  /\ fs \in Seq(ReviewFile) /\ Len(fs) \in Nat /\ DOMAIN fs = 1..Len(fs)
         /\ \A f \in 1..Len(fs) :
                /\ fs[f].Path \in Paths /\ fs[f].Hunks \in Seq(Hunk)
                /\ Len(fs[f].Hunks) \in Nat /\ DOMAIN fs[f].Hunks = 1..Len(fs[f].Hunks)
                /\ \A h \in 1..Len(fs[f].Hunks) : fs[f].Hunks[h].NewStart \in Nat
<1>1. fs \in Seq(ReviewFile) /\ Len(fs) \in Nat /\ DOMAIN fs = 1..Len(fs)
  BY DEF WellFormedFiles
<1>2. ASSUME NEW f \in 1..Len(fs)
      PROVE  /\ fs[f].Path \in Paths /\ fs[f].Hunks \in Seq(Hunk)
             /\ Len(fs[f].Hunks) \in Nat /\ DOMAIN fs[f].Hunks = 1..Len(fs[f].Hunks)
             /\ \A h \in 1..Len(fs[f].Hunks) : fs[f].Hunks[h].NewStart \in Nat
  <2>1. fs[f] \in ReviewFile
    BY <1>1
  <2>2. fs[f].Path \in Paths /\ fs[f].Hunks \in Seq(Hunk)
    BY <2>1 DEF ReviewFile
  <2>3. Len(fs[f].Hunks) \in Nat /\ DOMAIN fs[f].Hunks = 1..Len(fs[f].Hunks)
    BY <2>2
  <2>4. ASSUME NEW h \in 1..Len(fs[f].Hunks)
        PROVE  fs[f].Hunks[h].NewStart \in Nat
    <3>1. fs[f].Hunks[h] \in Hunk
      BY <2>2, <2>3
    <3> QED
      BY <3>1 DEF Hunk
  <2> QED
    BY <2>2, <2>3, <2>4
<1> QED
  BY <1>1, <1>2

\* Before the first answer there is nothing to go wrong.
LEMMA FetchInit == Init => FetchInv
<1> SUFFICES ASSUME Init PROVE FetchInv
  OBVIOUS
<1>1. 0 \in Versions /\ NoRef \in Refs
  BY ReviewAssumption DEF Versions, Refs
<1> QED
  BY <1>1 DEF Init, CallInit, FetchInv

\* A name stands for a version, the branch, or nothing.
LEMMA NamedType == ASSUME NEW name PROVE Named(name) \in Refs
  BY ReviewAssumption DEF Named, Refs

\* Every step keeps FetchInv: what the forge answers has the type its requests give it.
LEMMA FetchStep == FetchInv /\ FilesInv /\ LoopsInv /\ [Next]_vars => FetchInv'
<1> SUFFICES ASSUME FetchInv, FilesInv, LoopsInv, [Next]_vars
             PROVE  FetchInv'
  OBVIOUS
<1> USE DEF FetchInv
<1>1. req' = req /\ fcKind' = fcKind
  <2>1. req' = req
    BY DEF Next, Handler, Push, Cancel, Idle, RejectEmptyURL, SendParsing, FindContext, SendFetching,
           RequestFails, FetchPR, FetchDiff, OrderFiles, SkipDeleted, FetchFile, FetchFileFails,
           ContextDone, SendBuilding, AddHunkStep, NextFile, BuildDone, SendCreating,
           RegisterSession, SendReviewReady, vars
  <2> QED
    BY <2>1 DEF fcKind
<1> DEFINE fetched == << branch, head, diffAt, fileLines >>
           calm == UNCHANGED fetched /\ (pc' \in {"order", "context"} => pc \in {"order", "context"})
<1>2. ASSUME calm
      PROVE  FetchInv'
  <2>1. At(head)' = At(head)
    BY <1>2 DEF At
  <2> QED
    BY <1>1, <1>2, <2>1
<1>3. CASE RejectEmptyURL \/ RequestFails
  BY <1>2, <1>3 DEF RejectEmptyURL, RequestFails, Fail, Return, forgeVars
<1>4. CASE SendParsing \/ SendFetching \/ SendBuilding \/ SendCreating
  BY <1>2, <1>4 DEF SendParsing, SendFetching, SendBuilding, SendCreating, SendProgress,
                    Fail, Return, forgeVars
<1>5. CASE FindContext
  <2>1. /\ head' = head \/ head' = Named(ContextOf[req.url].HeadRef)
        /\ pc' \notin {"order", "context"} /\ UNCHANGED << branch, diffAt, fileLines >>
    BY <1>5 DEF FindContext, Fail, Return, Continue
  <2> QED
    BY <1>1, <2>1, NamedType
<1>6. CASE FetchPR
  <2>1. /\ head' \in {BranchRef, NoRef} /\ pc' = "fetch diff"
        /\ UNCHANGED << branch, diffAt, fileLines >>
    BY <1>6 DEF FetchPR, Continue
  <2> QED
    BY <1>1, <2>1 DEF Refs
<1>7. CASE FetchDiff
  <2> DEFINE v == IF fcKind = "pull" THEN branch ELSE At(head)
  <2>1. /\ v \in Versions /\ diffAt' = v /\ head' = (IF fcKind = "commit" THEN v ELSE head)
        /\ UNCHANGED << branch, fileLines >>
    BY <1>7 DEF FetchDiff
  <2>2. head' \in Refs
    BY <2>1 DEF Refs
  <2>3. fcKind # "pull" => At(head)' = v
    <3>1. CASE fcKind = "commit"
      BY <2>1, <3>1, PinnedRefStays DEF At, Versions, BranchRef
    <3>2. CASE fcKind \notin {"commit", "pull"}
      BY <2>1, <3>2 DEF At
    <3> QED
      BY <3>1, <3>2
  <2> HIDE DEF v
  <2> QED
    BY <1>1, <2>1, <2>2, <2>3
<1>8. CASE OrderFiles
  BY <1>2, <1>8 DEF OrderFiles, Fail, Return, Continue
<1>9. CASE SkipDeleted \/ FetchFileFails \/ ContextDone
  BY <1>2, <1>9 DEF SkipDeleted, FetchFileFails, ContextDone, Continue, forgeVars
<1>10. CASE FetchFile
  <2>1. /\ pc = "context" /\ fi <= Len(files) /\ UNCHANGED << branch, head, diffAt >>
        /\ \E v \in ContentAt :
               fileLines' = [p \in DOMAIN fileLines \cup {files[fi].Path} |->
                                IF p = files[fi].Path THEN v ELSE fileLines[p]]
    BY <1>10 DEF FetchFile, forgeVars
  <2>2. ContentAt \subseteq Versions
    BY <2>1 DEF ContentAt
  <2>3. files[fi].Path \in Paths
    <3>1. files \in Seq(ReviewFile) /\ fi \in 1..Len(files)
      <4>1. files \in Seq(ReviewFile) /\ Len(files) \in Nat
        <5>1. WellFormedFiles(files)
          BY DEF FilesInv
        <5> QED
          BY <5>1, FilesShape
      <4> QED
        BY <2>1, <4>1 DEF LoopsInv
    <3>2. files[fi] \in ReviewFile
      BY <3>1
    <3> QED
      BY <3>2 DEF ReviewFile
  <2>4. \A p \in DOMAIN fileLines' : p \in Paths /\ fileLines'[p] \in Versions
    BY <2>1, <2>2, <2>3
  <2>5. At(head)' = At(head)
    BY <2>1 DEF At
  <2> QED
    BY <1>1, <2>1, <2>4, <2>5
<1>11. CASE AddHunkStep \/ NextFile \/ BuildDone
  BY <1>2, <1>11 DEF AddHunkStep, NextFile, BuildDone, Continue, forgeVars
<1>12. CASE RegisterSession \/ SendReviewReady
  BY <1>2, <1>12 DEF RegisterSession, Register, SendReviewReady, SendReady, Return, forgeVars
<1>13. CASE Cancel
  BY <1>2, <1>13 DEF Cancel, CancelCall, forgeVars
<1>14. CASE Push
  <2>1. branch' = branch + 1 /\ branch < MaxVersion /\ UNCHANGED << pc, head, diffAt, fileLines >>
    BY <1>14 DEF Push, callVars, forgeVars
  <2>2. branch' \in Versions
    BY <2>1, ReviewAssumption DEF Versions
  <2>3. At(head) \in Versions => At(head)' \in Versions
    BY <2>1, <2>2 DEF At
  <2> QED
    BY <1>1, <2>1, <2>2, <2>3
<1>15. CASE UNCHANGED vars
  BY <1>2, <1>15 DEF vars, callVars, forgeVars
<1> QED
  BY <1>3, <1>4, <1>5, <1>6, <1>7, <1>8, <1>9, <1>10, <1>11, <1>12, <1>13, <1>14, <1>15
     DEF Next, Handler, Idle

\* The announcement is the last thing the handler does, and says what was registered.
ReadyInv ==
    /\ pc = "ready" => registered = TRUE
    /\ ready # << >> => pc = "returned" /\ registered = TRUE /\ ready = << ReviewReady >>

\* Nothing has been fetched or ordered when the handler starts.
LEMMA FilesInit == Init => FilesInv /\ LoopsInv /\ ReadyInv
<1> SUFFICES ASSUME Init PROVE FilesInv /\ LoopsInv /\ ReadyInv
  OBVIOUS
<1>1. /\ files = << >> /\ fi = 1 /\ hi = 1 /\ pc = "start" /\ ready = << >> /\ registered = FALSE
      /\ orderedStepIDs = << >> /\ DOMAIN fileEntryStepIDs = {}
  BY DEF Init, CallInit
<1>2. WellFormedFiles(<< >>) /\ Len(<< >>) = 0
  BY DEF WellFormedFiles
<1>3. FilesInv
  BY <1>1, <1>2 DEF FilesInv, AfterBuild
<1>4. LoopsInv
  BY <1>1, <1>2 DEF LoopsInv, BeforeOrder, AfterBuild
<1> QED
  BY <1>1, <1>3, <1>4 DEF ReadyInv

\* Every step keeps FilesInv: the files change only where they are fetched and ordered.
LEMMA FilesStep == FilesInv /\ FetchInv /\ ReadyInv /\ [Next]_vars => FilesInv'
<1> SUFFICES ASSUME FilesInv, FetchInv, ReadyInv, [Next]_vars
             PROVE  FilesInv'
  OBVIOUS
<1> DEFINE Ordered == {"context", "building", "build"} \cup AfterBuild
<1>1. ASSUME UNCHANGED << files, req >>, pc' \in Ordered => pc \in Ordered,
             ready' = ready \/ pc \in Ordered
      PROVE  FilesInv'
  BY <1>1 DEF FilesInv
<1> USE DEF AfterBuild
<1>2. CASE RejectEmptyURL \/ RequestFails
  BY <1>1, <1>2 DEF RejectEmptyURL, RequestFails, Fail, Return, forgeVars
<1>3. CASE SendParsing \/ SendFetching \/ SendBuilding \/ SendCreating
  BY <1>1, <1>3 DEF SendParsing, SendFetching, SendBuilding, SendCreating, SendProgress,
                    Fail, Return, forgeVars
<1>4. CASE FindContext \/ FetchPR
  BY <1>1, <1>4 DEF FindContext, FetchPR, Fail, Return, Continue
<1>5. CASE FetchDiff
  <2>1. PICK v \in Versions : files' = ghFilesToReviewFiles(Diff[v])
    BY <1>5 DEF FetchDiff
  <2>2. pc' = "order" /\ pc = "fetch diff" /\ ready' = ready
    BY <1>5 DEF FetchDiff, Continue
  <2>3. WellFormedFiles(files')
    BY <2>1, FetchedFiles
  <2> QED
    BY <2>2, <2>3 DEF FilesInv, ReadyInv
<1>6. CASE OrderFiles
  <2> DEFINE name == OrdererName(req.FileOrdering)
  <2>1. /\ pc = "order" /\ UNCHANGED << req, ready >>
        /\ \/ name \in Orderers /\ files' = Order(name, files)
           \/ pc' = "returned" /\ files' = files
    BY <1>6 DEF OrderFiles, Fail, Return
  <2>2. CASE name \in Orderers /\ files' = Order(name, files)
    <3>1. WellFormedFiles(files)
      BY DEF FilesInv
    <3>2. /\ WellFormedFiles(Order(name, files))
          /\ name = "entry-points-first" => TiersAscend(Order(name, files))
      <4> HIDE DEF name
      <4> QED
        BY <2>2, <3>1, OrderedFiles
    <3>3. req.FileOrdering = "" => name = "entry-points-first"
      BY DEF OrdererName
    <3>4. WellFormedFiles(files)' /\ (req.FileOrdering = "" => TiersAscend(files))'
      BY <2>1, <2>2, <3>2, <3>3
    <3> QED
      BY <3>4 DEF FilesInv
  <2>3. CASE pc' = "returned" /\ files' = files
    BY <1>1, <2>1, <2>3
  <2> QED
    BY <2>1, <2>2, <2>3
<1>7. CASE SkipDeleted \/ FetchFile \/ FetchFileFails \/ ContextDone
  BY <1>1, <1>7 DEF SkipDeleted, FetchFile, FetchFileFails, ContextDone, Continue, forgeVars
<1>8. CASE AddHunkStep \/ NextFile \/ BuildDone
  BY <1>1, <1>8 DEF AddHunkStep, NextFile, BuildDone, Continue, forgeVars
<1>9. CASE RegisterSession \/ SendReviewReady
  BY <1>1, <1>9 DEF RegisterSession, Register, SendReviewReady, SendReady, Return, forgeVars
<1>10. CASE Cancel \/ Push
  BY <1>1, <1>10 DEF Cancel, CancelCall, Push, callVars, forgeVars
<1>11. CASE UNCHANGED vars
  BY <1>1, <1>11 DEF vars, callVars, forgeVars
<1> QED
  BY <1>2, <1>3, <1>4, <1>5, <1>6, <1>7, <1>8, <1>9, <1>10, <1>11 DEF Next, Handler, Idle

\* Every step keeps LoopsInv.
LEMMA LoopsStep == LoopsInv /\ FilesInv /\ FilesInv' /\ EventsInv /\ [Next]_vars => LoopsInv'
<1> SUFFICES ASSUME LoopsInv, WellFormedFiles(files), WellFormedFiles(files'), EventsInv, [Next]_vars
             PROVE  LoopsInv'
  BY DEF FilesInv
<1> DEFINE looped == << files, fi, hi, orderedStepIDs, fileEntryStepIDs >>
<1>1. ASSUME UNCHANGED looped,
             registered' = registered \/ pc \in AfterBuild,
             pc' \in BeforeOrder \cup {"building"} => pc \in BeforeOrder \cup {"building"},
             pc' = "context" => pc \in BeforeOrder \cup {"context"},
             pc' \in AfterBuild => pc \in AfterBuild
      PROVE  LoopsInv'
  BY <1>1 DEF LoopsInv
<1>2. /\ Len(files) \in Nat
      /\ \A f \in 1..Len(files) : Len(files[f].Hunks) \in Nat
      /\ fi \in 1..(Len(files) + 1) /\ hi \in Nat \ {0}
  BY FilesShape DEF LoopsInv
<1> USE DEF BeforeOrder, AfterBuild
<1>3. CASE RejectEmptyURL \/ RequestFails
  BY <1>1, <1>3 DEF RejectEmptyURL, RequestFails, Fail, Return, forgeVars, graphVars
<1>4. CASE SendParsing \/ SendFetching \/ SendCreating
  BY <1>1, <1>4 DEF SendParsing, SendFetching, SendCreating, SendProgress,
                    Fail, Return, forgeVars, graphVars
<1>5. CASE SendBuilding
  BY <1>1, <1>5 DEF SendBuilding, SendProgress, Fail, Return, forgeVars, graphVars
<1>6. CASE FindContext \/ FetchPR
  BY <1>1, <1>6 DEF FindContext, FetchPR, Fail, Return, Continue, graphVars
<1>7. CASE FetchDiff
  <2>1. /\ pc = "fetch diff" /\ pc' = "order"
        /\ UNCHANGED << fi, hi, registered, orderedStepIDs, fileEntryStepIDs >>
    BY <1>7 DEF FetchDiff, Continue, graphVars
  <2>2. /\ fi = 1 /\ hi = 1 /\ orderedStepIDs = << >> /\ DOMAIN fileEntryStepIDs = {} /\ registered = FALSE
    BY <2>1 DEF LoopsInv, EventsInv
  <2>3. /\ fi' \in 1..(Len(files') + 1) /\ hi' \in Nat \ {0}
        /\ fi' <= Len(files') => hi' <= Len(files'[fi'].Hunks) + 1
    <3>1. Len(files') \in Nat /\ \A f \in 1..Len(files') : Len(files'[f].Hunks) \in Nat
      BY FilesShape
    <3>2. fi' = 1 /\ hi' = 1
      BY <2>1, <2>2
    <3>3. 1 \in 1..(Len(files') + 1)
      BY <3>1
    <3>4. 1 <= Len(files') => 1 <= Len(files'[1].Hunks) + 1
      BY <3>1
    <3> QED
      BY <3>2, <3>3, <3>4
  <2> QED
    BY <2>1, <2>2, <2>3 DEF LoopsInv
<1>8. CASE OrderFiles
  <2>1. /\ pc = "order" /\ UNCHANGED << fi, hi, registered, orderedStepIDs, fileEntryStepIDs >>
        /\ pc' \in {"context", "building", "returned"}
    BY <1>8 DEF OrderFiles, Fail, Return, Continue, graphVars
  <2>2. /\ fi = 1 /\ hi = 1 /\ orderedStepIDs = << >> /\ DOMAIN fileEntryStepIDs = {} /\ registered = FALSE
    BY <2>1 DEF LoopsInv, EventsInv
  <2>3. /\ fi' \in 1..(Len(files') + 1) /\ hi' \in Nat \ {0}
        /\ fi' <= Len(files') => hi' <= Len(files'[fi'].Hunks) + 1
    <3>1. Len(files') \in Nat /\ \A f \in 1..Len(files') : Len(files'[f].Hunks) \in Nat
      BY FilesShape
    <3>2. fi' = 1 /\ hi' = 1
      BY <2>1, <2>2
    <3>3. 1 \in 1..(Len(files') + 1)
      BY <3>1
    <3>4. 1 <= Len(files') => 1 <= Len(files'[1].Hunks) + 1
      BY <3>1
    <3> QED
      BY <3>2, <3>3, <3>4
  <2> QED
    BY <2>1, <2>2, <2>3 DEF LoopsInv
<1>9. CASE SkipDeleted \/ FetchFile \/ FetchFileFails
  <2>1. /\ pc = "context" /\ pc' = "context" /\ fi <= Len(files) /\ fi' = fi + 1
        /\ UNCHANGED << files, hi, registered, orderedStepIDs, fileEntryStepIDs >>
    BY <1>9 DEF SkipDeleted, FetchFile, FetchFileFails, Continue, forgeVars, graphVars
  <2>2. hi = 1 /\ orderedStepIDs = << >> /\ DOMAIN fileEntryStepIDs = {} /\ registered = FALSE
    BY <2>1 DEF LoopsInv, EventsInv
  <2>3. fi' \in 1..(Len(files) + 1) /\ (fi' <= Len(files) => 1 <= Len(files[fi'].Hunks) + 1)
    BY <1>2, <2>1
  <2> QED
    BY <2>1, <2>2, <2>3 DEF LoopsInv
<1>10. CASE ContextDone
  <2>1. /\ pc = "context" /\ pc' = "building" /\ fi' = 1
        /\ UNCHANGED << files, hi, registered, orderedStepIDs, fileEntryStepIDs >>
    BY <1>10 DEF ContextDone, Continue, forgeVars, graphVars
  <2>2. hi = 1 /\ orderedStepIDs = << >> /\ DOMAIN fileEntryStepIDs = {} /\ registered = FALSE
    BY <2>1 DEF LoopsInv, EventsInv
  <2>3. 1 \in 1..(Len(files) + 1) /\ (1 <= Len(files) => 1 <= Len(files[1].Hunks) + 1)
    BY <1>2
  <2> QED
    BY <2>1, <2>2, <2>3 DEF LoopsInv
<1>11. CASE AddHunkStep
  <2>1. /\ pc = "build" /\ pc' = "build" /\ fi <= Len(files) /\ hi <= Len(files[fi].Hunks)
        /\ hi' = hi + 1 /\ UNCHANGED << files, fi, registered >>
    BY <1>11 DEF AddHunkStep, Continue, forgeVars
  <2>2. registered = FALSE
    BY <2>1 DEF EventsInv
  <2>3. hi' \in Nat \ {0} /\ hi' <= Len(files[fi].Hunks) + 1
    BY <1>2, <2>1
  <2> QED
    BY <1>2, <2>1, <2>2, <2>3 DEF LoopsInv
<1>12. CASE NextFile
  <2>1. /\ pc = "build" /\ pc' = "build" /\ fi <= Len(files) /\ fi' = fi + 1 /\ hi' = 1
        /\ UNCHANGED << files, registered >>
    BY <1>12 DEF NextFile, Continue, forgeVars
  <2>2. registered = FALSE
    BY <2>1 DEF EventsInv
  <2>3. fi' \in 1..(Len(files) + 1) /\ (fi' <= Len(files) => 1 <= Len(files[fi'].Hunks) + 1)
    BY <1>2, <2>1
  <2> QED
    BY <2>1, <2>2, <2>3 DEF LoopsInv
<1>13. CASE BuildDone
  <2>1. /\ pc = "build" /\ pc' = "creating" /\ fi > Len(files)
        /\ UNCHANGED << files, fi, hi, registered >>
    BY <1>13 DEF BuildDone, Continue, forgeVars
  <2>2. fi = Len(files) + 1
    BY <1>2, <2>1
  <2> QED
    BY <1>2, <2>1, <2>2 DEF LoopsInv
<1>14. CASE RegisterSession \/ SendReviewReady
  BY <1>1, <1>14 DEF RegisterSession, Register, SendReviewReady, SendReady, Return, forgeVars, graphVars
<1>15. CASE Cancel \/ Push
  BY <1>1, <1>15 DEF Cancel, CancelCall, Push, callVars, forgeVars, graphVars
<1>16. CASE UNCHANGED vars
  BY <1>1, <1>16 DEF vars, callVars, forgeVars, graphVars
<1> QED
  BY <1>3, <1>4, <1>5, <1>6, <1>7, <1>8, <1>9, <1>10, <1>11, <1>12, <1>13, <1>14, <1>15, <1>16
     DEF Next, Handler, Idle

\* Every step keeps ReadyInv: after the announcement there is none but Idle.
LEMMA ReadyStep == ReadyInv /\ [Next]_vars => ReadyInv'
<1> SUFFICES ASSUME ReadyInv, [Next]_vars
             PROVE  ReadyInv'
  OBVIOUS
<1>1. CASE UNCHANGED vars
  <2>1. UNCHANGED << pc, registered, ready >> /\ ReviewReady' = ReviewReady
    BY <1>1 DEF vars, callVars, forgeVars, graphVars, ReviewReady, protoReviewSteps
  <2> QED
    BY <2>1 DEF ReadyInv
<1>2. CASE SendReviewReady
  <2>1. /\ pc = "ready" /\ pc' = "returned" /\ registered' = registered
        /\ ready' = (IF ctxDone THEN << >> ELSE << ReviewReady >>)
    BY <1>2 DEF SendReviewReady, SendReady, Return
  <2>2. ReviewReady' = ReviewReady
    BY <1>2 DEF SendReviewReady, forgeVars, graphVars, ReviewReady, protoReviewSteps
  <2> HIDE DEF ReviewReady
  <2> QED
    BY <2>1, <2>2 DEF ReadyInv
<1>3. ASSUME pc # "returned", ready' = ready, pc' = "ready" => pc = "ready", registered' = registered
      PROVE  ReadyInv'
  BY <1>3 DEF ReadyInv
<1>4. CASE RegisterSession
  <2>1. /\ pc = "register" /\ ready' = ready /\ registered' = TRUE
    BY <1>4 DEF RegisterSession, Register
  <2> QED
    BY <2>1 DEF ReadyInv
<1>5. CASE RejectEmptyURL \/ RequestFails
  BY <1>3, <1>5 DEF RejectEmptyURL, RequestFails, Fail, Return
<1>6. CASE SendParsing \/ SendFetching \/ SendBuilding \/ SendCreating
  BY <1>3, <1>6 DEF SendParsing, SendFetching, SendBuilding, SendCreating, SendProgress, Fail, Return
<1>7. CASE FindContext \/ FetchPR \/ FetchDiff \/ OrderFiles
  BY <1>3, <1>7 DEF FindContext, FetchPR, FetchDiff, OrderFiles, Fail, Return, Continue
<1>8. CASE SkipDeleted \/ FetchFile \/ FetchFileFails \/ ContextDone
  BY <1>3, <1>8 DEF SkipDeleted, FetchFile, FetchFileFails, ContextDone, Continue
<1>9. CASE AddHunkStep \/ NextFile \/ BuildDone
  BY <1>3, <1>9 DEF AddHunkStep, NextFile, BuildDone, Continue
<1>10. CASE Cancel \/ Push
  BY <1>3, <1>10 DEF Cancel, CancelCall, Push, callVars
<1> QED
  BY <1>1, <1>2, <1>4, <1>5, <1>6, <1>7, <1>8, <1>9, <1>10 DEF Next, Handler, Idle

--------------------------------------------------------------------------------
(* The graph.                                                              *)

\* What buildHunkGraph links steps with.
Links == [target : Paths \X Nat, label : {"NEXT"}, navigable : BOOLEAN]

\* The steps form one chain in the order they were added: each has the one edge to the
\* next, the last has none, and the entry is the first (buildHunkGraph).
ChainInv ==
    LET S == orderedStepIDs
    IN  /\ S \in Seq(Paths \X Nat)
        /\ steps = {S[i] : i \in 1..Len(S)}
        /\ \A i, j \in 1..Len(S) : S[i] = S[j] => i = j
        /\ edges \in [steps -> Seq(Links)] /\ DOMAIN spans = steps
        /\ \A i \in 1..Len(S) :
               edges[S[i]] = IF i = Len(S) THEN << >> ELSE << NextEdge(S[i + 1]) >>
        /\ entryID = IF S = << >> THEN NoID ELSE S[1]
        /\ prevStep = IF S = << >> THEN NoID ELSE S[Len(S)]

\* The loops have dealt with this hunk.
Reached(f, h) == f < fi \/ (f = fi /\ h < hi)

\* Every step is that of a hunk the loops have dealt with, and the steps are in the order
\* of the files.
PlaceInv ==
    /\ \A k \in 1..Len(orderedStepIDs) :
           \E f \in 1..Len(files) : \E h \in 1..Len(files[f].Hunks) :
               Reached(f, h) /\ orderedStepIDs[k] = StepID(files[f], files[f].Hunks[h])
    /\ \A j, k \in 1..Len(orderedStepIDs) : \A f, g \in 1..Len(files) :
           j < k /\ files[f].Path = orderedStepIDs[j][1] /\ files[g].Path = orderedStepIDs[k][1]
               => f <= g

\* The positions of the steps of a path, and how many hunks of a file have their step.
StepsOf(p) == {k \in 1..Len(orderedStepIDs) : orderedStepIDs[k][1] = p}
Done(f)    == IF f < fi THEN Len(files[f].Hunks) ELSE IF f = fi THEN hi - 1 ELSE 0

\* The steps of a file stand together, the first of them is the file's entry, and those of
\* the file the loop is at come last.
EntriesInv ==
    pc # "context" =>
        \A f \in 1..Len(files) :
            LET p == files[f].Path
            IN  IF Done(f) = 0
                THEN StepsOf(p) = {} /\ p \notin DOMAIN fileEntryStepIDs
                ELSE \E k \in 1..Len(orderedStepIDs) :
                        /\ StepsOf(p) = k..(k + Done(f) - 1)
                        /\ p \in DOMAIN fileEntryStepIDs
                        /\ fileEntryStepIDs[p] = orderedStepIDs[k]
                        /\ f = fi => k + Done(f) - 1 = Len(orderedStepIDs)

\* There is no graph yet when the handler starts.
LEMMA GraphInit == Init => ChainInv /\ PlaceInv /\ EntriesInv
<1> SUFFICES ASSUME Init PROVE ChainInv /\ PlaceInv /\ EntriesInv
  OBVIOUS
<1>1. /\ files = << >> /\ orderedStepIDs = << >> /\ steps = {} /\ entryID = NoID /\ prevStep = NoID
      /\ edges \in [{} -> Seq(Links)] /\ DOMAIN spans = {}
  BY DEF Init
<1>2. Len(orderedStepIDs) = 0 /\ Len(files) = 0 /\ orderedStepIDs \in Seq(Paths \X Nat)
  BY <1>1
<1>3. ChainInv
  BY <1>1, <1>2 DEF ChainInv
<1>4. PlaceInv
  BY <1>2 DEF PlaceInv
<1>5. EntriesInv
  BY <1>2 DEF EntriesInv
<1> QED
  BY <1>3, <1>4, <1>5

\* Appending to the chain.
LEMMA AppendFacts ==
  ASSUME NEW T, NEW s \in Seq(T), NEW x \in T
  PROVE  /\ Append(s, x) \in Seq(T)
         /\ Len(s) \in Nat /\ Len(Append(s, x)) = Len(s) + 1
         /\ \A k \in 1..Len(s) : Append(s, x)[k] = s[k]
         /\ Append(s, x)[Len(s) + 1] = x
         /\ Append(s, x) # << >>
  OBVIOUS

\* The step of the next hunk is new: no other file has its path, and the earlier hunks of its
\* file start further up.
LEMMA HunkIsNew ==
  ASSUME WellFormedFiles(files), PlaceInv, fi \in 1..Len(files), hi \in 1..Len(files[fi].Hunks)
  PROVE  /\ StepID(files[fi], files[fi].Hunks[hi]) \in Paths \X Nat
         /\ \A k \in 1..Len(orderedStepIDs) :
                orderedStepIDs[k] # StepID(files[fi], files[fi].Hunks[hi])
<1> DEFINE id == StepID(files[fi], files[fi].Hunks[hi])
<1>1. id = << files[fi].Path, files[fi].Hunks[hi].NewStart >>
  BY DEF StepID
<1>2. files[fi].Path \in Paths /\ files[fi].Hunks[hi].NewStart \in Nat
  BY FilesShape
<1>3. ASSUME NEW k \in 1..Len(orderedStepIDs), orderedStepIDs[k] = id
      PROVE  FALSE
  <2>1. PICK f \in 1..Len(files) : \E h \in 1..Len(files[f].Hunks) :
               Reached(f, h) /\ orderedStepIDs[k] = StepID(files[f], files[f].Hunks[h])
    BY DEF PlaceInv
  <2>2. PICK h \in 1..Len(files[f].Hunks) :
               Reached(f, h) /\ orderedStepIDs[k] = StepID(files[f], files[f].Hunks[h])
    BY <2>1
  <2>3. << files[f].Path, files[f].Hunks[h].NewStart >> = << files[fi].Path, files[fi].Hunks[hi].NewStart >>
    BY <1>1, <1>3, <2>2 DEF StepID
  <2>4. files[f].Path = files[fi].Path /\ files[f].Hunks[h].NewStart = files[fi].Hunks[hi].NewStart
    BY <2>3
  <2>5. f = fi
    BY <2>4, FilesShape DEF WellFormedFiles
  <2>6. h < hi
    BY <2>2, <2>5 DEF Reached
  <2>7. files[fi].Hunks[h].NewStart < files[fi].Hunks[hi].NewStart
    <3>1. fi \in DOMAIN files /\ h \in DOMAIN files[fi].Hunks /\ hi \in DOMAIN files[fi].Hunks
      BY <2>5, FilesShape
    <3> QED
      BY <2>6, <3>1 DEF WellFormedFiles
  <2> QED
    BY <1>2, <2>4, <2>5, <2>7
<1> QED
  BY <1>1, <1>2, <1>3

\* Only buildHunkGraph adds to the graph; the files and the place in them change otherwise only
\* while there is no graph.
LEMMA GraphMoves ==
  ASSUME LoopsInv, [Next]_vars
  PROVE  \/ AddHunkStep
         \/ NextFile
         \/ UNCHANGED << files, fi, hi, graphVars >> /\ (pc' # "context" => pc # "context")
         \/ /\ UNCHANGED graphVars
            /\ orderedStepIDs = << >> /\ DOMAIN fileEntryStepIDs = {}
            /\ pc' # "context" => fi' = 1 /\ hi' = 1
<1> DEFINE still == UNCHANGED << files, fi, hi, graphVars >> /\ (pc' # "context" => pc # "context")
           early == /\ UNCHANGED graphVars
                    /\ orderedStepIDs = << >> /\ DOMAIN fileEntryStepIDs = {}
                    /\ pc' # "context" => fi' = 1 /\ hi' = 1
<1>1. CASE RejectEmptyURL \/ RequestFails
  <2>1. still
    BY <1>1 DEF RejectEmptyURL, RequestFails, Fail, Return, forgeVars
  <2> QED
    BY <2>1
<1>2. CASE SendParsing \/ SendFetching \/ SendBuilding \/ SendCreating
  <2>1. still
    BY <1>2 DEF SendParsing, SendFetching, SendBuilding, SendCreating, SendProgress, Fail, Return, forgeVars
  <2> QED
    BY <2>1
<1>3. CASE FindContext \/ FetchPR \/ BuildDone
  <2>1. still
    BY <1>3 DEF FindContext, FetchPR, BuildDone, Fail, Return, Continue, forgeVars
  <2> QED
    BY <2>1
<1>4. CASE FetchDiff
  <2>1. pc = "fetch diff" /\ UNCHANGED << fi, hi, graphVars >>
    BY <1>4 DEF FetchDiff
  <2>2. early
    BY <2>1 DEF LoopsInv, BeforeOrder
  <2> QED
    BY <2>2
<1>5. CASE OrderFiles
  <2>1. pc = "order" /\ UNCHANGED << fi, hi, graphVars >>
    BY <1>5 DEF OrderFiles
  <2>2. early
    BY <2>1 DEF LoopsInv, BeforeOrder
  <2> QED
    BY <2>2
<1>6. CASE SkipDeleted \/ FetchFile \/ FetchFileFails
  <2>1. pc = "context" /\ pc' = "context" /\ UNCHANGED graphVars
    BY <1>6 DEF SkipDeleted, FetchFile, FetchFileFails, Continue
  <2>2. early
    BY <2>1 DEF LoopsInv
  <2> QED
    BY <2>2
<1>7. CASE ContextDone
  <2>1. pc = "context" /\ fi' = 1 /\ UNCHANGED << hi, graphVars >>
    BY <1>7 DEF ContextDone
  <2>2. early
    BY <2>1 DEF LoopsInv
  <2> QED
    BY <2>2
<1>8. CASE RegisterSession \/ SendReviewReady
  <2>1. still
    BY <1>8 DEF RegisterSession, Register, SendReviewReady, SendReady, Return, forgeVars
  <2> QED
    BY <2>1
<1>9. CASE Cancel \/ Push \/ UNCHANGED vars
  <2>1. still
    BY <1>9 DEF Cancel, CancelCall, Push, vars, callVars, forgeVars
  <2> QED
    BY <2>1
<1> QED
  BY <1>1, <1>2, <1>3, <1>4, <1>5, <1>6, <1>7, <1>8, <1>9 DEF Next, Handler, Idle

\* What a round of buildHunkGraph adds.
LEMMA HunkAdded ==
  ASSUME AddHunkStep, LoopsInv, FilesInv, PlaceInv, ChainInv
  PROVE  LET id == StepID(files[fi], files[fi].Hunks[hi])
             S  == orderedStepIDs
             n  == Len(orderedStepIDs)
         IN  /\ fi \in 1..Len(files) /\ hi \in 1..Len(files[fi].Hunks)
             /\ UNCHANGED << files, fi >> /\ hi' = hi + 1
             /\ pc = "build" /\ pc' = "build"
             /\ id \in Paths \X Nat /\ \A k \in 1..n : S[k] # id
             /\ S \in Seq(Paths \X Nat) /\ n \in Nat
             /\ S' \in Seq(Paths \X Nat) /\ Len(S') = n + 1
             /\ \A k \in 1..n : S'[k] = S[k]
             /\ S'[n + 1] = id /\ S' # << >>
<1> DEFINE id == StepID(files[fi], files[fi].Hunks[hi])
<1>1. /\ pc = "build" /\ pc' = "build" /\ fi <= Len(files) /\ hi <= Len(files[fi].Hunks)
      /\ hi' = hi + 1 /\ UNCHANGED << files, fi >>
      /\ orderedStepIDs' = Append(orderedStepIDs, id)
  BY DEF AddHunkStep, Continue, forgeVars
<1>2. WellFormedFiles(files)
  BY DEF FilesInv
<1>3. Len(files) \in Nat /\ \A f \in 1..Len(files) : Len(files[f].Hunks) \in Nat
  BY <1>2, FilesShape
<1>4. fi \in 1..Len(files)
  BY <1>1, <1>3 DEF LoopsInv
<1>5. hi \in 1..Len(files[fi].Hunks)
  BY <1>1, <1>3, <1>4 DEF LoopsInv
<1>6. id \in Paths \X Nat /\ \A k \in 1..Len(orderedStepIDs) : orderedStepIDs[k] # id
  BY <1>2, <1>4, <1>5, HunkIsNew
<1>7. orderedStepIDs \in Seq(Paths \X Nat)
  BY DEF ChainInv
<1> HIDE DEF id
<1>8. /\ orderedStepIDs' \in Seq(Paths \X Nat) /\ Len(orderedStepIDs) \in Nat
      /\ Len(orderedStepIDs') = Len(orderedStepIDs) + 1
      /\ \A k \in 1..Len(orderedStepIDs) : orderedStepIDs'[k] = orderedStepIDs[k]
      /\ orderedStepIDs'[Len(orderedStepIDs) + 1] = id /\ orderedStepIDs' # << >>
  BY <1>1, <1>6, <1>7, AppendFacts
<1> QED
  BY <1>1, <1>4, <1>5, <1>6, <1>7, <1>8 DEF id

\* The chain grows at its end.
LEMMA ChainGrows ==
  ASSUME AddHunkStep, LoopsInv, FilesInv, PlaceInv, ChainInv
  PROVE  ChainInv'
<1> DEFINE id == StepID(files[fi], files[fi].Hunks[hi])
           S  == orderedStepIDs
           T  == orderedStepIDs'
           n  == Len(orderedStepIDs)
<1>1. /\ id \in Paths \X Nat /\ \A k \in 1..n : S[k] # id
      /\ S \in Seq(Paths \X Nat) /\ n \in Nat
      /\ T \in Seq(Paths \X Nat) /\ Len(T) = n + 1
      /\ \A k \in 1..n : T[k] = S[k]
      /\ T[n + 1] = id /\ T # << >>
  BY HunkAdded
<1>2. /\ steps' = steps \cup {id}
      /\ edges' = EdgesWith(id)
      /\ DOMAIN spans' = steps \cup {id}
      /\ entryID' = EntryWith(id)
      /\ prevStep' = id
  BY DEF AddHunkStep, StepsWith
<1>3. /\ steps = {S[i] : i \in 1..n}
      /\ \A i, j \in 1..n : S[i] = S[j] => i = j
      /\ \A i \in 1..n : edges[S[i]] = IF i = n THEN << >> ELSE << NextEdge(S[i + 1]) >>
      /\ entryID = IF S = << >> THEN NoID ELSE S[1]
      /\ prevStep = IF S = << >> THEN NoID ELSE S[n]
  BY DEF ChainInv
<1>4. S # << >> <=> n # 0
  BY <1>1, EmptySeq
<1>new. id # prevStep
  <2>1. CASE S = << >>
    BY <1>1, <1>3, <2>1, ReviewAssumption
  <2>2. CASE S # << >>
    <3>1. n \in 1..n
      BY <1>1, <1>4, <2>2
    <3> QED
      BY <1>1, <1>3, <2>2, <3>1
  <2> QED
    BY <2>1, <2>2
<1>5. edges' \in [steps' -> Seq(Links)]
  <2>1. edges \in [steps -> Seq(Links)]
    BY DEF ChainInv
  <2>2. NextEdge(id) \in Links
    BY <1>1 DEF NextEdge, Links
  <2> HIDE DEF id
  <2>3. \A s \in steps : edges[s] \in Seq(Links) /\ Append(edges[s], NextEdge(id)) \in Seq(Links)
    BY <2>1, <2>2
  <2>4. << >> \in Seq(Links)
    OBVIOUS
  <2>5. ASSUME NEW s \in steps \cup {id}
        PROVE  (CASE s = id       -> << >>
                  [] s = prevStep -> Append(edges[s], NextEdge(id))
                  [] OTHER        -> edges[s]) \in Seq(Links)
    <3>1. CASE s = id
      BY <1>new, <2>4, <3>1
    <3>2. CASE s # id
      BY <2>3, <3>2
    <3> QED
      BY <3>1, <3>2
  <2> QED
    BY <1>2, <2>5 DEF EdgesWith
<1>6. /\ edges'[id] = << >>
      /\ \A s \in steps : s # id =>
             edges'[s] = IF s = prevStep THEN Append(edges[s], NextEdge(id)) ELSE edges[s]
  <2>1. edges'[id] = << >>
    <3>1. id \in steps \cup {id}
      OBVIOUS
    <3>2. edges'[id] = CASE id = id       -> << >>
                         [] id = prevStep -> Append(edges[id], NextEdge(id))
                         [] OTHER         -> edges[id]
      BY <1>2, <3>1 DEF EdgesWith
    <3> QED
      BY <1>new, <3>2
  <2>2. ASSUME NEW s \in steps, s # id
        PROVE  edges'[s] = IF s = prevStep THEN Append(edges[s], NextEdge(id)) ELSE edges[s]
    <3>1. s \in steps \cup {id}
      OBVIOUS
    <3>2. edges'[s] = CASE s = id       -> << >>
                        [] s = prevStep -> Append(edges[s], NextEdge(id))
                        [] OTHER        -> edges[s]
      BY <1>2, <3>1 DEF EdgesWith
    <3> QED
      BY <2>2, <3>2
  <2> QED
    BY <2>1, <2>2
<1> HIDE DEF id, T, S, n
<1>7. steps' = {T[i] : i \in 1..(n + 1)}
  <2>1. \A x \in steps' : \E i \in 1..(n + 1) : x = T[i]
    <3>1. TAKE x \in steps'
    <3>2. CASE x = id
      <4>1. n + 1 \in 1..(n + 1)
        BY <1>1
      <4> QED
        BY <1>1, <3>2, <4>1
    <3>3. CASE x \in steps
      <4>1. PICK i \in 1..n : x = S[i]
        BY <1>3, <3>3
      <4>2. i \in 1..(n + 1) /\ T[i] = x
        BY <1>1, <4>1
      <4> QED
        BY <4>2
    <3> QED
      BY <1>2, <3>2, <3>3
  <2>2. \A i \in 1..(n + 1) : T[i] \in steps'
    <3>1. TAKE i \in 1..(n + 1)
    <3>2. CASE i = n + 1
      BY <1>1, <1>2, <3>2
    <3>3. CASE i \in 1..n
      BY <1>1, <1>2, <1>3, <3>3
    <3> QED
      BY <1>1, <3>2, <3>3
  <2> QED
    BY <2>1, <2>2
<1>8. \A i, j \in 1..(n + 1) : T[i] = T[j] => i = j
  <2>1. TAKE i, j \in 1..(n + 1)
  <2>2. CASE i \in 1..n /\ j \in 1..n
    BY <1>1, <1>3, <2>2
  <2>3. CASE i = n + 1 /\ j \in 1..n
    BY <1>1, <2>3
  <2>4. CASE i \in 1..n /\ j = n + 1
    BY <1>1, <2>4
  <2> QED
    BY <1>1, <2>2, <2>3, <2>4
<1>9. ASSUME NEW i \in 1..(n + 1)
      PROVE  edges'[T[i]] = IF i = n + 1 THEN << >> ELSE << NextEdge(T[i + 1]) >>
  <2>1. CASE i = n + 1
    <3>1. T[i] = id
      BY <1>1, <2>1
    <3> QED
      BY <1>6, <2>1, <3>1
  <2>2. CASE i = n
    <3>1. i \in 1..n /\ n # 0 /\ i + 1 = n + 1 /\ i # n + 1
      BY <1>1, <2>2
    <3>2. T[i] = S[n] /\ T[i + 1] = id /\ S[n] # id /\ S[n] \in steps /\ prevStep = S[n]
      BY <1>1, <1>3, <1>4, <2>2, <3>1
    <3>3. edges[S[n]] = << >>
      BY <1>3, <2>2, <3>1
    <3>4. edges'[S[n]] = Append(<< >>, NextEdge(id))
      BY <1>6, <3>2, <3>3
    <3>5. Append(<< >>, NextEdge(id)) = << NextEdge(id) >>
      OBVIOUS
    <3> QED
      BY <3>1, <3>2, <3>4, <3>5
  <2>3. CASE i < n
    <3>1. i \in 1..n /\ i + 1 \in 1..n /\ i # n + 1 /\ n \in 1..n
      BY <1>1, <2>3
    <3>2. /\ T[i] = S[i] /\ T[i + 1] = S[i + 1] /\ S[i] # id /\ S[i] \in steps
          /\ prevStep = S[n] /\ S[i] # S[n]
      <4>1. T[i] = S[i] /\ T[i + 1] = S[i + 1]
        BY <1>1, <3>1
      <4>2. S[i] # id /\ S[i] \in steps
        <5>1. S[i] \in steps
          BY <1>3, <3>1
        <5> QED
          BY <1>1, <3>1, <5>1
      <4>3. prevStep = S[n]
        BY <1>1, <1>3, <1>4, <3>1
      <4>4. i # n
        BY <1>1, <2>3
      <4>5. S[i] # S[n]
        BY <1>3, <3>1, <4>4
      <4> QED
        BY <4>1, <4>2, <4>3, <4>5
    <3>3. edges[S[i]] = << NextEdge(S[i + 1]) >>
      <4>1. i # n
        BY <1>1, <2>3
      <4> QED
        BY <1>3, <3>1, <4>1
    <3>4. edges'[S[i]] = edges[S[i]]
      BY <1>6, <3>2
    <3> QED
      BY <3>1, <3>2, <3>3, <3>4
  <2> QED
    BY <1>1, <2>1, <2>2, <2>3
<1>10. entryID' = T[1]
  <2>1. CASE n = 0
    <3>1. entryID' = id
      BY <1>2, <1>3, <1>4, <2>1 DEF EntryWith
    <3> QED
      BY <1>1, <2>1, <3>1
  <2>2. CASE n # 0
    <3>1. 1 \in 1..n
      BY <1>1, <2>2
    <3>2. entryID = S[1]
      BY <1>3, <1>4, <2>2
    <3>3. S[1] \in Paths \X Nat
      BY <1>1, <3>1, ElementOfSeq DEF n
    <3>4. entryID # NoID
      BY <3>2, <3>3, ReviewAssumption
    <3>5. entryID' = entryID
      BY <1>2, <3>4 DEF EntryWith
    <3> QED
      BY <1>1, <3>1, <3>2, <3>5
  <2> QED
    BY <2>1, <2>2
<1>11. prevStep' = T[n + 1]
  BY <1>1, <1>2
<1> QED
  BY <1>1, <1>2, <1>5, <1>7, <1>8, <1>9, <1>10, <1>11 DEF ChainInv, T

\* Every step keeps ChainInv.
LEMMA ChainStep == ChainInv /\ PlaceInv /\ FilesInv /\ LoopsInv /\ [Next]_vars => ChainInv'
<1> SUFFICES ASSUME ChainInv, PlaceInv, FilesInv, LoopsInv, [Next]_vars
             PROVE  ChainInv'
  OBVIOUS
<1>1. CASE UNCHANGED graphVars
  BY <1>1 DEF graphVars, ChainInv
<1>2. CASE NextFile
  BY <1>1, <1>2 DEF NextFile
<1> QED
  BY <1>1, <1>2, GraphMoves, ChainGrows

\* The places of the steps grow with the chain.
LEMMA PlacesGrow ==
  ASSUME AddHunkStep, LoopsInv, FilesInv, PlaceInv, ChainInv
  PROVE  PlaceInv'
<1> DEFINE id == StepID(files[fi], files[fi].Hunks[hi])
           S  == orderedStepIDs
           T  == orderedStepIDs'
           n  == Len(orderedStepIDs)
<1>1. /\ fi \in 1..Len(files) /\ hi \in 1..Len(files[fi].Hunks)
      /\ UNCHANGED << files, fi >> /\ hi' = hi + 1
      /\ n \in Nat /\ Len(T) = n + 1
      /\ \A k \in 1..n : T[k] = S[k]
      /\ T[n + 1] = id
  BY HunkAdded
<1>2. WellFormedFiles(files) /\ Len(files) \in Nat
  BY FilesShape DEF FilesInv
<1>3. \A f, g \in 1..Len(files) : files[f].Path = files[g].Path => f = g
  BY <1>2, FilesShape DEF WellFormedFiles
<1>4. id = << files[fi].Path, files[fi].Hunks[hi].NewStart >>
  BY DEF StepID
<1>5. \A k \in 1..n : \E f \in 1..Len(files) : \E h \in 1..Len(files[f].Hunks) :
          Reached(f, h) /\ S[k] = StepID(files[f], files[f].Hunks[h])
  BY DEF PlaceInv
<1>6. \A j, k \in 1..n : \A f, g \in 1..Len(files) :
          j < k /\ files[f].Path = S[j][1] /\ files[g].Path = S[k][1] => f <= g
  BY DEF PlaceInv
<1>7. \A f \in 1..Len(files) : \A h \in 1..Len(files[f].Hunks) : Reached(f, h) => Reached(f, h)'
  <2>1. TAKE f \in 1..Len(files)
  <2>2. TAKE h \in 1..Len(files[f].Hunks)
  <2>3. hi \in Nat /\ Len(files[f].Hunks) \in Nat
    BY <1>2, FilesShape DEF LoopsInv
  <2> QED
    BY <1>1, <2>3 DEF Reached
<1>8. /\ fi \in 1..Len(files) /\ hi \in 1..Len(files[fi].Hunks)
      /\ fi = fi' /\ hi < hi'
  BY <1>1
<1> HIDE DEF id, T, S, n
<1>9. ASSUME NEW k \in 1..(n + 1)
      PROVE  \E f \in 1..Len(files) : \E h \in 1..Len(files[f].Hunks) :
                 Reached(f, h)' /\ T[k] = StepID(files[f], files[f].Hunks[h])
  <2>1. CASE k = n + 1
    <3>1. T[k] = StepID(files[fi], files[fi].Hunks[hi])
      BY <1>1, <2>1 DEF id
    <3>2. \A f \in 1..Len(files) : \A h \in 1..Len(files[f].Hunks) :
              f = fi /\ h = hi => Reached(f, h)'
      BY <1>8 DEF Reached
    <3> QED
      BY <1>8, <3>1, <3>2
  <2>2. CASE k \in 1..n
    BY <1>1, <1>5, <1>7, <2>2
  <2> QED
    BY <1>1, <2>1, <2>2
<1>10. ASSUME NEW j \in 1..(n + 1), NEW k \in 1..(n + 1),
              NEW f \in 1..Len(files), NEW g \in 1..Len(files),
              j < k, files[f].Path = T[j][1], files[g].Path = T[k][1]
       PROVE  f <= g
  <2>1. j \in 1..n
    BY <1>1, <1>10
  <2>2. CASE k \in 1..n
    BY <1>1, <1>6, <1>10, <2>1, <2>2
  <2>3. CASE k = n + 1
    <3>1. g = fi
      BY <1>1, <1>3, <1>4, <1>10, <2>3
    <3>2. PICK e \in 1..Len(files) : \E h \in 1..Len(files[e].Hunks) :
              Reached(e, h) /\ S[j] = StepID(files[e], files[e].Hunks[h])
      BY <1>5, <2>1
    <3>3. e <= fi /\ S[j][1] = files[e].Path
      BY <1>1, <3>2 DEF Reached, StepID
    <3>4. e = f
      BY <1>1, <1>3, <1>10, <2>1, <3>3
    <3> QED
      BY <3>1, <3>3, <3>4
  <2> QED
    BY <1>1, <2>2, <2>3
<1>11. PlaceInv' <=>
          /\ \A k \in 1..Len(T) : \E f \in 1..Len(files') : \E h \in 1..Len(files'[f].Hunks) :
                 Reached(f, h)' /\ T[k] = StepID(files'[f], files'[f].Hunks[h])
          /\ \A j, k \in 1..Len(T) : \A f, g \in 1..Len(files') :
                 j < k /\ files'[f].Path = T[j][1] /\ files'[g].Path = T[k][1] => f <= g
  BY DEF PlaceInv, T, StepID, Reached
<1> QED
  BY <1>1, <1>9, <1>10, <1>11

\* Every step keeps PlaceInv.
LEMMA PlaceStep == ChainInv /\ PlaceInv /\ FilesInv /\ LoopsInv /\ [Next]_vars => PlaceInv'
<1> SUFFICES ASSUME ChainInv, PlaceInv, FilesInv, LoopsInv, [Next]_vars
             PROVE  PlaceInv'
  OBVIOUS
<1>1. CASE UNCHANGED << files, fi, hi, graphVars >>
  <2>1. UNCHANGED << files, fi, hi, orderedStepIDs >>
    BY <1>1 DEF graphVars
  <2>2. \A f, h : Reached(f, h)' = Reached(f, h)
    BY <2>1 DEF Reached
  <2>3. \A k \in 1..Len(orderedStepIDs) :
            \E f \in 1..Len(files) : \E h \in 1..Len(files[f].Hunks) :
                Reached(f, h)' /\ orderedStepIDs[k] = StepID(files[f], files[f].Hunks[h])
    BY <2>2 DEF PlaceInv
  <2>4. \A j, k \in 1..Len(orderedStepIDs) : \A f, g \in 1..Len(files) :
            j < k /\ files[f].Path = orderedStepIDs[j][1] /\ files[g].Path = orderedStepIDs[k][1]
                => f <= g
    BY DEF PlaceInv
  <2> QED
    BY <2>1, <2>3, <2>4 DEF PlaceInv, StepID
<1>2. CASE NextFile
  <2>1. /\ fi' = fi + 1 /\ UNCHANGED << files, orderedStepIDs >>
    BY <1>2 DEF NextFile, forgeVars, graphVars
  <2>2. fi \in Nat
    <3>1. WellFormedFiles(files)
      BY DEF FilesInv
    <3>2. Len(files) \in Nat
      BY <3>1, FilesShape
    <3> QED
      BY <3>2 DEF LoopsInv
  <2>3. \A f \in 1..Len(files) : \A h : Reached(f, h) => Reached(f, h)'
    BY <2>1, <2>2 DEF Reached
  <2>4. \A k \in 1..Len(orderedStepIDs) :
            \E f \in 1..Len(files) : \E h \in 1..Len(files[f].Hunks) :
                Reached(f, h)' /\ orderedStepIDs[k] = StepID(files[f], files[f].Hunks[h])
    BY <2>3 DEF PlaceInv
  <2>5. \A j, k \in 1..Len(orderedStepIDs) : \A f, g \in 1..Len(files) :
            j < k /\ files[f].Path = orderedStepIDs[j][1] /\ files[g].Path = orderedStepIDs[k][1]
                => f <= g
    BY DEF PlaceInv
  <2>6. PlaceInv' <=>
          /\ \A k \in 1..Len(orderedStepIDs) :
                 \E f \in 1..Len(files) : \E h \in 1..Len(files[f].Hunks) :
                     Reached(f, h)' /\ orderedStepIDs[k] = StepID(files[f], files[f].Hunks[h])
          /\ \A j, k \in 1..Len(orderedStepIDs) : \A f, g \in 1..Len(files) :
                 j < k /\ files[f].Path = orderedStepIDs[j][1] /\ files[g].Path = orderedStepIDs[k][1]
                     => f <= g
    BY <2>1 DEF PlaceInv, StepID, Reached
  <2> QED
    BY <2>4, <2>5, <2>6
<1>3. CASE UNCHANGED graphVars /\ orderedStepIDs = << >>
  <2>1. Len(orderedStepIDs') = 0
    BY <1>3 DEF graphVars
  <2>2. 1..Len(orderedStepIDs') = {}
    BY <2>1
  <2> QED
    BY <2>2 DEF PlaceInv
<1> QED
  BY <1>1, <1>2, <1>3, GraphMoves, PlacesGrow

\* The entry of a file the loop is not at stays as it was.
LEMMA OtherEntries ==
  ASSUME AddHunkStep, LoopsInv, FilesInv, PlaceInv, ChainInv, NEW p, p # files[fi].Path
  PROVE  /\ StepsOf(p)' = StepsOf(p)
         /\ p \in DOMAIN fileEntryStepIDs' <=> p \in DOMAIN fileEntryStepIDs
         /\ p \in DOMAIN fileEntryStepIDs => fileEntryStepIDs'[p] = fileEntryStepIDs[p]
<1> DEFINE id == StepID(files[fi], files[fi].Hunks[hi])
           S  == orderedStepIDs
           T  == orderedStepIDs'
           n  == Len(orderedStepIDs)
<1>1. /\ n \in Nat /\ Len(T) = n + 1 /\ \A k \in 1..n : T[k] = S[k]
      /\ T[n + 1] = id
  BY HunkAdded
<1>2. id[1] = files[fi].Path
  BY DEF StepID
<1>3. fileEntryStepIDs' = FileEntriesWith(files[fi].Path, id)
  BY DEF AddHunkStep
<1> HIDE DEF id, T, S, n
<1>4. ASSUME NEW k \in 1..(n + 1)
      PROVE  T[k][1] = p <=> k \in 1..n /\ S[k][1] = p
  BY <1>1, <1>2
<1>5. {k \in 1..(n + 1) : T[k][1] = p} = {k \in 1..n : S[k][1] = p}
  BY <1>1, <1>4
<1>6. StepsOf(p)' = StepsOf(p)
  BY <1>1, <1>5 DEF StepsOf, S, T, n
<1> QED
  BY <1>3, <1>6 DEF FileEntriesWith

\* The entry of the file the loop is at: its first hunk becomes it, the others follow.
LEMMA OwnEntry ==
  ASSUME AddHunkStep, LoopsInv, FilesInv, PlaceInv, ChainInv, NEW p, p = files[fi].Path
  PROVE  LET n == Len(orderedStepIDs)
             T == orderedStepIDs'
             id == StepID(files[fi], files[fi].Hunks[hi])
         IN  /\ n \in Nat /\ Len(T) = n + 1 /\ T[n + 1] = id
             /\ \A k \in 1..n : T[k] = orderedStepIDs[k]
             /\ StepsOf(p)' = StepsOf(p) \cup {n + 1}
             /\ p \in DOMAIN fileEntryStepIDs'
             /\ fileEntryStepIDs'[p] = IF p \in DOMAIN fileEntryStepIDs THEN fileEntryStepIDs[p] ELSE id
<1> DEFINE id == StepID(files[fi], files[fi].Hunks[hi])
           S  == orderedStepIDs
           T  == orderedStepIDs'
           n  == Len(orderedStepIDs)
<1>1. /\ n \in Nat /\ Len(T) = n + 1 /\ \A k \in 1..n : T[k] = S[k]
      /\ T[n + 1] = id
  BY HunkAdded
<1>2. id[1] = p
  BY DEF StepID
<1>3. fileEntryStepIDs' = FileEntriesWith(p, id)
  BY DEF AddHunkStep
<1> HIDE DEF id, T, S, n
<1>4. {k \in 1..(n + 1) : T[k][1] = p} = {k \in 1..n : S[k][1] = p} \cup {n + 1}
  BY <1>1, <1>2
<1>5. StepsOf(p)' = StepsOf(p) \cup {n + 1}
  BY <1>1, <1>4 DEF StepsOf, S, T, n
<1>6. /\ p \in DOMAIN fileEntryStepIDs'
      /\ fileEntryStepIDs'[p] = IF p \in DOMAIN fileEntryStepIDs THEN fileEntryStepIDs[p] ELSE id
  BY <1>3 DEF FileEntriesWith
<1> QED
  BY <1>1, <1>5, <1>6 DEF id, S, T, n

\* A round of buildHunkGraph keeps EntriesInv.
LEMMA EntriesGrow ==
  ASSUME AddHunkStep, LoopsInv, FilesInv, PlaceInv, ChainInv, EntriesInv
  PROVE  EntriesInv'
<1>1. /\ fi \in 1..Len(files) /\ hi \in 1..Len(files[fi].Hunks)
      /\ UNCHANGED << files, fi >> /\ hi' = hi + 1 /\ pc = "build"
      /\ Len(orderedStepIDs) \in Nat /\ Len(orderedStepIDs') = Len(orderedStepIDs) + 1
      /\ \A k \in 1..Len(orderedStepIDs) : orderedStepIDs'[k] = orderedStepIDs[k]
  BY HunkAdded
<1>2. WellFormedFiles(files)
  BY DEF FilesInv
<1>3. \A f \in 1..Len(files) : files[f].Path = files[fi].Path => f = fi
  BY <1>1, <1>2, FilesShape DEF WellFormedFiles
<1>4. Len(files) \in Nat /\ \A f \in 1..Len(files) : Len(files[f].Hunks) \in Nat
  BY <1>2, FilesShape
<1>5. Done(fi) = hi - 1 /\ hi \in Nat \ {0}
  BY <1>1, <1>4 DEF Done
<1>6. ASSUME NEW f \in 1..Len(files)
      PROVE  Done(f)' = IF f = fi THEN hi ELSE Done(f)
  BY <1>1, <1>4, <1>6 DEF Done
<1>7. ASSUME NEW f \in 1..Len(files), f # fi, NEW p, p = files[f].Path
      PROVE  IF Done(f) = 0
             THEN StepsOf(p)' = {} /\ p \notin DOMAIN fileEntryStepIDs'
             ELSE \E k \in 1..Len(orderedStepIDs') :
                    /\ StepsOf(p)' = k..(k + Done(f) - 1)
                    /\ p \in DOMAIN fileEntryStepIDs'
                    /\ fileEntryStepIDs'[p] = orderedStepIDs'[k]
  <2>1. p # files[fi].Path
    BY <1>3, <1>7
  <2>2. /\ StepsOf(p)' = StepsOf(p)
        /\ p \in DOMAIN fileEntryStepIDs' <=> p \in DOMAIN fileEntryStepIDs
        /\ p \in DOMAIN fileEntryStepIDs => fileEntryStepIDs'[p] = fileEntryStepIDs[p]
    BY <2>1, OtherEntries
  <2>3. IF Done(f) = 0
        THEN StepsOf(p) = {} /\ p \notin DOMAIN fileEntryStepIDs
        ELSE \E k \in 1..Len(orderedStepIDs) :
               /\ StepsOf(p) = k..(k + Done(f) - 1)
               /\ p \in DOMAIN fileEntryStepIDs
               /\ fileEntryStepIDs[p] = orderedStepIDs[k]
    BY <1>1, <1>7 DEF EntriesInv
  <2>4. CASE Done(f) = 0
    BY <2>2, <2>3, <2>4
  <2>5. CASE Done(f) # 0
    <3>1. PICK k \in 1..Len(orderedStepIDs) :
               /\ StepsOf(p) = k..(k + Done(f) - 1)
               /\ p \in DOMAIN fileEntryStepIDs
               /\ fileEntryStepIDs[p] = orderedStepIDs[k]
      BY <2>3, <2>5
    <3>2. /\ k \in 1..Len(orderedStepIDs')
          /\ StepsOf(p)' = k..(k + Done(f) - 1)
          /\ p \in DOMAIN fileEntryStepIDs'
          /\ fileEntryStepIDs'[p] = orderedStepIDs'[k]
      BY <1>1, <2>2, <3>1
    <3> QED
      BY <2>5, <3>2
  <2> QED
    BY <2>4, <2>5
<1>8. ASSUME NEW p, p = files[fi].Path
      PROVE  \E k \in 1..Len(orderedStepIDs') :
                /\ StepsOf(p)' = k..(k + hi - 1)
                /\ p \in DOMAIN fileEntryStepIDs'
                /\ fileEntryStepIDs'[p] = orderedStepIDs'[k]
                /\ k + hi - 1 = Len(orderedStepIDs')
  <2> DEFINE n == Len(orderedStepIDs)
             id == StepID(files[fi], files[fi].Hunks[hi])
  <2>1. /\ orderedStepIDs'[n + 1] = id
        /\ StepsOf(p)' = StepsOf(p) \cup {n + 1}
        /\ p \in DOMAIN fileEntryStepIDs'
        /\ fileEntryStepIDs'[p] = IF p \in DOMAIN fileEntryStepIDs THEN fileEntryStepIDs[p] ELSE id
    BY <1>8, OwnEntry
  <2>2. IF Done(fi) = 0
        THEN StepsOf(p) = {} /\ p \notin DOMAIN fileEntryStepIDs
        ELSE \E k \in 1..n :
               /\ StepsOf(p) = k..(k + Done(fi) - 1)
               /\ p \in DOMAIN fileEntryStepIDs
               /\ fileEntryStepIDs[p] = orderedStepIDs[k]
               /\ k + Done(fi) - 1 = n
    BY <1>1, <1>8 DEF EntriesInv
  <2> HIDE DEF id
  <2>3. CASE hi = 1
    <3>1. StepsOf(p) = {} /\ p \notin DOMAIN fileEntryStepIDs
      BY <1>5, <2>2, <2>3
    <3>2. /\ n + 1 \in 1..Len(orderedStepIDs')
          /\ StepsOf(p)' = (n + 1)..((n + 1) + hi - 1)
          /\ fileEntryStepIDs'[p] = orderedStepIDs'[n + 1]
          /\ (n + 1) + hi - 1 = Len(orderedStepIDs')
      BY <1>1, <2>1, <2>3, <3>1
    <3> QED
      BY <2>1, <3>2
  <2>4. CASE hi # 1
    <3>1. Done(fi) # 0
      BY <1>5, <2>4
    <3>2. PICK k \in 1..n :
               /\ StepsOf(p) = k..(k + Done(fi) - 1)
               /\ p \in DOMAIN fileEntryStepIDs
               /\ fileEntryStepIDs[p] = orderedStepIDs[k]
               /\ k + Done(fi) - 1 = n
      BY <2>2, <3>1
    <3>3. /\ k \in 1..Len(orderedStepIDs')
          /\ k + hi - 1 = n + 1 /\ Len(orderedStepIDs') = n + 1
          /\ StepsOf(p) = k..n
      BY <1>1, <1>5, <3>2
    <3>4. fileEntryStepIDs'[p] = orderedStepIDs'[k]
      BY <1>1, <2>1, <3>2
    <3>5. StepsOf(p)' = k..(n + 1)
      <4>1. k..n \cup {n + 1} = k..(n + 1)
        BY <1>1
      <4> QED
        BY <2>1, <3>3, <4>1
    <3> QED
      BY <2>1, <3>3, <3>4, <3>5
  <2> QED
    BY <2>3, <2>4
<1>9. ASSUME NEW f \in 1..Len(files), NEW p, p = files[f].Path
      PROVE  IF Done(f)' = 0
             THEN StepsOf(p)' = {} /\ p \notin DOMAIN fileEntryStepIDs'
             ELSE \E k \in 1..Len(orderedStepIDs') :
                    /\ StepsOf(p)' = k..(k + Done(f)' - 1)
                    /\ p \in DOMAIN fileEntryStepIDs'
                    /\ fileEntryStepIDs'[p] = orderedStepIDs'[k]
                    /\ f = fi => k + Done(f)' - 1 = Len(orderedStepIDs')
  <2>1. CASE f = fi
    <3>1. Done(f)' = hi /\ hi # 0
      BY <1>5, <1>6, <2>1
    <3> QED
      BY <1>8, <1>9, <2>1, <3>1
  <2>2. CASE f # fi
    <3>1. Done(f)' = Done(f)
      BY <1>6, <2>2
    <3>2. IF Done(f) = 0
          THEN StepsOf(p)' = {} /\ p \notin DOMAIN fileEntryStepIDs'
          ELSE \E k \in 1..Len(orderedStepIDs') :
                 /\ StepsOf(p)' = k..(k + Done(f) - 1)
                 /\ p \in DOMAIN fileEntryStepIDs'
                 /\ fileEntryStepIDs'[p] = orderedStepIDs'[k]
      BY <1>7, <1>9, <2>2
    <3> QED
      BY <2>2, <3>1, <3>2
  <2> QED
    BY <2>1, <2>2
<1>10. files' = files
  BY <1>1
<1> DEFINE now(p) == {k \in 1..Len(orderedStepIDs') : orderedStepIDs'[k][1] = p}
<1>11. ASSUME NEW f \in 1..Len(files')
       PROVE  IF Done(f)' = 0
              THEN now(files'[f].Path) = {} /\ files'[f].Path \notin DOMAIN fileEntryStepIDs'
              ELSE \E k \in 1..Len(orderedStepIDs') :
                      /\ now(files'[f].Path) = k..(k + Done(f)' - 1)
                      /\ files'[f].Path \in DOMAIN fileEntryStepIDs'
                      /\ fileEntryStepIDs'[files'[f].Path] = orderedStepIDs'[k]
                      /\ f = fi' => k + Done(f)' - 1 = Len(orderedStepIDs')
  <2>1. PICK p : p = files[f].Path
    OBVIOUS
  <2>2. StepsOf(p)' = now(p)
    BY DEF StepsOf
  <2>3. files'[f].Path = p /\ f \in 1..Len(files) /\ fi' = fi
    BY <1>1, <1>10, <2>1
  <2>4. IF Done(f)' = 0
        THEN StepsOf(p)' = {} /\ p \notin DOMAIN fileEntryStepIDs'
        ELSE \E k \in 1..Len(orderedStepIDs') :
               /\ StepsOf(p)' = k..(k + Done(f)' - 1)
               /\ p \in DOMAIN fileEntryStepIDs'
               /\ fileEntryStepIDs'[p] = orderedStepIDs'[k]
               /\ f = fi => k + Done(f)' - 1 = Len(orderedStepIDs')
    BY <1>9, <2>1, <2>3
  <2> HIDE DEF now
  <2> QED
    BY <2>2, <2>3, <2>4
<1> QED
  BY <1>11, Zenon DEF EntriesInv, StepsOf

\* Every step keeps EntriesInv.
LEMMA EntriesStep ==
  ChainInv /\ PlaceInv /\ FilesInv /\ LoopsInv /\ EntriesInv /\ [Next]_vars => EntriesInv'
<1> SUFFICES ASSUME ChainInv, PlaceInv, FilesInv, LoopsInv, EntriesInv, [Next]_vars
             PROVE  EntriesInv'
  OBVIOUS
<1>1. CASE UNCHANGED << files, fi, hi, graphVars >> /\ (pc' # "context" => pc # "context")
  <2>1. UNCHANGED << files, fi, hi, orderedStepIDs, fileEntryStepIDs >>
    BY <1>1 DEF graphVars
  <2> QED
    BY <1>1, <2>1 DEF EntriesInv, StepsOf, Done
<1>2. CASE NextFile
  <2>1. /\ fi' = fi + 1 /\ hi' = 1 /\ UNCHANGED << files, orderedStepIDs, fileEntryStepIDs >>
        /\ pc = "build" /\ fi <= Len(files) /\ hi > Len(files[fi].Hunks)
    BY <1>2 DEF NextFile, forgeVars, graphVars
  <2>2. /\ Len(files) \in Nat /\ \A f \in 1..Len(files) : Len(files[f].Hunks) \in Nat
    <3>1. WellFormedFiles(files)
      BY DEF FilesInv
    <3> QED
      BY <3>1, FilesShape
  <2>3. fi \in 1..Len(files) /\ hi = Len(files[fi].Hunks) + 1
    BY <2>1, <2>2 DEF LoopsInv
  <2>4. ASSUME NEW f \in 1..Len(files)
        PROVE  Done(f)' = Done(f) /\ (f = fi' => Done(f) = 0)
    BY <2>1, <2>2, <2>3, <2>4 DEF Done
  <2>5. ASSUME NEW f \in 1..Len(files)
        PROVE  LET p == files[f].Path
               IN  IF Done(f)' = 0
                   THEN StepsOf(p) = {} /\ p \notin DOMAIN fileEntryStepIDs
                   ELSE \E k \in 1..Len(orderedStepIDs) :
                          /\ StepsOf(p) = k..(k + Done(f)' - 1)
                          /\ p \in DOMAIN fileEntryStepIDs
                          /\ fileEntryStepIDs[p] = orderedStepIDs[k]
                          /\ f = fi' => k + Done(f)' - 1 = Len(orderedStepIDs)
    <3>1. Done(f)' = Done(f) /\ (f = fi' => Done(f) = 0)
      BY <2>4
    <3>2. LET p == files[f].Path
          IN  IF Done(f) = 0
              THEN StepsOf(p) = {} /\ p \notin DOMAIN fileEntryStepIDs
              ELSE \E k \in 1..Len(orderedStepIDs) :
                      /\ StepsOf(p) = k..(k + Done(f) - 1)
                      /\ p \in DOMAIN fileEntryStepIDs
                      /\ fileEntryStepIDs[p] = orderedStepIDs[k]
      BY <2>1 DEF EntriesInv
    <3> QED
      BY <3>1, <3>2
  <2> QED
    BY <2>1, <2>5 DEF EntriesInv, StepsOf
<1>3. CASE /\ UNCHANGED graphVars
           /\ orderedStepIDs = << >> /\ DOMAIN fileEntryStepIDs = {}
           /\ pc' # "context" => fi' = 1 /\ hi' = 1
  <2>1. Len(orderedStepIDs') = 0 /\ DOMAIN fileEntryStepIDs' = {}
    BY <1>3 DEF graphVars
  <2>2. \A p : StepsOf(p)' = {}
    BY <2>1 DEF StepsOf
  <2>3. pc' # "context" => \A f \in 1..Len(files') : Done(f)' = 0
    BY <1>3 DEF Done
  <2> QED
    BY <2>1, <2>2, <2>3 DEF EntriesInv, StepsOf
<1> QED
  BY <1>1, <1>2, <1>3, GraphMoves, EntriesGrow

--------------------------------------------------------------------------------
(* The invariant of the whole call.                                        *)

\* A handler that has returned has a status, and one that has not has none.
StatusInv == pc = "returned" => status \in Codes \ {"none"}

\* Every step keeps StatusInv.
LEMMA StatusStep == StatusInv /\ [Next]_vars => StatusInv'
<1> SUFFICES ASSUME StatusInv, [Next]_vars PROVE StatusInv'
  OBVIOUS
<1> USE DEF StatusInv, Codes
<1>1. CASE RejectEmptyURL
  BY <1>1 DEF RejectEmptyURL, Fail, Return
<1>2. CASE RequestFails
  BY <1>2 DEF RequestFails, ErrorCodes, Fail, Return
<1>3. CASE SendParsing \/ SendFetching \/ SendBuilding \/ SendCreating
  BY <1>3 DEF SendParsing, SendFetching, SendBuilding, SendCreating, SendProgress, Fail, Return
<1>4. CASE FindContext \/ OrderFiles
  BY <1>4 DEF FindContext, OrderFiles, Fail, Return, Continue
<1>5. CASE FetchPR \/ FetchDiff \/ SkipDeleted \/ FetchFile \/ FetchFileFails \/ ContextDone
  BY <1>5 DEF FetchPR, FetchDiff, SkipDeleted, FetchFile, FetchFileFails, ContextDone, Continue
<1>6. CASE AddHunkStep \/ NextFile \/ BuildDone
  BY <1>6 DEF AddHunkStep, NextFile, BuildDone, Continue
<1>7. CASE RegisterSession \/ SendReviewReady
  BY <1>7 DEF RegisterSession, Register, SendReviewReady, SendReady, Return
<1>8. CASE Cancel \/ Push \/ UNCHANGED vars
  BY <1>8 DEF Cancel, CancelCall, Push, vars, callVars
<1> QED
  BY <1>1, <1>2, <1>3, <1>4, <1>5, <1>6, <1>7, <1>8 DEF Next, Handler, Idle

\* What is always true while a review is opened.
OpeningInv ==
    /\ EventsInv /\ StatusInv
    /\ FetchInv /\ FilesInv /\ LoopsInv
    /\ ChainInv /\ PlaceInv /\ EntriesInv
    /\ ReadyInv

\* OpeningInv is inductive: it holds at first and every step of the handler, of the
\* client and of the forge keeps it (OpenReviewSession and all it calls).
THEOREM OpeningInvariant == Spec => []OpeningInv
<1>1. Init => OpeningInv
  <2>1. Init => StatusInv
    BY DEF Init, CallInit, StatusInv
  <2> QED
    BY <2>1, EventsInit, FetchInit, FilesInit, GraphInit DEF OpeningInv
<1>2. OpeningInv /\ [Next]_vars => OpeningInv'
  <2> SUFFICES ASSUME OpeningInv, [Next]_vars PROVE OpeningInv'
    OBVIOUS
  <2>1. EventsInv' /\ StatusInv' /\ ReadyInv'
    BY EventsStep, StatusStep, ReadyStep DEF OpeningInv
  <2>2. FetchInv' /\ FilesInv'
    BY FetchStep, FilesStep DEF OpeningInv
  <2>3. LoopsInv'
    BY <2>2, LoopsStep DEF OpeningInv
  <2>4. ChainInv' /\ PlaceInv' /\ EntriesInv'
    BY ChainStep, PlaceStep, EntriesStep DEF OpeningInv
  <2> QED
    BY <2>1, <2>2, <2>3, <2>4 DEF OpeningInv
<1> QED
  BY <1>1, <1>2, PTL DEF Spec

\* The call, what it fetched and its loops have their types throughout
\* (OpenReviewSession).
THEOREM OpeningTypeCorrect == Spec => []OpeningTypeOK
<1>1. OpeningInv => OpeningTypeOK
  <2> SUFFICES ASSUME OpeningInv PROVE OpeningTypeOK
    OBVIOUS
  <2>1. CallTypeOK
    BY DEF OpeningInv, EventsInv, StatusInv, CallTypeOK, Codes
  <2>2. files \in Seq(ReviewFile)
    BY DEF OpeningInv, FilesInv, WellFormedFiles
  <2>3. /\ req \in Requests /\ branch \in Versions /\ head \in Refs
        /\ diffAt \in Versions \cup {NoRef}
        /\ \A p \in DOMAIN fileLines : p \in Paths /\ fileLines[p] \in Versions
    BY DEF OpeningInv, FetchInv
  <2>4. fi \in 1..(Len(files) + 1) /\ hi \in Nat
    BY DEF OpeningInv, LoopsInv
  <2>5. /\ orderedStepIDs \in Seq(Paths \X Nat)
        /\ steps = {orderedStepIDs[i] : i \in 1..Len(orderedStepIDs)}
        /\ DOMAIN edges = steps /\ DOMAIN spans = steps
    BY DEF OpeningInv, ChainInv
  <2>6. steps \subseteq Paths \X Nat
    BY <2>5, ElementOfSeq
  <2> QED
    BY <2>1, <2>2, <2>3, <2>4, <2>5, <2>6 DEF OpeningTypeOK
<1> QED
  BY <1>1, OpeningInvariant, PTL

--------------------------------------------------------------------------------
(* The graph that is announced.                                            *)

\* The steps are those of the chain, which has an entry as soon as it has a step.
LEMMA ChainSteps ==
  ASSUME ChainInv
  PROVE  LET S == orderedStepIDs
         IN  /\ S \in Seq(Paths \X Nat) /\ Len(S) \in Nat
             /\ \A i \in 1..Len(S) : S[i] \in Paths \X Nat /\ S[i] \in steps
             /\ \A s \in steps : \E i \in 1..Len(S) : s = S[i]
             /\ steps \subseteq Paths \X Nat
             /\ entryID \in (Paths \X Nat) \cup {NoID}
             /\ steps # {} => entryID \in steps
<1> DEFINE S == orderedStepIDs
<1>1. /\ S \in Seq(Paths \X Nat)
      /\ steps = {S[i] : i \in 1..Len(S)}
      /\ entryID = IF S = << >> THEN NoID ELSE S[1]
  BY DEF ChainInv
<1>2. Len(S) \in Nat /\ (S # << >> => 1 \in 1..Len(S))
  BY <1>1, EmptySeq
<1>3. \A i \in 1..Len(S) : S[i] \in Paths \X Nat
  BY <1>1, ElementOfSeq
<1> HIDE DEF S
<1>4. steps # {} => entryID \in steps
  <2>1. S = << >> => Len(S) = 0
    BY <1>1, EmptySeq
  <2> QED
    BY <1>1, <1>2, <2>1
<1> QED
  BY <1>1, <1>2, <1>3, <1>4 DEF S

\* Whenever a session is registered its graph is one the walker can walk.
THEOREM RegisteredGraphSound == Spec => []RegisteredGraphIsSound
<1>1. OpeningInv => RegisteredGraphIsSound
  <2> SUFFICES ASSUME ChainInv PROVE Built!GraphAssumption
    BY DEF OpeningInv, RegisteredGraphIsSound
  <2> DEFINE IDs == (Paths \X Nat) \cup {NoID}
  <2>1. steps \subseteq IDs /\ entryID \in IDs /\ (steps # {} => entryID \in steps)
    BY ChainSteps
  <2>2. edges \in [steps -> Seq(Links)]
    BY DEF ChainInv
  <2>3. Links \subseteq [target : IDs, label : {"NEXT"}, navigable : BOOLEAN]
    BY DEF Links
  <2>4. edges \in [steps -> Seq([target : IDs, label : {"NEXT"}, navigable : BOOLEAN])]
    BY <2>2, <2>3, SeqMonotonic
  <2> QED
    BY <2>1, <2>4 DEF Built!GraphAssumption, Built!Edge
<1> QED
  BY <1>1, OpeningInvariant, PTL

\* Every step that was added is announced, in the order of the additions: none is missing
\* in the graph (protoReviewSteps).
LEMMA AnnouncedSteps ==
  ASSUME ChainInv
  PROVE  protoReviewSteps = orderedStepIDs
<1> DEFINE S == orderedStepIDs
           N == Len(S)
           Ids == Paths \X Nat
           body == [p \in (1..N) \X Seq(Ids) |-> Append(p[2], S[p[1]])]
           Loop(f) == f = [i \in 0..N |-> IF i = 0 THEN << >>
                                          ELSE IF S[i] \in steps THEN Append(f[i - 1], S[i])
                                          ELSE f[i - 1]]
           kept == CHOOSE f : Loop(f)
<1>1. /\ S \in Seq(Ids) /\ N \in Nat
      /\ \A i \in 1..N : S[i] \in Ids /\ S[i] \in steps
  BY ChainSteps
<1>2. PICK g \in [0..N -> Seq(Ids)] : Runs(g, << >>, body, N)
  <2>1. body \in LoopBodies(N, Seq(Ids))
    <3> HIDE DEF S, N, Ids
    <3> QED
      BY <1>1 DEF LoopBodies
  <2>2. << >> \in Seq(Ids)
    OBVIOUS
  <2> HIDE DEF S, N, Ids, body
  <2> QED
    BY <1>1, <2>1, <2>2, LoopRuns
<1>3. Loop(g)
  <2>1. ASSUME NEW i \in 0..N
        PROVE  g[i] = IF i = 0 THEN << >>
                      ELSE IF S[i] \in steps THEN Append(g[i - 1], S[i]) ELSE g[i - 1]
    <3> HIDE DEF S, N, Ids
    <3>1. CASE i # 0
      <4>1. i \in 1..N /\ << i, g[i - 1] >> \in (1..N) \X Seq(Ids)
        BY <1>1, <3>1
      <4>2. g[i] = body[<< i, g[i - 1] >>]
        BY <1>2, <4>1 DEF Runs
      <4> QED
        BY <1>1, <3>1, <4>1, <4>2
    <3>2. CASE i = 0
      BY <1>2, <3>2 DEF Runs
    <3> QED
      BY <3>1, <3>2
  <2> HIDE DEF body, S, N, Ids
  <2> QED
    BY <1>2, <2>1
<1>4. \A i \in 0..N : kept[i] = IF i = 0 THEN << >>
                                ELSE IF S[i] \in steps THEN Append(kept[i - 1], S[i])
                                ELSE kept[i - 1]
  <2>1. Loop(kept)
    BY <1>3
  <2> HIDE DEF S, N, kept
  <2> QED
    BY <2>1
<1>5. protoReviewSteps = kept[N]
  BY DEF protoReviewSteps
<1> HIDE DEF kept, S, N, Ids
<1> DEFINE Prefix(i) == /\ kept[i] \in Seq(Ids) /\ Len(kept[i]) = i
                        /\ \A j \in 1..i : kept[i][j] = S[j]
           Good == {i \in Nat : i <= N => Prefix(i)}
<1>6. 0 \in Good
  <2>1. 0 \in 0..N
    BY <1>1
  <2>2. kept[0] = << >>
    BY <1>4, <2>1
  <2>3. << >> \in Seq(Ids) /\ Len(<< >>) = 0 /\ 1..0 = {}
    OBVIOUS
  <2>4. Prefix(0)
    BY <2>2, <2>3
  <2> QED
    BY <2>4
<1>7. ASSUME NEW n \in Nat, n \in Good
      PROVE  n + 1 \in Good
  <2>1. SUFFICES ASSUME n + 1 <= N PROVE Prefix(n + 1)
    OBVIOUS
  <2>2. Prefix(n) /\ n + 1 \in 1..N /\ n + 1 \in 0..N /\ (n + 1) - 1 = n /\ n + 1 # 0
    BY <1>1, <1>7, <2>1
  <2>3. kept[n + 1] = Append(kept[n], S[n + 1]) /\ S[n + 1] \in Ids
    BY <1>1, <1>4, <2>2
  <2>4. /\ kept[n + 1] \in Seq(Ids) /\ Len(kept[n + 1]) = n + 1
        /\ \A j \in 1..n : kept[n + 1][j] = kept[n][j]
        /\ kept[n + 1][n + 1] = S[n + 1]
    BY <2>2, <2>3, AppendFacts
  <2>5. ASSUME NEW j \in 1..(n + 1) PROVE kept[n + 1][j] = S[j]
    <3>1. CASE j \in 1..n
      BY <2>2, <2>4, <3>1
    <3>2. CASE j = n + 1
      BY <2>4, <3>2
    <3> QED
      BY <3>1, <3>2
  <2> QED
    BY <2>4, <2>5
<1>8. Nat \subseteq Good
  <2> HIDE DEF Good
  <2> QED
    BY <1>6, <1>7, SetInduction
<1>9. Prefix(N)
  BY <1>1, <1>8
<1>10. kept[N] = S
  BY <1>1, <1>9, SeqEqual DEF N
<1> QED
  BY <1>5, <1>10 DEF S

\* There are as many steps as were added: no two hunks share one.
LEMMA CountedSteps ==
  ASSUME ChainInv
  PROVE  Cardinality(steps) = Len(orderedStepIDs)
<1> DEFINE S == orderedStepIDs
           N == Len(S)
<1>1. /\ N \in Nat /\ steps = {S[i] : i \in 1..N}
      /\ \A i, j \in 1..N : S[i] = S[j] => i = j
  BY ChainSteps DEF ChainInv
<1> HIDE DEF N
<1>2. [i \in 1..N |-> S[i]] \in Bijection(1..N, steps)
  BY <1>1 DEF Bijection, Injection, Surjection, IsInjective
<1>3. IsFiniteSet(1..N) /\ Cardinality(1..N) = N
  <2>1. 0 <= N /\ 1 \in Int /\ N \in Int
    BY <1>1
  <2>2. IsFiniteSet(1..N) /\ Cardinality(1..N) = IF 1 > N THEN 0 ELSE N - 1 + 1
    BY <2>1, FS_Interval
  <2> QED
    BY <2>1, <2>2
<1>4. ExistsBijection(1..N, steps)
  BY <1>2 DEF ExistsBijection
<1> QED
  BY <1>3, <1>4, FS_Bijection DEF N

\* Forward goes from each step of the chain to the next and is refused at the last.
LEMMA ForwardOnChain ==
  ASSUME ChainInv, NEW i \in 1..Len(orderedStepIDs)
  PROVE  LET S == orderedStepIDs
             forward == Built!Forward([current |-> S[i], breadcrumb |-> << >>, visited |-> {}])
         IN  IF i = Len(S) THEN ~forward.ok
             ELSE forward.ok /\ forward.walker.current = S[i + 1]
<1> DEFINE S == orderedStepIDs
           N == Len(S)
           w == [current |-> S[i], breadcrumb |-> << >>, visited |-> {}]
<1>1. /\ N \in Nat /\ S[i] \in steps
      /\ edges[S[i]] = IF i = N THEN << >> ELSE << NextEdge(S[i + 1]) >>
  BY ChainSteps DEF ChainInv
<1>2. w.current = S[i] /\ w.breadcrumb = << >> /\ w.visited = {}
  OBVIOUS
<1>3. CASE i = N
  <2>1. Built!EdgesLabelled(S[i], "NEXT") = {}
    BY <1>1, <1>3 DEF Built!EdgesLabelled
  <2>2. Built!Forward(w) = [ok |-> FALSE, walker |-> w]
    BY <2>1 DEF Built!Forward, Built!FollowEdgeLabel, Built!Refused
  <2> QED
    BY <1>3, <2>2
<1>4. CASE i # N
  <2> DEFINE next == S[i + 1]
  <2>1. i + 1 \in 1..N
    BY <1>1, <1>4
  <2>2. next \in steps
    BY <2>1, ChainSteps
  <2>3. edges[S[i]] = << NextEdge(next) >>
    BY <1>1, <1>4
  <2> HIDE DEF next
  <2>4. /\ DOMAIN edges[S[i]] = {1} /\ edges[S[i]][1].target = next
        /\ edges[S[i]][1].label = "NEXT" /\ edges[S[i]][1].navigable = TRUE
    BY <2>3 DEF NextEdge
  <2>5. Built!EdgesLabelled(S[i], "NEXT") = {1}
    BY <2>4 DEF Built!EdgesLabelled
  <2>6. Built!FirstOf({1}) = 1
    BY DEF Built!FirstOf
  <2>7. Built!Forward(w) = Built!GoTo(w, next)
    BY <1>1, <1>2, <2>4, <2>5, <2>6 DEF Built!Forward, Built!FollowEdgeLabel, Built!HasStep
  <2>8. Built!GoTo(w, next) = [ok     |-> TRUE,
                               walker |-> [current    |-> next,
                                           breadcrumb |-> Append(w.breadcrumb, w.current),
                                           visited    |-> w.visited \cup {next}]]
    BY <1>1, <1>2, <2>2 DEF Built!GoTo, Built!HasStep, Built!Moved
  <2> QED
    BY <1>4, <2>7, <2>8 DEF next
<1> QED
  BY <1>3, <1>4

\* What is announced is what the chain, the files and their entries say.
LEMMA Announced ==
  ASSUME OpeningInv, ready # << >>
  PROVE  /\ ready[1] = ReviewReady
         /\ ready[1].Steps = orderedStepIDs
         /\ ready[1].TotalSteps = Len(orderedStepIDs)
         /\ ready[1].EntryStepId = entryID
         /\ pc = "returned" /\ registered = TRUE
         /\ \A f \in 1..Len(files) : Done(f) = Len(files[f].Hunks)
<1>1. ready = << ReviewReady >> /\ pc = "returned" /\ registered = TRUE
  BY DEF OpeningInv, ReadyInv
<1>2. ready[1] = ReviewReady
  BY <1>1
<1>3. protoReviewSteps = orderedStepIDs /\ Cardinality(steps) = Len(orderedStepIDs)
  BY AnnouncedSteps, CountedSteps DEF OpeningInv
<1>4. /\ ReviewReady.Steps = protoReviewSteps /\ ReviewReady.TotalSteps = Cardinality(steps)
      /\ ReviewReady.EntryStepId = entryID
  BY DEF ReviewReady
<1>5. Len(files) \in Nat
  <2>1. WellFormedFiles(files)
    BY DEF OpeningInv, FilesInv
  <2> QED
    BY <2>1, FilesShape
<1>6. \A f \in 1..Len(files) : Done(f) = Len(files[f].Hunks)
  <2>1. fi = Len(files) + 1
    BY <1>1 DEF OpeningInv, LoopsInv
  <2> QED
    BY <1>5, <2>1 DEF Done
<1> QED
  BY <1>1, <1>2, <1>3, <1>4, <1>6

\* The chain is what Forward walks.
LEMMA ChainIsWalked == OpeningInv => ForwardFollowsSteps
<1> SUFFICES ASSUME OpeningInv, ready # << >> PROVE ForwardFollowsSteps
  BY DEF ForwardFollowsSteps
<1> DEFINE S == orderedStepIDs
<1>1. /\ ready[1].Steps = S /\ ready[1].TotalSteps = Len(S) /\ ready[1].EntryStepId = entryID
      /\ ChainInv
  BY Announced DEF OpeningInv
<1>2. S # << >> => entryID = S[1]
  BY <1>1 DEF ChainInv
<1>3. DOMAIN S = 1..Len(S)
  BY <1>1, ChainSteps
<1>4. \A i \in DOMAIN S :
          LET forward == Built!Forward([current |-> S[i], breadcrumb |-> << >>, visited |-> {}])
          IN  IF i = Len(S) THEN ~forward.ok
              ELSE forward.ok /\ forward.walker.current = S[i + 1]
  BY <1>1, <1>3, ForwardOnChain
<1> HIDE DEF S
<1> QED
  BY <1>1, <1>2, <1>4 DEF ForwardFollowsSteps

\* The hunks of a file stand together, behind the file's entry.
LEMMA EntriesOpen == OpeningInv => FileEntryOpensFile
<1> SUFFICES ASSUME OpeningInv, ready # << >> PROVE FileEntryOpensFile
  BY DEF FileEntryOpensFile
<1> DEFINE S == orderedStepIDs
           fs == ready[1].Files
<1>1. /\ ready[1] = ReviewReady /\ ready[1].Steps = S /\ pc = "returned"
      /\ \A i \in 1..Len(files) : Done(i) = Len(files[i].Hunks)
      /\ ChainInv /\ EntriesInv
  BY Announced DEF OpeningInv
<1>2. /\ DOMAIN files = 1..Len(files) /\ \A i \in 1..Len(files) : Len(files[i].Hunks) \in Nat
  <2>1. WellFormedFiles(files)
    BY DEF OpeningInv, FilesInv
  <2> QED
    BY <2>1, FilesShape
<1>3. /\ DOMAIN fs = 1..Len(files)
      /\ \A i \in 1..Len(files) :
            fs[i] = [FilePath    |-> files[i].Path,
                     HunksTotal  |-> Len(files[i].Hunks),
                     EntryStepId |-> IF files[i].Path \in DOMAIN fileEntryStepIDs
                                     THEN fileEntryStepIDs[files[i].Path]
                                     ELSE NoID]
  BY <1>1, <1>2 DEF ReviewReady
<1>4. DOMAIN S = 1..Len(S) /\ Len(S) \in Nat
  BY <1>1, ChainSteps
<1> HIDE DEF fs
<1>5. ASSUME NEW i \in 1..Len(files)
      PROVE  LET f == fs[i]
                 mine == {k \in DOMAIN S : S[k][1] = f.FilePath}
             IN  /\ Cardinality(mine) = f.HunksTotal
                 /\ IF f.HunksTotal = 0
                    THEN f.EntryStepId = NoID
                    ELSE \E k \in mine :
                            S[k] = f.EntryStepId /\ mine = k..(k + f.HunksTotal - 1)
  <2> DEFINE p == files[i].Path
             d == Len(files[i].Hunks)
             mine == {k \in DOMAIN S : S[k][1] = p}
  <2>1. /\ fs[i].FilePath = p /\ fs[i].HunksTotal = d
        /\ fs[i].EntryStepId = IF p \in DOMAIN fileEntryStepIDs THEN fileEntryStepIDs[p] ELSE NoID
    BY <1>3
  <2>2. mine = StepsOf(p)
    BY <1>4 DEF StepsOf
  <2>3. IF d = 0
        THEN StepsOf(p) = {} /\ p \notin DOMAIN fileEntryStepIDs
        ELSE \E k \in 1..Len(S) :
                /\ StepsOf(p) = k..(k + d - 1)
                /\ p \in DOMAIN fileEntryStepIDs
                /\ fileEntryStepIDs[p] = S[k]
    <3>1. Done(i) = d
      BY <1>1
    <3> QED
      BY <1>1, <3>1 DEF EntriesInv
  <2>4. d \in Nat
    BY <1>2
  <2> HIDE DEF p, d, S
  <2>5. CASE d = 0
    <3>1. mine = {} /\ fs[i].EntryStepId = NoID
      BY <2>1, <2>2, <2>3, <2>5
    <3>2. Cardinality(mine) = 0
      BY <3>1, FS_EmptySet
    <3> QED
      BY <2>1, <2>5, <3>1, <3>2
  <2>6. CASE d # 0
    <3>1. PICK k \in 1..Len(S) :
                /\ StepsOf(p) = k..(k + d - 1)
                /\ p \in DOMAIN fileEntryStepIDs
                /\ fileEntryStepIDs[p] = S[k]
      BY <2>3, <2>6
    <3>2. mine = k..(k + d - 1) /\ fs[i].EntryStepId = S[k]
      BY <2>1, <2>2, <3>1
    <3> HIDE DEF mine
    <3>3. k \in mine
      BY <2>4, <2>6, <3>2
    <3>4. Cardinality(mine) = d
      <4>1. k \in Int /\ k + d - 1 \in Int /\ ~(k > k + d - 1) /\ (k + d - 1) - k + 1 = d
        BY <2>4, <2>6
      <4> HIDE DEF mine
      <4> QED
        BY <3>2, <4>1, FS_Interval
    <3> QED
      BY <2>1, <2>6, <3>2, <3>3, <3>4 DEF mine
  <2> QED
    BY <2>5, <2>6
<1>6. \A f \in Range(fs) : \E i \in 1..Len(files) : f = fs[i]
  BY <1>3 DEF Range
<1>7. ASSUME NEW f \in Range(fs)
      PROVE  LET mine == {k \in DOMAIN S : S[k][1] = f.FilePath}
             IN  /\ Cardinality(mine) = f.HunksTotal
                 /\ IF f.HunksTotal = 0
                    THEN f.EntryStepId = NoID
                    ELSE \E k \in mine :
                            S[k] = f.EntryStepId /\ mine = k..(k + f.HunksTotal - 1)
  <2>1. PICK i \in 1..Len(files) : f = fs[i]
    BY <1>6
  <2> HIDE DEF S
  <2> QED
    BY <1>5, <2>1
<1> HIDE DEF S
<1>8. ready[1].Steps = S
  BY <1>1
<1> QED
  BY <1>7, <1>8 DEF FileEntryOpensFile, fs

\* Walking Forward from the entry shows every announced step once and in the announced
\* order, and goes file by file (buildHunkGraph, protoReviewSteps and Walker.Forward).
THEOREM StepsFollowTheFiles == Spec => []StepsFollowFiles
<1>1. OpeningInv => StepsFollowFiles
  BY ChainIsWalked, EntriesOpen DEF StepsFollowFiles
<1> QED
  BY <1>1, OpeningInvariant, PTL

\* In the default order no hunk of a later tier is walked before one of an earlier tier
\* (entryPointsFirst.Order and the NEXT edges).
THEOREM EntryPointsFirst == Spec => []EntryPointsComeFirst
<1>1. ASSUME OpeningInv, ready # << >>, req.FileOrdering = "",
             NEW i \in DOMAIN orderedStepIDs, NEW j \in DOMAIN orderedStepIDs, i < j
      PROVE  tier(orderedStepIDs[i][1]) <= tier(orderedStepIDs[j][1])
  <2>1. i \in 1..Len(orderedStepIDs) /\ j \in 1..Len(orderedStepIDs)
    <3>1. orderedStepIDs \in Seq(Paths \X Nat)
      BY <1>1 DEF OpeningInv, ChainInv
    <3> QED
      BY <3>1
  <2>2. \A k \in 1..Len(orderedStepIDs) :
            \E f \in 1..Len(files) : files[f].Path = orderedStepIDs[k][1]
    <3>1. TAKE k \in 1..Len(orderedStepIDs)
    <3>2. PICK f \in 1..Len(files) : \E h \in 1..Len(files[f].Hunks) :
                orderedStepIDs[k] = StepID(files[f], files[f].Hunks[h])
      <4>1. PlaceInv
        BY <1>1 DEF OpeningInv
      <4> QED
        BY <4>1 DEF PlaceInv
    <3>3. PICK h \in 1..Len(files[f].Hunks) :
                orderedStepIDs[k] = StepID(files[f], files[f].Hunks[h])
      BY <3>2
    <3>4. orderedStepIDs[k][1] = files[f].Path
      BY <3>3 DEF StepID
    <3> QED
      BY <3>4
  <2>3. PICK f \in 1..Len(files) : files[f].Path = orderedStepIDs[i][1]
    BY <2>1, <2>2
  <2>4. PICK g \in 1..Len(files) : files[g].Path = orderedStepIDs[j][1]
    BY <2>1, <2>2
  <2>5. f <= g
    BY <1>1, <2>1, <2>3, <2>4 DEF OpeningInv, PlaceInv
  <2>6. TiersAscend(files)
    BY <1>1 DEF OpeningInv, FilesInv
  <2>7. DOMAIN files = 1..Len(files) /\ Len(files) \in Nat
    <3>1. WellFormedFiles(files)
      BY <1>1 DEF OpeningInv, FilesInv
    <3> QED
      BY <3>1, FilesShape
  <2>8. CASE f = g
    <3>1. orderedStepIDs[i][1] = orderedStepIDs[j][1]
      BY <2>3, <2>4, <2>8
    <3>2. tier(orderedStepIDs[i][1]) \in Nat
      BY TierType
    <3> QED
      BY <3>1, <3>2
  <2>9. CASE f < g
    <3>1. tier(files[f].Path) <= tier(files[g].Path)
      BY <2>6, <2>7, <2>9 DEF TiersAscend
    <3> QED
      BY <2>3, <2>4, <3>1
  <2> QED
    BY <2>5, <2>7, <2>8, <2>9
<1>2. OpeningInv => EntryPointsComeFirst
  <2>1. OpeningInv /\ ready # << >> => ready[1].Steps = orderedStepIDs
    BY Announced
  <2> QED
    BY <1>1, <2>1 DEF EntryPointsComeFirst
<1> QED
  BY <1>2, OpeningInvariant, PTL

--------------------------------------------------------------------------------
(* What the hunks are made of.                                             *)

\* A hunk is a stretch of the patch: the header at a and the lines below it, up to b.
Stretch(patch, h, a, b) ==
    /\ a <= b /\ IsHeader(patch[a])
    /\ \A i \in (a + 1)..b : ~IsHeader(patch[i])
    /\ h.NewStart = patch[a].start
    /\ h.NewLines = RangeCount(patch[a])
    /\ h.RawDiff  = SubSeq(patch, a, b)

\* The hunks hs cut the first n lines of a patch into pieces, the k-th from c[k] on.
Cuts(patch, hs, c, n) ==
    /\ hs \in Seq(Hunk)
    /\ c \in [1..(Len(hs) + 1) -> 1..(n + 1)]
    /\ c[1] = 1 /\ c[Len(hs) + 1] = n + 1
    /\ \A k \in 1..Len(hs) : Stretch(patch, hs[k], c[k], c[k + 1] - 1)

\* A header begins a stretch (parseHunks).
LEMMA StretchBegins ==
  ASSUME NEW patch \in Seq(Line), NEW a \in 1..Len(patch), IsHeader(patch[a])
  PROVE  Stretch(patch, parseHunkHeader(patch[a]), a, a)
<1>1. patch[a] \in Line /\ (a + 1)..a = {} /\ a <= a
  OBVIOUS
<1>2. SubSeq(patch, a, a) = << patch[a] >>
  <2>1. SubSeq(patch, a, a) = SubSeq(patch, a, a - 1) \o << patch[a] >>
    BY SubSeqRecursiveSecond
  <2>2. SubSeq(patch, a, a - 1) = << >>
    BY SubSeqEmpty
  <2>3. << >> \o << patch[a] >> = << patch[a] >>
    <3>1. << patch[a] >> \in Seq(Line)
      BY <1>1
    <3> QED
      BY <3>1, ConcatEmptySeq
  <2> QED
    BY <2>1, <2>2, <2>3
<1> QED
  BY <1>1, <1>2 DEF Stretch, parseHunkHeader

\* A line that is no header continues one (parseHunks).
LEMMA StretchGrows ==
  ASSUME NEW patch \in Seq(Line), NEW a \in 1..Len(patch), NEW b \in 1..Len(patch),
         b + 1 <= Len(patch), ~IsHeader(patch[b + 1]),
         NEW h \in Hunk, Stretch(patch, h, a, b)
  PROVE  Stretch(patch, [h EXCEPT !.RawDiff = Append(@, patch[b + 1])], a, b + 1)
<1>1. /\ a <= b /\ IsHeader(patch[a])
      /\ \A i \in (a + 1)..b : ~IsHeader(patch[i])
      /\ h.NewStart = patch[a].start /\ h.NewLines = RangeCount(patch[a])
      /\ h.RawDiff = SubSeq(patch, a, b)
  BY DEF Stretch
<1>2. \A i \in (a + 1)..(b + 1) : ~IsHeader(patch[i])
  <2>1. \A i \in (a + 1)..(b + 1) : i \in (a + 1)..b \/ i = b + 1
    OBVIOUS
  <2> QED
    BY <1>1, <2>1
<1>3. SubSeq(patch, a, b + 1) = Append(SubSeq(patch, a, b), patch[b + 1])
  <2>1. b + 1 \in a..Len(patch) /\ (b + 1) - 1 = b
    BY <1>1
  <2>2. SubSeq(patch, a, b + 1) = SubSeq(patch, a, (b + 1) - 1) \o << patch[b + 1] >>
    BY <2>1, SubSeqRecursiveSecond
  <2>3. SubSeq(patch, a, b) \in Seq(Line) /\ patch[b + 1] \in Line
    <3>1. \A i \in a..b : patch[i] \in Line
      OBVIOUS
    <3>2. SubSeq(patch, a, b) \in Seq(Line)
      BY <3>1, SubSeqProperties
    <3> QED
      BY <2>1, <3>2
  <2>4. Append(SubSeq(patch, a, b), patch[b + 1]) = SubSeq(patch, a, b) \o << patch[b + 1] >>
    BY <2>3, AppendIsConcat
  <2> QED
    BY <2>1, <2>2, <2>4
<1> DEFINE longer == [h EXCEPT !.RawDiff = Append(@, patch[b + 1])]
<1>4. /\ longer.NewStart = h.NewStart /\ longer.NewLines = h.NewLines
      /\ longer.RawDiff = Append(h.RawDiff, patch[b + 1])
  BY DEF Hunk
<1>5. a <= b + 1
  BY <1>1
<1> HIDE DEF longer
<1>6. Stretch(patch, longer, a, b + 1)
  BY <1>1, <1>2, <1>3, <1>4, <1>5 DEF Stretch
<1> QED
  BY <1>6 DEF longer

\* At a header the last stretch ends and the next begins (parseHunks).
LEMMA CutsAtHeader ==
  ASSUME NEW patch \in Seq(Line), NEW n \in Nat, n + 1 <= Len(patch), IsHeader(patch[n + 1]),
         NEW hs, NEW c, Cuts(patch, hs, c, n), parseHunkHeader(patch[n + 1]) \in Hunk
  PROVE  \E d : Cuts(patch, hs \o << parseHunkHeader(patch[n + 1]) >>, d, n + 1)
<1> DEFINE K == Len(hs)
           new == parseHunkHeader(patch[n + 1])
           out == hs \o << new >>
           d == [k \in 1..(K + 2) |-> IF k = K + 2 THEN n + 2 ELSE c[k]]
<1>1. /\ hs \in Seq(Hunk) /\ K \in Nat
      /\ c \in [1..(K + 1) -> 1..(n + 1)]
      /\ c[1] = 1 /\ c[K + 1] = n + 1
      /\ \A k \in 1..K : Stretch(patch, hs[k], c[k], c[k + 1] - 1)
  BY DEF Cuts
<1>2. n + 1 \in 1..Len(patch)
  OBVIOUS
<1>3. Stretch(patch, new, n + 1, n + 1)
  BY <1>2, StretchBegins
<1>4. /\ out \in Seq(Hunk) /\ Len(out) = K + 1
      /\ \A k \in 1..K : out[k] = hs[k]
      /\ out[K + 1] = new
  <2>1. new \in Hunk
    OBVIOUS
  <2> HIDE DEF new
  <2> QED
    BY <1>1, <2>1, OneMore
<1> HIDE DEF new, out, K
<1>5. /\ d \in [1..(K + 2) -> 1..(n + 2)] /\ d[K + 2] = n + 2
      /\ \A k \in 1..(K + 1) : d[k] = c[k]
  <2>1. \A k \in 1..(K + 2) : k # K + 2 => k \in 1..(K + 1)
    BY <1>1
  <2>2. \A k \in 1..(K + 1) : c[k] \in 1..(n + 2) /\ k # K + 2 /\ k \in 1..(K + 2)
    BY <1>1
  <2>3. n + 2 \in 1..(n + 2) /\ K + 2 \in 1..(K + 2)
    BY <1>1
  <2> QED
    BY <2>1, <2>2, <2>3
<1> HIDE DEF d
<1>6. ASSUME NEW k \in 1..(K + 1)
      PROVE  Stretch(patch, out[k], d[k], d[k + 1] - 1)
  <2>1. CASE k = K + 1
    <3>1. d[k] = n + 1 /\ d[k + 1] = n + 2
      <4>1. k + 1 = K + 2
        BY <1>1, <2>1
      <4> QED
        BY <1>1, <1>5, <2>1, <4>1
    <3>2. d[k + 1] - 1 = n + 1
      BY <3>1
    <3> QED
      BY <1>3, <1>4, <2>1, <3>1, <3>2
  <2>2. CASE k \in 1..K
    <3>1. d[k] = c[k] /\ d[k + 1] = c[k + 1]
      <4>1. k + 1 \in 1..(K + 1)
        BY <1>1, <2>2
      <4> QED
        BY <1>5, <4>1
    <3> QED
      BY <1>1, <1>4, <2>2, <3>1
  <2> QED
    BY <1>1, <2>1, <2>2
<1>7. d[1] = 1
  BY <1>1, <1>5
<1>8. Cuts(patch, out, d, n + 1)
  <2>1. Len(out) + 1 = K + 2 /\ (n + 1) + 1 = n + 2
    BY <1>1, <1>4
  <2> QED
    BY <1>4, <1>5, <1>6, <1>7, <2>1 DEF Cuts
<1> QED
  BY <1>8 DEF out, new

\* Any other line becomes the last of the last stretch.
LEMMA CutsBetween ==
  ASSUME NEW patch \in Seq(Line), NEW n \in Nat, n + 1 <= Len(patch), ~IsHeader(patch[n + 1]),
         NEW hs, NEW c, Cuts(patch, hs, c, n), Len(hs) > 0,
         NEW out \in Seq(Hunk), Len(out) = Len(hs),
         \A k \in 1..(Len(hs) - 1) : out[k] = hs[k],
         out[Len(hs)] = [hs[Len(hs)] EXCEPT !.RawDiff = Append(@, patch[n + 1])]
  PROVE  \E d : Cuts(patch, out, d, n + 1)
<1> DEFINE K == Len(hs)
           d == [k \in 1..(K + 1) |-> IF k = K + 1 THEN n + 2 ELSE c[k]]
<1>1. /\ hs \in Seq(Hunk) /\ K \in Nat \ {0}
      /\ c \in [1..(K + 1) -> 1..(n + 1)]
      /\ c[1] = 1 /\ c[K + 1] = n + 1
  BY DEF Cuts
<1>9. \A k \in 1..K : Stretch(patch, hs[k], c[k], c[k + 1] - 1)
  BY DEF Cuts
<1> HIDE DEF K
<1>2. /\ d \in [1..(K + 1) -> 1..(n + 2)] /\ d[K + 1] = n + 2
      /\ \A k \in 1..K : d[k] = c[k]
  <2>1. \A k \in 1..(K + 1) : c[k] \in 1..(n + 2)
    BY <1>1
  <2>2. \A k \in 1..K : k # K + 1 /\ k \in 1..(K + 1)
    BY <1>1
  <2>3. n + 2 \in 1..(n + 2) /\ K + 1 \in 1..(K + 1)
    BY <1>1
  <2> QED
    BY <2>1, <2>2, <2>3
<1> HIDE DEF d
<1>3. ASSUME NEW k \in 1..K
      PROVE  Stretch(patch, out[k], d[k], d[k + 1] - 1)
  <2>1. CASE k = K
    <3>1. d[k] = c[k] /\ d[k + 1] - 1 = n + 1
      BY <1>1, <1>2, <2>1
    <3>2. Stretch(patch, hs[k], c[k], n)
      <4>1. c[k + 1] - 1 = n
        BY <1>1, <2>1
      <4> QED
        BY <1>9, <4>1
    <3>3. c[k] \in 1..Len(patch) /\ n \in 1..Len(patch)
      <4>1. c[k] \in 1..(n + 1) /\ c[k] <= n
        <5>1. k \in 1..(K + 1)
          BY <1>1
        <5> QED
          BY <1>1, <3>2, <5>1 DEF Stretch
      <4>2. Len(patch) \in Nat
        OBVIOUS
      <4> QED
        BY <4>1, <4>2
    <3>4. out[k] = [hs[k] EXCEPT !.RawDiff = Append(@, patch[n + 1])]
      BY <2>1 DEF K
    <3> DEFINE h == hs[k]
               a == c[k]
    <3>5. Stretch(patch, h, a, n) /\ a \in 1..Len(patch) /\ h \in Hunk
      <4>1. h \in Hunk
        BY <1>1 DEF K
      <4> QED
        BY <3>2, <3>3, <4>1
    <3> HIDE DEF h, a
    <3>6. Stretch(patch, [h EXCEPT !.RawDiff = Append(@, patch[n + 1])], a, n + 1)
      BY <3>3, <3>5, StretchGrows
    <3> QED
      BY <3>1, <3>4, <3>6 DEF h, a
  <2>2. CASE k \in 1..(K - 1)
    <3>1. d[k] = c[k] /\ d[k + 1] = c[k + 1]
      <4>1. k + 1 \in 1..K
        BY <1>1, <2>2
      <4> QED
        BY <1>2, <4>1
    <3>2. out[k] = hs[k]
      BY <2>2 DEF K
    <3> QED
      BY <1>9, <3>1, <3>2
  <2> QED
    BY <1>1, <2>1, <2>2
<1>4. d[1] = 1
  <2>1. 1 \in 1..K
    BY <1>1
  <2> QED
    BY <1>1, <1>2, <2>1
<1>5. Len(out) = K /\ (n + 1) + 1 = n + 2
  BY DEF K
<1> QED
  BY <1>2, <1>3, <1>4, <1>5 DEF Cuts

\* A header is that of a hunk.
LEMMA HeaderType ==
  ASSUME NEW line \in Line
  PROVE  parseHunkHeader(line) \in Hunk
<1>1. RangeCount(line) \in Nat
  BY DEF RangeCount, Line, Omitted
<1>2. line.start \in Nat /\ << line >> \in Seq(Line)
  BY DEF Line
<1> QED
  BY <1>1, <1>2 DEF parseHunkHeader, Hunk

\* Two sequences that go on with one element each.
LEMMA SameBut ==
  ASSUME NEW T, NEW s \in Seq(T), NEW x \in Seq(T), NEW y \in Seq(T), Len(x) = 1, Len(y) = 1
  PROVE  /\ s \o x \in Seq(T) /\ s \o y \in Seq(T) /\ Len(s) \in Nat
         /\ Len(s \o x) = Len(s) + 1 /\ Len(s \o y) = Len(s) + 1
         /\ \A k \in 1..Len(s) : (s \o y)[k] = (s \o x)[k]
         /\ (s \o x)[Len(s) + 1] = x[1] /\ (s \o y)[Len(s) + 1] = y[1]
<1> DEFINE n == Len(s)
<1>new. ASSUME NEW z \in Seq(T), Len(z) = 1
        PROVE  /\ s \o z \in Seq(T) /\ Len(s \o z) = n + 1
               /\ \A i \in 1..(n + 1) : (s \o z)[i] = IF i <= n THEN s[i] ELSE z[i - n]
  <2>1. /\ s \o z \in Seq(T) /\ Len(s \o z) = n + Len(z)
        /\ \A i \in 1..(n + Len(z)) : (s \o z)[i] = IF i <= n THEN s[i] ELSE z[i - n]
    BY ConcatProperties, Zenon
  <2> HIDE DEF n
  <2> QED
    BY <1>new, <2>1
<1>1. /\ s \o x \in Seq(T) /\ Len(s \o x) = n + 1 /\ n \in Nat
      /\ \A i \in 1..(n + 1) : (s \o x)[i] = IF i <= n THEN s[i] ELSE x[i - n]
  <2>1. n \in Nat
    OBVIOUS
  <2> HIDE DEF n
  <2> QED
    BY <1>new, <2>1
<1>2. /\ s \o y \in Seq(T) /\ Len(s \o y) = n + 1
      /\ \A i \in 1..(n + 1) : (s \o y)[i] = IF i <= n THEN s[i] ELSE y[i - n]
  <2> HIDE DEF n
  <2> QED
    BY <1>new
<1>3. n + 1 \in 1..(n + 1) /\ ~(n + 1 <= n) /\ (n + 1) - n = 1
  BY <1>1
<1>4. \A i \in 1..n : i \in 1..(n + 1) /\ i <= n
  BY <1>1
<1> HIDE DEF n
<1> QED
  BY <1>1, <1>2, <1>3, <1>4 DEF n

\* The hunks cut the whole patch into pieces: every line from the first header on is in one
\* of them (parseHunks).
LEMMA PatchIsCut ==
  ASSUME NEW patch, WellFormedPatch(patch)
  PROVE  \E c : Cuts(patch, parseHunks(patch), c, Len(patch))
<1> DEFINE N == Len(patch)
           none == [hunks |-> << >>, current |-> << >>]
           Round(l, n) == /\ l \in Loops
                          /\ n > 0 => Len(l.current) = 1
                          /\ \E c : Cuts(patch, Begun(l), c, n)
<1>1. patch \in Seq(Line) /\ N \in Nat /\ \A i \in 1..N : patch[i] \in Line
  BY DEF WellFormedPatch
<1>2. patch # << >> => IsHeader(patch[1])
  BY DEF WellFormedPatch
<1>3. PICK loop : Parses(loop, patch)
  BY <1>1, PatchIsParsed
<1> DEFINE S == {n \in Nat : n <= N => Round(loop[n], n)}
<1>4. 0 \in S
  <2>1. loop[0] = none /\ loop[0] \in Loops
    BY <1>1, <1>3 DEF Parses
  <2>2. Begun(none) = << >> /\ << >> \in Seq(Hunk) /\ Len(<< >>) = 0
    BY DEF Begun
  <2> DEFINE c == [k \in 1..1 |-> 1]
  <2>3. c \in [1..(0 + 1) -> 1..(0 + 1)] /\ c[1] = 1 /\ c[0 + 1] = 0 + 1 /\ 1..0 = {}
    OBVIOUS
  <2> HIDE DEF c
  <2>4. Cuts(patch, << >>, c, 0)
    BY <2>2, <2>3 DEF Cuts
  <2>5. Round(none, 0)
    BY <2>1, <2>2, <2>4
  <2> HIDE DEF none
  <2> QED
    BY <2>1, <2>5
<1>5. ASSUME NEW n \in Nat, n \in S
      PROVE  n + 1 \in S
  <2>1. SUFFICES ASSUME n + 1 <= N
                 PROVE  Round(loop[n + 1], n + 1)
    OBVIOUS
  <2> DEFINE l == loop[n]
             line == patch[n + 1]
             next == parseLine(l, line)
  <2>2. n + 1 \in 1..N /\ (n + 1) - 1 = n /\ n <= N /\ n + 1 > 0
    BY <1>1, <2>1
  <2>3. loop[n + 1] = next
    BY <1>3, <2>2 DEF Parses
  <2>4. l \in Loops /\ (n > 0 => Len(l.current) = 1) /\ line \in Line
    BY <1>1, <1>5, <2>2
  <2>5. PICK c : Cuts(patch, Begun(l), c, n)
    BY <1>5, <2>2
  <2>6. next \in Loops
    BY <2>4, ParseLineType
  <2>7. CASE IsHeader(line)
    <3>1. next.hunks = Begun(l) /\ next.current = << parseHunkHeader(line) >>
      BY <2>4, <2>7, ParseLineType
    <3>2. Len(next.current) = 1
      BY <3>1
    <3>3. Begun(next) = Begun(l) \o << parseHunkHeader(line) >>
      <4> HIDE DEF next
      <4> QED
        BY <3>1 DEF Begun
    <3>4. parseHunkHeader(line) \in Hunk
      BY <2>4, HeaderType
    <3>5. \E d : Cuts(patch, Begun(next), d, n + 1)
      <4> HIDE DEF next, l
      <4> QED
        BY <1>1, <2>1, <2>5, <2>7, <3>3, <3>4, CutsAtHeader DEF line
    <3> HIDE DEF next
    <3> QED
      BY <2>3, <2>6, <3>2, <3>5
  <2>8. CASE ~IsHeader(line)
    <3>1. n > 0
      <4>1. n = 0 => patch # << >> /\ line = patch[1]
        BY <1>1, <2>1
      <4> QED
        BY <1>2, <2>8, <4>1
    <3>2. /\ l.hunks \in Seq(Hunk) /\ l.current \in Seq(Hunk) /\ Len(l.current) = 1
      <4> HIDE DEF l
      <4> QED
        BY <2>4, <3>1 DEF Loops
    <3>3. l.current # << >>
      <4> HIDE DEF l
      <4>1. Len(<< >>) # 1
        OBVIOUS
      <4>2. Len(l.current) # Len(<< >>)
        BY <3>2, <4>1
      <4> QED
        BY <4>2
    <3> DEFINE longer == [l.current[1] EXCEPT !.RawDiff = Append(@, line)]
    <3>4. next = [hunks |-> l.hunks, current |-> << longer >>]
      BY <2>8, <3>3 DEF parseLine
    <3>5. next.hunks = l.hunks /\ next.current = << longer >> /\ Len(next.current) = 1
      <4> HIDE DEF longer
      <4> QED
        BY <3>4
    <3>6. next.current \in Seq(Hunk)
      <4> HIDE DEF next
      <4> QED
        BY <2>6 DEF Loops
    <3>7. Begun(l) = l.hunks \o l.current /\ Begun(next) = l.hunks \o next.current
      <4> HIDE DEF next, longer
      <4> QED
        BY <3>5 DEF Begun
    <3> DEFINE M == Len(l.hunks)
    <3>8. /\ Begun(l) \in Seq(Hunk) /\ Begun(next) \in Seq(Hunk) /\ M \in Nat
          /\ Len(Begun(l)) = M + 1 /\ Len(Begun(next)) = M + 1
          /\ \A k \in 1..M : Begun(next)[k] = Begun(l)[k]
          /\ Begun(l)[M + 1] = l.current[1] /\ Begun(next)[M + 1] = next.current[1]
      <4> DEFINE s == l.hunks
                 x == l.current
                 y == next.current
      <4>1. /\ s \in Seq(Hunk) /\ x \in Seq(Hunk) /\ y \in Seq(Hunk)
            /\ Len(x) = 1 /\ Len(y) = 1 /\ M = Len(s)
            /\ Begun(l) = s \o x /\ Begun(next) = s \o y
        <5> HIDE DEF next, l, longer
        <5> QED
          BY <3>2, <3>5, <3>6, <3>7
      <4> HIDE DEF s, x, y, M
      <4>2. /\ s \o x \in Seq(Hunk) /\ s \o y \in Seq(Hunk) /\ Len(s) \in Nat
            /\ Len(s \o x) = Len(s) + 1 /\ Len(s \o y) = Len(s) + 1
            /\ \A k \in 1..Len(s) : (s \o y)[k] = (s \o x)[k]
            /\ (s \o x)[Len(s) + 1] = x[1] /\ (s \o y)[Len(s) + 1] = y[1]
        BY <4>1, SameBut
      <4> HIDE DEF next, l
      <4> QED
        BY <4>1, <4>2 DEF x, y
    <3>9. Begun(next)[M + 1] = [Begun(l)[M + 1] EXCEPT !.RawDiff = Append(@, line)]
      <4>1. next.current[1] = longer
        <5> HIDE DEF next, longer
        <5> QED
          BY <3>5
      <4> QED
        BY <3>8, <4>1
    <3>10. \E d : Cuts(patch, Begun(next), d, n + 1)
      <4> DEFINE a == Begun(l)
                 b == Begun(next)
      <4>1. /\ b \in Seq(Hunk) /\ Len(b) = Len(a) /\ Len(a) > 0
            /\ \A k \in 1..(Len(a) - 1) : b[k] = a[k]
            /\ b[Len(a)] = [a[Len(a)] EXCEPT !.RawDiff = Append(@, patch[n + 1])]
        <5>1. Len(a) = M + 1 /\ Len(a) - 1 = M /\ M \in Nat
          BY <3>8
        <5> HIDE DEF next, l, M
        <5> QED
          BY <3>8, <3>9, <5>1
      <4>2. Cuts(patch, a, c, n)
        BY <2>5
      <4> HIDE DEF a, b
      <4>3. \E d : Cuts(patch, b, d, n + 1)
        BY <1>1, <2>1, <2>8, <4>1, <4>2, CutsBetween
      <4> QED
        BY <4>3 DEF b
    <3> HIDE DEF next
    <3> QED
      BY <2>3, <2>6, <3>5, <3>10
  <2> QED
    BY <2>7, <2>8
<1>6. Nat \subseteq S
  <2> HIDE DEF S
  <2> QED
    BY <1>4, <1>5, SetInduction
<1>7. Round(loop[N], N)
  BY <1>1, <1>6
<1> QED
  BY <1>3, <1>7 DEF Parses

\* The raw diffs of the hunks, one after the other, are the patch (parseHunks).
LEMMA RawDiffsMakePatch ==
  ASSUME NEW patch \in Seq(Line), NEW hs, NEW c, Cuts(patch, hs, c, Len(patch))
  PROVE  FlattenSeq([k \in 1..Len(hs) |-> hs[k].RawDiff]) = patch
<1> DEFINE N == Len(patch)
           K == Len(hs)
           raw == [k \in 1..K |-> hs[k].RawDiff]
           Loop(f) == f = [i \in 1..K |-> IF i = 1 THEN raw[i] ELSE f[i - 1] \o raw[i]]
           flatten == CHOOSE f : Loop(f)
           upto == [k \in 1..K |-> SubSeq(patch, 1, c[k + 1] - 1)]
<1>1. /\ hs \in Seq(Hunk) /\ K \in Nat /\ N \in Nat
      /\ c \in [1..(K + 1) -> 1..(N + 1)]
      /\ c[1] = 1 /\ c[K + 1] = N + 1
  BY DEF Cuts
<1>2. \A k \in 1..K : /\ k \in 1..(K + 1) /\ k + 1 \in 1..(K + 1)
                      /\ c[k] \in 1..(N + 1) /\ c[k + 1] \in 1..(N + 1)
  <2> HIDE DEF K, N
  <2> QED
    BY <1>1
<1>3. \A k \in 1..K : raw[k] = SubSeq(patch, c[k], c[k + 1] - 1) /\ c[k] <= c[k + 1] - 1
  BY DEF Cuts, Stretch
<1>4. Len(raw) = K
  <2>1. raw \in Seq(Seq(Line))
    <3>1. ASSUME NEW k \in 1..K PROVE hs[k].RawDiff \in Seq(Line)
      <4>1. hs[k] \in Hunk
        BY <1>1
      <4> QED
        BY <4>1 DEF Hunk
    <3> HIDE DEF K
    <3> QED
      BY <1>1, <3>1
  <2> QED
    BY <1>1
<1>5. CASE K = 0
  <2>1. N = 0
    BY <1>1, <1>5
  <2>2. raw = << >>
    BY <1>5
  <2>3. FlattenSeq(raw) = raw
    BY <1>4, <1>5 DEF FlattenSeq
  <2>4. patch = << >>
    BY <2>1, EmptySeq
  <2> QED
    BY <2>2, <2>3, <2>4
<1>6. CASE K # 0
  <2>1. \A k \in 2..K : upto[k - 1] \o raw[k] = upto[k]
    <3>1. TAKE k \in 2..K
    <3>2. k \in 1..K /\ k - 1 \in 1..K /\ (k - 1) + 1 = k
      BY <1>1
    <3> DEFINE m == c[k] - 1
               n == c[k + 1] - 1
    <3>3. m \in 0..N /\ n \in m..N /\ m + 1 = c[k]
      <4>1. c[k] \in 1..(N + 1) /\ c[k + 1] \in 1..(N + 1) /\ c[k] <= c[k + 1] - 1
        BY <1>2, <1>3, <3>2
      <4> QED
        BY <1>1, <4>1
    <3>4. upto[k - 1] = SubSeq(patch, 1, m) /\ upto[k] = SubSeq(patch, 1, n)
      BY <3>2
    <3>5. raw[k] = SubSeq(patch, m + 1, n)
      BY <1>3, <3>2, <3>3
    <3> HIDE DEF m, n, raw, upto
    <3>6. SubSeq(patch, 1, m) \o SubSeq(patch, m + 1, n) = SubSeq(patch, 1, n)
      <4>1. 1 \in 1..(Len(patch) + 1) /\ m \in (1 - 1)..Len(patch) /\ n \in m..Len(patch)
        BY <1>1, <3>3
      <4> QED
        BY <4>1, ConcatAdjacentSubSeq
    <3> QED
      BY <3>4, <3>5, <3>6
  <2>2. 1 \in 1..K /\ raw[1] = upto[1]
    <3>1. 1 \in 1..K
      BY <1>1, <1>6
    <3>2. raw[1] = SubSeq(patch, c[1], c[1 + 1] - 1)
      BY <1>3, <3>1
    <3>3. upto[1] = SubSeq(patch, 1, c[1 + 1] - 1)
      BY <3>1
    <3> HIDE DEF raw, upto
    <3> QED
      BY <1>1, <3>1, <3>2, <3>3
  <2>3. Loop(upto)
    <3>1. \A i \in 1..K : upto[i] = IF i = 1 THEN raw[i] ELSE upto[i - 1] \o raw[i]
      <4>1. TAKE i \in 1..K
      <4>2. i # 1 => i \in 2..K
        BY <1>1
      <4> HIDE DEF upto, raw
      <4> QED
        BY <2>1, <2>2, <4>2
    <3>2. upto = [i \in 1..K |-> upto[i]]
      OBVIOUS
    <3> HIDE DEF upto, raw, K
    <3> QED
      BY <3>1, <3>2
  <2>4. \A i \in 1..K : flatten[i] = IF i = 1 THEN raw[i] ELSE flatten[i - 1] \o raw[i]
    <3>1. Loop(flatten)
      BY <2>3
    <3> HIDE DEF flatten, raw, K
    <3> QED
      BY <3>1
  <2> HIDE DEF flatten
  <2> DEFINE S == {n \in Nat : n + 1 <= K => flatten[n + 1] = upto[n + 1]}
  <2>5. 0 \in S
    <3>1. 0 + 1 = 1
      OBVIOUS
    <3> HIDE DEF upto, raw
    <3> QED
      BY <2>2, <2>4, <3>1
  <2>6. ASSUME NEW n \in Nat, n \in S
        PROVE  n + 1 \in S
    <3> HIDE DEF upto, raw, K
    <3>1. SUFFICES ASSUME (n + 1) + 1 <= K PROVE flatten[(n + 1) + 1] = upto[(n + 1) + 1]
      OBVIOUS
    <3> DEFINE k == (n + 1) + 1
    <3>2. k \in 2..K /\ k \in 1..K /\ k # 1 /\ k - 1 = n + 1 /\ n + 1 <= K
      BY <1>1, <3>1
    <3>3. flatten[n + 1] = upto[n + 1]
      BY <2>6, <3>2
    <3> HIDE DEF k
    <3>4. flatten[k] = flatten[k - 1] \o raw[k] /\ upto[k - 1] \o raw[k] = upto[k]
      BY <2>1, <2>4, <3>2
    <3>5. flatten[k] = upto[k]
      BY <3>2, <3>3, <3>4
    <3> QED
      BY <3>5 DEF k
  <2>7. Nat \subseteq S
    <3> HIDE DEF S
    <3> QED
      BY <2>5, <2>6, SetInduction
  <2>8. flatten[K] = upto[K]
    <3>1. K - 1 \in Nat /\ (K - 1) + 1 = K
      BY <1>1, <1>6
    <3>2. K - 1 \in S
      BY <2>7, <3>1
    <3> HIDE DEF upto, raw, K
    <3> QED
      BY <3>1, <3>2, <1>1
  <2>9. upto[K] = patch
    <3>1. K \in 1..K /\ c[K + 1] - 1 = N
      BY <1>1, <1>6
    <3>2. upto[K] = SubSeq(patch, 1, N)
      BY <3>1
    <3> QED
      BY <3>2, SubSeqFull
  <2>10. FlattenSeq(raw) = flatten[K]
    BY <1>4, <1>6 DEF FlattenSeq, flatten
  <2> QED
    BY <2>8, <2>9, <2>10
<1> QED
  BY <1>5, <1>6

\* A hunk shows as many lines of the new file as it says it has (parseHunkRange).
LEMMA HunkCountsItsLines ==
  ASSUME NEW patch, WellFormedPatch(patch), NEW hs, NEW c, Cuts(patch, hs, c, Len(patch)),
         NEW k \in 1..Len(hs)
  PROVE  Cardinality(ShownBelow(hs[k].RawDiff, 1)) = hs[k].NewLines
<1> DEFINE N == Len(patch)
           K == Len(hs)
           a == c[k]
           b == c[k + 1] - 1
           raw == hs[k].RawDiff
           inPatch == ShownBelow(patch, a)
           inHunk  == ShownBelow(raw, 1)
<1>1. /\ patch \in Seq(Line) /\ N \in Nat /\ K \in Nat
      /\ c \in [1..(K + 1) -> 1..(N + 1)] /\ c[K + 1] = N + 1
  BY DEF Cuts, WellFormedPatch
<1>2. \A i \in DOMAIN patch : IsHeader(patch[i]) =>
          Cardinality(ShownBelow(patch, i)) = RangeCount(patch[i])
  BY DEF WellFormedPatch, RangeCount
<1>3. \A m \in 1..K : Stretch(patch, hs[m], c[m], c[m + 1] - 1)
  BY DEF Cuts
<1>4. /\ a <= b /\ IsHeader(patch[a]) /\ \A i \in (a + 1)..b : ~IsHeader(patch[i])
      /\ hs[k].NewLines = RangeCount(patch[a]) /\ raw = SubSeq(patch, a, b)
  BY <1>3 DEF Stretch
<1>5. a \in 1..N /\ b \in 1..N
  <2>1. k \in 1..(K + 1) /\ k + 1 \in 1..(K + 1)
    BY <1>1
  <2>2. a \in 1..(N + 1) /\ c[k + 1] \in 1..(N + 1)
    <3> HIDE DEF K, N
    <3> QED
      BY <1>1, <2>1
  <2> QED
    BY <1>1, <1>4, <2>2
<1>6. b + 1 <= N => IsHeader(patch[b + 1])
  <2>1. ASSUME b + 1 <= N
        PROVE  IsHeader(patch[b + 1])
    <3>1. c[k + 1] = b + 1 /\ c[k + 1] # N + 1
      <4>1. k + 1 \in 1..(K + 1)
        BY <1>1
      <4>2. c[k + 1] \in 1..(N + 1)
        BY <1>1, <4>1
      <4> QED
        BY <1>1, <2>1, <4>2
    <3>2. k + 1 \in 1..K
      <4>1. k # K
        BY <1>1, <3>1
      <4> QED
        BY <1>1, <4>1
    <3>3. IsHeader(patch[c[k + 1]])
      BY <1>3, <3>2 DEF Stretch
    <3> QED
      BY <3>1, <3>3
  <2> QED
    BY <2>1
<1>7. DOMAIN patch = 1..N /\ \A i \in 1..N : patch[i] \in Line
  BY <1>1
<1> HIDE DEF a, b, raw, N
<1>8. /\ Len(raw) = b - a + 1
      /\ \A j \in 1..(b - a + 1) : raw[j] = patch[a + j - 1]
  <2>1. \A i \in a..b : patch[i] \in Line
    BY <1>1, <1>5, <1>7
  <2> QED
    BY <1>4, <1>5, <2>1, SubSeqProperties
<1> DEFINE shown(i) == patch[i].mark \in {" ", "+"}
<1>9. inPatch = {i \in (a + 1)..b : shown(i)}
  <2>1. ASSUME NEW i \in inPatch
        PROVE  i \in (a + 1)..b /\ shown(i)
    <3>1. i \in (a + 1)..N
      BY DEF ShownBelow, N
    <3>2. shown(i) /\ \A m \in (a + 1)..i : ~IsHeader(patch[m])
      BY DEF ShownBelow, N
    <3> HIDE DEF inPatch, shown
    <3>3. i \in Int /\ a + 1 <= i /\ i <= N /\ a \in Int /\ b \in Int
      BY <1>1, <1>5, <3>1
    <3>4. ~(b + 1 <= i)
      <4>1. SUFFICES ASSUME b + 1 <= i PROVE FALSE
        OBVIOUS
      <4>2. b + 1 \in (a + 1)..i /\ b + 1 <= N
        BY <1>1, <1>4, <3>3, <4>1
      <4> QED
        BY <1>6, <3>2, <4>2
    <3> QED
      BY <3>4, <3>3, <3>2
  <2>2. ASSUME NEW i \in (a + 1)..b, shown(i)
        PROVE  i \in inPatch
    <3>1. i \in (a + 1)..N /\ \A m \in (a + 1)..i : ~IsHeader(patch[m])
      BY <1>1, <1>4, <1>5
    <3> QED
      BY <2>2, <3>1 DEF ShownBelow, N
  <2> HIDE DEF inPatch, shown
  <2> QED
    BY <2>1, <2>2
<1>10. inHunk = {j \in 2..(b - a + 1) : shown(a + j - 1)}
  <2>1. \A j \in 2..(b - a + 1) : raw[j] = patch[a + j - 1] /\ ~IsHeader(raw[j])
    <3>1. TAKE j \in 2..(b - a + 1)
    <3>2. j \in 1..(b - a + 1) /\ a + j - 1 \in (a + 1)..b
      BY <1>5
    <3> QED
      BY <1>4, <1>8, <3>2
  <2>2. \A j \in 2..(b - a + 1) : \A m \in 2..j : ~IsHeader(raw[m])
    <3>1. \A j \in 2..(b - a + 1) : \A m \in 2..j : m \in 2..(b - a + 1)
      BY <1>5
    <3> QED
      BY <2>1, <3>1
  <2>3. inHunk = {j \in 2..(b - a + 1) : /\ raw[j].mark \in {" ", "+"}
                                         /\ \A m \in 2..j : ~IsHeader(raw[m])}
    BY <1>8 DEF ShownBelow
  <2> HIDE DEF inHunk
  <2> QED
    BY <2>1, <2>2, <2>3
<1> HIDE DEF inPatch, inHunk, shown
<1> DEFINE moved == [j \in inHunk |-> a + j - 1]
<1>11. moved \in Bijection(inHunk, inPatch)
  <2>1. \A j \in inHunk : a + j - 1 \in inPatch /\ j \in Int
    <3>1. TAKE j \in inHunk
    <3>2. j \in 2..(b - a + 1) /\ shown(a + j - 1)
      BY <1>10
    <3>3. a + j - 1 \in (a + 1)..b
      BY <1>5, <3>2
    <3> QED
      BY <1>9, <3>2, <3>3
  <2>2. \A i \in inPatch : \E j \in inHunk : i = a + j - 1
    <3>1. TAKE i \in inPatch
    <3>2. i \in (a + 1)..b /\ shown(i)
      BY <1>9
    <3> DEFINE j == i - a + 1
    <3>3. j \in 2..(b - a + 1) /\ a + j - 1 = i
      BY <1>5, <3>2
    <3> HIDE DEF j
    <3>4. j \in inHunk
      BY <1>10, <3>2, <3>3
    <3> QED
      BY <3>3, <3>4
  <2>3. \A i, j \in inHunk : moved[i] = moved[j] => i = j
    BY <1>5, <2>1
  <2>4. moved \in [inHunk -> inPatch] /\ \A j \in inHunk : moved[j] = a + j - 1
    BY <2>1
  <2>5. \A i \in inPatch : \E j \in inHunk : moved[j] = i
    BY <2>2, <2>4
  <2> HIDE DEF moved
  <2> QED
    BY <2>3, <2>4, <2>5 DEF Bijection, Injection, Surjection, IsInjective
<1>12. Cardinality(inPatch) = Cardinality(inHunk)
  <2>1. IsFiniteSet(inHunk)
    <3>1. IsFiniteSet(2..(b - a + 1))
      BY <1>5, FS_Interval
    <3>2. inHunk \subseteq 2..(b - a + 1)
      BY <1>10
    <3> QED
      BY <3>1, <3>2, FS_Subset
  <2>2. ExistsBijection(inHunk, inPatch)
    BY <1>11 DEF ExistsBijection
  <2> QED
    BY <2>1, <2>2, FS_Bijection
<1>13. Cardinality(inPatch) = RangeCount(patch[a])
  <2>1. a \in DOMAIN patch
    BY <1>5, <1>7
  <2> QED
    BY <1>2, <1>4, <2>1 DEF inPatch
<1> QED
  BY <1>4, <1>12, <1>13 DEF inHunk, raw

\* What parseHunks makes of a patch: its hunks put it together again, and say how many
\* lines they show.
LEMMA HunksOfPatch ==
  ASSUME NEW patch, WellFormedPatch(patch)
  PROVE  LET hs == parseHunks(patch)
         IN  /\ FlattenSeq([k \in 1..Len(hs) |-> hs[k].RawDiff]) = patch
             /\ \A k \in 1..Len(hs) :
                    Cardinality(ShownBelow(hs[k].RawDiff, 1)) = hs[k].NewLines
<1> DEFINE hs == parseHunks(patch)
<1>1. PICK c : Cuts(patch, hs, c, Len(patch))
  BY PatchIsCut
<1>2. patch \in Seq(Line)
  BY DEF WellFormedPatch
<1> HIDE DEF hs
<1>3. FlattenSeq([k \in 1..Len(hs) |-> hs[k].RawDiff]) = patch
  BY <1>1, <1>2, RawDiffsMakePatch
<1>4. \A k \in 1..Len(hs) : Cardinality(ShownBelow(hs[k].RawDiff, 1)) = hs[k].NewLines
  BY <1>1, HunkCountsItsLines
<1> QED
  BY <1>3, <1>4 DEF hs

--------------------------------------------------------------------------------
(* The hunks as steps.                                                     *)

\* The files to review are those of a list of changed files, their patches parsed.
FilesOf(fs, diff) ==
    /\ \A i \in DOMAIN fs : \E j \in DOMAIN diff :
           fs[i].Path = diff[j].Filename /\ fs[i].Hunks = parseHunks(diff[j].Patch)
    /\ \A j \in DOMAIN diff : \E i \in DOMAIN fs :
           fs[i].Path = diff[j].Filename /\ fs[i].Hunks = parseHunks(diff[j].Patch)

\* Whatever the order, the files are those of the version the diff was listed at.
SourceInv ==
    \/ /\ diffAt = NoRef /\ files = << >> /\ ready = << >>
       /\ pc \in BeforeDiff \cup {"returned"}
    \/ diffAt \in Versions /\ FilesOf(files, Diff[diffAt])

\* A step shows what its hunk says.
SpansInv ==
    \A f \in 1..Len(files) : \A h \in 1..Len(files[f].Hunks) :
        LET id == StepID(files[f], files[f].Hunks[h])
        IN  id \in steps => spans[id] = HunkSpan(files[f], files[f].Hunks[h])

\* The step of a hunk follows that of the hunk before it in the same file.
NeighboursInv ==
    LET S == orderedStepIDs
    IN  /\ fi <= Len(files) /\ hi > 1 =>
               Len(S) > 0 /\ S[Len(S)] = StepID(files[fi], files[fi].Hunks[hi - 1])
        /\ \A f \in 1..Len(files) : \A h \in 2..Len(files[f].Hunks) : \A k \in 1..Len(S) :
               S[k] = StepID(files[f], files[f].Hunks[h]) =>
                   k > 1 /\ S[k - 1] = StepID(files[f], files[f].Hunks[h - 1])

\* What the hunks, their spans and their steps have to do with each other and with the diff.
HunksInv == SourceInv /\ SpansInv /\ NeighboursInv

\* Nothing has been fetched or built when the handler starts.
LEMMA HunksInit == Init => HunksInv
<1> SUFFICES ASSUME Init PROVE HunksInv
  OBVIOUS
<1>1. /\ diffAt = NoRef /\ files = << >> /\ ready = << >> /\ pc = "start"
      /\ orderedStepIDs = << >> /\ hi = 1
  BY DEF Init, CallInit
<1>2. Len(files) = 0 /\ Len(orderedStepIDs) = 0
  BY <1>1
<1> QED
  BY <1>1, <1>2 DEF HunksInv, SourceInv, BeforeDiff, SpansInv, NeighboursInv

\* Another order of the files is the same diff's.
LEMMA FilesOfSame ==
  ASSUME NEW fs, NEW out, NEW diff, FilesOf(fs, diff), SameMembers(fs, out)
  PROVE  FilesOf(out, diff)
<1>1. ASSUME NEW i \in DOMAIN out
      PROVE  \E j \in DOMAIN diff :
                 out[i].Path = diff[j].Filename /\ out[i].Hunks = parseHunks(diff[j].Patch)
  <2>1. PICK m \in DOMAIN fs : out[i] = fs[m]
    BY DEF SameMembers
  <2> QED
    BY <2>1 DEF FilesOf
<1>2. ASSUME NEW j \in DOMAIN diff
      PROVE  \E i \in DOMAIN out :
                 out[i].Path = diff[j].Filename /\ out[i].Hunks = parseHunks(diff[j].Patch)
  <2>1. PICK m \in DOMAIN fs :
               fs[m].Path = diff[j].Filename /\ fs[m].Hunks = parseHunks(diff[j].Patch)
    BY DEF FilesOf
  <2>2. PICK i \in DOMAIN out : out[i] = fs[m]
    BY DEF SameMembers
  <2> QED
    BY <2>1, <2>2
<1> QED
  BY <1>1, <1>2 DEF FilesOf

\* Every step keeps SourceInv: what is fetched is parsed, and ordering loses no file.
LEMMA SourceStep == SourceInv /\ FilesInv /\ [Next]_vars => SourceInv'
<1> SUFFICES ASSUME SourceInv, FilesInv, [Next]_vars PROVE SourceInv'
  OBVIOUS
<1>1. ASSUME UNCHANGED << files, diffAt >>,
             pc \in BeforeDiff \cup {"returned"} =>
                 pc' \in BeforeDiff \cup {"returned"} /\ ready' = ready
      PROVE  SourceInv'
  BY <1>1 DEF SourceInv
<1> USE DEF BeforeDiff
<1>2. CASE RejectEmptyURL \/ RequestFails
  BY <1>1, <1>2 DEF RejectEmptyURL, RequestFails, Fail, Return, forgeVars
<1>3. CASE SendParsing \/ SendFetching \/ SendBuilding \/ SendCreating
  BY <1>1, <1>3 DEF SendParsing, SendFetching, SendBuilding, SendCreating, SendProgress,
                    Fail, Return, forgeVars
<1>4. CASE FindContext \/ FetchPR
  BY <1>1, <1>4 DEF FindContext, FetchPR, Fail, Return, Continue
<1>5. CASE FetchDiff
  <2>1. PICK v \in Versions : files' = ghFilesToReviewFiles(Diff[v]) /\ diffAt' = v
    BY <1>5 DEF FetchDiff
  <2> DEFINE diff == Diff[v]
             out == ghFilesToReviewFiles(diff)
  <2>2. /\ DOMAIN out = DOMAIN diff
        /\ \A i \in DOMAIN diff : out[i].Path = diff[i].Filename
                                  /\ out[i].Hunks = parseHunks(diff[i].Patch)
    BY DEF ghFilesToReviewFiles
  <2> HIDE DEF out, diff
  <2>3. FilesOf(out, diff)
    BY <2>2 DEF FilesOf
  <2> QED
    BY <2>1, <2>3 DEF SourceInv, out, diff
<1>6. CASE OrderFiles
  <2> DEFINE name == OrdererName(req.FileOrdering)
  <2>1. /\ pc = "order" /\ UNCHANGED diffAt
        /\ \/ name \in Orderers /\ files' = Order(name, files)
           \/ pc' = "returned" /\ files' = files
    BY <1>6 DEF OrderFiles, Fail, Return
  <2>2. CASE name \in Orderers /\ files' = Order(name, files)
    <3>1. SameMembers(files, files')
      <4>1. WellFormedFiles(files)
        BY DEF FilesInv
      <4> HIDE DEF name
      <4> QED
        BY <2>2, <4>1, OrderedFiles
    <3>2. diffAt \in Versions /\ FilesOf(files, Diff[diffAt])
      BY <2>1 DEF SourceInv
    <3>3. FilesOf(files', Diff[diffAt])
      BY <3>1, <3>2, FilesOfSame
    <3> QED
      BY <2>1, <3>2, <3>3 DEF SourceInv
  <2>3. CASE pc' = "returned" /\ files' = files
    BY <1>1, <2>1, <2>3
  <2> QED
    BY <2>1, <2>2, <2>3
<1>7. CASE SkipDeleted \/ FetchFile \/ FetchFileFails \/ ContextDone
  BY <1>1, <1>7 DEF SkipDeleted, FetchFile, FetchFileFails, ContextDone, Continue, forgeVars
<1>8. CASE AddHunkStep \/ NextFile \/ BuildDone
  BY <1>1, <1>8 DEF AddHunkStep, NextFile, BuildDone, Continue, forgeVars
<1>9. CASE RegisterSession \/ SendReviewReady
  BY <1>1, <1>9 DEF RegisterSession, Register, SendReviewReady, SendReady, Return, forgeVars
<1>10. CASE Cancel \/ Push
  BY <1>1, <1>10 DEF Cancel, CancelCall, Push, callVars, forgeVars
<1>11. CASE UNCHANGED vars
  BY <1>1, <1>11 DEF vars, callVars, forgeVars
<1> QED
  BY <1>2, <1>3, <1>4, <1>5, <1>6, <1>7, <1>8, <1>9, <1>10, <1>11 DEF Next, Handler, Idle

\* While there is a graph, what the spans were cut from does not change.
LEMMA SpanMoves ==
  ASSUME LoopsInv, [Next]_vars
  PROVE  \/ AddHunkStep
         \/ UNCHANGED << files, req, fileLines, steps, spans >>
         \/ UNCHANGED steps /\ orderedStepIDs = << >>
<1> DEFINE still == UNCHANGED << files, req, fileLines, steps, spans >>
           early == UNCHANGED steps /\ orderedStepIDs = << >>
<1> USE DEF forgeVars, graphVars
<1>1. CASE RejectEmptyURL \/ RequestFails \/ NextFile \/ ContextDone
  <2>1. still
    BY <1>1 DEF RejectEmptyURL, RequestFails, NextFile, ContextDone
  <2> QED
    BY <2>1
<1>2. CASE SendParsing \/ SendFetching \/ SendBuilding \/ SendCreating
  <2>1. still
    BY <1>2 DEF SendParsing, SendFetching, SendBuilding, SendCreating
  <2> QED
    BY <2>1
<1>3. CASE FindContext \/ FetchPR \/ BuildDone \/ SkipDeleted \/ FetchFileFails
  <2>1. still
    BY <1>3 DEF FindContext, FetchPR, BuildDone, SkipDeleted, FetchFileFails
  <2> QED
    BY <2>1
<1>4. CASE FetchDiff \/ OrderFiles \/ FetchFile
  <2>1. pc \in {"fetch diff", "order", "context"} /\ UNCHANGED steps
    BY <1>4 DEF FetchDiff, OrderFiles, FetchFile
  <2>2. early
    BY <2>1 DEF LoopsInv, BeforeOrder
  <2> QED
    BY <2>2
<1>5. CASE RegisterSession \/ SendReviewReady
  <2>1. still
    BY <1>5 DEF RegisterSession, SendReviewReady
  <2> QED
    BY <2>1
<1>6. CASE Cancel \/ Push \/ UNCHANGED vars
  <2>1. still
    BY <1>6 DEF Cancel, CancelCall, Push, vars, callVars
  <2> QED
    BY <2>1
<1> QED
  BY <1>1, <1>2, <1>3, <1>4, <1>5, <1>6 DEF Next, Handler, Idle

\* No two hunks have one identifier.
LEMMA OneHunkPerID ==
  ASSUME NEW fs, WellFormedFiles(fs),
         NEW f \in 1..Len(fs), NEW h \in 1..Len(fs[f].Hunks),
         NEW g \in 1..Len(fs), NEW k \in 1..Len(fs[g].Hunks),
         StepID(fs[f], fs[f].Hunks[h]) = StepID(fs[g], fs[g].Hunks[k])
  PROVE  f = g /\ h = k
<1>1. fs[f].Path = fs[g].Path /\ fs[f].Hunks[h].NewStart = fs[g].Hunks[k].NewStart
  BY DEF StepID
<1>2. f \in DOMAIN fs /\ g \in DOMAIN fs /\ f = g
  <2>1. f \in DOMAIN fs /\ g \in DOMAIN fs
    BY FilesShape
  <2> QED
    BY <1>1, <2>1 DEF WellFormedFiles
<1>3. /\ h \in DOMAIN fs[f].Hunks /\ k \in DOMAIN fs[f].Hunks
      /\ h \in Int /\ k \in Int /\ fs[f].Hunks[h].NewStart \in Nat
  BY <1>2, FilesShape
<1>4. ~(h < k) /\ ~(k < h)
  <2>1. \A i, j \in DOMAIN fs[f].Hunks :
            i < j => fs[f].Hunks[i].NewStart < fs[f].Hunks[j].NewStart
    BY <1>2 DEF WellFormedFiles
  <2>2. fs[f].Hunks[h].NewStart = fs[f].Hunks[k].NewStart
    BY <1>1, <1>2
  <2> QED
    BY <1>3, <2>1, <2>2
<1> QED
  BY <1>2, <1>3, <1>4

\* Only steps and their spans matter to SpansInv while files and contents stay (HunkSpan).
LEMMA SpansMoved ==
  ASSUME files' = files, req' = req, fileLines' = fileLines
  PROVE  SpansInv' <=>
            \A f \in 1..Len(files) : \A h \in 1..Len(files[f].Hunks) :
                StepID(files[f], files[f].Hunks[h]) \in steps' =>
                    spans'[StepID(files[f], files[f].Hunks[h])]
                        = HunkSpan(files[f], files[f].Hunks[h])
  BY DEF SpansInv, StepID, HunkSpan, RawDiff

\* Every step keeps SpansInv: a span is cut when its hunk's step is built (buildHunkGraph).
LEMMA SpansStep ==
  SpansInv /\ ChainInv /\ PlaceInv /\ FilesInv /\ LoopsInv /\ [Next]_vars => SpansInv'
<1> SUFFICES ASSUME SpansInv, ChainInv, PlaceInv, FilesInv, LoopsInv, [Next]_vars
             PROVE  SpansInv'
  OBVIOUS
<1>1. CASE UNCHANGED << files, req, fileLines, steps, spans >>
  <2>1. /\ files' = files /\ req' = req /\ fileLines' = fileLines
        /\ steps' = steps /\ spans' = spans
    BY <1>1
  <2> QED
    BY <2>1, SpansMoved DEF SpansInv
<1>2. CASE UNCHANGED steps /\ orderedStepIDs = << >>
  <2>1. steps' = {}
    <3>1. steps = {orderedStepIDs[i] : i \in 1..Len(orderedStepIDs)} /\ Len(orderedStepIDs) = 0
      BY <1>2 DEF ChainInv
    <3> QED
      BY <1>2, <3>1
  <2> QED
    BY <2>1 DEF SpansInv
<1>3. CASE AddHunkStep
  <2> DEFINE id == StepID(files[fi], files[fi].Hunks[hi])
             span == HunkSpan(files[fi], files[fi].Hunks[hi])
  <2>1. /\ fi \in 1..Len(files) /\ hi \in 1..Len(files[fi].Hunks)
        /\ files' = files
    BY <1>3, HunkAdded
  <2>2. /\ UNCHANGED << req, fileLines >>
        /\ steps' = steps \cup {id}
        /\ spans' = [s \in steps \cup {id} |-> IF s = id THEN span ELSE spans[s]]
    BY <1>3 DEF AddHunkStep, StepsWith
  <2>3. WellFormedFiles(files)
    BY DEF FilesInv
  <2>4. ASSUME NEW f \in 1..Len(files), NEW h \in 1..Len(files[f].Hunks),
               StepID(files[f], files[f].Hunks[h]) \in steps'
        PROVE  spans'[StepID(files[f], files[f].Hunks[h])] = HunkSpan(files[f], files[f].Hunks[h])
    <3> DEFINE s == StepID(files[f], files[f].Hunks[h])
    <3>1. CASE s = id
      <4>1. f = fi /\ h = hi
        BY <2>1, <2>3, <3>1, OneHunkPerID
      <4>2. spans'[s] = span
        <5> HIDE DEF s, id, span
        <5> QED
          BY <2>2, <3>1
      <4> QED
        BY <4>1, <4>2
    <3>2. CASE s # id
      <4>1. s \in steps /\ spans'[s] = spans[s]
        <5>1. s \in steps'
          BY <2>4
        <5> HIDE DEF s, id, span
        <5> QED
          BY <2>2, <3>2, <5>1
      <4> QED
        BY <4>1 DEF SpansInv
    <3> QED
      BY <3>1, <3>2
  <2>5. files' = files /\ req' = req /\ fileLines' = fileLines
    BY <2>1, <2>2
  <2> HIDE DEF id, span
  <2> QED
    BY <2>4, <2>5, SpansMoved
<1> QED
  BY <1>1, <1>2, <1>3, SpanMoves

\* Every step keeps NeighboursInv: buildHunkGraph goes through a file hunk by hunk.
LEMMA NeighboursStep ==
  NeighboursInv /\ ChainInv /\ PlaceInv /\ FilesInv /\ LoopsInv /\ LoopsInv' /\ [Next]_vars
      => NeighboursInv'
<1> SUFFICES ASSUME NeighboursInv, ChainInv, PlaceInv, FilesInv, LoopsInv, LoopsInv', [Next]_vars
             PROVE  NeighboursInv'
  OBVIOUS
<1> DEFINE S == orderedStepIDs
           T == orderedStepIDs'
<1>1. /\ fi <= Len(files) /\ hi > 1 =>
             Len(S) > 0 /\ S[Len(S)] = StepID(files[fi], files[fi].Hunks[hi - 1])
      /\ \A f \in 1..Len(files) : \A h \in 2..Len(files[f].Hunks) : \A k \in 1..Len(S) :
             S[k] = StepID(files[f], files[f].Hunks[h]) =>
                 k > 1 /\ S[k - 1] = StepID(files[f], files[f].Hunks[h - 1])
  BY DEF NeighboursInv
<1>2. CASE UNCHANGED << files, fi, hi, graphVars >>
  BY <1>1, <1>2 DEF NeighboursInv, StepID, graphVars
<1>3. CASE NextFile
  <2>1. hi' = 1 /\ UNCHANGED << files, orderedStepIDs >>
    BY <1>3 DEF NextFile, forgeVars, graphVars
  <2> QED
    BY <1>1, <2>1 DEF NeighboursInv, StepID
<1>4. CASE /\ UNCHANGED graphVars /\ orderedStepIDs = << >>
           /\ pc' # "context" => fi' = 1 /\ hi' = 1
  <2>1. T = << >> /\ Len(T) = 0
    BY <1>4 DEF graphVars
  <2>2. hi' = 1
    BY <1>4 DEF LoopsInv
  <2> QED
    BY <2>1, <2>2 DEF NeighboursInv
<1>5. CASE AddHunkStep
  <2> DEFINE id == StepID(files[fi], files[fi].Hunks[hi])
             n  == Len(S)
  <2>1. /\ fi \in 1..Len(files) /\ hi \in 1..Len(files[fi].Hunks)
        /\ UNCHANGED << files, fi >> /\ hi' = hi + 1
        /\ n \in Nat /\ Len(T) = n + 1
        /\ \A k \in 1..n : T[k] = S[k]
        /\ T[n + 1] = id
    BY <1>5, HunkAdded
  <2>2. WellFormedFiles(files)
    BY DEF FilesInv
  <2>3. Len(files) \in Nat /\ hi \in Int /\ fi \in Int
    <3>1. Len(files) \in Nat /\ Len(files[fi].Hunks) \in Nat
      BY <2>1, <2>2, FilesShape
    <3> QED
      BY <2>1, <3>1
  <2>4. Len(T) > 0 /\ T[Len(T)] = StepID(files[fi], files[fi].Hunks[hi' - 1])
    <3>1. hi' - 1 = hi
      BY <2>1, <2>3
    <3> QED
      BY <2>1, <3>1
  <2>5. ASSUME NEW f \in 1..Len(files), NEW h \in 2..Len(files[f].Hunks), NEW k \in 1..(n + 1),
               T[k] = StepID(files[f], files[f].Hunks[h])
        PROVE  k > 1 /\ T[k - 1] = StepID(files[f], files[f].Hunks[h - 1])
    <3>1. h \in 1..Len(files[f].Hunks) /\ h > 1
      BY <2>2, FilesShape
    <3>2. CASE k = n + 1
      <4>1. StepID(files[f], files[f].Hunks[h]) = id
        BY <2>1, <2>5, <3>2
      <4>2. f = fi /\ h = hi
        BY <2>1, <2>2, <3>1, <4>1, OneHunkPerID
      <4>3. fi <= Len(files) /\ hi > 1
        BY <2>1, <2>3, <3>1, <4>2
      <4>4. n > 0 /\ S[n] = StepID(files[fi], files[fi].Hunks[hi - 1])
        BY <1>1, <4>3
      <4> HIDE DEF S, T, n
      <4>5. k > 1 /\ k - 1 = n /\ n \in 1..n
        BY <2>1, <3>2, <4>4
      <4> QED
        BY <2>1, <4>2, <4>4, <4>5
    <3>3. CASE k \in 1..n
      <4>1. S[k] = StepID(files[f], files[f].Hunks[h])
        BY <2>1, <2>5, <3>3
      <4>2. k > 1 /\ S[k - 1] = StepID(files[f], files[f].Hunks[h - 1])
        BY <1>1, <3>3, <4>1
      <4> HIDE DEF S, T, n
      <4>3. k - 1 \in 1..n
        BY <2>1, <3>3, <4>2
      <4> QED
        BY <2>1, <4>2, <4>3
    <3> QED
      BY <2>1, <3>2, <3>3
  <2>6. NeighboursInv' <=>
          /\ fi <= Len(files) /\ hi' > 1 =>
                 Len(T) > 0 /\ T[Len(T)] = StepID(files[fi], files[fi].Hunks[hi' - 1])
          /\ \A f \in 1..Len(files) : \A h \in 2..Len(files[f].Hunks) : \A k \in 1..Len(T) :
                 T[k] = StepID(files[f], files[f].Hunks[h]) =>
                     k > 1 /\ T[k - 1] = StepID(files[f], files[f].Hunks[h - 1])
    <3>1. files' = files /\ fi' = fi
      BY <2>1
    <3> QED
      BY <3>1 DEF NeighboursInv, StepID
  <2>7. Len(T) = n + 1
    BY <2>1
  <2> HIDE DEF T, S, n, id
  <2> QED
    BY <2>4, <2>5, <2>6, <2>7
<1> QED
  BY <1>2, <1>3, <1>4, <1>5, GraphMoves

\* The files of a review are those of one version of the diff, each step shows what its hunk
\* says, and the steps of a file stay neighbours, in every interleaving of the handler with
\* pushes and hang-ups (FetchReview, OrderFiles and buildHunkGraph).
THEOREM HunksInvariant == Spec => []HunksInv
<1>1. OpeningInv /\ OpeningInv' /\ HunksInv /\ [Next]_vars => HunksInv'
  BY SourceStep, SpansStep, NeighboursStep DEF OpeningInv, HunksInv
<1> QED
  BY <1>1, HunksInit, OpeningInvariant, PTL DEF Spec

\* The steps of a file are its hunks, from its entry on and in order.
LEMMA HunksInOrder ==
  ASSUME OpeningInv, HunksInv, ready # << >>,
         NEW f \in 1..Len(files), Len(files[f].Hunks) # 0
  PROVE  \E k \in 1..Len(orderedStepIDs) :
            /\ files[f].Path \in DOMAIN fileEntryStepIDs
            /\ fileEntryStepIDs[files[f].Path] = orderedStepIDs[k]
            /\ \A h \in 1..Len(files[f].Hunks) :
                  /\ k + h - 1 \in 1..Len(orderedStepIDs)
                  /\ orderedStepIDs[k + h - 1] = StepID(files[f], files[f].Hunks[h])
<1> DEFINE S == orderedStepIDs
           N == Len(S)
           p == files[f].Path
           d == Len(files[f].Hunks)
           ID(h) == StepID(files[f], files[f].Hunks[h])
<1>1. /\ pc = "returned" /\ Done(f) = d
      /\ WellFormedFiles(files)
      /\ ChainInv /\ PlaceInv /\ EntriesInv
  BY Announced DEF OpeningInv, FilesInv
<1>2. PICK k \in 1..N : /\ StepsOf(p) = k..(k + d - 1)
                        /\ p \in DOMAIN fileEntryStepIDs
                        /\ fileEntryStepIDs[p] = S[k]
  BY <1>1 DEF EntriesInv
<1>3. N \in Nat /\ d \in Nat \ {0} /\ \A i, j \in 1..N : S[i] = S[j] => i = j
  <2>1. N \in Nat /\ \A i, j \in 1..N : S[i] = S[j] => i = j
    BY <1>1, ChainSteps DEF ChainInv
  <2>2. d \in Nat
    BY <1>1, FilesShape
  <2> QED
    BY <2>1, <2>2
<1>4. \A i \in k..(k + d - 1) : i \in 1..N /\ S[i][1] = p
  <2>1. \A i \in StepsOf(p) : i \in 1..N /\ S[i][1] = p
    BY DEF StepsOf
  <2> QED
    BY <1>2, <2>1
<1>5. \A i \in 1..N : S[i][1] = p => i >= k
  <2>1. \A i \in 1..N : S[i][1] = p => i \in StepsOf(p)
    BY DEF StepsOf
  <2>2. \A i \in k..(k + d - 1) : i >= k
    BY <1>3
  <2> QED
    BY <1>2, <2>1, <2>2
<1>6. \A i \in 1..N : S[i][1] = p => \E h \in 1..d : S[i] = ID(h)
  <2>1. TAKE i \in 1..N
  <2>2. HAVE S[i][1] = p
  <2>3. PICK g \in 1..Len(files) : \E h \in 1..Len(files[g].Hunks) :
               S[i] = StepID(files[g], files[g].Hunks[h])
    BY <1>1 DEF PlaceInv
  <2>4. files[g].Path = p
    BY <2>2, <2>3 DEF StepID
  <2>5. g = f
    BY <1>1, <2>4, FilesShape DEF WellFormedFiles
  <2> QED
    BY <2>3, <2>5
<1>7. \A h, i \in 1..d : ID(h) = ID(i) => h = i
  BY <1>1, OneHunkPerID
<1>8. \A h \in 2..d : \A i \in 1..N : S[i] = ID(h) => i > 1 /\ S[i - 1] = ID(h - 1)
  BY DEF HunksInv, NeighboursInv
<1>9. \A h : ID(h)[1] = p
  BY DEF StepID
<1> HIDE DEF S, N, p, d, ID
<1> DEFINE Good == {m \in Nat : m < d => S[k + m] = ID(m + 1)}
<1>10. 0 \in Good
  <2>1. k \in k..(k + d - 1) /\ k + 0 = k /\ 0 + 1 = 1
    BY <1>3
  <2>2. PICK h \in 1..d : S[k] = ID(h)
    BY <1>4, <1>6, <2>1
  <2>3. h = 1
    <3>1. SUFFICES ASSUME h # 1 PROVE FALSE
      OBVIOUS
    <3>2. h \in 2..d
      BY <1>3, <3>1
    <3>3. k > 1 /\ S[k - 1] = ID(h - 1)
      BY <1>8, <2>2, <3>2
    <3>4. k - 1 \in 1..N /\ S[k - 1][1] = p
      BY <1>3, <1>9, <3>3
    <3>5. k - 1 >= k
      BY <1>5, <3>4
    <3> QED
      BY <1>3, <3>5
  <2> QED
    BY <2>1, <2>2, <2>3
<1>11. ASSUME NEW m \in Nat, m \in Good
       PROVE  m + 1 \in Good
  <2>1. SUFFICES ASSUME m + 1 < d PROVE S[k + (m + 1)] = ID((m + 1) + 1)
    OBVIOUS
  <2> DEFINE i == k + (m + 1)
  <2>2. /\ i \in k..(k + d - 1) /\ k + m \in k..(k + d - 1) /\ k \in k..(k + d - 1)
        /\ i # k /\ i - 1 = k + m /\ k \in Int /\ m + 1 \in 1..d
    BY <1>3, <2>1
  <2>3. S[k + m] = ID(m + 1) /\ S[k] = ID(1)
    <3>1. m < d
      BY <1>3, <2>1
    <3>2. S[k + m] = ID(m + 1)
      BY <1>11, <3>1
    <3>3. 0 < d /\ k + 0 = k /\ 0 + 1 = 1
      BY <1>3
    <3>4. S[k + 0] = ID(0 + 1)
      BY <1>10, <3>3
    <3> QED
      BY <3>2, <3>3, <3>4
  <2> HIDE DEF i
  <2>4. i \in 1..N /\ k \in 1..N
    BY <1>4, <2>2
  <2>5. PICK h \in 1..d : S[i] = ID(h)
    BY <1>4, <1>6, <2>2
  <2>6. h # 1
    BY <1>3, <2>2, <2>3, <2>4, <2>5
  <2>7. h \in 2..d /\ h - 1 \in 1..d /\ h \in Int
    BY <1>3, <2>6
  <2>8. S[i - 1] = ID(h - 1)
    BY <1>8, <2>4, <2>5, <2>7
  <2>9. h - 1 = m + 1
    BY <1>7, <2>2, <2>3, <2>7, <2>8
  <2>10. h = (m + 1) + 1
    BY <2>7, <2>9
  <2> QED
    BY <2>5, <2>10 DEF i
<1>12. Nat \subseteq Good
  <2> HIDE DEF Good
  <2> QED
    BY <1>10, <1>11, SetInduction
<1>13. ASSUME NEW h \in 1..d
       PROVE  k + h - 1 \in 1..N /\ S[k + h - 1] = ID(h)
  <2>1. h - 1 \in Good /\ h - 1 < d
    <3>1. h - 1 \in Nat /\ h - 1 < d
      BY <1>3
    <3> HIDE DEF Good
    <3> QED
      BY <1>12, <3>1
  <2>2. k + (h - 1) = k + h - 1 /\ (h - 1) + 1 = h /\ k + h - 1 \in k..(k + d - 1)
    BY <1>3
  <2>3. S[k + (h - 1)] = ID((h - 1) + 1)
    BY <2>1
  <2> QED
    BY <1>4, <2>2, <2>3
<1> QED
  BY <1>2, <1>13 DEF S, N, p, d, ID

\* The slices of a file that extractContextLines returns before and behind a hunk.
LEMMA ContextLines ==
  ASSUME NEW n \in Nat, NEW start \in Nat, NEW end \in Nat
  PROVE  /\ extractContextLines(n, start - hunkContextLines - 1, start - 1)
                = {l \in 1..n : start - 5 <= l /\ l < start}
         /\ extractContextLines(n, end - 1, end + hunkContextLines - 1)
                = {l \in 1..n : end <= l /\ l < end + 5}
  BY DEF extractContextLines, hunkContextLines

\* The context of a step is that of its hunk.
LEMMA ContextFrames == OpeningInv /\ HunksInv => ContextFramesHunk
<1> SUFFICES ASSUME OpeningInv, HunksInv, NEW i \in DOMAIN files, NEW h \in Range(files[i].Hunks),
                    StepID(files[i], h) \in steps, spans[StepID(files[i], h)].at # NoRef
             PROVE  LET id == StepID(files[i], h)
                        n == FileLength[spans[id].at][files[i].Path]
                        end == h.NewStart + Cardinality(ShownBelow(h.RawDiff, 1))
                    IN  /\ spans[id].before = {l \in 1..n : h.NewStart - 5 <= l /\ l < h.NewStart}
                        /\ spans[id].after  = {l \in 1..n : end <= l /\ l < end + 5}
  BY DEF ContextFramesHunk
<1> DEFINE p == files[i].Path
           span == spans[StepID(files[i], h)]
<1>1. /\ WellFormedFiles(files) /\ SourceInv /\ SpansInv
      /\ \A q \in DOMAIN fileLines : q \in Paths /\ fileLines[q] \in Versions
  BY DEF OpeningInv, HunksInv, FilesInv, FetchInv
<1>2. i \in 1..Len(files) /\ files[i].Hunks \in Seq(Hunk)
  BY <1>1, FilesShape
<1>3. PICK m \in 1..Len(files[i].Hunks) : h = files[i].Hunks[m]
  BY <1>2 DEF Range
<1>4. h \in Hunk
  BY <1>2, <1>3
<1>5. Cardinality(ShownBelow(h.RawDiff, 1)) = h.NewLines
  <2>1. diffAt \in Versions /\ FilesOf(files, Diff[diffAt])
    <3>1. files # << >>
      BY <1>2
    <3> QED
      BY <1>1, <3>1 DEF SourceInv
  <2>2. PICK j \in DOMAIN Diff[diffAt] : files[i].Hunks = parseHunks(Diff[diffAt][j].Patch)
    BY <2>1 DEF FilesOf
  <2>3. WellFormedPatch(Diff[diffAt][j].Patch)
    BY <2>1, ReviewAssumption DEF WellFormedDiff
  <2> QED
    BY <1>3, <2>2, <2>3, HunksOfPatch
<1>6. span = HunkSpan(files[i], h)
  BY <1>1, <1>2, <1>3 DEF SpansInv
<1>7. p \in DOMAIN fileLines
  <2>1. p \notin DOMAIN fileLines => span.at = NoRef
    BY <1>6 DEF HunkSpan
  <2> QED
    BY <2>1
<1> DEFINE v == fileLines[p]
           n == FileLength[v][p]
<1>8. n \in Nat
  BY <1>1, <1>7, ReviewAssumption
<1>9. h.NewStart \in Nat /\ h.NewLines \in Nat /\ h.NewStart + h.NewLines \in Nat
  BY <1>4 DEF Hunk
<1>10. /\ span.at = v
       /\ span.before = extractContextLines(n, h.NewStart - hunkContextLines - 1, h.NewStart - 1)
       /\ span.after  = extractContextLines(n, (h.NewStart + h.NewLines) - 1,
                                               (h.NewStart + h.NewLines) + hunkContextLines - 1)
  BY <1>6, <1>7 DEF HunkSpan
<1> DEFINE end == h.NewStart + h.NewLines
<1>11. /\ span.before = {l \in 1..n : h.NewStart - 5 <= l /\ l < h.NewStart}
       /\ span.after  = {l \in 1..n : end <= l /\ l < end + 5}
  <2> HIDE DEF n, span
  <2> QED
    BY <1>8, <1>9, <1>10, ContextLines
<1> QED
  BY <1>5, <1>10, <1>11

\* The raw diffs of a file's steps are its patch.
LEMMA RawDiffsRestore == OpeningInv /\ HunksInv => RawDiffsRestorePatches
<1> SUFFICES ASSUME OpeningInv, HunksInv, ready # << >>, ~req.OmitRawSource,
                    NEW g \in Range(Diff[diffAt])
             PROVE  \E f \in Range(ready[1].Files) :
                        /\ f.FilePath = g.Filename
                        /\ IF f.HunksTotal = 0
                           THEN g.Patch = << >>
                           ELSE \E k \in DOMAIN ready[1].Steps :
                                    /\ ready[1].Steps[k] = f.EntryStepId
                                    /\ FlattenSeq([i \in 1..f.HunksTotal |->
                                                       spans[ready[1].Steps[k + i - 1]].raw])
                                           = g.Patch
  BY DEF RawDiffsRestorePatches
<1> DEFINE S == orderedStepIDs
<1>1. /\ ready[1] = ReviewReady /\ ready[1].Steps = S
      /\ WellFormedFiles(files) /\ ChainInv
      /\ SourceInv /\ SpansInv
  BY Announced DEF OpeningInv, HunksInv, FilesInv
<1>2. diffAt \in Versions /\ FilesOf(files, Diff[diffAt])
  BY <1>1 DEF SourceInv
<1>3. PICK j \in DOMAIN Diff[diffAt] : g = Diff[diffAt][j]
  BY DEF Range
<1>4. WellFormedPatch(g.Patch)
  BY <1>2, <1>3, ReviewAssumption DEF WellFormedDiff
<1>5. PICK i \in DOMAIN files : files[i].Path = g.Filename /\ files[i].Hunks = parseHunks(g.Patch)
  BY <1>2, <1>3 DEF FilesOf
<1> DEFINE hs == files[i].Hunks
           n  == Len(hs)
           f  == ready[1].Files[i]
<1>6. i \in 1..Len(files) /\ n \in Nat
  BY <1>1, <1>5, FilesShape
<1>7. /\ f.FilePath = g.Filename /\ f.HunksTotal = n
      /\ f.EntryStepId = IF files[i].Path \in DOMAIN fileEntryStepIDs
                         THEN fileEntryStepIDs[files[i].Path] ELSE NoID
      /\ f \in Range(ready[1].Files)
  BY <1>1, <1>5 DEF ReviewReady, Range
<1>8. FlattenSeq([k \in 1..n |-> hs[k].RawDiff]) = g.Patch
  BY <1>4, <1>5, HunksOfPatch
<1>9. CASE n = 0
  <2>1. [k \in 1..n |-> hs[k].RawDiff] = << >>
    BY <1>9
  <2>2. FlattenSeq(<< >>) = << >>
    BY DEF FlattenSeq
  <2>3. g.Patch = << >>
    <3> HIDE DEF hs, n
    <3> QED
      BY <1>8, <2>1, <2>2
  <2> HIDE DEF n, f
  <2> QED
    BY <1>7, <1>9, <2>3
<1>10. CASE n # 0
  <2>1. PICK k \in 1..Len(S) :
            /\ files[i].Path \in DOMAIN fileEntryStepIDs
            /\ fileEntryStepIDs[files[i].Path] = S[k]
            /\ \A h \in 1..n : /\ k + h - 1 \in 1..Len(S)
                               /\ S[k + h - 1] = StepID(files[i], hs[h])
    BY <1>6, <1>10, HunksInOrder
  <2>2. k \in DOMAIN S /\ \A m \in 1..Len(S) : S[m] \in steps
    BY <1>1, ChainSteps
  <2>3. ASSUME NEW h \in 1..n
        PROVE  spans[S[k + h - 1]].raw = hs[h].RawDiff
    <3>1. S[k + h - 1] = StepID(files[i], hs[h]) /\ S[k + h - 1] \in steps
      BY <2>1, <2>2
    <3>2. spans[StepID(files[i], hs[h])] = HunkSpan(files[i], hs[h])
      BY <1>1, <1>6, <3>1 DEF SpansInv
    <3>3. HunkSpan(files[i], hs[h]).raw = hs[h].RawDiff
      BY DEF HunkSpan, RawDiff
    <3> QED
      BY <3>1, <3>2, <3>3
  <2> HIDE DEF S, hs, n, f
  <2>4. [h \in 1..n |-> spans[S[k + h - 1]].raw] = [h \in 1..n |-> hs[h].RawDiff]
    BY <2>3
  <2>5. f.EntryStepId = S[k]
    BY <1>7, <2>1
  <2>6. FlattenSeq([h \in 1..n |-> spans[S[k + h - 1]].raw]) = g.Patch
    BY <1>8, <2>4
  <2>7. ready[1].Steps = S
    BY <1>1
  <2> QED
    BY <1>7, <1>10, <2>2, <2>5, <2>6, <2>7
<1> QED
  BY <1>9, <1>10

\* What a client sees of a hunk, its lines and the lines around it, is what is there
\* (parseHunks, parseHunkRange, extractContextLines and buildHunkGraph).
THEOREM HunksShown == Spec => []HunksShowTheFile
<1>1. OpeningInv /\ HunksInv => HunksShowTheFile
  BY ContextFrames, RawDiffsRestore DEF HunksShowTheFile
<1> QED
  BY <1>1, OpeningInvariant, HunksInvariant, PTL
================================================================================
