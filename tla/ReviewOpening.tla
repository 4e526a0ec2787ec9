----------------------------- MODULE ReviewOpening -----------------------------
(***************************************************************************)
(* OpenReviewSession (server/open_review_session.go) with the GitHub       *)
(* handler behind it (internal/forge/forges/github.go): parse the URL,     *)
(* fetch the diff, order the files, fetch the files' contents for context, *)
(* build the hunk graph, register the session and announce it.             *)
(*                                                                         *)
(* GitHub is external and moves on its own: while the call runs somebody   *)
(* may push to the reviewed branch, so two requests of one call may see    *)
(* two versions.  A ref is the number of a version (a commit hash), or     *)
(* BranchRef (a branch name, resolved when a request is answered), or      *)
(* NoRef (the empty string), or UnknownRef (a name the forge does not     *)
(* know).                                                                  *)
(***************************************************************************)
EXTENDS Opening, Patch, Tiers, ReviewURL

CONSTANTS
    Paths,      \* the paths of the changed files, as module Tiers reads them
    Rank,       \* Rank[p]: the place of p among the paths in string order
    MaxVersion, \* the branch moves through the versions 0..MaxVersion
    Diff,       \* Diff[v]: the changed files GitHub lists at version v
    FileLength, \* FileLength[v][p]: the lines of p at v, after strings.Split
    RefOf,      \* RefOf[name]: what the forge knows a name as, in the pieces of a URL
    Requests,   \* the requests a client may send
    NoID        \* the empty step identifier

Versions  == 0..MaxVersion
BranchRef  == -1
NoRef      == -2
UnknownRef == -3
Refs       == Versions \cup {BranchRef, NoRef, UnknownRef}

Named(name) ==
    IF name = << >> THEN NoRef
    ELSE IF name \in DOMAIN RefOf THEN RefOf[name]
    ELSE UnknownRef

\* What GitHub answers for a changed file, and what the handler makes of it.
Statuses    == {"added", "removed", "renamed", "modified", "changed"}
ghFile      == [Filename : Paths, Status : Statuses, Patch : Seq(Line)]
ChangeKinds == {"ADDED", "DELETED", "RENAMED", "MODIFIED"}
ReviewFile  == [Path : Paths, ChangeKind : ChangeKinds, Hunks : Seq(Hunk)]

ghStatusToChangeKind(s) ==
    CASE s = "added"   -> "ADDED"
      [] s = "removed" -> "DELETED"
      [] s = "renamed" -> "RENAMED"
      [] OTHER         -> "MODIFIED"

ghFilesToReviewFiles(fs) ==
    [i \in DOMAIN fs |-> [Path       |-> fs[i].Filename,
                          ChangeKind |-> ghStatusToChangeKind(fs[i].Status),
                          Hunks      |-> parseHunks(fs[i].Patch)]]

Request == [url : {u \in Seq(STRING) : WellFormedURL(u)}, FileOrdering : STRING,
            OmitRawSource : BOOLEAN]

\* GitHub lists every path once.
WellFormedDiff(fs) ==
    /\ fs \in Seq(ghFile)
    /\ \A i, j \in DOMAIN fs : fs[i].Filename = fs[j].Filename => i = j
    /\ \A i \in DOMAIN fs : WellFormedPatch(fs[i].Patch)

ASSUME ReviewAssumption ==
    /\ MaxVersion \in Nat
    /\ Rank \in [Paths -> Nat]
    /\ \A p, q \in Paths : Rank[p] = Rank[q] => p = q
    /\ \A p \in Paths : p \in Seq(STRING)
    /\ \A v \in Versions : WellFormedDiff(Diff[v])
    /\ FileLength \in [Versions -> [Paths -> Nat \ {0}]]
    /\ \A name \in DOMAIN RefOf : RefOf[name] \in Versions \cup {BranchRef}
    /\ Requests \subseteq Request
    /\ NoID \notin Paths \X Nat

VARIABLES
    req,        \* the request
    branch,     \* the version the reviewed branch points to, at the forge
    head,       \* fc.HeadRef
    files,      \* payload.Files
    diffAt,     \* the version payload.Files was listed at; NoRef before
    fileLines,  \* fileLines[p]: the version the content of p was fetched at
    fi, hi,     \* the file and the hunk the loops are at
    steps,      \* the keys of g.steps
    edges,      \* edges[s]: the out-edges of step s
    entryID,    \* g.EntryID
    spans,      \* spans[s]: the raw diff and the context lines of step s
    prevStep,   \* the step the next NEXT edge leaves from, NoID at first
    fileEntryStepIDs,  \* the first step of each file that has one
    orderedStepIDs,    \* the steps in the order they were added
    ready       \* the ReviewReady event sent, << >> before

graphVars == << steps, edges, entryID, spans, prevStep, fileEntryStepIDs, orderedStepIDs >>
forgeVars == << head, files, diffAt >>
vars == << callVars, req, branch, forgeVars, fileLines, fi, hi, graphVars, ready >>

Init ==
    /\ CallInit
    /\ req \in Requests
    /\ branch = 0
    /\ head = NoRef
    /\ files = << >>
    /\ diffAt = NoRef
    /\ fileLines = [p \in {} |-> 0]
    /\ fi = 1 /\ hi = 1
    /\ steps = {}
    /\ edges = [s \in {} |-> << >>]
    /\ entryID = NoID
    /\ spans = [s \in {} |-> 0]
    /\ prevStep = NoID
    /\ fileEntryStepIDs = [p \in {} |-> NoID]
    /\ orderedStepIDs = << >>
    /\ ready = << >>

At(ref) == IF ref = BranchRef THEN branch ELSE ref

--------------------------------------------------------------------------------
(* The URL.                                                                *)

RejectEmptyURL ==
    /\ pc = "start"
    /\ req.url = << >>
    /\ Fail("InvalidArgument")
    /\ UNCHANGED << req, branch, forgeVars, fileLines, fi, hi, graphVars, ready >>

SendParsing ==
    /\ pc = "start"
    /\ req.url # << >>
    /\ SendProgress(5, "parse")
    /\ UNCHANGED << req, branch, forgeVars, fileLines, fi, hi, graphVars, ready >>

\* What the URLs name.
ContextOf == [url \in {r.url : r \in Requests} |-> ReviewContext(url)]

fcKind == ContextOf[req.url].Kind

\* extractURLHost, forge.Resolve and ParseURL.  A pull request's URL names no ref.
FindContext ==
    /\ pc = "parse"
    /\ IF fcKind \in Kinds
       THEN /\ head' = Named(ContextOf[req.url].HeadRef)
            /\ Continue("fetching")
       ELSE /\ Fail("InvalidArgument")
            /\ UNCHANGED head
    /\ UNCHANGED << req, branch, files, diffAt, fileLines, fi, hi, graphVars, ready >>

SendFetching ==
    /\ pc = "fetching"
    /\ SendProgress(20, IF fcKind = "pull" THEN "fetch pr" ELSE "fetch diff")
    /\ UNCHANGED << req, branch, forgeVars, fileLines, fi, hi, graphVars, ready >>

--------------------------------------------------------------------------------
(* The requests to GitHub.  One that is answered may fail as checkStatus   *)
(* tells the answers apart; one whose context is done fails at once.       *)

\* forgeErrToStatus(checkStatus(resp)): 401 and 403, 404, and everything else,
\* network errors and undecodable bodies included.
ErrorCodes == {"PermissionDenied", "NotFound", "Internal"}

\* Mutant: the request is made without the call's context.
RequestFailsAnswered ==
    /\ pc \in {"fetch pr", "fetch diff"}
    /\ ~ctxDone
    /\ \E code \in ErrorCodes : Fail(code)
    /\ UNCHANGED << req, branch, forgeVars, fileLines, fi, hi, graphVars, ready >>

RequestFails ==
    /\ pc \in {"fetch pr", "fetch diff"}
    /\ \E code \in ErrorCodes : (ctxDone => code = "Internal") /\ Fail(code)
    /\ UNCHANGED << req, branch, forgeVars, fileLines, fi, hi, graphVars, ready >>

\* The first request of fetchPRReview.  The answer names the branch, not the
\* commit; decoding accepts an answer that names none.
FetchPR ==
    /\ pc = "fetch pr"
    /\ ~ctxDone
    /\ head' \in {BranchRef, NoRef}
    /\ Continue("fetch diff")
    /\ UNCHANGED << req, branch, files, diffAt, fileLines, fi, hi, graphVars, ready >>

\* Mutant: the commit's hash is not taken over from the answer.
FetchDiffKeepsRef ==
    LET v == IF fcKind = "pull" THEN branch ELSE At(head)
    IN  /\ pc = "fetch diff"
        /\ ~ctxDone
        /\ v \in Versions
        /\ files' = ghFilesToReviewFiles(Diff[v])
        /\ diffAt' = v
        /\ Continue("order")
        /\ UNCHANGED << head, req, branch, fileLines, fi, hi, graphVars, ready >>

\* The request that lists the files: the second one of fetchPRReview, or the only
\* one of fetchCommitReview and fetchComparisonReview.  A commit is pinned to its
\* hash, a comparison is not.  There is no answer for a ref that names nothing.
FetchDiff ==
    LET v == IF fcKind = "pull" THEN branch ELSE At(head)
    IN  /\ pc = "fetch diff"
        /\ ~ctxDone
        /\ v \in Versions
        /\ files' = ghFilesToReviewFiles(Diff[v])
        /\ diffAt' = v
        /\ head' = (IF fcKind = "commit" THEN v ELSE head)
        /\ Continue("order")
        /\ UNCHANGED << req, branch, fileLines, fi, hi, graphVars, ready >>

\* Another developer pushes while the call is under way.
Push ==
    /\ pc # "returned"
    /\ branch < MaxVersion
    /\ branch' = branch + 1
    /\ UNCHANGED << callVars, req, forgeVars, fileLines, fi, hi, graphVars, ready >>

--------------------------------------------------------------------------------
(* The file orderers.                                                      *)

Orderers == {"alphabetical", "as-fetched", "entry-points-first"}

\* The default; the mutant takes another one for it.
OrdererNameAlphabetical(name) == IF name = "" THEN "alphabetical" ELSE name

OrdererName(name) == IF name = "" THEN "entry-points-first" ELSE name

TierBefore(f, g) ==
    \/ tier(f.Path) < tier(g.Path)
    \/ tier(f.Path) = tier(g.Path) /\ Rank[f.Path] < Rank[g.Path]

PathBefore(f, g) == Rank[f.Path] < Rank[g.Path]

\* sort.SliceStable of files no two of which are level: each goes to the place that
\* those before it leave it.
Sorted(fs, Before(_, _)) ==
    LET place(j) == 1 + Cardinality({i \in DOMAIN fs : Before(fs[i], fs[j])})
    IN  [n \in DOMAIN fs |-> fs[CHOOSE j \in DOMAIN fs : place(j) = n]]

Order(name, fs) ==
    CASE name = "as-fetched"         -> fs
      [] name = "alphabetical"       -> Sorted(fs, PathBefore)
      [] name = "entry-points-first" -> Sorted(fs, TierBefore)

\* ResolveOrderer and Order; an unregistered name is noticed only here, after the
\* diff was fetched.
OrderFiles ==
    /\ pc = "order"
    /\ IF OrdererName(req.FileOrdering) \in Orderers
       THEN /\ files' = Order(OrdererName(req.FileOrdering), files)
            /\ Continue(IF head = NoRef THEN "building" ELSE "context")
       ELSE /\ Fail("InvalidArgument")
            /\ UNCHANGED files
    /\ UNCHANGED << req, branch, head, diffAt, fileLines, fi, hi, graphVars, ready >>

--------------------------------------------------------------------------------
(* The contents around the hunks: one request for each file, at the head   *)
(* ref, whose failure only costs that file its context.                    *)

Deleted(f) == f.ChangeKind = "DELETED"

SkipDeleted ==
    /\ pc = "context"
    /\ fi <= Len(files)
    /\ Deleted(files[fi])
    /\ fi' = fi + 1
    /\ Continue("context")
    /\ UNCHANGED << req, branch, forgeVars, fileLines, hi, graphVars, ready >>

\* The versions a content request at the head ref may be answered from.  The
\* branch of a pull request from a fork is looked up in the base repository,
\* where the same name may stand for anything.
ContentAt == IF fcKind = "pull" THEN Versions ELSE {At(head)}

FetchFile ==
    /\ pc = "context"
    /\ fi <= Len(files)
    /\ ~Deleted(files[fi])
    /\ ~ctxDone
    /\ \E v \in ContentAt :
           fileLines' = [p \in DOMAIN fileLines \cup {files[fi].Path} |->
                            IF p = files[fi].Path THEN v ELSE fileLines[p]]
    /\ fi' = fi + 1
    /\ Continue("context")
    /\ UNCHANGED << req, branch, forgeVars, hi, graphVars, ready >>

FetchFileFails ==
    /\ pc = "context"
    /\ fi <= Len(files)
    /\ ~Deleted(files[fi])
    /\ fi' = fi + 1
    /\ Continue("context")
    /\ UNCHANGED << req, branch, forgeVars, fileLines, hi, graphVars, ready >>

ContextDone ==
    /\ pc = "context"
    /\ fi > Len(files)
    /\ fi' = 1
    /\ Continue("building")
    /\ UNCHANGED << req, branch, forgeVars, fileLines, hi, graphVars, ready >>

SendBuilding ==
    /\ pc = "building"
    /\ SendProgress(50, "build")
    /\ UNCHANGED << req, branch, forgeVars, fileLines, fi, hi, graphVars, ready >>

--------------------------------------------------------------------------------
(* buildHunkGraph: one step for each hunk, in the order of the files and,  *)
(* within a file, of its hunks, each linked from the one before.           *)

hunkContextLines == 5

StepID(f, h) == << f.Path, h.NewStart >>

NextEdge(id) == [target |-> id, label |-> "NEXT", navigable |-> TRUE]

\* Mutant: the end of the slice is not cut off at the end of the file.
UnclampedContextLines(n, start, end) ==
    LET from == IF start < 0 THEN 0 ELSE start
    IN  IF from >= end THEN {} ELSE (from + 1)..end

\* extractContextLines(lines, start, end) of a file with n lines, as the numbers
\* of the lines it returns, counted from 1; the Go slice counts from 0.
extractContextLines(n, start, end) ==
    LET from == IF start < 0 THEN 0 ELSE start
        to   == IF end > n THEN n ELSE end
    IN  IF from >= to THEN {} ELSE (from + 1)..to

\* The raw diff of a hunk, its context, and the version that was cut from.
RawDiff(h) == IF req.OmitRawSource THEN << >> ELSE h.RawDiff

HunkSpan(f, h) ==
    IF f.Path \notin DOMAIN fileLines
    THEN [raw |-> RawDiff(h), at |-> NoRef, before |-> {}, after |-> {}]
    ELSE LET v == fileLines[f.Path]
             n == FileLength[v][f.Path]
             after == h.NewStart + h.NewLines
         IN  [raw    |-> RawDiff(h),
              at     |-> v,
              before |-> extractContextLines(n, h.NewStart - hunkContextLines - 1,
                                                h.NewStart - 1),
              after  |-> extractContextLines(n, after - 1,
                                                after + hunkContextLines - 1)]

\* g.Add(step); the mutant forgets to add it.
StepsForgotten(id) == steps

StepsWith(id) == steps \cup {id}

\* The NEXT edge to the new step from the one added before; the mutant draws every
\* edge from the entry step.
EdgesFromEntry(id) ==
    [s \in steps \cup {id} |->
        CASE s = id      -> << >>
          [] s = entryID -> Append(edges[s], NextEdge(id))
          [] OTHER       -> edges[s]]

EdgesWith(id) ==
    [s \in steps \cup {id} |->
        CASE s = id       -> << >>
          [] s = prevStep -> Append(edges[s], NextEdge(id))
          [] OTHER        -> edges[s]]

\* The first step becomes the entry; the mutant never sets it.
EntryUnset(id) == entryID

EntryWith(id) == IF entryID = NoID THEN id ELSE entryID

\* The first step of a file becomes the file's entry; the mutant takes the last.
FileEntriesLast(p, id) ==
    [q \in DOMAIN fileEntryStepIDs \cup {p} |->
        IF q = p THEN id ELSE fileEntryStepIDs[q]]

FileEntriesWith(p, id) ==
    [q \in DOMAIN fileEntryStepIDs \cup {p} |->
        IF q \in DOMAIN fileEntryStepIDs THEN fileEntryStepIDs[q] ELSE id]

AddHunkStep ==
    /\ pc = "build"
    /\ fi <= Len(files)
    /\ hi <= Len(files[fi].Hunks)
    /\ LET f  == files[fi]
           id == StepID(f, f.Hunks[hi])
       IN  /\ steps' = StepsWith(id)
           /\ edges' = EdgesWith(id)
           /\ spans' = [s \in steps \cup {id} |->
                           IF s = id THEN HunkSpan(f, f.Hunks[hi]) ELSE spans[s]]
           /\ orderedStepIDs' = Append(orderedStepIDs, id)
           /\ fileEntryStepIDs' = FileEntriesWith(f.Path, id)
           /\ entryID' = EntryWith(id)
           /\ prevStep' = id
    /\ hi' = hi + 1
    /\ Continue("build")
    /\ UNCHANGED << req, branch, forgeVars, fileLines, fi, ready >>

NextFile ==
    /\ pc = "build"
    /\ fi <= Len(files)
    /\ hi > Len(files[fi].Hunks)
    /\ fi' = fi + 1
    /\ hi' = 1
    /\ Continue("build")
    /\ UNCHANGED << req, branch, forgeVars, fileLines, graphVars, ready >>

BuildDone ==
    /\ pc = "build"
    /\ fi > Len(files)
    /\ Continue("creating")
    /\ UNCHANGED << req, branch, forgeVars, fileLines, fi, hi, graphVars, ready >>

--------------------------------------------------------------------------------
(* The session is registered and announced.                                *)

\* Mutant of SendCreating: the session is registered before the last progress
\* event rather than after it.
SendCreatingAfterSet ==
    /\ pc = "creating"
    /\ \/ ctxDone /\ Return("Canceled") /\ UNCHANGED percents
       \/ ~ctxDone /\ pc' = "register" /\ percents' = Append(percents, 90) /\ UNCHANGED status
    /\ registered' = TRUE
    /\ UNCHANGED << ctxDone, req, branch, forgeVars, fileLines, fi, hi, graphVars, ready >>

SendCreating ==
    /\ pc = "creating"
    /\ SendProgress(90, "register")
    /\ UNCHANGED << req, branch, forgeVars, fileLines, fi, hi, graphVars, ready >>

RegisterSession ==
    /\ pc = "register"
    /\ Register("ready")
    /\ UNCHANGED << req, branch, forgeVars, fileLines, fi, hi, graphVars, ready >>

\* The steps in the order they were added, those the graph does not hold left out:
\* what the loop has kept after each of them.
protoReviewSteps ==
    LET kept[i \in 0..Len(orderedStepIDs)] ==
            IF i = 0 THEN << >>
            ELSE IF orderedStepIDs[i] \in steps THEN Append(kept[i - 1], orderedStepIDs[i])
            ELSE kept[i - 1]
    IN  kept[Len(orderedStepIDs)]

\* With toProtoForgeContext.
ReviewReady ==
    [Steps       |-> protoReviewSteps,
     TotalSteps  |-> Cardinality(steps),
     EntryStepId |-> entryID,
     Files       |-> [i \in DOMAIN files |->
                         [FilePath    |-> files[i].Path,
                          HunksTotal  |-> Len(files[i].Hunks),
                          EntryStepId |-> IF files[i].Path \in DOMAIN fileEntryStepIDs
                                          THEN fileEntryStepIDs[files[i].Path]
                                          ELSE NoID]]]

SendReviewReady ==
    /\ pc = "ready"
    /\ SendReady
    /\ ready' = (IF ctxDone THEN << >> ELSE << ReviewReady >>)
    /\ UNCHANGED << req, branch, forgeVars, fileLines, fi, hi, graphVars >>

Cancel ==
    /\ CancelCall
    /\ UNCHANGED << req, branch, forgeVars, fileLines, fi, hi, graphVars, ready >>

\* A request is still unanswered, or the call is over.
Idle ==
    /\ pc \in {"fetch pr", "fetch diff", "context", "returned"}
    /\ UNCHANGED vars

Handler ==
    \/ RejectEmptyURL \/ SendParsing \/ FindContext \/ SendFetching
    \/ RequestFails \/ FetchPR \/ FetchDiff
    \/ OrderFiles
    \/ SkipDeleted \/ FetchFile \/ FetchFileFails \/ ContextDone
    \/ SendBuilding \/ AddHunkStep \/ NextFile \/ BuildDone
    \/ SendCreating \/ RegisterSession \/ SendReviewReady

Next == Handler \/ Push \/ Cancel \/ Idle

\* GitHub need not answer: http.DefaultClient has no timeout.  What the code
\* does guarantee is that a handler which is not waiting for an answer goes on,
\* and that a request whose context is done fails.
Waiting == pc \in {"fetch pr", "fetch diff", "context"} /\ ~ctxDone

Fairness == WF_vars(~Waiting /\ Handler)

Spec == Init /\ [][Next]_vars /\ Fairness

--------------------------------------------------------------------------------
(* What a correct opening guarantees.                                      *)

\* The graph the session is given, as the walker of module StepGraph reads it.
Built == INSTANCE StepGraph WITH
            IDs <- (Paths \X Nat) \cup {NoID}, Steps <- steps, EntryID <- entryID,
            Labels <- {"NEXT"}, EDGE_LABEL_NEXT <- "NEXT", Edges <- edges

\* Type correctness of the call, of what it fetched and of the loops.
OpeningTypeOK ==
    /\ CallTypeOK
    /\ req \in Requests
    /\ branch \in Versions
    /\ head \in Refs
    /\ diffAt \in Versions \cup {NoRef}
    /\ files \in Seq(ReviewFile)
    /\ \A p \in DOMAIN fileLines : p \in Paths /\ fileLines[p] \in Versions
    /\ fi \in 1..(Len(files) + 1)
    /\ hi \in Nat
    /\ steps \subseteq Paths \X Nat
    /\ DOMAIN edges = steps /\ DOMAIN spans = steps

\* A call that fails leaves no session behind, unless the client hung up after the last
\* progress event: a hang-up there, before store.Set or after it, is noticed by the
\* announcement only (OpenReviewSession lines 100 to 127).
FailureLeavesNothing ==
    (registered /\ status \notin {"none", "OK"}) =>
        ctxDone /\ percents = << 5, 20, 50, 90 >>

\* Whenever a session is registered its graph is one the walker can walk: the entry
\* is a step and every edge leads to an identifier.  That is the assumption the
\* results about module StepGraph rest on (buildHunkGraph, NewWalker).
RegisteredGraphIsSound == registered => Built!GraphAssumption

\* Calling Navigate(Forward) again and again from the entry visits exactly the
\* announced steps in the announced order, and is refused at the last one
\* (protoReviewSteps and Walker.Forward).
ForwardFollowsSteps ==
    ready # << >> =>
        LET S == ready[1].Steps
            forward(id) == Built!Forward([current |-> id, breadcrumb |-> << >>, visited |-> {}])
        IN  /\ Len(S) = ready[1].TotalSteps
            /\ S # << >> => ready[1].EntryStepId = S[1]
            /\ \A i \in DOMAIN S :
                   IF i = Len(S) THEN ~forward(S[i]).ok
                   ELSE forward(S[i]).ok /\ forward(S[i]).walker.current = S[i + 1]

\* A client that jumps to a file's entry step sees all the hunks of that file, in
\* order, before any of another file, and a file without hunks names no step
\* (fileEntryStepIDs in buildHunkGraph and toProtoForgeContext).
FileEntryOpensFile ==
    ready # << >> =>
        LET S == ready[1].Steps
            stepsOf(p) == {i \in DOMAIN S : S[i][1] = p}
        IN  \A f \in Range(ready[1].Files) :
                /\ Cardinality(stepsOf(f.FilePath)) = f.HunksTotal
                /\ IF f.HunksTotal = 0
                   THEN f.EntryStepId = NoID
                   ELSE \E i \in stepsOf(f.FilePath) :
                            /\ S[i] = f.EntryStepId
                            /\ stepsOf(f.FilePath) = i..(i + f.HunksTotal - 1)

\* The announced order is the one Forward walks, and it goes file by file.
StepsFollowFiles == ForwardFollowsSteps /\ FileEntryOpensFile

\* In the default order no hunk of a later tier is walked before one of an earlier
\* tier: entry points first, tests last (entryPointsFirst.Order and the NEXT edges).
EntryPointsComeFirst ==
    (ready # << >> /\ req.FileOrdering = "") =>
        LET S == ready[1].Steps
        IN  \A i, j \in DOMAIN S : i < j => tier(S[i][1]) <= tier(S[j][1])

\* The raw diffs a client receives, walking Forward from a file's entry through as many
\* steps as the file has hunks, put its patch together again from the first header on:
\* no line is lost between or after the hunks (parseHunks).
RawDiffsRestorePatches ==
    (ready # << >> /\ ~req.OmitRawSource) =>
        LET S == ready[1].Steps
            rawFrom(k, n) == FlattenSeq([i \in 1..n |-> spans[S[k + i - 1]].raw])
        IN  \A g \in Range(Diff[diffAt]) : \E f \in Range(ready[1].Files) :
                /\ f.FilePath = g.Filename
                /\ IF f.HunksTotal = 0
                   THEN g.Patch = << >>
                   ELSE \E k \in DOMAIN S :
                            S[k] = f.EntryStepId /\ rawFrom(k, f.HunksTotal) = g.Patch

\* The context of a hunk is the up to five lines next to the lines it shows, on
\* either side, and never reaches beyond the file it was cut from, even when that is
\* another version than the diff's and shorter than the hunk (parseHunkRange,
\* extractContextLines).
ContextFramesHunk ==
    \A i \in DOMAIN files : \A h \in Range(files[i].Hunks) :
        LET id == StepID(files[i], h)
            p  == files[i].Path
            end == h.NewStart + Cardinality(ShownBelow(h.RawDiff, 1))
        IN  (id \in steps /\ spans[id].at # NoRef) =>
                LET n == FileLength[spans[id].at][p]
                IN  /\ spans[id].before = {l \in 1..n : h.NewStart - 5 <= l /\ l < h.NewStart}
                    /\ spans[id].after  = {l \in 1..n : end <= l /\ l < end + 5}

\* What a client sees of a hunk, its lines and the lines around it, is what is there.
HunksShowTheFile == RawDiffsRestorePatches /\ ContextFramesHunk

\* In the review of a commit all context comes from the version the diff shows,
\* though the URL may name a branch that moves between the requests
\* (fetchCommitReview replaces the ref by the hash it was resolved to).
CommitContextMatchesDiff ==
    fcKind = "commit" =>
        \A s \in steps : spans[s].at \in {NoRef, diffAt}

\* A call whose client has hung up returns, whether or not GitHub ever answers
\* (the context given to every request, and send).
CancelledOpenReturns == ctxDone ~> pc = "returned"
================================================================================
