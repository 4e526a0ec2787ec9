---------------------------- MODULE MCReviewOpening ----------------------------
(***************************************************************************)
(* A branch with three versions: at first a pull request with a test, an   *)
(* entry point, a deleted file and a file without a patch; then one whose  *)
(* files have become shorter than the first version's hunks; then one with *)
(* nothing left to review.                                                 *)
(***************************************************************************)
EXTENDS ReviewOpening

aTest == << "api", "_", "test", ".", "go" >>
gone  == << "lib", "/", "gone", ".", "go" >>
main  == << "src", "/", "main", ".", "go" >>
pic   == << "src", "/", "pic", ".", "png" >>

MCPaths == {aTest, gone, main, pic}
MCRank  == [p \in MCPaths |-> CASE p = aTest -> 1 [] p = gone -> 2
                                [] p = main -> 3 [] p = pic -> 4]

line(mark) == [mark |-> mark, start |-> 0, count |-> 0]

\* A hunk that starts at a line and has a body; the header's count is right, and is
\* left out when it is one.
hunk(start, body) ==
    LET shown == Cardinality({i \in DOMAIN body : body[i] \in {" ", "+"}})
    IN  << [mark |-> "@", start |-> start, count |-> IF shown = 1 THEN Omitted ELSE shown] >>
        \o [i \in DOMAIN body |-> line(body[i])]

file(p, kind, patch) == [Filename |-> p, Status |-> kind, Patch |-> patch]

MCDiff ==
    [v \in 0..2 |->
        CASE v = 0 -> << file(aTest, "changed", hunk(1, << "+", " ", " " >>)
                                                   \o hunk(9, << " ", "-", "+" >>)),
                         file(gone, "removed", hunk(0, << "-", "-", "\\" >>)),
                         file(main, "renamed", hunk(4, << " ", "+", "+", " " >>)
                                                 \o hunk(20, << " ", "-", "-" >>)),
                         file(pic, "added", << >>) >>
          [] v = 1 -> << file(main, "modified", hunk(2, << " ", "+", " " >>)) >>
          [] v = 2 -> << >>]

MCFileLength ==
    [v \in 0..2 |-> [p \in MCPaths |-> CASE v = 0 -> 30 [] v = 1 -> 12 [] v = 2 -> 1]]

\* "main" is the branch; a hash names its version; "feature/login" is the branch too.
MCRefOf ==
    [name \in {<< "main" >>, << "feature", "/", "login" >>, << "c0" >>, << "c1" >>} |->
        CASE name = << "c0" >> -> 0 [] name = << "c1" >> -> 1 [] OTHER -> BranchRef]

Repo         == << "github.com", "/", "owner", "/", "repo", "/" >>
Pull         == Repo \o << "pull", "/", "42" >>
Commit(name) == Repo \o << "commit", "/", name >>
Compare(ref) == Repo \o << "compare", "/" >> \o ref
Https(url)   == << "https:", "/", "/" >> \o url

request(url, ordering) == [url |-> url, FileOrdering |-> ordering, OmitRawSource |-> FALSE]

BadURLs ==
    {<< >>, Https(<< "/" >> \o Pull), << "gitlab.com" >> \o Tail(Pull),
     << "GitHub.com" >> \o Tail(Pull), Repo \o << "issues", "/", "42" >>,
     Repo \o << "pull", "/", "main" >>, Compare(<< "feature", "/", "login", "...", "main" >>)}

MCRequests ==
    {request(url, "") : url \in BadURLs}
    \cup {request(Https(Pull) \o << "/", "files" >>, o) :
             o \in {"", "alphabetical", "as-fetched", "random"}}
    \cup {request(Commit(name), o) : name \in {"main", "c0"}, o \in {"", "as-fetched"}}
    \cup {[request(Pull, "") EXCEPT !.OmitRawSource = TRUE]}
    \cup {request(Compare(<< "c0", "..." >> \o name), "") :
             name \in {<< "main" >>, << "c1" >>, << >>, << "feature", "/", "login" >>}}

\* A comparison is accepted exactly if the dots come before the first slash, and its refs
\* are what stands on either side of the first dots.
Tails == UNION {[1..n -> {"/", "...", "main", "42"}] : n \in 0..6}

ASSUME ComparisonsAreRead ==
    \A tail \in Tails :
        LET fc  == ReviewContext(Compare(tail))
            ref == fc.BaseRef \o << "..." >> \o fc.HeadRef
        IN  IF fc.Kind = "compare"
            THEN /\ "..." \notin Range(fc.BaseRef)
                 /\ "/" \notin Range(ref)
                 /\ ref = tail \/ IsPrefix(ref \o << "/" >>, tail)
            ELSE \A i \in DOMAIN tail :
                    tail[i] = "..." => \E j \in 1..i : tail[j] = "/"

\* The scheme, in lower case, and slashes at the end say nothing.
ASSUME SchemesDoNotCount ==
    \A url \in {Pull, Commit("c0"), Compare(<< "c0", "...", "main" >>)} :
        /\ \A slashes \in {<< >>, << "/" >>, << "/", "/" >>} :
              /\ ReviewContext(Https(url) \o slashes) = ReviewContext(url)
              /\ ReviewContext(<< "http:", "/", "/" >> \o url \o slashes) = ReviewContext(url)
        /\ ReviewContext(<< "HTTPS:", "/", "/" >> \o url) = NoContext

Words == {"api", "tests", "test", "main", "go", "py", "/", ".", "_"}
Names == UNION {[1..n -> Words] : n \in 0..5}

\* A directory counts only if it is not at the top of the repository; below one more
\* directory no path changes its tier for any other reason.
ASSUME TopDirectoriesDoNotCount ==
    \A p \in Names :
        tier(<< "src", "/" >> \o p) # tier(p) =>
            \/ p = File("main", "go")
            \/ Len(p) >= 2 /\ p[2] = "/" /\ p[1] \in {"api", "tests", "test"}

\* Whatever else a path says, the file of a Go test goes last.
ASSUME TestsGoLast ==
    \A p \in Names : tier(p \o << "_", "test", ".", "go" >>) = 80
================================================================================
