------------------------------- MODULE ReviewURL -------------------------------
(***************************************************************************)
(* What the URL of a review names (extractURLHost in                       *)
(* server/open_review_session.go and ParseURL in forge/forges/github.go).  *)
(*                                                                         *)
(* A URL is the sequence of its pieces: schemes with their colon, slashes, *)
(* the dots between the refs of a comparison, numbers and other words.  A  *)
(* scheme stands at the start or after a slash.                            *)
(***************************************************************************)
EXTENDS Naturals, FiniteSets, SequencesExt

Hosts == INSTANCE Forge

Schemes == {"https:", "http:", "HTTPS:"}
Numbers == {"42", "-5"}

WellFormedURL(url) ==
    /\ url \in Seq(STRING)
    /\ \A i \in DOMAIN url : url[i] \in Schemes => i = 1 \/ url[i - 1] = "/"

SchemeAt(url, i) == url[i] \in Schemes /\ IsPrefix(<< "/", "/" >>, SubSeq(url, i + 1, Len(url)))

Slashes(s) == {i \in DOMAIN s : s[i] = "/"}

\* strings.SplitN at slashes: n parts at most, the last one with all that is left.
SplitN(s, n) ==
    LET cuts   == Cardinality(Slashes(s))
        parts  == IF cuts < n THEN cuts + 1 ELSE n
        cut(k) == CHOOSE i \in Slashes(s) : Cardinality(Slashes(s) \cap 1..i) = k
    IN  [k \in 1..parts |-> SubSeq(s, IF k = 1 THEN 1 ELSE cut(k - 1) + 1,
                                      IF k = parts THEN Len(s) ELSE cut(k) - 1)]

\* A "://" that is not the scheme's leaves url.Parse without a host.  The empty host
\* stands for the error.
extractURLHost(url) ==
    IF \A i \in DOMAIN url : ~SchemeAt(url, i) THEN SplitN(url, 2)[1]
    ELSE IF SchemeAt(url, 1) THEN SplitN(SubSeq(url, 4, Len(url)), 2)[1]
    ELSE << >>

TrimScheme(s, scheme) ==
    LET prefix == << scheme, "/", "/" >>
    IN  IF IsPrefix(prefix, s) THEN SubSeq(s, 4, Len(s)) ELSE s

TrimSlashes(s) ==
    LET ends == {i \in 0..Len(s) : \A j \in i + 1..Len(s) : s[j] = "/"}
    IN  SubSeq(s, 1, CHOOSE i \in ends : \A j \in ends : i <= j)

Kinds    == {"pull", "commit", "compare"}
Context  == [Kind : Kinds \cup {"none"}, BaseRef : Seq(STRING), HeadRef : Seq(STRING)]
NoContext == [Kind |-> "none", BaseRef |-> << >>, HeadRef |-> << >>]

\* Only what stands before the sixth slash is looked at, and the ref of a pull request
\* is its number.
ParseURL(url) ==
    LET parts == SplitN(TrimSlashes(TrimScheme(TrimScheme(url, "https:"), "http:")), 6)
        kind  == parts[4]
        ref   == parts[5]
        dots  == {i \in DOMAIN ref : ref[i] = "..."}
        first == CHOOSE i \in dots : \A j \in dots : i <= j
    IN  IF Len(parts) < 5 \/ parts[1] # << "github.com" >> THEN NoContext
        ELSE IF kind = << "pull" >> /\ Len(ref) = 1 /\ ref[1] \in Numbers
        THEN [NoContext EXCEPT !.Kind = "pull"]
        ELSE IF kind = << "commit" >>
        THEN [NoContext EXCEPT !.Kind = "commit", !.HeadRef = ref]
        ELSE IF kind = << "compare" >> /\ dots # {}
        THEN [Kind    |-> "compare",
              BaseRef |-> SubSeq(ref, 1, first - 1),
              HeadRef |-> SubSeq(ref, first + 1, Len(ref))]
        ELSE NoContext

\* The host decides who parses the URL; whoever rejects it, the call fails alike.
ReviewContext(url) ==
    LET host == extractURLHost(url)
    IN  IF host # << >> /\ Hosts!Resolves(Hosts!handlers, Hosts!NormalizeHost(host))
        THEN ParseURL(url)
        ELSE NoContext
================================================================================
