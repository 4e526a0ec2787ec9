--------------------------------- MODULE Forge ---------------------------------
(***************************************************************************)
(* How a request finds its forge: the normalisation of host names          *)
(* (internal/forge/host.go), the registry of handlers (registry.go) and    *)
(* the meaning of GitHub's answers (forges/github.go, error.go).           *)
(*                                                                         *)
(* A host name is a sequence of pieces: white space, schemes, slashes,     *)
(* dots and names.  Case is the only thing told apart inside a piece.      *)
(***************************************************************************)
EXTENDS Naturals, FiniteSetsExt, SequencesExt

Pieces == {" ", "https://", "http://", "HTTPS://", "/", ".", "github.com", "GitHub.com",
           "gitlab.com"}

TrimPrefix(s, p) == IF s # <<>> /\ Head(s) = p THEN Tail(s) ELSE s
TrimSuffix(s, p) == IF s # <<>> /\ Last(s) = p THEN Front(s) ELSE s

TrimSpace(s) ==
    LET kept == {i \in DOMAIN s : s[i] # " "}
    IN IF kept = {} THEN <<>> ELSE SubSeq(s, Min(kept), Max(kept))

Lower(piece) ==
    CASE piece = "GitHub.com" -> "github.com"
      [] piece = "HTTPS://"   -> "https://"
      [] OTHER                -> piece

\* One scheme of each kind, one slash and one dot are taken off, in this order, and
\* what the white space was around is not trimmed again.
NormalizeHost(s) ==
    LET bare == TrimPrefix(TrimPrefix(TrimSpace(s), "https://"), "http://")
        name == TrimSuffix(TrimSuffix(bare, "/"), ".")
    IN [i \in DOMAIN name |-> Lower(name[i])]

\* "*.example.com" claims every host that ends in ".example.com".
matchHost(pattern, host) ==
    IF pattern # <<>> /\ Head(pattern) = "*"
    THEN IsSuffix(Tail(pattern), host)
    ELSE pattern = host

\* The handlers that claim a host, of a registry given as a sequence of sets of
\* patterns; Resolve takes the first.
Claiming(registry, host) ==
    {i \in DOMAIN registry : \E pattern \in registry[i] : matchHost(pattern, host)}

Resolves(registry, host) == Claiming(registry, host) # {}
Resolve(registry, host) == Min(Claiming(registry, host))

\* The registry of the program: GitHub's handler alone.
handlers == << {<< "github.com" >>} >>

--------------------------------------------------------------------------------
(* What a status of the GitHub API means to a caller *)

\* 403 stands for 401 as well, and 500 for every other status from 300 on.
Statuses == {200, 403, 404, 500}

checkStatus(status) ==
    CASE status = 403 -> "AuthFailed"
      [] status = 404 -> "NotFound"
      [] status = 500 -> "Unknown"
      [] OTHER        -> "none"

\* Mutant: the forge's error is wrapped on its way and no longer recognised.
forgeErrToStatusUntyped(code) == "Internal"

forgeErrToStatus(code) ==
    CASE code = "AuthFailed" -> "PermissionDenied"
      [] code = "NotFound"   -> "NotFound"
      [] OTHER               -> "Internal"

--------------------------------------------------------------------------------

\* What a client may write for GitHub: the name in any case, at most one scheme of
\* each kind in lower case before it, a slash and a dot after it, white space around.
NamesGitHub(s) ==
    \E n \in {"github.com", "GitHub.com"},
       https \in {<<>>, << "https://" >>}, http \in {<<>>, << "http://" >>},
       dot \in {<<>>, << "." >>}, slash \in {<<>>, << "/" >>} :
          TrimSpace(s) = https \o http \o << n >> \o dot \o slash
================================================================================
