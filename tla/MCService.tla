------------------------------- MODULE MCService -------------------------------
(* A few calls of every kind, good and bad spellings of a host, and all ways the
   environment can be set; the host names are checked by themselves as well. *)
EXTENDS Service

ask(method, host, given) == [method |-> method, host |-> host, given |-> given]

MCRequests ==
    { ask("Navigate", <<>>, {"session_id"}),
      ask("CloseSession", <<>>, {}), ask("CloseSession", <<>>, {"session_id"}),
      ask("GetVersion", <<>>, {}), ask("ListSessions", <<>>, {}),
      ask("ListFileOrderers", <<>>, {}),
      ask("FetchFileAtRef", << " ", "https://", "GitHub.com", ".", "/" >>, {"owner", "repo", "path", "ref"}),
      ask("FetchFileAtRef", << "github.com" >>, {"owner", "repo", "path"}),
      ask("ListPullRequests", << "HTTPS://", "github.com" >>, {"owner", "repo"}) }

duration(parses, d) == [parses |-> parses, d |-> d]

MCEnvironments ==
    [provider : {"", "anthropic", "ollama"}, key : {"", "key"},
     interval : {duration(FALSE, 0), duration(TRUE, 0), duration(TRUE, 1)}]

\* Every spelling of up to five pieces: a handler claims it exactly if it names GitHub.
Spellings == UNION {[1..n -> Pieces] : n \in 0..5}

ASSUME HostsAreRecognised ==
    \A s \in Spellings : Resolves(handlers, NormalizeHost(s)) <=> NamesGitHub(s)

\* A pattern with a star claims the hosts below a domain and not the domain.
ASSUME StarsAreSubdomains ==
    LET enterprise == << {<< "github.com" >>}, {<< "*", ".", "gitlab.com" >>} >>
    IN /\ Resolve(enterprise, << "github.com", ".", "gitlab.com" >>) = 2
       /\ ~Resolves(enterprise, << "gitlab.com" >>)
================================================================================
