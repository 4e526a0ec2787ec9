------------------------------ MODULE MCResolver -------------------------------
(* The resolver over small manifests. *)
EXTENDS Resolver

GoModLines == { << "require", "(" >>, << ")" >>, << "a", "v1" >>, << "require", "a", "v2" >>,
                << "b", "v1" >>, << "replace", "a", "=>", "b" >>, <<>> }

GoModFiles == UNION {[1..n -> GoModLines] : n \in 0..5}

\* The loop over the lines of go.mod reads what its grammar says is required: blocks and
\* single lines in any order, whatever is between them, the last mention counting.
ASSUME PinsAreRead ==
    \A lines \in GoModFiles, pkg \in {"a", "b"} :
        LookupVersion(parseGoMod(lines), pkg) = VersionRequired(lines, pkg)

\* A version with a constraint on each side is cut at the separator that is looked for
\* first, and the line is there a second time without a version.
ASSUME PipKeepsTheLine ==
    LET line == << "flask", "<=", "3", ",", ">=", "2" >>
        m == parsePip(<< << "#", "flask" >>, line >>)
    IN /\ LookupVersion(m, << "flask", "<=", "3", "," >>) = << "2" >>
       /\ LookupVersion(m, line) = <<>>
       /\ << "flask" >> \notin DOMAIN m.Dependencies

\* The constraint of a gem that comes after the gem itself replaces its version.
ASSUME GemConstraintWins ==
    LookupVersion(parseGem(<< << "rack", "(", "2.2.8", ")" >>, << "rack", "(", ">=", "2", ")" >> >>),
                  "rack") = << ">=", "2" >>

Contents == [go |-> << << "require", "a", "v1" >> >>,
             js |-> [dependencies |-> ("a" :> "1"), devDependencies |-> ("a" :> "2")],
             php |-> [require |-> ("a" :> "3")],
             text |-> << << "a", "==", "4" >> >>]

Manifest(file) == CASE file = "go.mod" -> Contents.go
                    [] file = "package.json" -> Contents.js
                    [] file = "composer.json" -> Contents.php
                    [] OTHER -> Contents.text

Root(files) == [f \in files |-> Manifest(f)]

\* In every repository and for every call: the version in a link is the one announced, a link
\* to the source needs one, links go to one site only, and there is always a summary.
ASSUME LinksFollowTheManifest ==
    \A files \in SUBSET ToSet(Probes), pkg \in {"a", "fmt"}, ok \in BOOLEAN :
        LET info == ResolveCall(Root(files), pkg, "F", [ok |-> ok, text |-> "summary"])
        IN /\ info.docsURL.version \in {"", info.version}
           /\ info.sourceURL # NoLink => info.version = "v1"
           /\ info.docsURL = NoLink <=> files \subseteq {"requirements.txt", "Gemfile.lock"}
           /\ "go.mod" \in files => info.docsURL.site = "pkg.go.dev"
           /\ info.llmSummary # ""
================================================================================
