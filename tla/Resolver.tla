-------------------------------- MODULE Resolver --------------------------------
(***************************************************************************)
(* Where the documentation of an external call is found: the package       *)
(* manifests of a repository (internal/git/manifest.go) and the links made *)
(* from them (internal/resolver).  The server does not call this package.  *)
(*                                                                         *)
(* A line of a text manifest is the sequence of its words, separators and  *)
(* brackets; blanks and indentation are gone.  A name, a version and a     *)
(* link are told apart, not spelt out.                                     *)
(***************************************************************************)
EXTENDS Naturals, FiniteSetsExt, SequencesExt, TLC

NoManifest == [Kind |-> "none", Dependencies |-> << >>]

LookupVersion(m, pkg) ==
    IF pkg \in DOMAIN m.Dependencies THEN m.Dependencies[pkg] ELSE ""

--------------------------------------------------------------------------------
(* The manifests *)

\* One line of go.mod: a block opens or closes, or a line that requires sets a version.
GoModLine(acc, line) ==
    LET parts == IF line # <<>> /\ Head(line) = "require" THEN Tail(line) ELSE line
    IN CASE line = << "require", "(" >> -> [acc EXCEPT !.inRequire = TRUE]
         [] acc.inRequire /\ line = << ")" >> -> [acc EXCEPT !.inRequire = FALSE]
         [] /\ line # << "require", "(" >> /\ ~(acc.inRequire /\ line = << ")" >>)
            /\ acc.inRequire \/ parts # line
            /\ Len(parts) >= 2 -> [acc EXCEPT !.deps = (parts[1] :> parts[2]) @@ @]
         [] OTHER -> acc

parseGoMod(lines) ==
    [Kind |-> "gomod",
     Dependencies |-> FoldLeft(GoModLine, [inRequire |-> FALSE, deps |-> << >>], lines).deps]

\* A development dependency goes over one of the same name.
parseNPM(pkg) == [Kind |-> "npm", Dependencies |-> pkg.devDependencies @@ pkg.dependencies]

parseComposer(pkg) == [Kind |-> "composer", Dependencies |-> pkg.require]

\* In the order in which they are looked for, wherever in the line they are.
Separators == << "==", ">=", "<=", "~=", "!=" >>

\* The place where a line is split, 0 if it has no separator.
SplitAt(line) ==
    LET found == {i \in DOMAIN Separators : Contains(line, Separators[i])}
    IN IF found = {} THEN 0
       ELSE Min({j \in DOMAIN line : line[j] = Separators[Min(found)]})

\* The line as a whole is stored too, without a version, unless it is there already.
PipLine(deps, line) ==
    LET at == SplitAt(line)
        split == IF at = 0 THEN deps
                 ELSE (SubSeq(line, 1, at - 1) :> SubSeq(line, at + 1, Len(line))) @@ deps
    IN IF line = <<>> \/ Head(line) = "#" THEN deps ELSE split @@ (line :> <<>>)

parsePip(lines) == [Kind |-> "pip", Dependencies |-> FoldLeft(PipLine, << >>, lines)]

\* A gem or the constraint of one: the last line that names it sets its version.
GemLine(deps, line) ==
    LET rest == SubSeq(line, 3, Len(line))
        ver  == IF rest # <<>> /\ Last(rest) = ")" THEN Front(rest) ELSE rest
    IN IF Len(line) >= 2 /\ line[2] = "(" THEN (line[1] :> ver) @@ deps ELSE deps

parseGem(lines) == [Kind |-> "gem", Dependencies |-> FoldLeft(GemLine, << >>, lines)]

Probes == << "go.mod", "package.json", "composer.json", "requirements.txt", "Gemfile.lock" >>

ParseManifest(file, content) ==
    CASE file = "go.mod"           -> parseGoMod(content)
      [] file = "package.json"     -> parseNPM(content)
      [] file = "composer.json"    -> parseComposer(content)
      [] file = "requirements.txt" -> parsePip(content)
      [] file = "Gemfile.lock"     -> parseGem(content)

\* root: the manifests that can be read, and decoded if they are JSON.
DetectManifest(root) ==
    LET found == {i \in DOMAIN Probes : Probes[i] \in DOMAIN root}
    IN IF found = {} THEN NoManifest
       ELSE LET file == Probes[Min(found)] IN ParseManifest(file, root[file])

--------------------------------------------------------------------------------
(* The links *)

NoLink == [site |-> "none", pkg |-> "", version |-> "", symbol |-> ""]
Link(site, pkg, version, symbol) ==
    [site |-> site, pkg |-> pkg, version |-> version, symbol |-> symbol]

Answer(docsURL, sourceURL, version) ==
    [docsURL |-> docsURL, sourceURL |-> sourceURL, version |-> version]

Fallback == Answer(NoLink, NoLink, "")

GoMod(m, pkg, symbol) ==
    LET version == LookupVersion(m, pkg)
    IN Answer(Link("pkg.go.dev", pkg, version, symbol),
              IF version # "" THEN Link("cs.opensource.google", pkg, "", "") ELSE NoLink,
              version)

NPM(m, pkg) ==
    LET version == LookupVersion(m, pkg)
    IN Answer(Link("npmjs.com", pkg, version, ""), NoLink, version)

Composer(m, pkg) == Answer(Link("packagist.org", pkg, "", ""), NoLink, LookupVersion(m, pkg))

\* The language is not looked at, and pip and gem have no backend.
selectBackend(m, pkg, symbol) ==
    CASE m.Kind = "gomod"    -> GoMod(m, pkg, symbol)
      [] m.Kind = "npm"      -> NPM(m, pkg)
      [] m.Kind = "composer" -> Composer(m, pkg)
      [] OTHER               -> Fallback

\* A summary that cannot be had is replaced by the reason.
ResolveCall(root, pkg, symbol, summary) ==
    selectBackend(DetectManifest(root), pkg, symbol) @@
    [llmSummary |-> IF summary.ok THEN summary.text ELSE "Could not generate summary"]

--------------------------------------------------------------------------------
(* What go.mod requires, by its grammar: a line of its own or a line of a block *)

Opens(lines, i)  == lines[i] = << "require", "(" >>
Closes(lines, i) == lines[i] = << ")" >>

InBlock(lines, i) ==
    \E o \in 1..(i - 1) : /\ Opens(lines, o)
                          /\ \A k \in (o + 1)..i : ~Closes(lines, k) /\ ~Opens(lines, k)

Requires(lines, i, pkg) ==
    \/ InBlock(lines, i) /\ Len(lines[i]) >= 2 /\ lines[i][1] = pkg
    \/ Len(lines[i]) >= 3 /\ lines[i][1] = "require" /\ lines[i][2] = pkg

VersionRequired(lines, pkg) ==
    LET by == {i \in DOMAIN lines : Requires(lines, i, pkg)}
    IN IF by = {} THEN ""
       ELSE LET last == lines[Max(by)] IN IF last[1] = pkg THEN last[2] ELSE last[3]
================================================================================
