--------------------------------- MODULE Tiers ---------------------------------
(***************************************************************************)
(* How important a changed file is by its path (entryPointsFirst.tier in   *)
(* internal/forge/orderers).  A path, in lower case, is the sequence of    *)
(* its words and of the separators "/", "." and "_" between them; two      *)
(* words may stand next to each other, as in "domain.py".                  *)
(***************************************************************************)
EXTENDS Naturals, SequencesExt

\* strings.Contains and strings.HasSuffix.
HasPart(p, pattern) ==
    \E i \in 0..(Len(p) - Len(pattern)) : SubSeq(p, i + 1, i + Len(pattern)) = pattern

EndsIn(p, patterns) == \E s \in patterns : IsSuffix(s, p)
Under(p, dirs)      == \E d \in dirs : HasPart(p, << "/", d, "/" >>)

File(name, extension) == << name, ".", extension >>

isTest(p) ==
    \/ EndsIn(p, {<< "_", "test", ".", "go" >>})
    \/ Under(p, {"test", "tests"})
    \/ \E word \in {"test", "spec"} : HasPart(p, << ".", word, "." >>)
    \/ HasPart(p, << "_", "test", ".", "py" >>)
    \/ HasPart(p, << "test", "_" >>) /\ EndsIn(p, {<< ".", "py" >>})

isDoc(p) == EndsIn(p, {<< ".", "md" >>}) \/ Under(p, {"docs"})

isConfig(p) ==
    \/ Under(p, {"config", "deploy"})
    \/ EndsIn(p, {<< ".", "yaml" >>, << ".", "yml" >>, << "dockerfile" >>, << "makefile" >>})

isAdapter(p) == Under(p, {"repository", "repositories", "adapter", "adapters", "dao"})

isDomain(p) == Under(p, {"service", "services", "domain", "model", "models"})

\* "main.go" counts only below a directory, the others also as the end of a longer name.
isEntry(p) ==
    \/ Under(p, {"controller", "controllers", "handler", "handlers", "route", "routes",
                 "api", "cmd"})
    \/ EndsIn(p, {<< "/" >> \o File("main", "go"), File("main", "kt"), File("main", "py"),
                  File("index", "ts"), File("index", "js")})

\* The first description that fits decides.
tier(p) ==
    IF isTest(p) THEN 80
    ELSE IF isDoc(p) THEN 70
    ELSE IF isConfig(p) THEN 60
    ELSE IF isAdapter(p) THEN 50
    ELSE IF isDomain(p) THEN 30
    ELSE IF isEntry(p) THEN 10
    ELSE 40
================================================================================
