---------------------------------- MODULE Patch ----------------------------------
(***************************************************************************)
(* The patch of a changed file, as GitHub sends it, and its parsing into   *)
(* hunks (internal/forge/forges/github.go).  A line is its first character *)
(* and, for a hunk header, the range "+start,count" it names in the new    *)
(* file; git leaves the count out when it is one.                          *)
(***************************************************************************)
EXTENDS Integers, Sequences, FiniteSets, SequencesExt

Omitted == -1

Marks == {"@", " ", "+", "-", "\\"}
Line  == [mark : Marks, start : Nat, count : Nat \cup {Omitted}]

IsHeader(line) == line.mark = "@"

\* The lines of the new file that the patch shows below the header at position i.
ShownBelow(patch, i) ==
    {j \in (i + 1)..Len(patch) :
        /\ patch[j].mark \in {" ", "+"}
        /\ \A k \in (i + 1)..j : ~IsHeader(patch[k])}

\* git counts right: a header's count is the number of lines shown below it.  And
\* it writes the hunks of a file from top to bottom, beginning with a header.
WellFormedPatch(patch) ==
    /\ patch \in Seq(Line)
    /\ patch # << >> => IsHeader(patch[1])
    /\ \A i \in DOMAIN patch : IsHeader(patch[i]) =>
           Cardinality(ShownBelow(patch, i)) =
               (IF patch[i].count = Omitted THEN 1 ELSE patch[i].count)
    /\ \A i, j \in DOMAIN patch :
           i < j /\ IsHeader(patch[i]) /\ IsHeader(patch[j]) =>
               patch[i].start < patch[j].start

Hunk == [NewStart : Nat, NewLines : Nat, RawDiff : Seq(Line)]

\* parseHunkRange: when the count is omitted it defaults to 1.
RangeCount(line) == IF line.count = Omitted THEN 1 ELSE line.count

parseHunkHeader(line) ==
    [NewStart |-> line.start, NewLines |-> RangeCount(line), RawDiff |-> << line >>]

\* The state of parseHunks' loop: the hunks that are complete, and the current one,
\* a sequence of at most one hunk.  Lines before the first header are dropped.
parseLine(loop, line) ==
    CASE IsHeader(line) ->
             [hunks |-> loop.hunks \o loop.current, current |-> << parseHunkHeader(line) >>]
      [] ~IsHeader(line) /\ loop.current # << >> ->
             [hunks   |-> loop.hunks,
              current |-> << [loop.current[1] EXCEPT !.RawDiff = Append(@, line)] >>]
      [] OTHER -> loop

\* What the loop has made of the lines so far, after each of them.
parsedLines(patch) ==
    LET loop[i \in 0..Len(patch)] ==
            IF i = 0 THEN [hunks |-> << >>, current |-> << >>]
            ELSE parseLine(loop[i - 1], patch[i])
    IN  loop[Len(patch)]

\* Mutant: the last hunk is not appended after the loop.
parseHunksDropsLast(patch) == parsedLines(patch).hunks

parseHunks(patch) == parsedLines(patch).hunks \o parsedLines(patch).current
================================================================================
