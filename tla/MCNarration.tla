----------------------------- MODULE MCNarration -------------------------------
(* A session over two steps in a row, in the walkthrough form (no hunks) or  *)
(* as a review (every step a hunk), with the destinations that matter.         *)
EXTENDS Narration, Answers, TLC

CONSTANTS first, second, noStep, Review

MCSteps == {first, second}
MCIDs   == MCSteps \cup {noStep}
MCHunks == IF Review THEN MCSteps ELSE {}

NextEdge(s) == [target |-> s, label |-> EDGE_LABEL_NEXT, navigable |-> TRUE]

MCEdges == first :> << NextEdge(second) >> @@ second :> << >>

Navigate(d) == [method |-> "Navigate", dest |-> d]
Plain(m)    == [method |-> m, dest |-> [kind |-> "none"]]

\* Every kind of request, the ones that are refused included.
MCRequests ==
    {Navigate([kind |-> "forward"]), Navigate([kind |-> "back"]),
     Navigate([kind |-> "edge", label |-> EDGE_LABEL_NEXT]),
     Navigate([kind |-> "step", id |-> second]),
     Navigate([kind |-> "step", id |-> noStep]),
     Plain("Navigate"), Plain("Rephrase"), Plain("ExpandTerm")}

\* The requests of clients that walk back and forth.
MCWalk == {Navigate([kind |-> "forward"]), Navigate([kind |-> "back"]),
           Plain("Rephrase")}

\* The requests of clients that look at one step.
MCStay == {Navigate([kind |-> "step", id |-> second]), Plain("ExpandTerm")}

CallSymmetry == Permutations(Calls)

--------------------------------------------------------------------------------
(* The provider's other answers, which the calls above take for granted. *)

SummaryLines == { << "Risk", ":", "low" >>, << "Risk", ":" >>, << "Tests", ":", "a", ":", "b" >>,
                  << "Tests", "none" >>, << "The", "Risk", ":", "low" >>, << "Severity", ":", "low" >>, << >> }

Texts == UNION {[1..n -> SummaryLines] : n \in 0..4}

\* Whatever the LLM writes, every field of a summary is there and not empty, and it is
\* what the last line that names the field says.
ASSUME SummariesAreComplete ==
    \A text \in Texts : \A f \in Fields :
        LET by == {i \in DOMAIN text : Len(text[i]) >= 2 /\ text[i][1] = f /\ text[i][2] = ":"}
            said == IF by = {} THEN << >> ELSE Tail(Tail(text[Max(by)]))
        IN  parseStepSummary(text)[f] = IF said = << >> THEN Placeholder ELSE said

\* A glossary is found with and without a fence, and no answer but a refusal is an error.
ASSUME GlossariesAreFound ==
    LET array  == << "[", "]" >>
        decode == array :> << "term" >>
        of(text) == ExtractGlossaryTerms(Blocks(<< text >>), decode)
    IN  /\ \A open \in {<< >>, << Fence >>, << Fence, "json" >>}, close \in {<< >>, << Fence >>} :
               of(open \o array \o close) = Result(<< "term" >>)
        /\ of(<< "Here:", Fence >> \o array \o << Fence >>) = Result(<< >>)
        /\ ExtractGlossaryTerms(Blocks(<< >>), decode) = Result(<< >>)
        /\ ExtractGlossaryTerms(Refusal, decode) = Failed
================================================================================
