-------------------------------- MODULE Answers --------------------------------
(***************************************************************************)
(* What the provider makes of an answer of the LLM that it gets in one     *)
(* piece (internal/llm/anthropic.go): the triage summary of a hunk, the    *)
(* glossary of a file and the summary of an external symbol.               *)
(*                                                                         *)
(* An answer to a request is an error or the sequence of its blocks, of    *)
(* which the first counts.  The text of a block is a sequence of words; a  *)
(* summary's text is a sequence of such lines, without surrounding blanks. *)
(***************************************************************************)
EXTENDS Naturals, FiniteSetsExt, SequencesExt

Refusal       == [ok |-> FALSE, blocks |-> << >>]
Blocks(texts) == [ok |-> TRUE, blocks |-> texts]

Failed       == [ok |-> FALSE]
Result(text) == [ok |-> TRUE, value |-> text]

SummarizeExternalCall(answer) ==
    IF answer.ok /\ answer.blocks # << >> THEN Result(answer.blocks[1]) ELSE Failed

--------------------------------------------------------------------------------
(* The triage summary. *)

Fields == {"Breaking", "Risk", "WhatChanged", "SideEffects", "Tests", "ReviewerFocus",
           "Suggestion", "Confidence"}

Placeholder == << "-" >>

\* A line is cut at its first colon; without one, or with a key that is no field, it is
\* passed over.
SummaryLine(summary, line) ==
    LET at    == SelectInSeq(line, LAMBDA word : word = ":")
        value == SubSeq(line, at + 1, Len(line))
    IN  IF at = 2 /\ line[1] \in Fields
        THEN [summary EXCEPT ![line[1]] = IF value = << >> THEN Placeholder ELSE value]
        ELSE summary

parseStepSummary(lines) == FoldLeft(SummaryLine, [f \in Fields |-> Placeholder], lines)

GenerateStepSummary(answer) ==
    IF answer.ok /\ answer.blocks # << >> THEN Result(parseStepSummary(answer.blocks[1]))
    ELSE Failed

--------------------------------------------------------------------------------
(* The glossary: a JSON array of candidates, which the LLM may put into a fence. *)

Fence == "fence"

WithoutFences(text) ==
    LET opened == IF IsPrefix(<< Fence, "json" >>, text) THEN SubSeq(text, 3, Len(text))
                  ELSE text
        bare   == IF IsPrefix(<< Fence >>, opened) THEN Tail(opened) ELSE opened
    IN  IF IsSuffix(<< Fence >>, bare) THEN Front(bare) ELSE bare

\* decode: the candidates of the texts that are JSON arrays.  Only a request that fails
\* is an error; an empty answer, or one that is no such array, means no candidates.
ExtractGlossaryTerms(answer, decode) ==
    IF ~answer.ok THEN Failed
    ELSE IF answer.blocks = << >> THEN Result(<< >>)
    ELSE LET raw == WithoutFences(answer.blocks[1])
         IN  Result(IF raw \in DOMAIN decode THEN decode[raw] ELSE << >>)
================================================================================
