----------------------------- MODULE Conversation ------------------------------
(***************************************************************************)
(* What one session promises to the clients that talk to it at the same    *)
(* time, with no goroutine, channel, lock or walker.  The session has one  *)
(* history of places.  A call is about one moment of it: where the session *)
(* stood when the call moved it or looked, the way there and what could    *)
(* follow.  It then tells one answer from the beginning, its own or an     *)
(* archived one, and may stop at any point; only when all was told does it *)
(* complete, and says of which moment.  An answer enters the archive as    *)
(* its client was told it, and under the place it is about.                *)
(***************************************************************************)
EXTENDS NavHistory

CONSTANTS
    Calls,      \* the calls that clients make
    Offers,     \* what can follow at each place
    Nothing     \* no answer, no moment, no event

VARIABLES
    archive,    \* the answer kept for each place
    stage,      \* how far each call has come
    asks,       \* what it asks for
    about,      \* the moment it is about
    source,     \* the archived answer it tells
    told        \* what its client has heard

talkVars == << stage, asks, about, source >>
conversationVars == << trail, archive, talkVars, told >>

Moment(places) ==
    LET n == Len(places)
    IN  [step |-> places[n], crumb |-> SubSeq(places, 1, n - 1), edges |-> Offers[places[n]]]

ConversationInit ==
    /\ HistoryInit
    /\ archive = [p \in Places |-> Nothing]
    /\ stage = [c \in Calls |-> "new"]
    /\ asks = [c \in Calls |-> Nothing]
    /\ about = [c \in Calls |-> Nothing]
    /\ source = [c \in Calls |-> Nothing]
    /\ told = [c \in Calls |-> [tokens |-> << >>, summary |-> FALSE, complete |-> Nothing]]

Step(c, from, to) == stage[c] = from /\ stage' = [stage EXCEPT ![c] = to]

\* The call is over and leaves nothing but what its client has heard.
Ends(c) ==
    /\ stage' = [stage EXCEPT ![c] = "over"]
    /\ asks' = [asks EXCEPT ![c] = Nothing]
    /\ about' = [about EXCEPT ![c] = Nothing]
    /\ source' = [source EXCEPT ![c] = Nothing]

Hears(c, tokens, summary) ==
    told' = [told EXCEPT ![c] = [tokens |-> tokens, summary |-> summary, complete |-> Nothing]]

\* The next token of the answer of call src.
NextOf(c, src) == Append(told[c].tokens, [src |-> src, n |-> Len(told[c].tokens) + 1])

--------------------------------------------------------------------------------

Ask(c, method) ==
    /\ Step(c, "new", "asked")
    /\ asks' = [asks EXCEPT ![c] = method]
    /\ UNCHANGED << trail, archive, about, source, told >>

\* The session is gone, or cannot do what the call asks.
Refuse(c) ==
    /\ stage[c] \in {"new", "asked"}
    /\ Ends(c)
    /\ UNCHANGED << trail, archive, told >>

\* A Navigate call moves the session and is about where it now stands.
Go(c) ==
    /\ Step(c, "asked", "placed")
    /\ asks[c] = "Navigate"
    /\ HistoryNext
    /\ about' = [about EXCEPT ![c] = Moment(trail')]
    /\ UNCHANGED << archive, asks, source, told >>

\* Any other call is about where the session stands.
Look(c) ==
    /\ Step(c, "asked", "placed")
    /\ asks[c] # "Navigate"
    /\ about' = [about EXCEPT ![c] = Moment(trail)]
    /\ UNCHANGED << trail, archive, asks, source, told >>

\* An answer is there for the place the call is about.
Recall(c) ==
    /\ Step(c, "placed", "retelling")
    /\ asks[c] = "Navigate"
    /\ archive[about[c].step] # Nothing
    /\ source' = [source EXCEPT ![c] = archive[about[c].step]]
    /\ UNCHANGED << trail, archive, asks, about, told >>

\* The call gets an answer of its own; only Navigate looks for another one first.
Begin(c) ==
    /\ Step(c, "placed", "telling")
    /\ asks[c] = "Navigate" => archive[about[c].step] = Nothing
    /\ UNCHANGED << trail, archive, asks, about, source, told >>

Tell(c) ==
    /\ stage[c] = "telling"
    /\ Hears(c, NextOf(c, c), told[c].summary)
    /\ UNCHANGED << trail, archive, talkVars >>

TellSummary(c) ==
    /\ stage[c] = "telling"
    /\ asks[c] = "Navigate"
    /\ ~told[c].summary
    /\ Hears(c, told[c].tokens, TRUE)
    /\ UNCHANGED << trail, archive, talkVars >>

Retell(c) ==
    /\ stage[c] = "retelling"
    /\ Len(told[c].tokens) < source[c].tokens
    /\ Hears(c, NextOf(c, source[c].by), told[c].summary)
    /\ UNCHANGED << trail, archive, talkVars >>

\* All of an archived answer was told, and last its summary.
RetellSummary(c) ==
    /\ Step(c, "retelling", "told")
    /\ Len(told[c].tokens) = source[c].tokens
    /\ Hears(c, told[c].tokens, source[c].summary)
    /\ UNCHANGED << trail, archive, asks, about, source >>

\* The answer has been told; what the client heard of a narration is archived.
Archive(c) ==
    /\ Step(c, "telling", "told")
    /\ asks[c] = "Navigate"
    /\ archive' = [archive EXCEPT ![about[c].step] =
           [by |-> c, tokens |-> Len(told[c].tokens), summary |-> told[c].summary]]
    /\ UNCHANGED << trail, asks, about, source, told >>

Settle(c) ==
    /\ Step(c, "telling", "told")
    /\ asks[c] # "Navigate"
    /\ UNCHANGED << trail, archive, asks, about, source, told >>

\* The client learns that this was all, and which moment it was about.
Complete(c) ==
    /\ stage[c] = "told"
    /\ told' = [told EXCEPT ![c].complete =
           [step    |-> about[c].step,
            crumb   |-> IF asks[c] = "ExpandTerm" THEN << >> ELSE about[c].crumb,
            edges   |-> IF asks[c] = "ExpandTerm" THEN << >> ELSE about[c].edges,
            summary |-> told[c].summary,
            after   |-> Len(told[c].tokens)]]
    /\ Ends(c)
    /\ UNCHANGED << trail, archive >>

\* The call fails, or its client gives up, with the answer cut short.
GiveUp(c) ==
    /\ stage[c] \in {"placed", "telling", "retelling", "told"}
    /\ Ends(c)
    /\ UNCHANGED << trail, archive, told >>

ConversationNext ==
    \E c \in Calls :
       \/ \E method \in {"Navigate", "Rephrase", "ExpandTerm"} : Ask(c, method)
       \/ Refuse(c) \/ Go(c) \/ Look(c) \/ Recall(c) \/ Begin(c)
       \/ Tell(c) \/ TellSummary(c) \/ Retell(c) \/ RetellSummary(c)
       \/ Archive(c) \/ Settle(c) \/ Complete(c) \/ GiveUp(c)

ConversationSpec == ConversationInit /\ [][ConversationNext]_conversationVars
================================================================================
