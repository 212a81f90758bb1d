--------------------------- MODULE Conversation ---------------------------
(***************************************************************************)
(* What the memory of a bot session promises: the last turns of the        *)
(* conversation, each question with the answer it got, in the order in     *)
(* which the answers ended.                                                *)
(***************************************************************************)
EXTENDS Naturals, Sequences

CONSTANTS
  Requests,  \* the questions
  Texts,     \* what an answer may be
  MaxTurns   \* turns that are kept

VARIABLE turns

Init == turns = <<>>

Latest(s) == IF Len(s) <= MaxTurns THEN s ELSE Tail(s)

\* A turn has a question that is not remembered yet and an answer with a text.
Remember ==
  /\ turns' # <<>>
  /\ LET turn == turns'[Len(turns')] IN
       /\ turn.of \in Requests
       /\ turn.text \in Texts /\ turn.text # <<>>
       /\ \A i \in 1..Len(turns) : turns[i].of # turn.of
       /\ turns' = Latest(Append(turns, turn))

Forget == turns' = <<>>

Next == Remember \/ Forget

Spec == Init /\ [][Next]_turns
=============================================================================
