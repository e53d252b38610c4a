------------------------------ MODULE Delivery ------------------------------
(***************************************************************************)
(* What every decoder of the repository promises: the characters of the    *)
(* text come out in order, none is taken back or changed once it is out,   *)
(* and when the decoder ends nothing is missing.                           *)
(***************************************************************************)
EXTENDS Sequences, Naturals

CONSTANT Texts   \* the texts that may have to be delivered

VARIABLES
  text,    \* the text to deliver
  sent,    \* what has come out
  ended    \* the decoder has returned

vars == <<text, sent, ended>>

Init ==
  /\ text \in Texts
  /\ sent = << >>
  /\ ended = FALSE

Deliver ==
  /\ ~ended
  /\ Len(sent) < Len(text)
  /\ sent' = Append(sent, text[Len(sent) + 1])
  /\ UNCHANGED <<text, ended>>

End ==
  /\ ~ended
  /\ sent = text
  /\ ended' = TRUE
  /\ UNCHANGED <<text, sent>>

Next == Deliver \/ End

Spec == Init /\ [][Next]_vars /\ WF_vars(Next)
=============================================================================
