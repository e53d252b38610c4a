------------------------------ MODULE Encoding ------------------------------
(***************************************************************************)
(* What every encoder of the repository promises: the stream grows by one  *)
(* byte at a time, each byte stands for the next characters of the text,   *)
(* and the encoder ends with the byte that stands for the last ones.  So   *)
(* the stream is well-formed and decodes to a prefix of the text at every  *)
(* moment, whichever matches the encoder chooses, and is never longer than *)
(* the text.  A text with a byte of 8 bits may be refused as a whole.      *)
(***************************************************************************)
EXTENDS LZFormat

CONSTANT Texts   \* the texts that may have to be encoded

VARIABLES
  text,    \* the text to encode
  enc,     \* the stream so far
  ended    \* the encoder has returned

vars == <<text, enc, ended>>

Init ==
  /\ text \in Texts
  /\ enc = << >>
  /\ ended = FALSE

Covered == Starts(enc)[Len(enc)]

(* The byte c stands for the characters that come next.                    *)
StandsForNext(c) ==
  /\ Covered + count(c) <= Len(text)
  /\ IF ~IsPointer(c) THEN text[Covered + 1] = c
     ELSE LET source == Source(Append(enc, c), Len(enc)) IN
          /\ source >= 0
          /\ \A k \in 1 .. count(c) :
               text[Covered + k] = text[Starts(enc)[source] + k]

Encode ==
  /\ ~ended
  /\ \E c \in Byte :
       /\ enc' = Append(enc, c)
       /\ StandsForNext(c)
       /\ ended' = (Covered + count(c) = Len(text))
  /\ UNCHANGED text

Refuse ==
  /\ ~ended
  /\ enc = << >>
  /\ \E k \in DOMAIN text : IsPointer(text[k])
  /\ ended' = TRUE
  /\ UNCHANGED <<text, enc>>

(* Nothing is to be encoded.                                               *)
Skip ==
  /\ ~ended
  /\ text = << >>
  /\ ended' = TRUE
  /\ UNCHANGED <<text, enc>>

Next == Encode \/ Refuse \/ Skip

Spec == Init /\ [][Next]_vars /\ WF_vars(Next)
=============================================================================
