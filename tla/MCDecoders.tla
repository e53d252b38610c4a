----------------------------- MODULE MCDecoders -----------------------------
(***************************************************************************)
(* Encoded streams for model checking the decoders.                        *)
(***************************************************************************)
EXTENDS LZFormat, SequencesExt, FiniteSetsExt

CONSTANT MaxBytes   \* the longest of the enumerated streams

(* The pointers of every count and of the offsets 0 .. MaxBytes - 1, and   *)
(* two literals.                                                           *)
Pointers(offsets) ==
  {c \in FLAG .. (2 * FLAG - 1) : get_offset(c) \in offsets}

Alphabet == {1, 2} \cup Pointers(0 .. (MaxBytes - 1))

(* A literal and then pointers of 2, 3, ... characters, each to the byte   *)
(* before it: the deepest nesting the counts allow.                        *)
Ladder == <<1>> \o [k \in 1 .. (MAX_MATCH - 1) |-> mk_ptr(k + 1, 0)]

(* The longest pointers as far as one can reach, and a copy from there.    *)
FarCopy == <<1, 2>> \o [k \in 1 .. LOOKBACK |-> mk_ptr(MAX_MATCH, 0)]
             \o <<mk_ptr(2, LOOKBACK - 1)>>

Encoded ==
  {e \in BoundedSeq(Alphabet, MaxBytes) : WellFormed(e)}
    \cup {Ladder, Ladder \o <<mk_ptr(MAX_MATCH, 0)>>, <<1, 2>> \o Ladder, FarCopy}

AllStreams == {StreamOf(e) : e \in Encoded}
=============================================================================
