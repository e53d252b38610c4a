------------------------------ MODULE LZFormat ------------------------------
(***************************************************************************)
(* The byte format of lzjwm: the macros of lzjwm.h, the encoder's mk_ptr   *)
(* and the decoder's count and get_offset.  A byte is a natural number.    *)
(* A byte below FLAG is a literal; a byte from FLAG on is a pointer that   *)
(* packs an offset (a distance in ENCODED bytes) and a count (a number of  *)
(* decoded characters).                                                    *)
(*                                                                         *)
(* The code has PAYLOAD_BITS = 7 (the 0x7f and 0x80 masks, and the 7 of    *)
(* LOOKBACK).  It is a constant here so that TLC can also check a narrow   *)
(* byte, in which both the window and the longest match are small enough   *)
(* to be exceeded by short inputs.                                         *)
(***************************************************************************)
EXTENDS Integers, Sequences

CONSTANTS
  PAYLOAD_BITS,  \* bits of a byte below its flag bit: 7 in the code
  COUNT_BITS,    \* bits of a pointer that hold its count: 2 as shipped
  ZERO_BITS      \* extra count bits of a pointer of offset 0: 0 as shipped

ASSUME FormatAssumption ==
  /\ PAYLOAD_BITS \in 1 .. 7
  /\ COUNT_BITS \in 0 .. PAYLOAD_BITS
  /\ ZERO_BITS \in 0 .. (PAYLOAD_BITS - COUNT_BITS)

FLAG == 2 ^ PAYLOAD_BITS
Byte == 0 .. (2 * FLAG - 1)
Literal == 0 .. (FLAG - 1)

(* Conversion of an int to uint8_t.                                        *)
uint8(x) == x % (2 * FLAG)

(* How many list nodes ahead the encoder looks, hence the offsets it can   *)
(* produce: 0 .. LOOKBACK - 1.                                             *)
LOOKBACK ==
  2 ^ (PAYLOAD_BITS - COUNT_BITS) - (IF ZERO_BITS > 0 THEN 2 ^ ZERO_BITS ELSE 0)

(* The longest copy of a pointer, and of a pointer whose offset is 0.      *)
MAX_MATCH == 2 ^ COUNT_BITS + 1
MAX_ZERO_MATCH == 2 ^ (COUNT_BITS + ZERO_BITS) + 1

(* The first pointer byte that stands for offset 0 when ZERO_BITS is used: *)
(* those whose bits above COUNT_BITS + ZERO_BITS are all ones.             *)
ZeroPage == 2 * FLAG - 2 ^ (COUNT_BITS + ZERO_BITS)

(* With ZERO_BITS the other pointers only hold offsets from 1 on.          *)
ZeroShift == IF ZERO_BITS > 0 THEN 1 ELSE 0

IsPointer(c) == c >= FLAG
IsZeroOffset(c) == ZERO_BITS > 0 /\ c >= ZeroPage

(* Mutant: the offsets are not shifted when offset 0 has its own page.     *)
mk_ptr_NoShift(n, o) ==
  uint8(IF ZERO_BITS > 0 /\ o = 0
        THEN ZeroPage + (n - 2)
        ELSE FLAG + (o * (2 ^ COUNT_BITS)) + (n - 2))

(* The pointer that copies n characters from offset o.  The fields of the  *)
(* byte do not overlap for the counts and offsets the encoder passes, as   *)
(* its assertions demand (Compressor!OffsetsFit), so the code's bitwise or *)
(* is a sum; the result is a char.                                         *)
mk_ptr(n, o) ==
  uint8(IF ZERO_BITS > 0 /\ o = 0
        THEN ZeroPage + (n - 2)
        ELSE FLAG + ((o - ZeroShift) * (2 ^ COUNT_BITS)) + (n - 2))

(* The number of characters a byte decodes to.                             *)
count(c) ==
  IF ~IsPointer(c) THEN 1
  ELSE IF IsZeroOffset(c) THEN (c % (2 ^ (COUNT_BITS + ZERO_BITS))) + 2
  ELSE (c % (2 ^ COUNT_BITS)) + 2

(* The offset of a pointer byte.                                           *)
get_offset(c) ==
  IF IsZeroOffset(c) THEN 0
  ELSE ((c % FLAG) \div (2 ^ COUNT_BITS)) + ZeroShift

-----------------------------------------------------------------------------
(***************************************************************************)
(* What it means that the bytes enc stand for the characters text.  Arrays *)
(* of the code are sequences here, so position p of the code is p + 1.     *)
(* s[p] is the position in text of the first character that byte p decodes *)
(* to.  A pointer at position p copies what the stream decodes to from     *)
(* position p - offset - 1 on; the copy may run into the pointer's own     *)
(* output, so this is an equation on text and not a recipe.                *)
(***************************************************************************)
Source(enc, p) == p - get_offset(enc[p + 1]) - 1

DecodesVia(enc, text, s) ==
  /\ s \in [0 .. Len(enc) -> 0 .. Len(text)]
  /\ s[0] = 0
  /\ s[Len(enc)] = Len(text)
  /\ \A p \in 0 .. (Len(enc) - 1) :
       LET c == enc[p + 1] IN
       /\ s[p + 1] = s[p] + count(c)
       /\ ~IsPointer(c) => text[s[p] + 1] = c
       /\ IsPointer(c) =>
            /\ Source(enc, p) >= 0
            /\ \A k \in 1 .. count(c) :
                 text[s[p] + k] = text[s[Source(enc, p)] + k]

(***************************************************************************)
(* The text an encoded stream stands for, built byte by byte, and where    *)
(* each byte's text starts.  A copy that overlaps its own output repeats   *)
(* the characters from its source to the end of the text so far.           *)
(***************************************************************************)
WellFormed(enc) ==
  \A p \in 0 .. (Len(enc) - 1) : IsPointer(enc[p + 1]) => Source(enc, p) >= 0

Starts(enc) ==
  LET s[p \in 0 .. Len(enc)] == IF p = 0 THEN 0 ELSE s[p - 1] + count(enc[p])
  IN  s

Repeat(text, from, n) ==
  [k \in 1 .. n |-> text[from + 1 + ((k - 1) % (Len(text) - from))]]

Decode(enc) ==
  LET s == Starts(enc)
      t[p \in 0 .. Len(enc)] ==
        IF p = 0 THEN << >>
        ELSE IF ~IsPointer(enc[p]) THEN Append(t[p - 1], enc[p])
        ELSE t[p - 1] \o Repeat(t[p - 1], s[Source(enc, p - 1)], count(enc[p]))
  IN  t[Len(enc)]

(* A well-formed stream with the text it stands for.                       *)
StreamOf(enc) == [enc |-> enc, text |-> Decode(enc), start |-> Starts(enc)]

IsStream(st) ==
  /\ st.enc \in Seq(Byte)
  /\ st.text \in Seq(Byte)
  /\ DecodesVia(st.enc, st.text, st.start)

=============================================================================
