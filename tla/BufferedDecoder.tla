-------------------------- MODULE BufferedDecoder --------------------------
(***************************************************************************)
(* lzjwm_decompressed_size and lzjwm_decompress of lzjwm_decompress.c, as  *)
(* a caller uses them: the first tells the size of the buffer (cells) the  *)
(* second decodes into.  Pointers are copied from the buffer; where from   *)
(* is found by walking the encoded bytes back from the pointer and adding  *)
(* up their counts.                                                        *)
(***************************************************************************)
EXTENDS LZFormat

CONSTANTS
  Streams,  \* the streams considered, each with the text it stands for
  Modes,    \* how the caller gives the size: "sized", "terminated"
  UINT_MAX  \* the largest unsigned int

ASSUME ModesAssumption == Modes \subseteq {"sized", "terminated"}
ASSUME StreamsAssumption == \A st \in Streams : IsStream(st)

(* Positions in the input are ints, and -1 is none of them.                *)
ASSUME LengthAssumption ==
  UINT_MAX \in Nat /\ \A st \in Streams : Len(st.enc) < UINT_MAX

VARIABLES
  stream,  \* the encoded bytes, and the text they stand for
  mode,
  pc,      \* the loop the caller is in: "size", "fetch", "rewind", "copy";
           \* "done"; "undefined" after an access outside a buffer
  size,    \* lzjwm_decompressed_size's sum, then the size of the buffer
  cells,   \* the buffer out
  iptr,    \* the position in the encoded bytes
  len,     \* the count of the byte being decoded
  fsize,   \* the characters decoded so far
  outf,    \* where in the buffer the copy starts
  i        \* the counter of the innermost loop

vars == <<stream, mode, pc, size, cells, iptr, len, fsize, outf, i>>

(* The argument isize, and its conversion to unsigned.                     *)
isize == IF mode = "terminated" THEN -1 ELSE Len(stream.enc)
unsigned(x) == x % (UINT_MAX + 1)

(* What in points to, and whether position p is in it.  With isize = -1    *)
(* the bytes are followed by a NUL, and have none among them.              *)
Memory == IF isize = -1 THEN Append(stream.enc, 0) ELSE stream.enc
InMemory(p) == p \in 0 .. (Len(Memory) - 1)
At(p) == Memory[p + 1]
Terminated(st) == \A p \in 1 .. Len(st.enc) : st.enc[p] # 0

Uninit == -1   \* the content of a cell nothing was written to

(* The test of the loop of lzjwm_decompressed_size, which looks for a NUL  *)
(* when it was given no size.                                              *)
MoreToSize(p) == (isize = -1 /\ (InMemory(p) => At(p) # 0)) \/ p < isize

(* The test of the loop of lzjwm_decompress: no size is a very large one.  *)
MoreToDecode(p) == p < unsigned(isize)

(* Mutant: any NUL ends the input.                                         *)
Breaks_AnyNul(ch) == ch = 0

(* That loop breaks off, after it read ch: !(~isize || ch).                *)
Breaks(ch) == isize = -1 /\ ch = 0

Init ==
  /\ stream \in Streams
  /\ mode \in Modes
  /\ mode = "terminated" => Terminated(stream)
  /\ pc = "size"
  /\ size = 0
  /\ cells = << >>
  /\ iptr = 0 /\ len = 0
  /\ fsize = 0 /\ outf = 0 /\ i = 0

(* A turn of the loop of lzjwm_decompressed_size.                          *)
AddCount ==
  /\ pc = "size"
  /\ MoreToSize(i)
  /\ IF InMemory(i)
     THEN /\ size' = size + count(At(i))
          /\ i' = i + 1
          /\ UNCHANGED pc
     ELSE /\ pc' = "undefined"
          /\ UNCHANGED <<size, i>>
  /\ UNCHANGED <<stream, mode, cells, iptr, len, fsize, outf>>

(* The caller makes a buffer of that size and calls lzjwm_decompress.      *)
Buffer(n) ==
  /\ pc = "size"
  /\ ~MoreToSize(i)
  /\ cells' = [k \in 1 .. n |-> Uninit]
  /\ i' = 0
  /\ pc' = "fetch"
  /\ UNCHANGED <<stream, mode, size, iptr, len, fsize, outf>>

(* Mutant: the buffer is as large as the input.                            *)
Allocate_Input == Buffer(i)

Allocate == Buffer(size)

(* The loop of lzjwm_decompress reads the next byte, which does not break  *)
(* it off.                                                                 *)
Fetched ==
  /\ pc = "fetch"
  /\ MoreToDecode(iptr)
  /\ InMemory(iptr) /\ ~Breaks(At(iptr))

(* A literal: one character into the buffer.                               *)
Literally ==
  /\ Fetched
  /\ count(At(iptr)) = 1
  /\ len' = 1
  /\ IF fsize < size
     THEN /\ cells' = [cells EXCEPT ![fsize + 1] = At(iptr)]
          /\ UNCHANGED pc
     ELSE /\ pc' = "undefined"
          /\ UNCHANGED cells
  /\ iptr' = iptr + 1
  /\ fsize' = fsize + 1
  /\ UNCHANGED <<stream, mode, size, outf, i>>

(* A pointer: start the walk back over the bytes before it.                *)
Pointer ==
  /\ Fetched
  /\ count(At(iptr)) # 1
  /\ len' = count(At(iptr))
  /\ iptr' = iptr + 1
  /\ outf' = fsize
  /\ i' = 0
  /\ pc' = "rewind"
  /\ UNCHANGED <<stream, mode, size, cells, fsize>>

(* A turn of that walk, for i = 0 .. last; i bytes were walked over, so    *)
(* in_finger is at iptr - 1 - i before it.                                 *)
StepBack(last) ==
  /\ pc = "rewind"
  /\ i <= last
  /\ IF InMemory(iptr - 2 - i)
     THEN /\ outf' = outf - count(At(iptr - 2 - i))
          /\ i' = i + 1
          /\ UNCHANGED pc
     ELSE /\ pc' = "undefined"
          /\ UNCHANGED <<outf, i>>
  /\ UNCHANGED <<stream, mode, size, cells, iptr, len, fsize>>

(* Mutant: one byte too far.                                               *)
Rewind_Far == StepBack(get_offset(At(iptr - 1)) + 1)

Rewind == StepBack(get_offset(At(iptr - 1)))

StartCopy ==
  /\ pc = "rewind"
  /\ i > get_offset(At(iptr - 1))
  /\ i' = 0
  /\ pc' = "copy"
  /\ UNCHANGED <<stream, mode, size, cells, iptr, len, fsize, outf>>

(* The k-th character of the copy; it may be one this copy wrote before.   *)
CopyAt(k) ==
  /\ pc = "copy"
  /\ i < len
  /\ IF outf + k >= 0 /\ fsize + k < size
     THEN /\ cells' = [cells EXCEPT ![fsize + k + 1] = cells[outf + k + 1]]
          /\ i' = i + 1
          /\ UNCHANGED pc
     ELSE /\ pc' = "undefined"
          /\ UNCHANGED <<cells, i>>
  /\ UNCHANGED <<stream, mode, size, iptr, len, fsize, outf>>

(* Mutant: from the last character to the first.                           *)
Copy_Backwards == CopyAt(len - 1 - i)

Copy == CopyAt(i)

EndCopy ==
  /\ pc = "copy"
  /\ i = len
  /\ fsize' = fsize + len
  /\ i' = 0
  /\ pc' = "fetch"
  /\ UNCHANGED <<stream, mode, size, cells, iptr, len, outf>>

(* The byte that is read breaks the loop off; iptr is past it already.     *)
Break ==
  /\ pc = "fetch"
  /\ MoreToDecode(iptr)
  /\ InMemory(iptr) => Breaks(At(iptr))
  /\ pc' = IF InMemory(iptr) THEN "done" ELSE "undefined"
  /\ iptr' = iptr + 1
  /\ UNCHANGED <<stream, mode, size, cells, len, fsize, outf, i>>

Return ==
  /\ pc = "fetch"
  /\ ~MoreToDecode(iptr)
  /\ pc' = "done"
  /\ UNCHANGED <<stream, mode, size, cells, iptr, len, fsize, outf, i>>

Next ==
  \/ AddCount \/ Allocate
  \/ Literally \/ Pointer \/ Rewind \/ StartCopy \/ Copy \/ EndCopy
  \/ Break \/ Return

Spec == Init /\ [][Next]_vars

(* One thread that runs until the call returns.                            *)
FairSpec == Spec /\ WF_vars(Next)

-----------------------------------------------------------------------------
TypeOK ==
  /\ mode \in {"sized", "terminated"}
  /\ pc \in {"size", "fetch", "rewind", "copy", "done", "undefined"}
  /\ size \in Nat
  /\ cells \in Seq(Literal \cup {Uninit})
  /\ pc \notin {"size", "undefined"} => Len(cells) = size
  /\ iptr \in 0 .. Len(Memory)
  /\ len \in {0, 1} \cup 2 .. MAX_ZERO_MATCH
  /\ fsize \in Nat
  /\ outf \in Int
  /\ i \in Nat

(* The sizing loop and the decoding loop, which test for the end of the    *)
(* input in different ways (lzjwm_decompress.c:31 and 95-98), end at the   *)
(* same byte, with a NUL among those of a given size or behind the others: *)
(* the size computed is that of the text, at each byte the characters      *)
(* decoded are those of the bytes before it, and at the end they are all.  *)
SizesAgree ==
  /\ pc \notin {"size", "undefined"} => size = Len(stream.text)
  /\ pc = "fetch" => fsize = stream.start[iptr]
  /\ pc = "done" => fsize = size

(* No access leaves a buffer, and no copy reads a cell before it is        *)
(* written.                                                                *)
BuffersRespected ==
  /\ pc # "undefined"
  /\ pc = "copy" /\ i < len => cells[outf + i + 1] # Uninit

(* "You can use a small read buffer (160 bytes is always sufficient) to    *)
(* avoid all duplicate decoding" (README.md:104-106): a copy never reaches *)
(* back further than LOOKBACK bytes of MAX_ZERO_MATCH characters each.     *)
WindowSuffices == pc = "copy" => fsize - outf <= LOOKBACK * MAX_ZERO_MATCH

(* The decoder delivers the text, all of it, and returns.                  *)
Filled == IF pc = "copy" THEN fsize + i ELSE fsize
D == INSTANCE Delivery WITH
       Texts <- Seq(Byte),
       text <- stream.text,
       sent <- IF pc = "undefined" THEN << >> ELSE SubSeq(cells, 1, Filled),
       ended <- (pc = "done")
DeliversText == D!Spec
=============================================================================
