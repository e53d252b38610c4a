----------------------------- MODULE TinyInput ------------------------------
(***************************************************************************)
(* The main of tiny_lzjwm.c up to the call of its decoder: standard input  *)
(* is read into memory that grows by BLOCK bytes when fewer than ROOM are  *)
(* left, and a NUL is put behind it.  An error ends it like the end.       *)
(***************************************************************************)
EXTENDS Integers, Sequences

CONSTANTS
  BLOCK,      \* the bytes the memory grows by: 4096 in the code
  ROOM,       \* it grows when fewer are left: 256 in the code
  Cuts,       \* bound: how many bytes may be read before an error
  MaxErrors   \* bound: the errors in a behaviour

VARIABLES
  file,    \* standard input, as in Files
  errors,  \* how many errors there were
  bsz,     \* the size of the memory
  data     \* what was read: sz is its length

sz == Len(data)
Grown == IF bsz - sz < ROOM THEN bsz + BLOCK ELSE bsz

(* Mutant: no byte is kept for the NUL.                                    *)
Asked_All == Grown - sz

Asked == Grown - sz - 1

Looping == ~file.eof /\ ~file.error

Take(k, error) ==
  /\ bsz' = Grown
  /\ data' = data \o SubSeq(file.bytes, 1, k)
  /\ file' = [bytes |-> SubSeq(file.bytes, k + 1, Len(file.bytes)),
              eof |-> ~error /\ k < Asked, error |-> error]

Read ==
  /\ Looping
  /\ Take(IF Asked <= Len(file.bytes) THEN Asked ELSE Len(file.bytes), FALSE)
  /\ UNCHANGED errors

ReadError ==
  /\ Looping
  /\ errors < MaxErrors
  /\ errors' = errors + 1
  /\ \E k \in Cuts : k < Asked /\ k <= Len(file.bytes) /\ Take(k, TRUE)

Next == Read \/ ReadError

(* "data[sz] = '\0'" (tiny_lzjwm.c:53) stays in the memory: the reads      *)
(* always leave a byte for it, whatever the input's length.                *)
RoomForNul == bsz > 0 => sz < bsz
=============================================================================
