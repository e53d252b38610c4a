----------------------------- MODULE PyDecoder ------------------------------
(***************************************************************************)
(* decompress of lzjwm.py: the decoder of the Python program.  Like the    *)
(* minimal decoder in C it starts at any byte and stops after a number of  *)
(* characters, but not at a NUL, and like the streaming one it takes off   *)
(* what its inner call reports.  Its numbers do not wrap.                  *)
(***************************************************************************)
EXTENDS LZFormat

CONSTANTS
  Streams,  \* the streams considered, each with the text it stands for
  Limits    \* the values of howmany a caller passes

VARIABLES
  stream,  \* the encoded bytes, and the text they stand for
  from,    \* the start the caller gave
  limit,   \* howmany of the caller
  pc,      \* "run", "done"
  stack,   \* the calls of decompress, the innermost last
  out      \* the characters written

vars == <<stream, from, limit, pc, stack, out>>

s == stream.enc
slen == Len(s)

Call(start, howmany) == [start |-> start, howmany |-> howmany, needed |-> howmany]
Depth == Len(stack)
Top == stack[Depth]

Init ==
  /\ stream \in Streams
  /\ from \in 0 .. slen
  /\ limit \in Limits
  /\ pc = "run"
  /\ stack = << Call(from, limit) >>
  /\ out = << >>

(* A negative start would take a byte from the end of s: the model has no  *)
(* step for it, and the decoder would never end.                           *)
Looping ==
  /\ pc = "run"
  /\ Top.needed > 0
  /\ Top.start \in 0 .. (slen - 1)

ch == s[Top.start + 1]
Back == Top.start + 1 - get_offset(ch) - 2

Literally ==
  /\ Looping
  /\ ~IsPointer(ch)
  /\ out' = Append(out, ch)
  /\ stack' = [stack EXCEPT ![Depth].start = @ + 1, ![Depth].needed = @ - 1]
  /\ UNCHANGED <<stream, from, limit, pc>>

(* Enter a new call for the source of a pointer.                           *)
Enter ==
  /\ Looping
  /\ IsPointer(ch)
  /\ stack' = Append([stack EXCEPT ![Depth].start = @ + 1],
                     Call(Back, count(ch)))
  /\ UNCHANGED <<stream, from, limit, pc, out>>

Recurse == Enter /\ Top.needed > count(ch)

GoTo(start) ==
  /\ Looping
  /\ IsPointer(ch)
  /\ Top.needed <= count(ch)
  /\ stack' = [stack EXCEPT ![Depth].start = start]
  /\ UNCHANGED <<stream, from, limit, pc, out>>

Jump == GoTo(Back)

(* A call returns r, and its caller needs r characters less.               *)
Leave(r) ==
  /\ pc = "run"
  /\ Top.needed = 0 \/ Top.start >= slen
  /\ IF Depth = 1
     THEN /\ pc' = "done"
          /\ UNCHANGED stack
     ELSE /\ stack' = [SubSeq(stack, 1, Depth - 1) EXCEPT
                         ![Depth - 1].needed = @ - r]
          /\ UNCHANGED pc
  /\ UNCHANGED <<stream, from, limit, out>>

(* Mutant: what is missing instead of what was written.                    *)
Return_Missing == Leave(Top.needed)

Return == Leave(Top.howmany - Top.needed)

Next == Literally \/ Recurse \/ Jump \/ Return

Spec == Init /\ [][Next]_vars

(* One thread that runs until the call returns.                            *)
FairSpec == Spec /\ WF_vars(Next)
=============================================================================
