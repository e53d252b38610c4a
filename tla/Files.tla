------------------------------- MODULE Files --------------------------------
(***************************************************************************)
(* rb_fread and rb_fwrite of resizable_buf.c: a buffer is filled from a    *)
(* file, or written to one, a piece at a time, as fread and fwrite give    *)
(* and take them.  These move fewer bytes than they were asked for only at *)
(* the end of the file or on an error, and the flag of either stays set.   *)
(***************************************************************************)
EXTENDS ResizableBuf

CONSTANTS
  CHUNK,      \* the bytes rb_fread asks for at a time: 4096 in the code
  SIZE_MAX,   \* the largest size_t: what a count of -1 is
  Stored,     \* what a file or a buffer may hold before the call
  Counts,     \* the counts that a caller passes
  Cuts,       \* bound: how many bytes may be moved before an error
  MaxErrors   \* bound: the errors in a behaviour

ASSUME FilesAssumption ==
  /\ CHUNK \in Nat \ {0} /\ SIZE_MAX \in Nat
  /\ Counts \subseteq 0 .. SIZE_MAX /\ Cuts \subseteq Nat
  /\ Stored \subseteq Seq(0 .. 255)

VARIABLES
  call,   \* the function, its count n, tr or tw in moved, what it returned
  file,   \* the bytes still to be read, or those written; feof and ferror
  rb,     \* the buffer
  errors  \* how many errors there were

vars == <<call, file, rb, errors>>

File(bytes) == [bytes |-> bytes, eof |-> FALSE, error |-> FALSE]

(* A call on the buffer r; before is what was in r.                        *)
Call(function, r, n) ==
  [function |-> function, n |-> n, moved |-> 0,
   returned |-> FALSE, result |-> 0, before |-> r.len]
rb_fread(r, n) == Call("rb_fread", r, n)
rb_fwrite(r, n) == Call("rb_fwrite", r, IF n > r.len THEN r.len ELSE n)

Init ==
  /\ errors = 0
  /\ \E s \in Stored, n \in Counts :
       \/ /\ file = File(s)
          /\ rb = RB_BLANK
          /\ call = rb_fread(rb, n)
       \/ /\ file = File(<< >>)
          /\ rb = rb_set(RB_BLANK, s)
          /\ call = rb_fwrite(rb, n)

Running(function) == call.function = function /\ ~call.returned

(* An error comes after k of the bytes asked for.                          *)
Breaks(k, asked) ==
  /\ k < asked /\ k \in Cuts
  /\ errors < MaxErrors
  /\ errors' = errors + 1

-----------------------------------------------------------------------------
(* The loop of rb_fread.  tr turns negative on an error, which breaks it.  *)
Wanting ==
  /\ Running("rb_fread")
  /\ ~file.eof /\ ~file.error
  /\ call.moved <= call.n

Asked == IF call.n - call.moved < CHUNK THEN call.n - call.moved ELSE CHUNK
Available == Len(file.bytes)

(* Mutant: a piece replaces the one before it.                             *)
Take_Set(k) ==
  /\ rb' = rb_set(rb, SubSeq(file.bytes, 1, k))
  /\ file' = [bytes |-> SubSeq(file.bytes, k + 1, Available),
              eof |-> k < Asked /\ k = Available, error |-> FALSE]
  /\ call' = [call EXCEPT !.moved = @ + k]

(* fread gives k bytes: all it was asked for, or what is left.             *)
Take(k) ==
  /\ rb' = rb_append(rb, SubSeq(file.bytes, 1, k))
  /\ file' = [bytes |-> SubSeq(file.bytes, k + 1, Available),
              eof |-> k < Asked /\ k = Available, error |-> FALSE]
  /\ call' = [call EXCEPT !.moved = @ + k]

Read ==
  /\ Wanting
  /\ Take(IF Asked <= Available THEN Asked ELSE Available)
  /\ UNCHANGED errors

(* Mutant: the result of an error after no bytes is 0.                     *)
ReadError_Zero ==
  /\ Wanting
  /\ \E k \in 0 .. Available :
       /\ Breaks(k, Asked)
       /\ rb' = rb_append(rb, SubSeq(file.bytes, 1, k))
       /\ file' = [file EXCEPT !.error = TRUE]
       /\ call' = [call EXCEPT !.moved = -(@ + k)]

ReadError ==
  /\ Wanting
  /\ \E k \in 0 .. Available :
       /\ Breaks(k, Asked)
       /\ rb' = rb_append(rb, SubSeq(file.bytes, 1, k))
       /\ file' = [file EXCEPT !.error = TRUE]
       /\ call' = [call EXCEPT !.moved = -(@ + k + 1)]

Stop ==
  /\ Running("rb_fread")
  /\ ~Wanting
  /\ rb' = rb_stringize(rb)
  /\ call' = [call EXCEPT !.result = call.moved, !.returned = TRUE]
  /\ UNCHANGED <<file, errors>>

-----------------------------------------------------------------------------
(* The loop of rb_fwrite: n is what is left to be written.                 *)
Give(k, error) ==
  file' = [file EXCEPT !.bytes = @ \o SubSeq(rb.mem, call.moved + 1, call.moved + k),
                       !.error = error]

Write ==
  /\ Running("rb_fwrite")
  /\ call.n > 0
  /\ Give(call.n, FALSE)
  /\ call' = [call EXCEPT !.moved = @ + call.n, !.n = 0]
  /\ UNCHANGED <<rb, errors>>

WriteError ==
  /\ Running("rb_fwrite")
  /\ \E k \in 0 .. call.n :
       /\ Breaks(k, call.n)
       /\ Give(k, TRUE)
       /\ call' = [call EXCEPT !.moved = @ + k, !.n = @ - k,
                               !.result = -(call.moved + k + 1), !.returned = TRUE]
  /\ UNCHANGED rb

Written ==
  /\ Running("rb_fwrite")
  /\ call.n = 0
  /\ call' = [call EXCEPT !.result = call.moved, !.returned = TRUE]
  /\ UNCHANGED <<file, rb, errors>>

Next == Read \/ ReadError \/ Stop \/ Write \/ WriteError \/ Written

(* The call runs in one thread that is never abandoned.                    *)
FairSpec == Init /\ [][Next]_vars /\ WF_vars(Next)

-----------------------------------------------------------------------------
(* "These return the number of bytes copied or -(bytes copied + 1) on      *)
(* error" (resizable_buf.h:161-162): a caller can tell how much of a file  *)
(* arrived or was written although the error came in the middle of it, and *)
(* an error after no bytes is not taken for an empty file.                 *)
Copied ==
  IF call.function = "rb_fread" THEN rb.len - call.before ELSE Len(file.bytes)
ReportsBytesCopied ==
  call.returned => call.result = IF file.error THEN -(Copied + 1) ELSE Copied

(* They return, so that there is a number (resizable_buf.h:161-168).       *)
Returns == <>call.returned
=============================================================================
