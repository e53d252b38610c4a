---------------------------- MODULE TinyDecoder ----------------------------
(***************************************************************************)
(* lzjwm_decompress of tiny_lzjwm.c: the decoder meant to be copied into   *)
(* other programs.  It decodes like StreamDecoder, but it starts at any    *)
(* byte, stops at a NUL or after a number of characters, and returns       *)
(* nothing: a caller takes it that the inner call put out all it was asked *)
(* for.                                                                    *)
(***************************************************************************)
EXTENDS LZFormat

CONSTANTS
  Streams,  \* the streams considered, each with the text it stands for
  Limits    \* the counts a caller asks for

(* tiny_lzjwm.c has no ZERO_BITS.                                          *)
ASSUME NoZeroPage == ZERO_BITS = 0
ASSUME LimitsAssumption == Limits \subseteq Nat
ASSUME StreamsAssumption ==
  \A st \in Streams :
    /\ IsStream(st)
    /\ \A p \in 1 .. Len(st.enc) : st.enc[p] # 0

VARIABLES
  stream,  \* the encoded bytes, and the text they stand for
  from,    \* the location the caller gave
  limit,   \* the count the caller gave
  pc,      \* "run", "done"
  stack,   \* the calls of lzjwm_decompress, the innermost last
  out      \* the characters given to putchar

vars == <<stream, from, limit, pc, stack, out>>

data == Append(stream.enc, 0)

Call(loc, n) == [location |-> loc, count |-> n, len |-> 0]
Depth == Len(stack)
Top == stack[Depth]
ch == data[Top.location + 1]

Init ==
  /\ stream \in Streams
  /\ from \in 0 .. Len(stream.enc)
  /\ limit \in Limits
  /\ pc = "run"
  /\ stack = << Call(from, limit) >>
  /\ out = << >>

(* Only a location in data is read: the model has no step for another one, *)
(* and the decoder would never end.                                        *)
Looping ==
  /\ pc = "run"
  /\ Top.count > 0
  /\ Top.location \in 0 .. Len(stream.enc)
  /\ ch # 0

nloc == Top.location + 1 - get_offset(ch) - 2

Literally ==
  /\ Looping
  /\ ~IsPointer(ch)
  /\ out' = Append(out, ch)
  /\ stack' = [stack EXCEPT ![Depth].location = @ + 1, ![Depth].count = @ - 1]
  /\ UNCHANGED <<stream, from, limit, pc>>

(* Enter a new call for the source of a pointer of len characters.         *)
Enter ==
  /\ Looping
  /\ IsPointer(ch)
  /\ stack' = Append([stack EXCEPT ![Depth].location = @ + 1, ![Depth].len = count(ch)],
                     Call(nloc, count(ch)))
  /\ UNCHANGED <<stream, from, limit, pc, out>>

(* Mutant: a new call also when exactly that many are needed.              *)
Recurse_Exact == Enter /\ Top.count >= count(ch)

Recurse == Enter /\ Top.count > count(ch)

GoTo(loc) ==
  /\ Looping
  /\ IsPointer(ch)
  /\ Top.count <= count(ch)
  /\ stack' = [stack EXCEPT ![Depth].location = loc]
  /\ UNCHANGED <<stream, from, limit, pc, out>>

Jump == GoTo(nloc)

(* A call returns; its caller takes len off its count, whatever came out.  *)
Return ==
  /\ pc = "run"
  /\ \/ Top.count = 0
     \/ Top.location \in 0 .. Len(stream.enc) /\ ch = 0
  /\ IF Depth = 1
     THEN /\ pc' = "done"
          /\ UNCHANGED stack
     ELSE /\ stack' = [SubSeq(stack, 1, Depth - 1) EXCEPT
                         ![Depth - 1].count = @ - stack[Depth - 1].len]
          /\ UNCHANGED pc
  /\ UNCHANGED <<stream, from, limit, out>>

Next == Literally \/ Recurse \/ Jump \/ Return

Spec == Init /\ [][Next]_vars

(* One thread that runs until the call returns.                            *)
FairSpec == Spec /\ WF_vars(Next)

-----------------------------------------------------------------------------
(* "It will never call more than 4 deep for any data" (README.md:45-47 and *)
(* 97-100; 4 is MAX_MATCH - 1 as shipped): the calls below the outermost.  *)
DepthBound == Depth - 1 <= MAX_ZERO_MATCH - 1

(* The characters "starting at location stopping on a null character or    *)
(* after count characters" (tiny_lzjwm.c:11-12): random access by location *)
(* yields the very characters the whole text has there, although copies    *)
(* reach back before the location.                                         *)
Requested ==
  LET first == stream.start[from]
      room == Len(stream.text) - first
  IN  SubSeq(stream.text, first + 1, first + (IF room < limit THEN room ELSE limit))

D == INSTANCE Delivery WITH
       Texts <- Seq(Byte),
       text <- Requested, sent <- out, ended <- (pc = "done")
DeliversFromAnywhere == D!Spec
=============================================================================
