--------------------------- MODULE StreamDecoder ---------------------------
(***************************************************************************)
(* lzjwm_decompress_stream of lzjwm_decompress.c: the decoder that keeps   *)
(* no output.  A pointer is decoded by decoding its source again: with a   *)
(* recursive call when the caller needs more characters than the pointer   *)
(* stands for, by moving iptr back when it needs no more than these.       *)
(*                                                                         *)
(* The recursion is a stack of frames; each frame has the three unsigned   *)
(* variables of _decompress_stream.                                        *)
(***************************************************************************)
EXTENDS LZFormat

CONSTANTS
  Streams,   \* the streams considered, each with the text it stands for
  Modes,     \* how the caller gives the size: "sized", "terminated"
  UINT_MAX   \* the largest unsigned int

ASSUME ModesAssumption == Modes \subseteq {"sized", "terminated"}
ASSUME UIntAssumption == UINT_MAX \in Nat /\ UINT_MAX > MAX_ZERO_MATCH
ASSUME StreamsAssumption == \A st \in Streams : IsStream(st)

(* A buffer of the code is indexed by an int: its text is shorter than     *)
(* UINT_MAX, which stands for no limit (lzjwm_decompress.c:80).            *)
ASSUME LengthAssumption == \A st \in Streams : Len(st.text) + 1 < UINT_MAX

VARIABLES
  stream,      \* the encoded bytes, and the text they stand for
  mode,
  input_size,  \* data->input_size
  pc,          \* "run", "done", or "undefined" after a read past the input
  stack,       \* the calls of _decompress_stream, the innermost last
  result,      \* what the last call returned
  out          \* the characters given to fputc

vars == <<stream, mode, input_size, pc, stack, result, out>>

unsigned(x) == x % (UINT_MAX + 1)

(* What the caller's pointer points to: with isize = -1 the bytes are      *)
(* followed by a NUL.                                                      *)
Memory == IF mode = "terminated" THEN Append(stream.enc, 0) ELSE stream.enc

Call(iptr, howmany) == [iptr |-> iptr, howmany |-> howmany, needed |-> howmany]

Depth == Len(stack)
Top == stack[Depth]

Init ==
  /\ stream \in Streams
  /\ mode \in Modes
  /\ input_size = unsigned(IF mode = "terminated" THEN -1 ELSE Len(stream.enc))
  /\ pc = "run"
  /\ stack = << Call(0, unsigned(-1)) >>
  /\ result = 0
  /\ out = << >>

(* The loop of the innermost call takes another byte.                      *)
Looping ==
  /\ pc = "run"
  /\ Top.needed > 0
  /\ Top.iptr < input_size

Reading == Looping /\ Top.iptr < Len(Memory)
ch == Memory[Top.iptr + 1]

(* Mutant: as if iptr had not been stepped past the byte.                  *)
Back_NotStepped == unsigned(Top.iptr - get_offset(ch) - 2)

(* Where the source of the pointer at iptr starts.                         *)
Back == unsigned(Top.iptr + 1 - get_offset(ch) - 2)

Literally ==
  /\ Reading
  /\ count(ch) = 1
  /\ out' = Append(out, ch)
  /\ stack' = [stack EXCEPT ![Depth].iptr = @ + 1, ![Depth].needed = @ - 1]
  /\ UNCHANGED <<stream, mode, input_size, pc, result>>

(* Enter a new call for the source of a pointer.                           *)
Enter ==
  /\ Reading
  /\ count(ch) # 1
  /\ stack' = Append([stack EXCEPT ![Depth].iptr = @ + 1], Call(Back, count(ch)))
  /\ UNCHANGED <<stream, mode, input_size, pc, result, out>>

(* Mutants: also when exactly, or at least, that many are needed.          *)
Recurse_Exact == Enter /\ Top.needed >= count(ch)
Recurse_Always == Enter

Recurse == Enter /\ Top.needed > count(ch)

GoTo(position) ==
  /\ Reading
  /\ count(ch) # 1
  /\ Top.needed <= count(ch)
  /\ stack' = [stack EXCEPT ![Depth].iptr = position]
  /\ UNCHANGED <<stream, mode, input_size, pc, result, out>>

(* Mutant: to the byte after the source.                                   *)
Jump_After == GoTo(Back + 1)

Jump == GoTo(Back)

(* iptr is below input_size but past the memory the caller passed.         *)
ReadPast ==
  /\ Looping
  /\ Top.iptr >= Len(Memory)
  /\ pc' = "undefined"
  /\ UNCHANGED <<stream, mode, input_size, stack, result, out>>

(* A call returns r; its caller takes that off what it needs.              *)
Leave(r) ==
  /\ pc = "run"
  /\ ~Looping
  /\ result' = r
  /\ IF Depth = 1
     THEN /\ pc' = "done"
          /\ UNCHANGED stack
     ELSE /\ stack' = [SubSeq(stack, 1, Depth - 1) EXCEPT
                         ![Depth - 1].needed = @ - r]
          /\ UNCHANGED pc
  /\ UNCHANGED <<stream, mode, input_size, out>>

(* Mutant: what is missing instead of what was put out.                    *)
Return_Missing == Leave(Top.needed)

Return == Leave(Top.howmany - Top.needed)

Next == Literally \/ Recurse \/ Jump \/ ReadPast \/ Return

Spec == Init /\ [][Next]_vars

(* One thread that runs until the call returns.                            *)
FairSpec == Spec /\ WF_vars(Next)

-----------------------------------------------------------------------------
Unsigned == 0 .. UINT_MAX
Frame == [iptr : Unsigned, howmany : Unsigned, needed : Unsigned]

TypeOK ==
  /\ stream.enc \in Seq(Byte)
  /\ mode \in {"sized", "terminated"}
  /\ input_size \in Unsigned
  /\ pc \in {"run", "done", "undefined"}
  /\ stack \in Seq(Frame) /\ stack # << >>
  /\ \A k \in 1 .. Len(stack) : stack[k].needed <= stack[k].howmany
  /\ result \in Unsigned
  /\ out \in Seq(Literal)

(* "It will never call more than 4 deep for any data" (README.md:45-47 and *)
(* 97-100; 4 is MAX_MATCH - 1 as shipped): the calls below the outermost.  *)
DepthBound == Depth - 1 <= MAX_ZERO_MATCH - 1

(* An inner call always delivers all it was asked for, so it never falls   *)
(* off the end of the input and the caller's count is right; the outermost *)
(* one returns the number of characters put out (lzjwm.h:50).              *)
CalleeCompletes ==
  [][pc = "run" /\ (Len(stack') < Len(stack) \/ pc' = "done") =>
       result' = IF Depth = 1 THEN Len(stream.text) ELSE Top.howmany]_vars

(* A pointer never leads before the input or past its end: every position  *)
(* an inner call stands at is one of the stream, and a decoder that was    *)
(* given the size reads nothing else.                                      *)
StaysInInput ==
  /\ mode = "sized" => pc # "undefined"
  /\ \A k \in 2 .. Len(stack) : stack[k].iptr < Len(stream.enc) \/ stack[k].needed = 0

(* The decoder delivers the text, all of it, and returns.  Given -1 for    *)
(* the size it delivers the text too, but goes on after it: the caller has *)
(* what was promised once the character after the text is out.             *)
Overrun == mode = "terminated" /\ Len(out) > Len(stream.text)

D == INSTANCE Delivery WITH
       Texts <- Seq(Byte),
       text <- stream.text,
       sent <- IF Overrun THEN SubSeq(out, 1, Len(stream.text)) ELSE out,
       ended <- pc = "done" \/ Overrun
DeliversText == D!Spec

(* "isize should be the size of the input, or -1 if the input is null      *)
(* terminated" (lzjwm.h:49, lzjwm_decompress.c:75-76): a terminated input  *)
(* is read up to its NUL.                                                  *)
StopsAtNul == mode = "terminated" => pc # "undefined"
=============================================================================
