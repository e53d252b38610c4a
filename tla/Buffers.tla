------------------------------ MODULE Buffers -------------------------------
(***************************************************************************)
(* A program that uses resizable buffers: any sequence of calls, with for  *)
(* each buffer what the calls promise it to hold.                          *)
(*                                                                         *)
(* The first buffer is that of a fifo_t; while its offset is 0 it is used  *)
(* as an rb_t as well.  The second takes part in the calls on two buffers. *)
(***************************************************************************)
EXTENDS ResizableBuf

CONSTANTS
  Strings,    \* the data passed to the calls: a set of sequences of bytes
  MaxMemory,  \* bound: bytes allocated for both buffers together
  MaxLength   \* bound: the lengths and locations passed to the calls

Byte == 0 .. 255

ASSUME BuffersAssumption ==
  {MaxMemory, MaxLength} \subseteq Nat /\ Strings \subseteq Seq(Byte)

VARIABLES
  fifo,   \* the fifo and its buffer
  rb2,    \* the other buffer
  want,   \* what the fifo is to hold: its bytes, and whether a NUL follows
  want2   \* what rb2 is to hold

vars == <<fifo, rb2, want, want2>>

rb == fifo.rb
Nothing == [data |-> << >>, nul |-> FALSE]

Init ==
  /\ fifo = [rb |-> RB_BLANK, offset |-> 0]
  /\ rb2 = RB_BLANK
  /\ want = Nothing
  /\ want2 = Nothing

Bounded == rb_size(fifo'.rb) + rb_size(rb2') <= MaxMemory

(* A call on the fifo's buffer: what it does and what it promises.         *)
Call(r, promised, terminated) ==
  /\ fifo.offset = 0
  /\ fifo' = [fifo EXCEPT !.rb = r]
  /\ want' = [data |-> promised, nul |-> terminated]
  /\ UNCHANGED <<rb2, want2>>
  /\ Bounded

(* A call that does not do what its own comment says of it: nothing is     *)
(* promised of what the buffer then holds.                                 *)
Unkept(r) == Call(r, Unwritten(r.len), FALSE)

Data == want.data
Size == Len(Data)
First(n) == SubSeq(Data, 1, IF n < Size THEN n ELSE Size)
After(n) == SubSeq(Data, n + 1, Size)
Padded(n) == First(n) \o Unwritten(n - Len(First(n)))
Text(s) == NUL \notin {s[k] : k \in DOMAIN s}
Bytes == {s[1] : s \in Strings \ {<< >>}}
Lengths == 0 .. MaxLength

AppendData == \E s \in Strings : Call(rb_append(rb, s), Data \o s, FALSE)
Putc == \E b \in Bytes : Call(rb_putc(rb, b), Append(Data, b), FALSE)
Putwc ==
  \E s \in Strings : Len(s) \in 1 .. 4 /\ Call(rb_putwc(rb, s), Data \o s, FALSE)
Calloc == \E n \in Lengths : Call(rb_calloc(rb, n), Data \o Fill(NUL, n), FALSE)
Push == \E n \in Lengths : Call(rb_push(rb, n), Data \o Unwritten(n), FALSE)
Pop == \E n \in 0 .. Size : Call(rb_pop(rb, n), First(Size - n), FALSE)
Set == \E s \in Strings : Call(rb_set(rb, s), s, FALSE)

Stringize == Call(rb_stringize(rb), Data, TRUE)
Strcpy == \E s \in Strings : Text(s) /\ Call(rb_strcpy(rb, s), s, TRUE)
Strcat == \E s \in Strings : Text(s) /\ Call(rb_strcat(rb, s), Data \o s, TRUE)
Printf == \E s \in Strings : Text(s) /\ Call(rb_printf(rb, s), Data \o s, TRUE)
ReadFile == \E s, t \in Strings : Call(rb_read_file(rb, s, t), Data \o s \o t, TRUE)

Resize ==
  \E n \in Lengths, preserve \in BOOLEAN :
    Call(rb_resize(rb, n, preserve),
         IF preserve THEN Padded(n) ELSE Unwritten(n), FALSE)
ResizeFill ==
  \E n \in Lengths, b \in Bytes :
    Call(rb_resize_fill(rb, n, b),
         First(n) \o Fill(b, n - Len(First(n))), FALSE)
Memset ==
  \E loc \in Lengths, n \in Lengths, b \in Bytes :
    Call(rb_memset(rb, b, loc, n),
         Padded(loc) \o Fill(b, n) \o After(loc + n), want.nul /\ loc + n <= Size)

(* The bytes from loc on are moved; if they would not all be behind what   *)
(* is inserted, they are not, and are overwritten (InsertMovesData).       *)
Overwrites(loc, s) == loc < Size /\ loc + Len(s) > Size
Inserted(loc, s) == Padded(loc) \o s \o After(loc)
Insert ==
  \E loc \in Lengths, s \in Strings :
    IF Overwrites(loc, s) THEN Unkept(rb_insert(rb, loc, s))
    ELSE Call(rb_insert(rb, loc, s), Inserted(loc, s),
              want.nul /\ loc + Len(s) <= Size)

(* A program must not delete beyond the end (DeleteBeyondDoesNothing).     *)
Delete ==
  \E loc \in 0 .. Size, n \in Lengths :
    Call(rb_delete(rb, loc, n), First(loc) \o After(loc + n),
         want.nul /\ loc + n <= Size)

(* The calls on two buffers.                                               *)
(* A program must not extract a range that is not in rb2                   *)
(* (ExtractStopsAtEnd); of one that is, all is appended, unless it begins  *)
(* beyond the length of rb (ExtractCopiesRange).                           *)
Extract ==
  \E loc \in 0 .. Len(want2.data) : \E n \in 0 .. (Len(want2.data) - loc) :
    IF loc <= Size
    THEN Call(rb_extract(rb, rb2, loc, n),
              Data \o SubSeq(want2.data, loc + 1, loc + n), FALSE)
    ELSE Unkept(rb_extract(rb, rb2, loc, n))

Both(r, w, r2, w2) ==
  /\ fifo.offset = 0
  /\ fifo' = [fifo EXCEPT !.rb = r]
  /\ want' = w
  /\ rb2' = r2
  /\ want2' = w2
  /\ Bounded

(* Free is rb_take as well, which hands the memory over to the caller.     *)
Swap == Both(rb2, want2, rb, want)
Assign == Both(rb2, want2, RB_BLANK, Nothing)
Free == Both(RB_BLANK, Nothing, rb2, want2)

(* The fifo.                                                               *)
Queue(f, promised) ==
  /\ fifo' = f
  /\ want' = [data |-> promised, nul |-> FALSE]
  /\ UNCHANGED <<rb2, want2>>
  /\ Bounded

Enqueue == \E s \in Strings : Queue(fifo_append(fifo, s), Data \o s)
Dequeue ==
  \E n \in Lengths :
    Queue(fifo_dequeue(fifo, n), IF n <= Size THEN After(n) ELSE Data)
Discard == Queue(fifo_discard(fifo), << >>)

Next ==
  \/ AppendData \/ Putc \/ Putwc \/ Calloc \/ Push \/ Pop \/ Set
  \/ Stringize \/ Strcpy \/ Strcat \/ Printf \/ ReadFile
  \/ Resize \/ ResizeFill \/ Memset \/ Insert \/ Delete
  \/ Extract \/ Swap \/ Assign \/ Free
  \/ Enqueue \/ Dequeue \/ Discard

Spec == Init /\ [][Next]_vars

-----------------------------------------------------------------------------
Buffer == [mem : Seq(Byte \cup {Junk}), len : 0 .. MaxMemory, ok : BOOLEAN]

TypeOK ==
  /\ fifo.rb \in Buffer /\ rb2 \in Buffer
  /\ fifo.offset \in 0 .. fifo.rb.len
  /\ fifo.offset > 0 => fifo.offset < fifo.rb.len
  /\ rb_size(rb) >= rb.len /\ rb_size(rb2) >= rb2.len

(* No call touches memory beyond what the buffer owns, and no assertion    *)
(* fails, whatever calls came before.                                      *)
CallsAreSafe == fifo.rb.ok /\ rb2.ok

(* A buffer holds what the calls so far promise in resizable_buf.h and in  *)
(* the comments of resizable_buf.c: none of them moves, drops or           *)
(* overwrites other bytes, and a fifo hands out its bytes in the order     *)
(* they came in.  What rb_resize or rb_push leave open may be anything,    *)
(* and so may all of a buffer after a call that breaks its promise.        *)
Holds(r, from, data) ==
  /\ r.len - from = Len(data)
  /\ \A k \in DOMAIN data : data[k] # Junk => r.mem[from + k] = data[k]

HoldsWhatWasPut ==
  Holds(fifo.rb, fifo.offset, want.data) /\ Holds(rb2, 0, want2.data)

(* The NUL that rb_stringize and the string functions put behind the data  *)
(* stays there through insertions and deletions inside it: "one past the   *)
(* end of the buffer is moved as well" (resizable_buf.c:192, 238).         *)
TerminatorFollows ==
  /\ want.nul => rb.len < rb_size(rb) /\ rb.mem[rb.len + 1] = NUL
  /\ want2.nul => rb2.len < rb_size(rb2) /\ rb2.mem[rb2.len + 1] = NUL

-----------------------------------------------------------------------------
(***************************************************************************)
(* What the comments say of calls that do not do it.  Each is about the    *)
(* calls that can be made in a state.                                      *)
(***************************************************************************)
(* "insert some data at the given location moving data as needed to make   *)
(* space" (resizable_buf.c:226).                                           *)
InsertMovesData ==
  fifo.offset = 0 =>
    \A loc \in 0 .. rb.len : \A s \in Strings :
      Contents(rb_insert(rb, loc, s)) =
        SubSeq(rb.mem, 1, loc) \o s \o SubSeq(rb.mem, loc + 1, rb.len)

(* "one past the end of the buffer is also moved to preserve terminators"  *)
(* (resizable_buf.c:228-229): what is appended with rb_insert is followed  *)
(* by the NUL that was behind the data before.                             *)
InsertMovesTerminator ==
  fifo.offset = 0 /\ want.nul =>
    \A s \in Strings :
      LET r == rb_insert(rb, rb.len, s)
      IN  r.len < rb_size(r) /\ r.mem[r.len + 1] = NUL

(* "extract data from one buffer and apend it to another"                  *)
(* (resizable_buf.h:122): a range that is in rb2 is appended to rb.        *)
ExtractCopiesRange ==
  fifo.offset = 0 =>
    \A loc \in 0 .. rb2.len : \A n \in 0 .. (rb2.len - loc) :
      Contents(rb_extract(rb, rb2, loc, n)) =
        Contents(rb) \o SubSeq(rb2.mem, loc + 1, loc + n)

(* "will copy what it can if an invalid range is selected"                 *)
(* (resizable_buf.h:123-124): of a range that reaches beyond rb2, the part *)
(* inside it.                                                              *)
ExtractStopsAtEnd ==
  fifo.offset = 0 =>
    \A loc \in 0 .. (rb2.len - 1) : \A n \in Lengths :
      loc <= rb.len /\ loc + n > rb2.len =>
        Contents(rb_extract(rb, rb2, loc, n)) =
          Contents(rb) \o SubSeq(rb2.mem, loc + 1, rb2.len)

(* "if loc is greater than the size of the array then nothing happens"     *)
(* (resizable_buf.c:236-237).                                              *)
DeleteBeyondDoesNothing ==
  fifo.offset = 0 =>
    \A loc, n \in Lengths : loc > rb.len => rb_delete(rb, loc, n) = rb

(* Whatever the buffers hold, one of these five comments is right.  A      *)
(* state where none is refutes each of them, by a call made there.         *)
SomeCommentIsRight ==
  \/ InsertMovesData
  \/ InsertMovesTerminator
  \/ ExtractCopiesRange
  \/ ExtractStopsAtEnd
  \/ DeleteBeyondDoesNothing
=============================================================================
