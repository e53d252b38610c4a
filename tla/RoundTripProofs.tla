-------------------------- MODULE RoundTripProofs ---------------------------
(***************************************************************************)
(* The calls of rb_fread and rb_fwrite, and the programs that make them:   *)
(* the calls report what they moved, tiny_lzjwm has room for its NUL, and  *)
(* the encoder of lzjwm -c fails no assertion, and every decoder puts out  *)
(* a prefix of the text, whatever errors cut files and streams short.      *)
(* Counted is the invariant of a call, RInv that of the programs, and      *)
(* PrefixInv says what bytes the programs have in hand.                    *)
(***************************************************************************)
EXTENDS RoundTrip, SequenceTheorems, TLAPS

-----------------------------------------------------------------------------
(* What matters here is only how long sequences are.                       *)
IsSequence(s) == \E V : s \in Seq(V)

LEMMA EmptyIsSequence == IsSequence(<< >>) /\ Len(<< >>) = 0
<1>1. << >> \in Seq(Nat) /\ Len(<< >>) = 0
  BY EmptySeq
<1> QED  BY <1>1 DEF IsSequence

LEMMA LengthOfSequence == ASSUME NEW s, IsSequence(s) PROVE Len(s) \in Nat
<1>1. PICK V : s \in Seq(V)
  BY DEF IsSequence
<1> QED  BY <1>1, LenProperties

LEMMA ConcatIsSequence ==
  ASSUME NEW s, IsSequence(s), NEW t, IsSequence(t)
  PROVE  IsSequence(s \o t) /\ Len(s \o t) = Len(s) + Len(t)
<1>1. PICK V : s \in Seq(V)
  BY DEF IsSequence
<1>2. PICK W : t \in Seq(W)
  BY DEF IsSequence
<1>3. s \in Seq(V \cup W) /\ t \in Seq(V \cup W)
  BY <1>1, <1>2, SeqMonotonic
<1>4. s \o t \in Seq(V \cup W) /\ Len(s \o t) = Len(s) + Len(t)
  BY <1>3, ConcatProperties
<1> QED  BY <1>4 DEF IsSequence

(* Whatever s is: what lies between two places is so many elements.        *)
LEMMA SubSeqIsSequence ==
  ASSUME NEW s, NEW a \in Int, NEW b \in Int, a <= b + 1
  PROVE  IsSequence(SubSeq(s, a, b)) /\ Len(SubSeq(s, a, b)) = b - a + 1
<1> DEFINE V == {s[p] : p \in a .. b}
<1>1. /\ SubSeq(s, a, b) \in Seq(V)
      /\ Len(SubSeq(s, a, b)) = IF a <= b THEN b - a + 1 ELSE 0
  <2>1. \A p \in a .. b : s[p] \in V
    OBVIOUS
  <2> HIDE DEF V
  <2> QED  BY <2>1, SubSeqProperties
<1> HIDE DEF V
<1>2. Len(SubSeq(s, a, b)) = b - a + 1
  BY <1>1
<1> QED  BY <1>1, <1>2 DEF IsSequence

LEMMA FirstIsSequence ==
  ASSUME NEW s, NEW n \in Nat
  PROVE  IsSequence(SubSeq(s, 1, n)) /\ Len(SubSeq(s, 1, n)) = n
<1>1. 1 <= n + 1 /\ n - 1 + 1 = n /\ n \in Int /\ 1 \in Int
  OBVIOUS
<1>2. IsSequence(SubSeq(s, 1, n)) /\ Len(SubSeq(s, 1, n)) = n - 1 + 1
  BY <1>1, SubSeqIsSequence
<1> QED  BY <1>1, <1>2

-----------------------------------------------------------------------------
(* The functions of resizable_buf.c that the loops call, as far as they    *)
(* change the length.                                                      *)
IsBuffer(r) == r = [mem |-> r.mem, len |-> r.len, ok |-> r.ok] /\ r.len \in Nat

LEMMA BufferFields ==
  ASSUME NEW r, IsBuffer(r)
  PROVE  /\ \A x : /\ IsBuffer([r EXCEPT !.mem = x])
                   /\ [r EXCEPT !.mem = x].len = r.len
         /\ \A x : /\ IsBuffer([r EXCEPT !.ok = x])
                   /\ [r EXCEPT !.ok = x].len = r.len
         /\ \A n \in Nat : /\ IsBuffer([r EXCEPT !.len = n])
                           /\ [r EXCEPT !.len = n].len = n
<1>1. r = [mem |-> r.mem, len |-> r.len, ok |-> r.ok] /\ r.len \in Nat
  BY DEF IsBuffer
<1>2. ASSUME NEW x PROVE [r EXCEPT !.mem = x] = [mem |-> x, len |-> r.len, ok |-> r.ok]
  BY <1>1
<1>3. ASSUME NEW x PROVE [r EXCEPT !.ok = x] = [mem |-> r.mem, len |-> r.len, ok |-> x]
  BY <1>1
<1>4. ASSUME NEW n PROVE [r EXCEPT !.len = n] = [mem |-> r.mem, len |-> n, ok |-> r.ok]
  BY <1>1
<1> QED  BY <1>1, <1>2, <1>3, <1>4 DEF IsBuffer

LEMMA MovedIn ==
  ASSUME NEW r, IsBuffer(r), NEW at, NEW s
  PROVE  IsBuffer(memcpy(r, at, s)) /\ memcpy(r, at, s).len = r.len
BY BufferFields DEF memcpy

LEMMA GrowsOnly ==
  ASSUME NEW r, IsBuffer(r), NEW n
  PROVE  /\ IsBuffer(rb_grow(r, n)) /\ rb_grow(r, n).len = r.len
         /\ \A preserve \in BOOLEAN :
              /\ IsBuffer(rb_makesize(r, n, preserve))
              /\ rb_makesize(r, n, preserve).len = r.len
<1>1. ASSUME NEW z
      PROVE  /\ IsBuffer(realloc(r, z)) /\ realloc(r, z).len = r.len
             /\ IsBuffer(malloc(r, z)) /\ malloc(r, z).len = r.len
  BY BufferFields DEF realloc, malloc
<1> QED  BY <1>1 DEF rb_grow, rb_makesize

LEMMA Resizes ==
  ASSUME NEW r, IsBuffer(r), NEW n \in Nat, NEW preserve \in BOOLEAN
  PROVE  IsBuffer(rb_resize(r, n, preserve)) /\ rb_resize(r, n, preserve).len = n
<1> DEFINE b == rb_makesize(r, n, preserve)
<1>1. IsBuffer(b)
  BY GrowsOnly
<1> HIDE DEF b
<1>2. IsBuffer([b EXCEPT !.len = n]) /\ [b EXCEPT !.len = n].len = n
  BY <1>1, BufferFields
<1> QED  BY <1>2 DEF rb_resize, b

LEMMA Appends ==
  ASSUME NEW r, IsBuffer(r), NEW s, IsSequence(s)
  PROVE  IsBuffer(rb_append(r, s)) /\ rb_append(r, s).len = r.len + Len(s)
<1> DEFINE b == rb_grow(r, Len(s))
           l == [b EXCEPT !.len = b.len + Len(s)]
<1>1. IsBuffer(b) /\ b.len = r.len /\ b.len \in Nat
  BY GrowsOnly DEF IsBuffer
<1>2. b.len + Len(s) \in Nat
  BY <1>1, LengthOfSequence
<1> HIDE DEF b
<1>3. IsBuffer(l) /\ l.len = r.len + Len(s)
  BY <1>1, <1>2, BufferFields
<1>4. l = rb_push(r, Len(s))
  BY DEF rb_push, Longer, b
<1> HIDE DEF l
<1> QED  BY <1>3, <1>4, MovedIn DEF rb_append

LEMMA Stringizes ==
  ASSUME NEW r, IsBuffer(r)
  PROVE  IsBuffer(rb_stringize(r)) /\ rb_stringize(r).len = r.len
BY GrowsOnly, MovedIn DEF rb_stringize

LEMMA SetsLength ==
  ASSUME NEW r, IsBuffer(r), NEW s, IsSequence(s)
  PROVE  IsBuffer(rb_set(r, s)) /\ rb_set(r, s).len = Len(s)
<1>1. Len(s) \in Nat
  BY LengthOfSequence
<1>2. IsBuffer(rb_resize(r, Len(s), FALSE)) /\ rb_resize(r, Len(s), FALSE).len = Len(s)
  BY <1>1, Resizes
<1> QED  BY <1>2, MovedIn DEF rb_set

LEMMA BlankBuffer == IsBuffer(RB_BLANK) /\ RB_BLANK.len = 0
BY DEF IsBuffer, RB_BLANK

(* What a program hands to rb_fwrite is as long as what it made.           *)
LEMMA OutputLength ==
  ASSUME NEW n \in Nat, NEW s, IsSequence(s)
  PROVE  IsBuffer(Output(n, s)) /\ Output(n, s).len = Len(s)
<1> DEFINE b == memcpy(rb_resize(RB_BLANK, n, FALSE), 0, s)
<1>1. IsBuffer(b)
  BY BlankBuffer, Resizes, MovedIn
<1> HIDE DEF b
<1> QED  BY <1>1, Resizes, LengthOfSequence DEF Output, b

-----------------------------------------------------------------------------
(* The inductive invariant of a call of rb_fread or rb_fwrite.  After an   *)
(* error tr holds what is to be reported; before that, tr and tw are what  *)
(* was moved (resizable_buf.c:345-408).                                    *)
Calls == [function : {"rb_fread", "rb_fwrite"}, n : Nat, moved : Int,
          returned : BOOLEAN, result : Int, before : Nat]

IsFile(f) ==
  /\ f = [bytes |-> f.bytes, eof |-> f.eof, error |-> f.error]
  /\ f.error \in BOOLEAN /\ IsSequence(f.bytes)

Reported(f, count) == IF f.error THEN -(count + 1) ELSE count

Reading(c, f, r) ==
  c.function = "rb_fread" =>
    /\ r.len >= c.before
    /\ c.moved = Reported(f, r.len - c.before)
    /\ c.returned => c.result = c.moved

Writing(c, f) ==
  c.function = "rb_fwrite" =>
    IF c.returned THEN c.result = Reported(f, Len(f.bytes))
    ELSE ~f.error /\ c.moved = Len(f.bytes)

Counted(c, f, r) ==
  c \in Calls /\ IsFile(f) /\ IsBuffer(r) /\ Reading(c, f, r) /\ Writing(c, f)

FInv == Counted(call, file, rb)

LEMMA FInvReports == FInv => ReportsBytesCopied
BY DEF FInv, Counted, Calls, Reading, Writing, Reported, ReportsBytesCopied, Copied

LEMMA OpenFile ==
  ASSUME NEW s, IsSequence(s)
  PROVE  IsFile(File(s)) /\ File(s).error = FALSE /\ File(s).bytes = s
BY DEF IsFile, File

(* A call that begins, on any buffer.                                      *)
LEMMA ReadBegins ==
  ASSUME NEW s, IsSequence(s), NEW r, IsBuffer(r), NEW n \in Nat
  PROVE  Counted(rb_fread(r, n), File(s), r)
<1> DEFINE c == rb_fread(r, n)
<1>1. r.len \in Nat
  BY DEF IsBuffer
<1>2. /\ c \in Calls /\ c.function = "rb_fread"
      /\ c.moved = 0 /\ c.returned = FALSE /\ c.before = r.len
  BY <1>1 DEF rb_fread, Call, Calls
<1>3. IsFile(File(s)) /\ File(s).error = FALSE
  BY OpenFile
<1> HIDE DEF c
<1>4. Counted(c, File(s), r)
  BY <1>1, <1>2, <1>3 DEF Counted, Reading, Writing, Reported
<1> QED  BY <1>4 DEF c

LEMMA WriteBegins ==
  ASSUME NEW r, IsBuffer(r), NEW n \in Nat
  PROVE  Counted(rb_fwrite(r, n), File(<< >>), r)
<1> DEFINE c == rb_fwrite(r, n)
           f == File(<< >>)
<1>1. r.len \in Nat
  BY DEF IsBuffer
<1>2. c \in Calls /\ c.function = "rb_fwrite" /\ c.moved = 0 /\ c.returned = FALSE
  BY <1>1 DEF rb_fwrite, Call, Calls
<1>3. IsFile(f) /\ f.error = FALSE /\ Len(f.bytes) = 0
  BY OpenFile, EmptyIsSequence
<1> HIDE DEF c, f
<1>4. Counted(c, f, r)
  BY <1>2, <1>3 DEF Counted, Reading, Writing, Reported
<1> QED  BY <1>4 DEF c, f

-----------------------------------------------------------------------------
LEMMA FInvRead == FInv /\ (Read \/ ReadError) => FInv'
<1> SUFFICES ASSUME FInv, Read \/ ReadError PROVE FInv'
  OBVIOUS
<1>1. /\ call \in Calls /\ IsFile(file) /\ IsBuffer(rb) /\ Reading(call, file, rb)
      /\ call.function = "rb_fread" /\ ~call.returned /\ ~file.error
      /\ call.moved <= call.n
  BY DEF FInv, Counted, Read, ReadError, Wanting, Running
<1>2. /\ call.n \in Nat /\ call.moved \in Int /\ call.before \in Nat /\ rb.len \in Nat
      /\ rb.len >= call.before /\ call.moved = rb.len - call.before
  BY <1>1 DEF Calls, Reading, Reported, IsBuffer
<1>3. Asked \in Nat /\ Available \in Nat
  <2>1. call.n - call.moved \in Nat /\ CHUNK \in Nat
    BY <1>1, <1>2, FilesAssumption
  <2> QED  BY <1>1, <2>1, LengthOfSequence DEF Asked, Available, IsFile
<1>4. PICK q \in Nat :
        /\ rb' = rb_append(rb, SubSeq(file.bytes, 1, q))
        /\ \/ /\ file' = [bytes |-> SubSeq(file.bytes, q + 1, Available),
                          eof |-> q < Asked /\ q = Available, error |-> FALSE]
              /\ call' = [call EXCEPT !.moved = @ + q]
              /\ q <= Available
           \/ /\ file' = [file EXCEPT !.error = TRUE]
              /\ call' = [call EXCEPT !.moved = -(@ + q + 1)]
  <2>1. CASE Read
    <3> DEFINE q == IF Asked <= Available THEN Asked ELSE Available
    <3>1. q \in Nat /\ q <= Available
      BY <1>3
    <3>2. Take(q)
      BY <2>1 DEF Read
    <3> HIDE DEF q
    <3> QED  BY <3>1, <3>2 DEF Take
  <2>2. CASE ReadError
    BY <1>3, <2>2 DEF ReadError
  <2> QED  BY <2>1, <2>2
<1>5. IsBuffer(rb') /\ rb'.len = rb.len + q
  <2>1. rb' = rb_append(rb, SubSeq(file.bytes, 1, q))
    BY <1>4
  <2>2. IsSequence(SubSeq(file.bytes, 1, q)) /\ Len(SubSeq(file.bytes, 1, q)) = q
    BY FirstIsSequence
  <2> QED  BY <1>1, <2>1, <2>2, Appends
<1>6. CASE /\ file' = [bytes |-> SubSeq(file.bytes, q + 1, Available),
                      eof |-> q < Asked /\ q = Available, error |-> FALSE]
           /\ call' = [call EXCEPT !.moved = @ + q]
           /\ q <= Available
  <2>1. IsSequence(SubSeq(file.bytes, q + 1, Available))
    BY <1>3, <1>6, SubSeqIsSequence
  <2>2. IsFile(file') /\ file'.error = FALSE
    BY <1>6, <2>1 DEF IsFile
  <2>3. /\ call' \in Calls /\ call'.function = "rb_fread" /\ ~call'.returned
        /\ call'.moved = call.moved + q /\ call'.before = call.before
    BY <1>1, <1>2, <1>6 DEF Calls
  <2>4. rb'.len >= call'.before /\ call'.moved = rb'.len - call'.before
    BY <1>2, <1>5, <2>3
  <2> QED  BY <1>5, <2>2, <2>3, <2>4 DEF FInv, Counted, Reading, Writing, Reported
<1>7. CASE /\ file' = [file EXCEPT !.error = TRUE]
           /\ call' = [call EXCEPT !.moved = -(@ + q + 1)]
  <2>1. IsFile(file') /\ file'.error = TRUE
    BY <1>1, <1>7 DEF IsFile
  <2>2. /\ call' \in Calls /\ call'.function = "rb_fread" /\ ~call'.returned
        /\ call'.moved = -(call.moved + q + 1) /\ call'.before = call.before
    BY <1>1, <1>2, <1>7 DEF Calls
  <2>3. rb'.len >= call'.before /\ call'.moved = -((rb'.len - call'.before) + 1)
    BY <1>2, <1>5, <2>2
  <2> QED  BY <1>5, <2>1, <2>2, <2>3 DEF FInv, Counted, Reading, Writing, Reported
<1> QED  BY <1>4, <1>6, <1>7

LEMMA FInvStop == FInv /\ Stop => FInv'
<1> SUFFICES ASSUME FInv, Stop PROVE FInv'
  OBVIOUS
<1>1. /\ call \in Calls /\ IsFile(file) /\ IsBuffer(rb) /\ Reading(call, file, rb)
      /\ call.function = "rb_fread" /\ file' = file
      /\ rb' = rb_stringize(rb)
      /\ call' = [call EXCEPT !.result = call.moved, !.returned = TRUE]
  BY DEF FInv, Counted, Stop, Running
<1>2. IsBuffer(rb') /\ rb'.len = rb.len
  BY <1>1, Stringizes
<1>3. /\ call' \in Calls /\ call'.function = "rb_fread" /\ call'.before = call.before
      /\ call'.moved = call.moved /\ call'.result = call.moved
  BY <1>1 DEF Calls
<1> QED  BY <1>1, <1>2, <1>3 DEF FInv, Counted, Reading, Writing, Reported

LEMMA FInvWrite == FInv /\ (Write \/ WriteError \/ Written) => FInv'
<1> SUFFICES ASSUME FInv, Write \/ WriteError \/ Written PROVE FInv'
  OBVIOUS
<1>1. /\ call \in Calls /\ IsFile(file) /\ IsBuffer(rb) /\ rb' = rb
      /\ call.function = "rb_fwrite" /\ ~call.returned /\ ~file.error
      /\ call.moved = Len(file.bytes) /\ Len(file.bytes) \in Nat /\ call.n \in Nat
  BY LengthOfSequence DEF FInv, Counted, Writing, IsFile, Calls,
                          Write, WriteError, Written, Running
<1>2. ASSUME NEW q \in Nat, NEW error \in BOOLEAN, Give(q, error)
      PROVE  /\ IsFile(file') /\ file'.error = error
             /\ Len(file'.bytes) = Len(file.bytes) + q
  <2> DEFINE piece == SubSeq(rb.mem, call.moved + 1, call.moved + q)
  <2>1. IsSequence(piece) /\ Len(piece) = q
    <3>1. /\ call.moved + 1 \in Int /\ call.moved + q \in Int
          /\ call.moved + 1 <= (call.moved + q) + 1
          /\ (call.moved + q) - (call.moved + 1) + 1 = q
      BY <1>1
    <3> QED  BY <3>1, SubSeqIsSequence
  <2> HIDE DEF piece
  <2>2. file' = [file EXCEPT !.bytes = @ \o piece, !.error = error]
    BY <1>2 DEF Give, piece
  <2>3. /\ file' = [bytes |-> file'.bytes, eof |-> file'.eof, error |-> file'.error]
        /\ file'.bytes = file.bytes \o piece /\ file'.error = error
    BY <1>1, <2>2 DEF IsFile
  <2> QED  BY <1>1, <2>1, <2>3, ConcatIsSequence DEF IsFile
<1>3. CASE Write
  <2>1. Give(call.n, FALSE) /\ call' = [call EXCEPT !.moved = @ + call.n, !.n = 0]
    BY <1>3 DEF Write
  <2>2. /\ IsFile(file') /\ file'.error = FALSE
        /\ Len(file'.bytes) = Len(file.bytes) + call.n
    BY <1>1, <1>2, <2>1
  <2>3. /\ call' \in Calls /\ call'.function = "rb_fwrite" /\ ~call'.returned
        /\ call'.moved = call.moved + call.n
    <3>1. call.moved + call.n \in Int
      BY <1>1
    <3> QED  BY <1>1, <2>1, <3>1 DEF Calls
  <2> QED  BY <1>1, <2>2, <2>3 DEF FInv, Counted, Reading, Writing
<1>4. CASE WriteError
  <2>1. PICK q \in 0 .. call.n :
          /\ Give(q, TRUE)
          /\ call' = [call EXCEPT !.moved = @ + q, !.n = @ - q,
                                  !.result = -(call.moved + q + 1), !.returned = TRUE]
    BY <1>4 DEF WriteError
  <2>2. q \in Nat /\ call.n - q \in Nat /\ call.moved \in Int
    BY <1>1, <2>1
  <2>3. /\ IsFile(file') /\ file'.error = TRUE /\ Len(file'.bytes) = Len(file.bytes) + q
    BY <1>2, <2>1, <2>2
  <2>4. /\ call' \in Calls /\ call'.function = "rb_fwrite" /\ call'.returned
        /\ call'.result = -(call.moved + q + 1)
    <3>1. call.moved + q \in Int /\ -(call.moved + q + 1) \in Int
      BY <2>2
    <3> QED  BY <1>1, <2>1, <2>2, <3>1 DEF Calls
  <2> QED  BY <1>1, <2>3, <2>4 DEF FInv, Counted, Reading, Writing, Reported
<1>5. CASE Written
  <2>1. call' = [call EXCEPT !.result = call.moved, !.returned = TRUE] /\ file' = file
    BY <1>5 DEF Written
  <2>2. /\ call' \in Calls /\ call'.function = "rb_fwrite" /\ call'.returned
        /\ call'.result = call.moved
    BY <1>1, <2>1 DEF Calls
  <2> QED  BY <1>1, <2>1, <2>2 DEF FInv, Counted, Reading, Writing, Reported
<1> QED  BY <1>3, <1>4, <1>5

LEMMA FInvStep == FInv /\ [Next]_vars => FInv'
<1>1. FInv /\ Next => FInv'
  BY FInvRead, FInvStop, FInvWrite DEF Next
<1>2. FInv /\ UNCHANGED vars => FInv'
  BY DEF vars, FInv, Counted, Reading, Writing, Reported
<1> QED  BY <1>1, <1>2

LEMMA InitFInv == Init => FInv
<1> SUFFICES ASSUME NEW s \in Stored, NEW n \in Counts,
                    \/ /\ file = File(s)
                       /\ rb = RB_BLANK
                       /\ call = rb_fread(rb, n)
                    \/ /\ file = File(<< >>)
                       /\ rb = rb_set(RB_BLANK, s)
                       /\ call = rb_fwrite(rb, n)
             PROVE  FInv
  BY DEF Init
<1>1. n \in Nat /\ IsSequence(s)
  BY FilesAssumption DEF IsSequence
<1>2. IsBuffer(RB_BLANK) /\ IsBuffer(rb_set(RB_BLANK, s))
  BY <1>1, BlankBuffer, SetsLength
<1> QED  BY <1>1, <1>2, ReadBegins, WriteBegins DEF FInv

(* Whatever is read or written, with whatever count, and wherever an error *)
(* comes, a call reports how much was moved (resizable_buf.c:345-408).     *)
THEOREM FilesReport == FairSpec => []ReportsBytesCopied
BY InitFInv, FInvStep, FInvReports, PTL DEF FairSpec

-----------------------------------------------------------------------------
(***************************************************************************)
(* The programs.  Proofs about the encoder and about the calls of a buffer *)
(* are taken from the modules that have them, as instances: the encoder    *)
(* for any input of bytes, the buffer rb alone, with nothing promised of   *)
(* it.                                                                     *)
(***************************************************************************)
CP == INSTANCE CompressorProofs WITH Inputs <- Seq(C!Byte)

BB == INSTANCE BuffersProofs WITH
        Strings <- {}, MaxMemory <- 0, MaxLength <- 0,
        fifo <- [rb |-> rb, offset |-> 0], rb2 <- RB_BLANK,
        want <- [data |-> << >>, nul |-> FALSE], want2 <- [data |-> << >>, nul |-> FALSE]

(* The operators of these instances are those of the modules themselves.   *)
LEMMA SameFormat ==
  /\ C!FLAG = CP!FLAG /\ C!Byte = CP!Byte
  /\ C!LOOKBACK = CP!LOOKBACK
  /\ C!MAX_MATCH = CP!MAX_MATCH /\ C!MAX_ZERO_MATCH = CP!MAX_ZERO_MATCH
  /\ \A x : (C!IsPointer(x) <=> CP!IsPointer(x)) /\ C!uint8(x) = CP!uint8(x)
  /\ \A x, y : C!mk_ptr(x, y) = CP!mk_ptr(x, y)
BY DEF C!FLAG, CP!FLAG, C!Byte, CP!Byte, C!LOOKBACK, CP!LOOKBACK, C!MAX_MATCH, CP!MAX_MATCH,
       C!MAX_ZERO_MATCH, CP!MAX_ZERO_MATCH, C!IsPointer, CP!IsPointer, C!uint8, CP!uint8,
       C!mk_ptr, CP!mk_ptr, C!ZeroPage, CP!ZeroPage, C!ZeroShift, CP!ZeroShift

LEMMA SameInput ==
  /\ C!isize = CP!isize /\ C!Nodes = CP!Nodes
  /\ \A x, y, n : C!match(x, y, n) = CP!match(x, y, n)
  /\ \A x : C!Offset(x) = CP!Offset(x)
BY DEF C!isize, CP!isize, C!Nodes, CP!Nodes, C!match, CP!match, C!SameText, CP!SameText,
       C!Offset, CP!Offset

LEMMA SameBegin == C!Reject \/ C!PrepareNothing \/ C!Prepare
                     => CP!Reject \/ CP!PrepareNothing \/ CP!Prepare
BY SameFormat, SameInput DEF C!Reject, CP!Reject, C!PrepareNothing, CP!PrepareNothing,
   C!Prepare, CP!Prepare
LEMMA SameScan == (C!Compare => CP!Compare) /\ (C!Advance => CP!Advance)
BY SameFormat, SameInput DEF C!Compare, CP!Compare, C!Visit, CP!Visit, C!Advance, CP!Advance
LEMMA SameReplace == (C!Swallow => CP!Swallow) /\ (C!Replace => CP!Replace)
BY SameFormat DEF C!Swallow, CP!Swallow, C!Fits, CP!Fits,
                  C!Replace, CP!Replace, C!Chop, CP!Chop
LEMMA SameEmit == C!Emit => CP!Emit
BY SameFormat, SameInput DEF C!Emit, CP!Emit

LEMMA CompressorSteps == C!Next => CP!Next /\ UNCHANGED in
BY SameBegin, SameScan, SameReplace, SameEmit
   DEF C!Next, CP!Next, CP!Reject, CP!PrepareNothing,
    CP!Prepare, CP!Compare, CP!Visit, CP!Advance, CP!Swallow, CP!Replace, CP!Chop, CP!Emit
LEMMA SameOffsets == CP!OffsetsFit <=> OffsetsFit
BY SameFormat, SameInput DEF C!OffsetsFit, CP!OffsetsFit, OffsetsFit

LEMMA SameCount == \A c : B!count(c) = CP!count(c)
BY DEF B!count, CP!count, B!IsPointer, CP!IsPointer, B!IsZeroOffset, CP!IsZeroOffset,
       B!FLAG, CP!FLAG, B!ZeroPage, CP!ZeroPage

LEMMA SameRoom == \A z, n : BB!RoomFor(z, n) = RoomFor(z, n)
BY DEF BB!RoomFor, RoomFor, BB!NextSize, NextSize

LEMMA SameGrow ==
  ASSUME NEW r, NEW n
  PROVE  /\ BB!rb_grow(r, n) = rb_grow(r, n)
         /\ \A s : BB!memcpy(r, n, s) = memcpy(r, n, s)
BY SameRoom DEF BB!rb_grow, rb_grow, BB!realloc, realloc, BB!Unwritten, Unwritten,
                BB!Junk, Junk, BB!rb_size, rb_size, BB!memcpy, memcpy

LEMMA SameResize ==
  ASSUME NEW r, NEW n, NEW preserve
  PROVE  BB!rb_resize(r, n, preserve) = rb_resize(r, n, preserve)
BY SameRoom DEF BB!rb_resize, rb_resize, BB!rb_makesize, rb_makesize, BB!realloc, realloc,
                BB!malloc, malloc, BB!Unwritten, Unwritten, BB!Junk, Junk, BB!rb_size, rb_size

LEMMA SameCalls ==
  ASSUME NEW r
  PROVE  /\ BB!rb_stringize(r) = rb_stringize(r)
         /\ \A s : BB!rb_append(r, s) = rb_append(r, s)
         /\ BB!RB_BLANK = RB_BLANK
BY SameGrow DEF BB!rb_stringize, rb_stringize, BB!NUL, NUL, BB!rb_append, rb_append,
                BB!rb_push, rb_push, BB!Longer, Longer, BB!RB_BLANK, RB_BLANK

-----------------------------------------------------------------------------
(* The encoder, for the bytes of one program's buffer.                     *)
LEMMA Format ==
  /\ PAYLOAD_BITS \in 1 .. 7
  /\ COUNT_BITS \in 0 .. PAYLOAD_BITS
  /\ ZERO_BITS \in 0 .. (PAYLOAD_BITS - COUNT_BITS)
  /\ Seq(C!Byte) \subseteq Seq(CP!Byte)
BY RoundTripAssumption, SameFormat

LEMMA CompressorBegins == CP!Init => CP!WInv
BY Format, CP!InitWInv

LEMMA CompressorKeeps == CP!WInv /\ C!Next => CP!WInv'
<1> SUFFICES ASSUME CP!WInv, C!Next PROVE CP!WInv'
  OBVIOUS
<1>1. CP!Next /\ CP!IInv
  BY CompressorSteps DEF CP!WInv, CP!OInv
<1>2. [CP!FreeNext]_(CP!vars)
  BY <1>1, Format, CP!NextIsFree
<1> QED  BY <1>2, Format, CP!StepWInv

LEMMA CompressorFits == CP!WInv => OffsetsFit
BY Format, CP!FittingOffsets, SameOffsets DEF CP!WInv

LEMMA CompressorOutput ==
  CP!WInv => out \in Seq(C!Byte) /\ (pc = "done" => Len(out) <= Len(in))
<1> SUFFICES ASSUME CP!WInv
             PROVE  out \in Seq(C!Byte) /\ (pc = "done" => Len(out) <= Len(in))
  OBVIOUS
<1>1. CP!OutputDecodes
  BY Format, CP!WrittenDecodes
<1>2. CP!TypeOK
  BY DEF CP!WInv, CP!OInv, CP!IInv
<1> QED  BY <1>1, <1>2, SameFormat DEF CP!OutputDecodes, CP!TypeOK, CP!isize

LEMMA ByteRange ==
  /\ C!Byte \subseteq 0 .. 255 /\ C!Byte \subseteq BB!Cell
  /\ C!Byte = 0 .. (2 * 2 ^ PAYLOAD_BITS - 1)
  /\ \A c \in C!Byte : c \in Int /\ c # Junk
<1> DEFINE F == 2 ^ PAYLOAD_BITS
<1>1. F \in {1, 2, 4, 8, 16, 32, 64, 128}
  <2>1. PAYLOAD_BITS \in 0 .. 7
    BY RoundTripAssumption
  <2> QED  BY <2>1, Format, CP!PowerCases
<1>2. C!Byte = 0 .. (2 * F - 1)
  BY DEF C!Byte, C!FLAG
<1> HIDE DEF F
<1>3. C!Byte \subseteq 0 .. 255
  BY <1>1, <1>2
<1>4. C!Byte \subseteq BB!Cell
  BY <1>3 DEF BB!Cell, BB!Byte
<1>5. \A c \in 0 .. 255 : c \in Int /\ c # Junk
  BY DEF Junk
<1> QED  BY <1>2, <1>3, <1>4, <1>5 DEF F

LEMMA CountIsNat == \A c \in C!Byte : B!count(c) \in Nat
<1>1. \A c \in CP!Byte : CP!count(c) \in 1 .. CP!MAX_ZERO_MATCH
  BY Format, CP!CountRange
<1>2. \A c \in C!Byte : CP!count(c) \in Nat
  BY <1>1, SameFormat
<1> QED  BY <1>2, SameCount

-----------------------------------------------------------------------------
(* A buffer that holds bytes of the format and nothing else.               *)
HeldBytes(r) == \E held \in Seq(C!Byte) : BB!Shows(r, 0, held)

LEMMA BytesAreCells == ASSUME NEW s \in Seq(C!Byte) PROVE s \in Seq(BB!Cell)
BY ByteRange, SeqMonotonic

LEMMA HeldFacts ==
  ASSUME NEW r, HeldBytes(r)
  PROVE  /\ IsBuffer(r)
         /\ \A q \in 1 .. r.len : r.mem[q] \in C!Byte
         /\ Contents(r) \in Seq(C!Byte) /\ Len(Contents(r)) = r.len
<1>1. PICK held \in Seq(C!Byte) : BB!Shows(r, 0, held)
  BY DEF HeldBytes
<1>2. /\ BB!Sound(r) /\ r.len = 0 + Len(held) /\ r.len \in Nat /\ Len(held) \in Nat
      /\ \A q \in 1 .. Len(held) : held[q] # BB!Junk => r.mem[0 + q] = held[q]
  BY <1>1, BB!ShowsFacts, GrowthAssumption
<1>3. r.len = Len(held)
  BY <1>2
<1>4. ASSUME NEW q \in 1 .. r.len PROVE r.mem[q] \in C!Byte
  <2>1. held[q] \in C!Byte
    BY <1>1, <1>3, ElementOfSeq
  <2>2. held[q] # BB!Junk /\ 0 + q = q
    BY <2>1, ByteRange DEF Junk, BB!Junk
  <2>3. q \in 1 .. Len(held)
    BY <1>3
  <2> QED  BY <1>2, <2>1, <2>2, <2>3
<1>5. IsBuffer(r)
  BY <1>2 DEF BB!Sound, IsBuffer
<1>6. SubSeq(r.mem, 1, r.len) \in Seq(C!Byte)
  BY <1>2, <1>4, SubSeqProperties
<1>7. Len(SubSeq(r.mem, 1, r.len)) = r.len
  BY <1>2, FirstIsSequence
<1> QED  BY <1>4, <1>5, <1>6, <1>7 DEF Contents

LEMMA ShownContents ==
  ASSUME NEW r, NEW held \in Seq(C!Byte), BB!Shows(r, 0, held)
  PROVE  HeldBytes(r) /\ Contents(r) = held
<1>1. HeldBytes(r)
  BY DEF HeldBytes
<1>2. /\ r.len = 0 + Len(held) /\ r.len \in Nat /\ Len(held) \in Nat
      /\ \A q \in 1 .. Len(held) : held[q] # BB!Junk => r.mem[0 + q] = held[q]
  BY BB!ShowsFacts, GrowthAssumption
<1>3. ASSUME NEW q \in 1 .. Len(held) PROVE r.mem[q] = held[q]
  <2>1. held[q] \in C!Byte
    BY ElementOfSeq
  <2>2. held[q] # BB!Junk /\ 0 + q = q
    BY <2>1, ByteRange DEF Junk, BB!Junk
  <2> QED  BY <1>2, <2>2
<1>4. Contents(r) \in Seq(C!Byte) /\ Len(Contents(r)) = r.len
  BY <1>1, HeldFacts
<1>5. ASSUME NEW q \in 1 .. Len(held) PROVE Contents(r)[q] = held[q]
  <2>1. \A p \in 1 .. r.len : r.mem[p] \in C!Byte
    BY <1>1, HeldFacts
  <2>2. \A p \in 1 .. (r.len - 1 + 1) : Contents(r)[p] = r.mem[1 + p - 1]
    BY <1>2, <2>1, SubSeqProperties DEF Contents
  <2>3. q \in 1 .. (r.len - 1 + 1) /\ 1 + q - 1 = q
    BY <1>2
  <2> QED  BY <1>3, <2>2, <2>3
<1> QED  BY <1>1, <1>2, <1>4, <1>5

LEMMA HeldContents ==
  ASSUME NEW r, HeldBytes(r)
  PROVE  Contents(r) \in Seq(C!Byte) /\ BB!Shows(r, 0, Contents(r))
<1>1. PICK held \in Seq(C!Byte) : BB!Shows(r, 0, held)
  BY DEF HeldBytes
<1> QED  BY <1>1, ShownContents

LEMMA HeldPiece ==
  ASSUME NEW r, HeldBytes(r), NEW a \in Nat, NEW n \in Nat, a + n <= r.len
  PROVE  SubSeq(r.mem, a + 1, a + n) \in Seq(C!Byte)
<1>1. r.len \in Nat /\ \A q \in 1 .. r.len : r.mem[q] \in C!Byte
  BY HeldFacts DEF IsBuffer
<1>2. ASSUME NEW q \in (a + 1) .. (a + n) PROVE r.mem[q] \in C!Byte
  <2>1. q \in 1 .. r.len
    BY <1>1
  <2> QED  BY <1>1, <2>1
<1>3. a + 1 \in Int /\ a + n \in Int
  OBVIOUS
<1> QED  BY <1>2, <1>3, SubSeqProperties

LEMMA HeldCalls ==
  /\ HeldBytes(RB_BLANK) /\ Contents(RB_BLANK) = << >>
  /\ \A r : HeldBytes(r) => /\ HeldBytes(rb_stringize(r))
                            /\ Contents(rb_stringize(r)) = Contents(r)
  /\ \A r : \A s \in Seq(C!Byte) :
       HeldBytes(r) => /\ HeldBytes(rb_append(r, s))
                       /\ Contents(rb_append(r, s)) = Contents(r) \o s
<1>1. HeldBytes(RB_BLANK) /\ Contents(RB_BLANK) = << >>
  <2>1. BB!Shows(RB_BLANK, 0, << >>)
    BY SameCalls, BB!BlankShows, GrowthAssumption
  <2> QED  BY <2>1, EmptySeq, ShownContents
<1>2. ASSUME NEW r, HeldBytes(r)
      PROVE  HeldBytes(rb_stringize(r)) /\ Contents(rb_stringize(r)) = Contents(r)
  <2>1. Contents(r) \in Seq(C!Byte) /\ BB!Shows(r, 0, Contents(r))
    BY <1>2, HeldContents
  <2>2. BB!Shows(BB!rb_stringize(r), 0, Contents(r))
    BY <2>1, BB!StringizeShows, GrowthAssumption
  <2>3. BB!Shows(rb_stringize(r), 0, Contents(r))
    BY <2>2, SameCalls
  <2> QED  BY <2>1, <2>3, ShownContents
<1>3. ASSUME NEW r, HeldBytes(r), NEW s \in Seq(C!Byte)
      PROVE  HeldBytes(rb_append(r, s)) /\ Contents(rb_append(r, s)) = Contents(r) \o s
  <2>1. Contents(r) \in Seq(C!Byte) /\ BB!Shows(r, 0, Contents(r))
    BY <1>3, HeldContents
  <2>2. BB!Shows(BB!rb_append(r, s), 0, Contents(r) \o s)
    BY <2>1, BytesAreCells, BB!AppendSame, GrowthAssumption
  <2>3. Contents(r) \o s \in Seq(C!Byte)
    BY <2>1, ConcatProperties
  <2>4. BB!Shows(rb_append(r, s), 0, Contents(r) \o s)
    BY <2>2, SameCalls
  <2> QED  BY <2>3, <2>4, ShownContents
<1> QED  BY <1>1, <1>2, <1>3

LEMMA SoundResize ==
  ASSUME NEW r, BB!Sound(r), NEW n \in Nat, NEW preserve \in BOOLEAN
  PROVE  /\ BB!Sound(rb_resize(r, n, preserve)) /\ rb_resize(r, n, preserve).len = n
         /\ Len(rb_resize(r, n, preserve).mem) \in Nat
         /\ n <= Len(rb_resize(r, n, preserve).mem)
         /\ preserve => \A q \in 1 .. Len(r.mem) :
                          rb_resize(r, n, preserve).mem[q] = r.mem[q]
<1> DEFINE g == BB!rb_resize(r, n, preserve)
<1>1. /\ BB!Sound(g) /\ g.len = n
      /\ Len(g.mem) \in Nat /\ n <= Len(g.mem)
      /\ preserve => \A q \in 1 .. Len(r.mem) : g.mem[q] = r.mem[q]
  BY BB!Resized, GrowthAssumption
<1>2. g = rb_resize(r, n, preserve)
  BY SameResize
<1> HIDE DEF g
<1> QED  BY <1>1, <1>2

(* What is written after a run that did not need more room than it had.    *)
LEMMA HeldOutput ==
  ASSUME NEW n \in Nat, NEW s \in Seq(C!Byte), Len(s) <= n
  PROVE  HeldBytes(Output(n, s)) /\ Contents(Output(n, s)) = s
<1> DEFINE b == rb_resize(RB_BLANK, n, FALSE)
           c == memcpy(b, 0, s)
           o == rb_resize(c, Len(s), TRUE)
<1>1. s \in Seq(BB!Cell) /\ Len(s) \in Nat
  BY BytesAreCells, LenProperties
<1>2. BB!Sound(RB_BLANK)
  <2>1. BB!Shows(RB_BLANK, 0, << >>)
    BY SameCalls, BB!BlankShows, GrowthAssumption
  <2> QED  BY <2>1, BB!ShowsFacts, GrowthAssumption
<1>3. BB!Sound(b) /\ Len(b.mem) \in Nat /\ n <= Len(b.mem)
  BY <1>2, SoundResize
<1> HIDE DEF b
<1>4. /\ BB!Sound(c) /\ Len(c.mem) = Len(b.mem)
      /\ \A q \in 1 .. Len(s) : c.mem[0 + q] = s[q]
  <2>1. 0 + Len(s) <= Len(b.mem)
    BY <1>1, <1>3
  <2>2. /\ BB!Sound(BB!memcpy(b, 0, s)) /\ Len(BB!memcpy(b, 0, s).mem) = Len(b.mem)
        /\ \A q \in 1 .. Len(s) : BB!memcpy(b, 0, s).mem[0 + q] = s[q]
    BY <1>1, <1>3, <2>1, BB!Copied, GrowthAssumption
  <2> QED  BY <2>2, SameGrow
<1> HIDE DEF c
<1>5. /\ BB!Sound(o) /\ o.len = Len(s)
      /\ \A q \in 1 .. Len(c.mem) : o.mem[q] = c.mem[q]
  BY <1>1, <1>4, SoundResize
<1> HIDE DEF o
<1>6. ASSUME NEW q \in 1 .. Len(s) PROVE o.mem[0 + q] = s[q]
  <2>1. 0 + q = q /\ q \in 1 .. Len(c.mem)
    BY <1>1, <1>3, <1>4
  <2> QED  BY <1>4, <1>5, <2>1
<1>7. BB!Shows(o, 0, s)
  <2>1. o.len = 0 + Len(s)
    BY <1>1, <1>5
  <2> QED  BY <1>1, <1>5, <1>6, <2>1 DEF BB!Shows
<1>8. o = Output(n, s)
  BY DEF o, c, b, Output
<1> QED  BY <1>7, <1>8, ShownContents

-----------------------------------------------------------------------------
(* While lzjwm -c reads and writes, and lzjwm -d reads, the buffer and the *)
(* file hold bytes of the format, and a write stays in what the buffer     *)
(* holds.                                                                  *)
HoldsBytes(c, f, r) ==
  /\ HeldBytes(r)
  /\ f.bytes \in Seq(C!Byte)
  /\ c.function = "rb_fwrite" /\ ~c.returned => c.moved + c.n <= r.len

BInv == HoldsBytes(call, file, rb)

LEMMA FileFields == ASSUME NEW s PROVE File(s).bytes = s
BY DEF File

LEMMA ReadsBytes ==
  ASSUME NEW s \in Seq(C!Byte), NEW n
  PROVE  HoldsBytes(rb_fread(RB_BLANK, n), File(s), RB_BLANK)
<1> DEFINE c == rb_fread(RB_BLANK, n)
<1>1. c.function = "rb_fread"
  BY DEF rb_fread, Call
<1> HIDE DEF c
<1>2. HoldsBytes(c, File(s), RB_BLANK)
  BY <1>1, FileFields, HeldCalls DEF HoldsBytes
<1> QED  BY <1>2 DEF c

LEMMA WritesBytes ==
  ASSUME NEW r, HeldBytes(r), NEW n \in Nat
  PROVE  HoldsBytes(rb_fwrite(r, n), File(<< >>), r)
<1> DEFINE c == rb_fwrite(r, n)
<1>0. r.len \in Nat
  BY HeldFacts DEF IsBuffer
<1>1. c.moved = 0 /\ c.n \in Nat /\ c.n <= r.len
  BY <1>0 DEF rb_fwrite, Call
<1> HIDE DEF c
<1>2. c.moved + c.n <= r.len
  BY <1>1
<1>3. HoldsBytes(c, File(<< >>), r)
  BY <1>2, FileFields, EmptySeq DEF HoldsBytes
<1> QED  BY <1>3 DEF c

LEMMA BInvRead == FInv /\ BInv /\ (Read \/ ReadError) => BInv'
<1> SUFFICES ASSUME FInv, BInv, Read \/ ReadError PROVE BInv'
  OBVIOUS
<1>1. /\ call \in Calls /\ call.function = "rb_fread" /\ IsFile(file)
      /\ HeldBytes(rb) /\ file.bytes \in Seq(C!Byte) /\ Available \in Nat
      /\ Available = Len(file.bytes)
  BY LenProperties DEF FInv, Counted, BInv, HoldsBytes, Available,
                       Read, ReadError, Wanting, Running
<1>2. Asked \in Nat
  <2>1. call.n - call.moved \in Nat /\ CHUNK \in Nat
    BY FilesAssumption DEF FInv, Counted, Reading, Reported, Calls, IsBuffer,
                           Read, ReadError, Wanting, Running
  <2> QED  BY <2>1 DEF Asked
<1>3. PICK q \in 0 .. Available :
        /\ rb' = rb_append(rb, SubSeq(file.bytes, 1, q))
        /\ file'.bytes \in {file.bytes, SubSeq(file.bytes, q + 1, Available)}
        /\ call'.function = "rb_fread"
  <2>1. CASE Read
    <3> DEFINE q == IF Asked <= Available THEN Asked ELSE Available
    <3>1. q \in 0 .. Available
      BY <1>1, <1>2
    <3>2. Take(q)
      BY <2>1 DEF Read
    <3> HIDE DEF q
    <3>3. /\ rb' = rb_append(rb, SubSeq(file.bytes, 1, q))
          /\ file'.bytes = SubSeq(file.bytes, q + 1, Available)
          /\ call'.function = "rb_fread"
      BY <1>1, <3>2 DEF Take, Calls
    <3> QED  BY <3>1, <3>3
  <2>2. CASE ReadError
    <3>1. PICK q \in 0 .. Available :
            /\ rb' = rb_append(rb, SubSeq(file.bytes, 1, q))
            /\ file' = [file EXCEPT !.error = TRUE]
            /\ call' = [call EXCEPT !.moved = -(@ + q + 1)]
      BY <2>2 DEF ReadError
    <3>2. file'.bytes = file.bytes /\ call'.function = "rb_fread"
      BY <1>1, <3>1 DEF IsFile, Calls
    <3> QED  BY <3>1, <3>2
  <2> QED  BY <2>1, <2>2
<1>4. /\ SubSeq(file.bytes, 1, q) \in Seq(C!Byte)
      /\ SubSeq(file.bytes, q + 1, Available) \in Seq(C!Byte)
  <2>1. \A p \in 1 .. Available : file.bytes[p] \in C!Byte
    BY <1>1, ElementOfSeq
  <2>2. \A p \in 1 .. q : file.bytes[p] \in C!Byte
    BY <1>1, <2>1
  <2>3. \A p \in (q + 1) .. Available : file.bytes[p] \in C!Byte
    BY <1>1, <2>1
  <2>4. q \in Int /\ q + 1 \in Int /\ Available \in Int /\ 1 \in Int
    BY <1>1
  <2> QED  BY <2>2, <2>3, <2>4, SubSeqProperties
<1>5. HeldBytes(rb')
  BY <1>1, <1>3, <1>4, HeldCalls
<1> QED  BY <1>1, <1>3, <1>4, <1>5 DEF BInv, HoldsBytes

LEMMA BInvStop == FInv /\ BInv /\ Stop => BInv'
<1> SUFFICES ASSUME FInv, BInv, Stop PROVE BInv'
  OBVIOUS
<1>1. /\ HeldBytes(rb) /\ file' = file /\ file.bytes \in Seq(C!Byte)
      /\ rb' = rb_stringize(rb) /\ call'.function = "rb_fread"
  BY DEF FInv, Counted, Calls, BInv, HoldsBytes, Stop, Running
<1>2. HeldBytes(rb')
  BY <1>1, HeldCalls
<1> QED  BY <1>1, <1>2 DEF BInv, HoldsBytes

LEMMA BInvWrite == FInv /\ BInv /\ (Write \/ WriteError \/ Written) => BInv'
<1> SUFFICES ASSUME FInv, BInv, Write \/ WriteError \/ Written PROVE BInv'
  OBVIOUS
<1>1. /\ call \in Calls /\ IsFile(file) /\ IsBuffer(rb) /\ rb' = rb /\ HeldBytes(rb)
      /\ file.bytes \in Seq(C!Byte) /\ call.function = "rb_fwrite" /\ ~call.returned
      /\ call.moved + call.n <= rb.len /\ call.moved = Len(file.bytes)
      /\ call.moved \in Nat /\ call.n \in Nat /\ rb.len \in Nat
  <2>1. call.function = "rb_fwrite" /\ ~call.returned /\ rb' = rb
    BY DEF Write, WriteError, Written, Running
  <2>2. /\ call \in Calls /\ IsFile(file) /\ IsBuffer(rb) /\ HeldBytes(rb)
        /\ file.bytes \in Seq(C!Byte) /\ call.moved + call.n <= rb.len
        /\ call.moved = Len(file.bytes)
    BY <2>1 DEF FInv, Counted, Writing, BInv, HoldsBytes
  <2>3. Len(file.bytes) \in Nat /\ call.n \in Nat /\ rb.len \in Nat
    BY <2>2, LenProperties DEF Calls, IsBuffer
  <2> QED  BY <2>1, <2>2, <2>3
<1>2. ASSUME NEW q \in 0 .. call.n,
             file'.bytes = file.bytes \o SubSeq(rb.mem, call.moved + 1, call.moved + q)
      PROVE  file'.bytes \in Seq(C!Byte)
  <2>1. q \in Nat /\ call.moved + q <= rb.len
    BY <1>1
  <2>2. SubSeq(rb.mem, call.moved + 1, call.moved + q) \in Seq(C!Byte)
    BY <1>1, <2>1, HeldPiece
  <2> QED  BY <1>1, <1>2, <2>2, ConcatProperties
<1>3. CASE Write
  <2>1. Give(call.n, FALSE) /\ call' = [call EXCEPT !.moved = @ + call.n, !.n = 0]
    BY <1>3 DEF Write
  <2>2. file'.bytes \in Seq(C!Byte)
    <3>1. file'.bytes = file.bytes \o SubSeq(rb.mem, call.moved + 1, call.moved + call.n)
      BY <1>1, <2>1 DEF Give, IsFile
    <3>2. call.n \in 0 .. call.n
      BY <1>1
    <3> QED  BY <1>2, <3>1, <3>2
  <2>3. call'.moved + call'.n <= rb.len
    <3>1. call'.moved = call.moved + call.n /\ call'.n = 0
      BY <1>1, <2>1 DEF Calls
    <3> QED  BY <1>1, <3>1
  <2> QED  BY <1>1, <2>2, <2>3 DEF BInv, HoldsBytes
<1>4. CASE WriteError
  <2>1. PICK q \in 0 .. call.n :
          /\ Give(q, TRUE)
          /\ call' = [call EXCEPT !.moved = @ + q, !.n = @ - q,
                                  !.result = -(call.moved + q + 1), !.returned = TRUE]
    BY <1>4 DEF WriteError
  <2>2. file'.bytes = file.bytes \o SubSeq(rb.mem, call.moved + 1, call.moved + q)
    BY <1>1, <2>1 DEF Give, IsFile
  <2>3. file'.bytes \in Seq(C!Byte) /\ call'.returned
    BY <1>1, <1>2, <2>1, <2>2 DEF Calls
  <2> QED  BY <1>1, <2>3 DEF BInv, HoldsBytes
<1>5. CASE Written
  <2>1. file' = file /\ call'.returned
    BY <1>1, <1>5 DEF Written, Calls
  <2> QED  BY <1>1, <2>1 DEF BInv, HoldsBytes
<1> QED  BY <1>3, <1>4, <1>5

LEMMA BInvStep == FInv /\ BInv /\ Next => BInv'
BY BInvRead, BInvStop, BInvWrite DEF Next

-----------------------------------------------------------------------------
(* The inductive invariant of the programs run one after the other.  The   *)
(* three modes of lzjwm.c call rb_fread and rb_fwrite.                     *)
CallsCounted ==
  /\ program \in Programs \cup {"exit"}
  /\ program \in {"lzjwm -c", "lzjwm -d", "lzjwm -S"} => FInv
  /\ program \in {"lzjwm.py -d", "tiny_lzjwm"} => ~call.returned
  /\ program = "exit" => ReportsBytesCopied

(* Up to the end of lzjwm -d's run, files and buffers hold bytes.          *)
BytesOnly ==
  /\ text \in Seq(C!Byte) /\ disk \in Seq(C!Byte)
  /\ program = "lzjwm -c" \/ (program = "lzjwm -d" /\ phase # "write") => BInv

(* The encoder runs once, from its first step to its last, on what was     *)
(* read, and keeps its own invariant.                                      *)
Unused ==
  /\ pc = "prepare" /\ as = << >> /\ out = << >>
  /\ dptr = 0 /\ cl = 0 /\ i = 0 /\ m = 0 /\ nn = 0 /\ d = 0 /\ j = 0 /\ cur = 0

EncoderRuns ==
  /\ In("lzjwm -c", "read") => Unused
  /\ In("lzjwm -c", "run") => CP!WInv /\ Len(in) = rb.len
  /\ ~In("lzjwm -c", "run") => pc # "emit"

(* What the decoder of lzjwm -d hands to rb_fwrite has a length.           *)
DecodedSize == dsize \in Nat /\ IsSequence(cells)

(* The memory of tiny_lzjwm.                                               *)
Memory ==
  /\ IsSequence(data) /\ bsz \in Nat
  /\ IF bsz = 0 THEN Len(data) = 0 ELSE Len(data) < bsz
  /\ program = "tiny_lzjwm" => IsSequence(file.bytes)

RInv == CallsCounted /\ BytesOnly /\ EncoderRuns /\ DecodedSize /\ Memory

-----------------------------------------------------------------------------
LEMMA SizesAreNat == SIZE_MAX \in Nat
BY FilesAssumption

(* How the next program starts.                                            *)
LEMMA ExitBegins ==
  ASSUME NEW p, NEW b, NEW next, NEW contents, IsSequence(contents),
         Exit(p, b, next, contents)
  PROVE  /\ FInv' /\ ~call'.returned /\ file'.bytes = contents
         /\ program' = next /\ phase' = "read" /\ text' = text
         /\ contents \in Seq(C!Byte) => BInv'
<1>1. /\ rb' = RB_BLANK /\ call' = rb_fread(RB_BLANK, SIZE_MAX) /\ file' = File(contents)
      /\ program' = next /\ phase' = "read" /\ text' = text
  BY DEF Exit
<1>2. FInv'
  <2>1. Counted(rb_fread(RB_BLANK, SIZE_MAX), File(contents), RB_BLANK)
    BY BlankBuffer, SizesAreNat, ReadBegins
  <2> QED  BY <1>1, <2>1 DEF FInv
<1>3. ~call'.returned
  BY <1>1 DEF rb_fread, Call
<1>4. contents \in Seq(C!Byte) => BInv'
  BY <1>1, ReadsBytes DEF BInv
<1> QED  BY <1>1, <1>2, <1>3, <1>4, FileFields

LEMMA WritingBegins ==
  ASSUME NEW r, IsBuffer(r), BeginWrite(r)
  PROVE  FInv' /\ phase' = "write" /\ (HeldBytes(r) => BInv')
<1>1. rb' = r /\ call' = rb_fwrite(r, SIZE_MAX) /\ file' = File(<< >>) /\ phase' = "write"
  BY DEF BeginWrite
<1>2. FInv'
  <2>1. Counted(rb_fwrite(r, SIZE_MAX), File(<< >>), r)
    BY SizesAreNat, WriteBegins
  <2> QED  BY <1>1, <2>1 DEF FInv
<1>3. HeldBytes(r) => BInv'
  BY <1>1, SizesAreNat, WritesBytes DEF BInv
<1> QED  BY <1>1, <1>2, <1>3

LEMMA SameIO ==
  ASSUME UNCHANGED io_vars
  PROVE  /\ FInv' <=> FInv
         /\ BInv' <=> BInv
         /\ ReportsBytesCopied' <=> ReportsBytesCopied
         /\ call' = call /\ rb' = rb /\ file' = file
<1>1. call' = call /\ rb' = rb /\ file' = file
  BY DEF io_vars
<1> QED  BY <1>1 DEF FInv, BInv, ReportsBytesCopied, Copied

LEMMA EncoderBegins == CP!Init' => CP!WInv'
BY CompressorBegins, PTL

-----------------------------------------------------------------------------
LEMMA InitRInv == RInit => RInv
<1> SUFFICES ASSUME RInit PROVE RInv
  OBVIOUS
<1>1. text \in Seq(C!Byte) /\ IsSequence(text)
  BY RoundTripAssumption, ByteRange DEF RInit, IsSequence
<1>2. /\ program = "lzjwm -c" /\ phase = "read" /\ disk = << >>
      /\ rb = RB_BLANK /\ call = rb_fread(RB_BLANK, SIZE_MAX) /\ file = File(text)
      /\ Unused /\ dsize = 0 /\ cells = << >> /\ bsz = 0 /\ data = << >>
  BY DEF RInit, Unused
<1>3. CallsCounted
  <2>1. FInv
    BY <1>1, <1>2, BlankBuffer, SizesAreNat, ReadBegins DEF FInv
  <2> QED  BY <1>2, <2>1 DEF CallsCounted, Programs
<1>4. BytesOnly
  BY <1>1, <1>2, ReadsBytes, EmptySeq DEF BytesOnly, BInv
<1>5. EncoderRuns
  BY <1>2 DEF EncoderRuns, Unused, In
<1>6. DecodedSize /\ Memory
  BY <1>2, EmptyIsSequence DEF DecodedSize, Memory
<1> QED  BY <1>3, <1>4, <1>5, <1>6 DEF RInv

-----------------------------------------------------------------------------
(* Reading and writing.                                                    *)
LEMMA ReadOrWriteStep == RInv /\ ReadOrWrite => RInv'
<1> SUFFICES ASSUME RInv, ReadOrWrite PROVE RInv'
  OBVIOUS
<1>1. /\ program \in {"lzjwm -c", "lzjwm -d", "lzjwm -S"} /\ phase \in {"read", "write"}
      /\ Next /\ UNCHANGED <<C_vars, B_vars, I_vars, W_vars, phase>>
  BY DEF ReadOrWrite, run_vars
<1>2. UNCHANGED <<in, pc, as, dptr, cl, i, m, nn, d, j, cur, out, dsize, cells,
                  bsz, data, text, disk, program, phase>>
  BY <1>1 DEF C_vars, B_vars, I_vars, W_vars
<1>3. FInv /\ FInv'
  BY <1>1, FInvStep DEF RInv, CallsCounted
<1>4. CallsCounted'
  BY <1>1, <1>2, <1>3 DEF CallsCounted, Programs
<1>5. BytesOnly'
  BY <1>1, <1>2, <1>3, BInvStep DEF RInv, BytesOnly
<1>6. EncoderRuns'
  <2>1. ~In("lzjwm -c", "run") /\ ~In("lzjwm -c", "run")'
    BY <1>1, <1>2 DEF In
  <2> QED  BY <1>2, <2>1 DEF RInv, EncoderRuns, Unused, In
<1>7. DecodedSize' /\ Memory'
  BY <1>1, <1>2 DEF RInv, DecodedSize, Memory
<1> QED  BY <1>4, <1>5, <1>6, <1>7 DEF RInv

LEMMA StopStep == RInv /\ (CannotRead \/ Refuse) => RInv'
<1> SUFFICES ASSUME RInv, CannotRead \/ Refuse PROVE RInv'
  OBVIOUS
<1>1. /\ program' = "exit" /\ UNCHANGED io_vars /\ pc # "emit"
      /\ UNCHANGED <<pc, dsize, cells, bsz, data, text, disk>>
  BY DEF CannotRead, Refuse, run_vars, C_vars, B_vars, I_vars, RInv, EncoderRuns, In
<1>2. ReportsBytesCopied
  <2>1. program \in {"lzjwm -c", "lzjwm -d", "lzjwm -S"} => ReportsBytesCopied
    BY FInvReports DEF RInv, CallsCounted
  <2>2. ~call.returned => ReportsBytesCopied
    BY DEF ReportsBytesCopied
  <2>3. CASE Refuse
    BY <2>1, <2>3 DEF Refuse, In
  <2>4. CASE CannotRead
    BY <2>1, <2>2, <2>4 DEF RInv, CallsCounted, CannotRead, Programs
  <2> QED  BY <2>3, <2>4
<1>3. CallsCounted'
  BY <1>1, <1>2, SameIO DEF CallsCounted
<1>4. BytesOnly' /\ EncoderRuns'
  BY <1>1 DEF RInv, BytesOnly, EncoderRuns, In
<1>5. DecodedSize' /\ Memory'
  BY <1>1 DEF RInv, DecodedSize, Memory
<1> QED  BY <1>3, <1>4, <1>5 DEF RInv

-----------------------------------------------------------------------------
(* lzjwm -c.                                                               *)
LEMMA BeginCompressStep == RInv /\ BeginCompress => RInv'
<1> SUFFICES ASSUME RInv, BeginCompress PROVE RInv'
  OBVIOUS
<1>1. /\ program = "lzjwm -c" /\ phase = "read" /\ phase' = "run" /\ in' = Contents(rb)
      /\ UNCHANGED io_vars /\ FInv /\ BInv /\ Unused
      /\ UNCHANGED <<pc, as, dptr, cl, i, m, nn, d, j, cur, out, dsize, cells,
                     bsz, data, text, disk, program>>
  BY DEF BeginCompress, HasRead, B_vars, I_vars, W_vars, RInv, CallsCounted, BytesOnly,
         EncoderRuns, In
<1>2. FInv' /\ BInv' /\ rb' = rb
  BY <1>1, SameIO
<1>3. Contents(rb) \in Seq(C!Byte) /\ Len(Contents(rb)) = rb.len
  BY <1>1, HeldFacts DEF BInv, HoldsBytes
<1>4. CP!WInv'
  <2>1. CP!Init'
    BY <1>1, <1>3 DEF CP!Init, Unused
  <2> QED  BY <2>1, EncoderBegins
<1>5. CallsCounted' /\ BytesOnly'
  BY <1>1, <1>2 DEF RInv, CallsCounted, BytesOnly
<1>6. EncoderRuns'
  <2>1. In("lzjwm -c", "run")' /\ ~In("lzjwm -c", "read")'
    BY <1>1 DEF In
  <2> QED  BY <1>1, <1>2, <1>3, <1>4, <2>1 DEF EncoderRuns
<1>7. DecodedSize' /\ Memory'
  BY <1>1 DEF RInv, DecodedSize, Memory
<1> QED  BY <1>5, <1>6, <1>7 DEF RInv

LEMMA CompressStep == RInv /\ Compress => RInv'
<1> SUFFICES ASSUME RInv, Compress PROVE RInv'
  OBVIOUS
<1>1. /\ program = "lzjwm -c" /\ phase = "run" /\ C!Next
      /\ UNCHANGED io_vars /\ FInv /\ BInv /\ CP!WInv /\ Len(in) = rb.len
      /\ UNCHANGED <<dsize, cells, bsz, data, text, disk, program, phase>>
  BY DEF Compress, In, B_vars, I_vars, W_vars, RInv, CallsCounted, BytesOnly, EncoderRuns
<1>2. FInv' /\ BInv' /\ rb' = rb
  BY <1>1, SameIO
<1>3. CP!WInv' /\ in' = in
  BY <1>1, CompressorKeeps, CompressorSteps
<1>4. CallsCounted' /\ BytesOnly'
  BY <1>1, <1>2 DEF RInv, CallsCounted, BytesOnly
<1>5. EncoderRuns'
  <2>1. In("lzjwm -c", "run")' /\ ~In("lzjwm -c", "read")'
    BY <1>1 DEF In
  <2> QED  BY <1>1, <1>2, <1>3, <2>1 DEF EncoderRuns
<1>6. DecodedSize' /\ Memory'
  BY <1>1 DEF RInv, DecodedSize, Memory
<1> QED  BY <1>4, <1>5, <1>6 DEF RInv

LEMMA WriteCompressedStep == RInv /\ WriteCompressed => RInv'
<1> SUFFICES ASSUME RInv, WriteCompressed PROVE RInv'
  OBVIOUS
<1>1. /\ program = "lzjwm -c" /\ phase = "run" /\ pc = "done"
      /\ BeginWrite(Output(rb.len, out))
      /\ FInv /\ CP!WInv /\ Len(in) = rb.len
      /\ UNCHANGED <<pc, dsize, cells, bsz, data, text, disk, program>>
  BY DEF WriteCompressed, In, B_vars, I_vars, W_vars, RInv, CallsCounted, EncoderRuns
<1>2. out \in Seq(C!Byte) /\ Len(out) <= rb.len /\ rb.len \in Nat
  BY <1>1, CompressorOutput DEF FInv, Counted, IsBuffer
<1>3. HeldBytes(Output(rb.len, out)) /\ IsBuffer(Output(rb.len, out))
  BY <1>2, HeldOutput, HeldFacts
<1>4. FInv' /\ BInv' /\ phase' = "write"
  BY <1>1, <1>3, WritingBegins
<1>5. CallsCounted' /\ BytesOnly' /\ EncoderRuns'
  BY <1>1, <1>4 DEF RInv, CallsCounted, BytesOnly, EncoderRuns, In
<1>6. DecodedSize' /\ Memory'
  BY <1>1 DEF RInv, DecodedSize, Memory
<1> QED  BY <1>5, <1>6 DEF RInv

LEMMA CompressedStep == RInv /\ Compressed => RInv'
<1> SUFFICES ASSUME RInv, Compressed PROVE RInv'
  OBVIOUS
<1>1. /\ program = "lzjwm -c" /\ phase = "write" /\ disk' = file.bytes
      /\ Exit("lzjwm -c", file.bytes, "lzjwm -d", file.bytes)
      /\ FInv /\ BInv /\ pc # "emit"
      /\ UNCHANGED <<pc, dsize, cells, bsz, data>>
  BY DEF Compressed, HasWritten, run_vars, C_vars, B_vars, I_vars, RInv, CallsCounted,
         BytesOnly, EncoderRuns, In
<1>2. file.bytes \in Seq(C!Byte) /\ IsSequence(file.bytes)
  BY <1>1 DEF BInv, HoldsBytes, IsSequence
<1>3. FInv' /\ BInv' /\ program' = "lzjwm -d" /\ phase' = "read" /\ text' = text
  BY <1>1, <1>2, ExitBegins
<1>4. CallsCounted' /\ BytesOnly' /\ EncoderRuns'
  BY <1>1, <1>2, <1>3 DEF RInv, CallsCounted, BytesOnly, EncoderRuns, In, Programs
<1>5. DecodedSize' /\ Memory'
  BY <1>1, <1>3 DEF RInv, DecodedSize, Memory
<1> QED  BY <1>4, <1>5 DEF RInv

-----------------------------------------------------------------------------
(* lzjwm -d.  The sum of the counts is a number, and the buffer made of it *)
(* a sequence, whatever the decoder stores in it.                          *)
LEMMA DecoderStep ==
  ASSUME BInv, DecodedSize, B!Next
  PROVE  DecodedSize'
<1>1. dsize \in Nat /\ IsSequence(cells)
  BY DEF DecodedSize
<1>2. CASE B!AddCount
  <2>1. /\ cells' = cells
        /\ dsize' = dsize \/ (B!InMemory(k) /\ dsize' = dsize + B!count(B!At(k)))
    BY <1>2 DEF B!AddCount
  <2>2. ASSUME B!InMemory(k) PROVE B!count(B!At(k)) \in Nat
    <3>1. Contents(rb) \in Seq(C!Byte)
      BY HeldFacts DEF BInv, HoldsBytes
    <3>2. k + 1 \in 1 .. Len(Contents(rb)) /\ B!At(k) = Contents(rb)[k + 1]
      <4>1. B!Memory = Contents(rb)
        <5>1. Len(Contents(rb)) \in Nat
          BY <3>1, LenProperties
        <5> QED  BY <5>1 DEF B!Memory, B!isize
      <4>2. Len(Contents(rb)) \in Nat
        BY <3>1, LenProperties
      <4>3. k \in 0 .. (Len(Contents(rb)) - 1)
        BY <2>2, <4>1 DEF B!InMemory
      <4> QED  BY <4>1, <4>2, <4>3 DEF B!At
    <3>3. B!At(k) \in C!Byte
      BY <3>1, <3>2, ElementOfSeq
    <3> QED  BY <3>3, CountIsNat
  <2> QED  BY <1>1, <2>1, <2>2 DEF DecodedSize
<1>3. CASE B!Allocate
  <2>1. dsize' = dsize /\ cells' = [p \in 1 .. dsize |-> B!Uninit]
    BY <1>3 DEF B!Allocate, B!Buffer
  <2>2. cells' \in Seq({B!Uninit})
    BY <1>1, <2>1, SeqDef
  <2> QED  BY <1>1, <2>1, <2>2 DEF DecodedSize, IsSequence
<1>4. CASE B!Literally \/ B!Copy
  <2>1. dsize' = dsize /\ (cells' = cells \/ \E x, v : cells' = [cells EXCEPT ![x] = v])
    BY <1>4 DEF B!Literally, B!Copy, B!CopyAt
  <2>2. ASSUME NEW x, NEW v PROVE IsSequence([cells EXCEPT ![x] = v])
    <3>1. PICK V : cells \in Seq(V)
      BY <1>1 DEF IsSequence
    <3>2. cells \in Seq(V \cup {v})
      BY <3>1, SeqMonotonic
    <3>3. [cells EXCEPT ![x] = v] \in Seq(V \cup {v})
      <4>1. CASE x \in 1 .. Len(cells)
        BY <3>2, <4>1, ExceptSeq
      <4>2. CASE x \notin 1 .. Len(cells)
        <5>1. DOMAIN cells = 1 .. Len(cells) /\ cells = [p \in DOMAIN cells |-> cells[p]]
          BY <3>1, LenProperties
        <5>2. [cells EXCEPT ![x] = v] = cells
          BY <4>2, <5>1
        <5> QED  BY <3>2, <5>2
      <4> QED  BY <4>1, <4>2
    <3> QED  BY <3>3 DEF IsSequence
  <2> QED  BY <1>1, <2>1, <2>2 DEF DecodedSize
<1>5. CASE \/ B!Pointer \/ B!Rewind \/ B!StartCopy \/ B!EndCopy
           \/ B!Break \/ B!Return
  BY <1>1, <1>5 DEF B!Pointer, B!Rewind, B!StepBack, B!StartCopy, B!EndCopy, B!Break,
                    B!Return, DecodedSize
<1> QED  BY <1>2, <1>3, <1>4, <1>5 DEF B!Next

LEMMA DecompressStep == RInv /\ (BeginDecompress \/ Decompress) => RInv'
<1> SUFFICES ASSUME RInv, BeginDecompress \/ Decompress PROVE RInv'
  OBVIOUS
<1>1. /\ program = "lzjwm -d" /\ program' = program /\ phase' = "run" /\ phase # "write"
      /\ UNCHANGED <<io_vars, pc, bsz, data, text, disk>>
  BY DEF BeginDecompress, HasRead, Decompress, In, run_vars, C_vars, I_vars, W_vars
<1>2. /\ FInv /\ BInv /\ DecodedSize /\ pc # "emit"
  BY <1>1 DEF RInv, CallsCounted, BytesOnly, EncoderRuns, In
<1>3. FInv' /\ BInv' /\ file' = file /\ call' = call
  BY <1>1, <1>2, SameIO
<1>4. DecodedSize'
  <2>1. CASE BeginDecompress
    BY <1>2, <2>1 DEF BeginDecompress, run_vars, B_vars, DecodedSize
  <2>2. CASE Decompress
    BY <1>2, <2>2, DecoderStep DEF Decompress
  <2> QED  BY <2>1, <2>2
<1>5. CallsCounted' /\ BytesOnly' /\ EncoderRuns'
  BY <1>1, <1>2, <1>3 DEF RInv, CallsCounted, BytesOnly, EncoderRuns, In
<1>6. Memory'
  BY <1>1, <1>3 DEF RInv, Memory
<1> QED  BY <1>4, <1>5, <1>6 DEF RInv

LEMMA WriteDecompressedStep == RInv /\ WriteDecompressed => RInv'
<1> SUFFICES ASSUME RInv, WriteDecompressed PROVE RInv'
  OBVIOUS
<1>1. /\ program = "lzjwm -d" /\ program' = program /\ phase = "run"
      /\ BeginWrite(Output(dsize, cells)) /\ cells' = << >>
      /\ UNCHANGED <<pc, dsize, bsz, data, text, disk>>
  BY DEF WriteDecompressed, In, C_vars, I_vars, W_vars
<1>2. dsize \in Nat /\ IsSequence(cells) /\ pc # "emit"
  BY <1>1 DEF RInv, DecodedSize, EncoderRuns, In
<1>3. IsBuffer(Output(dsize, cells))
  BY <1>2, OutputLength
<1>4. FInv' /\ phase' = "write"
  BY <1>1, <1>3, WritingBegins
<1>5. CallsCounted' /\ BytesOnly' /\ EncoderRuns'
  BY <1>1, <1>2, <1>4 DEF RInv, CallsCounted, BytesOnly, EncoderRuns, In
<1>6. DecodedSize' /\ Memory'
  BY <1>1, <1>2, EmptyIsSequence DEF RInv, DecodedSize, Memory
<1> QED  BY <1>5, <1>6 DEF RInv

LEMMA DecompressedStep == RInv /\ Decompressed => RInv'
<1> SUFFICES ASSUME RInv, Decompressed PROVE RInv'
  OBVIOUS
<1>1. /\ program = "lzjwm -d" /\ phase = "write"
      /\ Exit("lzjwm -d", file.bytes, "lzjwm -S", disk)
      /\ UNCHANGED <<pc, dsize, cells, bsz, data, disk>>
  BY DEF Decompressed, HasWritten, run_vars, C_vars, B_vars, I_vars
<1>2. disk \in Seq(C!Byte) /\ IsSequence(disk) /\ pc # "emit"
  BY <1>1 DEF RInv, BytesOnly, IsSequence, EncoderRuns, In
<1>3. FInv' /\ program' = "lzjwm -S" /\ phase' = "read" /\ text' = text
  BY <1>1, <1>2, ExitBegins
<1>4. CallsCounted' /\ BytesOnly' /\ EncoderRuns'
  BY <1>1, <1>2, <1>3 DEF RInv, CallsCounted, BytesOnly, EncoderRuns, In, Programs
<1>5. DecodedSize' /\ Memory'
  BY <1>1, <1>3 DEF RInv, DecodedSize, Memory
<1> QED  BY <1>4, <1>5 DEF RInv

-----------------------------------------------------------------------------
(* lzjwm -S, lzjwm.py -d and tiny_lzjwm.                                   *)
LEMMA StreamStep == RInv /\ (BeginStream \/ Stream) => RInv'
<1> SUFFICES ASSUME RInv, BeginStream \/ Stream PROVE RInv'
  OBVIOUS
<1>1. /\ program = "lzjwm -S" /\ program' = program
      /\ UNCHANGED <<io_vars, pc, dsize, cells, bsz, data, text, disk>>
  BY DEF BeginStream, Stream, In, C_vars, B_vars, I_vars, W_vars
<1>2. FInv' /\ file' = file
  BY <1>1, SameIO DEF RInv, CallsCounted
<1>3. CallsCounted' /\ BytesOnly' /\ EncoderRuns'
  BY <1>1, <1>2 DEF RInv, CallsCounted, BytesOnly, EncoderRuns, In
<1>4. DecodedSize' /\ Memory'
  BY <1>1, <1>2 DEF RInv, DecodedSize, Memory
<1> QED  BY <1>3, <1>4 DEF RInv

LEMMA NextProgramStep == RInv /\ (Streamed \/ Decoded \/ Finished) => RInv'
<1> SUFFICES ASSUME RInv, Streamed \/ Decoded \/ Finished PROVE RInv'
  OBVIOUS
<1>1. /\ program \in {"lzjwm -S", "lzjwm.py -d", "tiny_lzjwm"}
      /\ UNCHANGED <<pc, dsize, cells, bsz, data, disk>>
  BY DEF Streamed, Decoded, Finished, In, run_vars, C_vars, B_vars, I_vars
<1>2. /\ disk \in Seq(C!Byte) /\ IsSequence(disk) /\ pc # "emit"
      /\ IsSequence(<< >>)
  BY <1>1, EmptyIsSequence DEF RInv, BytesOnly, IsSequence, EncoderRuns, In
<1>3. /\ ~call'.returned /\ IsSequence(file'.bytes) /\ text' = text
      /\ program' \in {"lzjwm.py -d", "tiny_lzjwm", "exit"}
  BY <1>2, ExitBegins DEF Streamed, Decoded, Finished
<1>4. CallsCounted'
  BY <1>3 DEF CallsCounted, ReportsBytesCopied, Programs
<1>5. BytesOnly' /\ EncoderRuns'
  BY <1>1, <1>2, <1>3 DEF RInv, BytesOnly, EncoderRuns, In
<1>6. DecodedSize' /\ Memory'
  BY <1>1, <1>3 DEF RInv, DecodedSize, Memory
<1> QED  BY <1>4, <1>5, <1>6 DEF RInv

LEMMA DecodeStep == RInv /\ (Decode \/ BeginTiny \/ Tiny) => RInv'
<1> SUFFICES ASSUME RInv, Decode \/ BeginTiny \/ Tiny PROVE RInv'
  OBVIOUS
<1>1. /\ program \in {"lzjwm.py -d", "tiny_lzjwm"} /\ program' = program
      /\ UNCHANGED <<io_vars, pc, dsize, cells, bsz, data, text, disk>>
  BY DEF Decode, BeginTiny, Tiny, In, C_vars, B_vars, I_vars, W_vars
<1>2. call' = call /\ file' = file
  BY <1>1, SameIO
<1>3. CallsCounted' /\ BytesOnly' /\ EncoderRuns'
  BY <1>1, <1>2 DEF RInv, CallsCounted, BytesOnly, EncoderRuns, In
<1>4. DecodedSize' /\ Memory'
  BY <1>1, <1>2 DEF RInv, DecodedSize, Memory
<1> QED  BY <1>3, <1>4 DEF RInv

(* A read leaves a byte of the memory that has grown as far as was asked.  *)
LEMMA TinyTakes ==
  ASSUME RInv, program = "tiny_lzjwm", I!Next
  PROVE  /\ I!Grown \in Nat /\ I!Grown > Len(data)
         /\ \E n \in 0 .. Len(file.bytes), error \in BOOLEAN :
              n < I!Grown - Len(data) /\ I!Take(n, error)
<1>1. /\ IsSequence(data) /\ IsSequence(file.bytes) /\ bsz \in Nat
      /\ Len(data) \in Nat /\ Len(file.bytes) \in Nat
      /\ IF bsz = 0 THEN Len(data) = 0 ELSE Len(data) < bsz
  BY LengthOfSequence DEF RInv, Memory
<1>2. I!Grown \in Nat /\ I!Grown > Len(data) /\ I!Asked = I!Grown - Len(data) - 1
  <2>1. BLOCK \in Nat /\ BLOCK > 0 /\ ROOM \in Nat /\ ROOM > 0
    BY RoundTripAssumption
  <2> QED  BY <1>1, <2>1 DEF I!Grown, I!Asked, I!sz
<1>3. CASE I!Read
  <2> DEFINE n == IF I!Asked <= Len(file.bytes) THEN I!Asked ELSE Len(file.bytes)
  <2>1. n \in 0 .. Len(file.bytes) /\ n < I!Grown - Len(data)
    BY <1>1, <1>2
  <2>2. I!Take(n, FALSE)
    BY <1>3 DEF I!Read
  <2> HIDE DEF n
  <2> QED  BY <1>2, <2>1, <2>2
<1>4. CASE I!ReadError
  <2>1. PICK n \in Cuts : n < I!Asked /\ n <= Len(file.bytes) /\ I!Take(n, TRUE)
    BY <1>4 DEF I!ReadError
  <2>2. n \in 0 .. Len(file.bytes) /\ n < I!Grown - Len(data)
    BY <1>1, <1>2, <2>1, FilesAssumption
  <2> QED  BY <1>2, <2>1, <2>2
<1> QED  BY <1>3, <1>4 DEF I!Next

LEMMA ReadTinyStep == RInv /\ ReadTiny => RInv'
<1> SUFFICES ASSUME RInv, ReadTiny PROVE RInv'
  OBVIOUS
<1>1. /\ program = "tiny_lzjwm" /\ program' = program /\ call' = call
      /\ UNCHANGED <<pc, dsize, cells, text, disk>> /\ I!Next
  BY DEF ReadTiny, In, C_vars, B_vars, W_vars
<1>2. /\ IsSequence(data) /\ IsSequence(file.bytes)
      /\ Len(data) \in Nat /\ Len(file.bytes) \in Nat
  BY <1>1, LengthOfSequence DEF RInv, Memory
<1>3. I!Grown \in Nat /\ I!Grown > Len(data)
  BY <1>1, TinyTakes
<1>4. PICK n \in 0 .. Len(file.bytes), error \in BOOLEAN :
        n < I!Grown - Len(data) /\ I!Take(n, error)
  BY <1>1, TinyTakes
<1>5. /\ bsz' = I!Grown /\ data' = data \o SubSeq(file.bytes, 1, n)
      /\ file'.bytes = SubSeq(file.bytes, n + 1, Len(file.bytes))
  BY <1>4 DEF I!Take
<1>6. IsSequence(data') /\ Len(data') = Len(data) + n
  BY <1>2, <1>5, FirstIsSequence, ConcatIsSequence
<1>7. IsSequence(file'.bytes)
  BY <1>2, <1>4, <1>5, SubSeqIsSequence
<1>8. bsz' \in Nat /\ bsz' # 0 /\ Len(data') < bsz'
  BY <1>2, <1>3, <1>4, <1>5, <1>6
<1>9. Memory'
  BY <1>6, <1>7, <1>8 DEF Memory
<1>10. CallsCounted' /\ BytesOnly' /\ EncoderRuns' /\ DecodedSize'
  BY <1>1 DEF RInv, CallsCounted, BytesOnly, EncoderRuns, In, DecodedSize
<1> QED  BY <1>9, <1>10 DEF RInv

-----------------------------------------------------------------------------
LEMMA StepRInv == RInv /\ [RNext]_all => RInv'
<1>1. RInv /\ RNext => RInv'
  BY ReadOrWriteStep, StopStep, BeginCompressStep, CompressStep, WriteCompressedStep,
     CompressedStep, DecompressStep, WriteDecompressedStep, DecompressedStep, StreamStep,
     NextProgramStep, DecodeStep, ReadTinyStep DEF RNext
<1>2. RInv /\ UNCHANGED all => RInv'
  <2> SUFFICES ASSUME RInv, UNCHANGED all PROVE RInv'
    OBVIOUS
  <2>1. UNCHANGED <<io_vars, C_vars, dsize, cells, bsz, data, text, disk, program, phase>>
    BY DEF all, run_vars, B_vars, I_vars, W_vars
  <2>2. UNCHANGED CP!vars /\ UNCHANGED <<in, pc, as, dptr, cl, i, m, nn, d, j, cur, out>>
    BY <2>1 DEF C_vars, CP!vars
  <2>3. CP!WInv => CP!WInv'
    BY <2>2, Format, CP!StepWInv
  <2>4. CallsCounted' /\ BytesOnly'
    BY <2>1, SameIO DEF RInv, CallsCounted, BytesOnly
  <2>5. EncoderRuns'
    BY <2>1, <2>2, <2>3, SameIO DEF RInv, EncoderRuns, Unused, In
  <2>6. DecodedSize' /\ Memory'
    BY <2>1, SameIO DEF RInv, DecodedSize, Memory
  <2> QED  BY <2>4, <2>5, <2>6 DEF RInv
<1> QED  BY <1>1, <1>2

THEOREM RoundTripInvariance == RSpec => []RInv
BY InitRInv, StepRInv, PTL DEF RSpec

(* In every program of a round trip rb_fread and rb_fwrite report how much *)
(* they moved, so that lzjwm exits on a failed read (resizable_buf.h:161,  *)
(* lzjwm.c:47, 72).                                                        *)
THEOREM ProgramsReport == RSpec => []ReportsBytesCopied
<1>1. RInv => ReportsBytesCopied
  <2> SUFFICES ASSUME RInv PROVE ReportsBytesCopied
    OBVIOUS
  <2>1. ~call.returned => ReportsBytesCopied
    BY DEF ReportsBytesCopied
  <2> QED  BY <2>1, FInvReports DEF RInv, CallsCounted, Programs
<1> QED  BY <1>1, RoundTripInvariance, PTL

(* tiny_lzjwm has a byte left for its NUL whatever the length of its input *)
(* and wherever reading ends (tiny_lzjwm.c:40-53).                         *)
THEOREM AlwaysRoomForNul == RSpec => []RoomForNul
<1>1. RInv => RoomForNul
  BY DEF RInv, Memory, RoomForNul, I!RoomForNul, I!sz
<1> QED  BY <1>1, RoundTripInvariance, PTL

(* What lzjwm -c has read never makes its encoder fail an assertion of     *)
(* mk_ptr, in whatever pieces it came and wherever an error cut it short   *)
(* (lzjwm_compress.c:18-33).                                               *)
THEOREM ProgramOffsetsFit == RSpec => []OffsetsFit
<1>1. RInv => OffsetsFit
  <2> SUFFICES ASSUME RInv PROVE OffsetsFit
    OBVIOUS
  <2>1. CASE In("lzjwm -c", "run")
    BY <2>1, CompressorFits DEF RInv, EncoderRuns
  <2>2. CASE ~In("lzjwm -c", "run")
    BY <2>2 DEF RInv, EncoderRuns, OffsetsFit, C!OffsetsFit
  <2> QED  BY <2>1, <2>2
<1> QED  BY <1>1, RoundTripInvariance, PTL

-----------------------------------------------------------------------------
(***************************************************************************)
(* What comes out when files and streams are cut short: every program keeps *)
(* the beginning of the text, or bytes that stand for it.                  *)
(***************************************************************************)
(* The bytes s, as the beginning of t.                                     *)
Begins(s, t) ==
  /\ s \in Seq(C!Byte) /\ t \in Seq(C!Byte)
  /\ Len(s) <= Len(t) /\ \A q \in 1 .. Len(s) : s[q] = t[q]

LEMMA BeginsFacts ==
  /\ \A s \in Seq(C!Byte) : Begins(s, s) /\ Begins(<< >>, s)
  /\ \A s, t, u : Begins(s, t) /\ Begins(t, u) => Begins(s, u)
<1>1. ASSUME NEW s \in Seq(C!Byte) PROVE Begins(s, s) /\ Begins(<< >>, s)
  BY DEF Begins
<1>2. ASSUME NEW s, NEW t, NEW u, Begins(s, t), Begins(t, u) PROVE Begins(s, u)
  <2>1. /\ s \in Seq(C!Byte) /\ t \in Seq(C!Byte) /\ u \in Seq(C!Byte)
        /\ Len(s) \in Nat /\ Len(t) \in Nat /\ Len(u) \in Nat
        /\ Len(s) <= Len(t) /\ Len(t) <= Len(u)
        /\ \A q \in 1 .. Len(s) : s[q] = t[q]
        /\ \A q \in 1 .. Len(t) : t[q] = u[q]
    BY <1>2, LenProperties DEF Begins
  <2>2. Len(s) <= Len(u) /\ \A q \in 1 .. Len(s) : q \in 1 .. Len(t)
    BY <2>1
  <2> QED  BY <2>1, <2>2 DEF Begins
<1> QED  BY <1>1, <1>2

LEMMA JoinedBytes ==
  ASSUME NEW s \in Seq(C!Byte), NEW t \in Seq(C!Byte)
  PROVE  /\ s \o t \in Seq(C!Byte) /\ Len(s \o t) = Len(s) + Len(t)
         /\ Len(s) \in Nat /\ Len(t) \in Nat
         /\ \A q \in 1 .. Len(s) : (s \o t)[q] = s[q]
         /\ \A q \in 1 .. Len(t) : (s \o t)[Len(s) + q] = t[q]
         /\ \A u \in Seq(C!Byte) : (s \o t) \o u = s \o (t \o u)
<1>1. \A u \in Seq(C!Byte) : (s \o t) \o u = s \o (t \o u)
  BY ConcatAssociative
<1>2. /\ s \o t \in Seq(C!Byte) /\ Len(s \o t) = Len(s) + Len(t)
      /\ Len(s) \in Nat /\ Len(t) \in Nat
      /\ \A q \in 1 .. Len(s) : (s \o t)[q] = s[q]
      /\ \A q \in 1 .. Len(t) : (s \o t)[Len(s) + q] = t[q]
  OBVIOUS
<1> QED  BY <1>1, <1>2

LEMMA BeginsJoin ==
  ASSUME NEW s \in Seq(C!Byte), NEW r \in Seq(C!Byte), NEW t, Begins(s \o r, t)
  PROVE  Begins(s, t)
<1>1. /\ s \o r \in Seq(C!Byte) /\ Len(s \o r) = Len(s) + Len(r)
      /\ Len(s) \in Nat /\ Len(r) \in Nat
      /\ \A q \in 1 .. Len(s) : q \in 1 .. Len(s \o r) /\ (s \o r)[q] = s[q]
  OBVIOUS
<1>2. Begins(s, s \o r)
  <2> DEFINE w == s \o r
  <2>1. w \in Seq(C!Byte) /\ Len(s) <= Len(w) /\ \A q \in 1 .. Len(s) : w[q] = s[q]
    BY <1>1
  <2> HIDE DEF w
  <2>2. Begins(s, w)
    BY <2>1 DEF Begins
  <2> QED  BY <2>2 DEF w
<1> QED  BY <1>2, BeginsFacts

LEMMA BeginsPart ==
  ASSUME NEW t \in Seq(C!Byte), NEW n \in 0 .. Len(t)
  PROVE  /\ Begins(SubSeq(t, 1, n), t)
         /\ SubSeq(t, 1, n) \in Seq(C!Byte) /\ SubSeq(t, n + 1, Len(t)) \in Seq(C!Byte)
         /\ Len(SubSeq(t, 1, n)) = n
         /\ SubSeq(t, 1, n) \o SubSeq(t, n + 1, Len(t)) = t
<1> DEFINE a == SubSeq(t, 1, n)
           b == SubSeq(t, n + 1, Len(t))
<1>1. a \in Seq(C!Byte) /\ Len(a) = n /\ \A q \in 1 .. n : a[q] = t[q]
  OBVIOUS
<1>2. /\ b \in Seq(C!Byte) /\ Len(b) = Len(t) - n
      /\ \A q \in 1 .. (Len(t) - n) : b[q] = t[n + q]
  OBVIOUS
<1> HIDE DEF a, b
<1>0. Len(t) \in Nat /\ n \in Nat /\ n <= Len(t)
  OBVIOUS
<1>3. Begins(a, t)
  BY <1>0, <1>1 DEF Begins
<1>4. a \o b = t
  <2>1. a \o b \in Seq(C!Byte) /\ Len(a \o b) = Len(t)
    BY <1>1, <1>2
  <2>2. ASSUME NEW q \in 1 .. Len(t) PROVE (a \o b)[q] = t[q]
    <3>1. CASE q <= n
      <4>1. q \in 1 .. Len(a)
        BY <1>1, <3>1
      <4>2. (a \o b)[q] = a[q]
        BY <1>1, <1>2, <4>1, ConcatProperties
      <4> QED  BY <1>1, <4>1, <4>2
    <3>2. CASE q > n
      <4>1. q \in (Len(a) + 1) .. (Len(a) + Len(b)) /\ q - n \in 1 .. (Len(t) - n)
            /\ n + (q - n) = q
        BY <1>1, <1>2, <3>2
      <4>2. (a \o b)[q] = b[q - n]
        BY <1>1, <1>2, <4>1
      <4> QED  BY <1>2, <4>1, <4>2
    <3>3. q <= n \/ q > n
      BY <1>0
    <3> QED  BY <3>1, <3>2, <3>3
  <2> DEFINE w == a \o b
  <2>3. w \in Seq(C!Byte) /\ Len(w) = Len(t) /\ \A q \in 1 .. Len(t) : w[q] = t[q]
    BY <2>1, <2>2
  <2> HIDE DEF w
  <2>4. w = t
    BY <1>0, <2>3
  <2> QED  BY <2>4 DEF w
<1> QED  BY <1>1, <1>2, <1>3, <1>4 DEF a, b

(* What OnlyPrefixes says of what came out.                                *)
LEMMA BeginsPrefix == ASSUME NEW s, Begins(s, text) PROVE Prefix(s)
<1> DEFINE u == SubSeq(text, 1, Len(s))
<1>1. /\ s \in Seq(C!Byte) /\ text \in Seq(C!Byte) /\ Len(s) \in Nat /\ Len(text) \in Nat
      /\ Len(s) <= Len(text) /\ \A q \in 1 .. Len(s) : s[q] = text[q]
  BY DEF Begins
<1>2. u \in Seq(C!Byte) /\ Len(u) = Len(s) /\ \A q \in 1 .. Len(s) : u[q] = text[q]
  BY <1>1
<1> HIDE DEF u
<1>3. s = u
  BY <1>1, <1>2
<1> QED  BY <1>3 DEF Prefix, u

LEMMA BeginsTwice == ASSUME NEW h, Begins(h, text) PROVE Twice(h \o h)
<1> DEFINE w == h \o h
           half == SubSeq(w, 1, Len(w) \div 2)
<1>1. /\ h \in Seq(C!Byte) /\ Len(h) \in Nat
      /\ w \in Seq(C!Byte) /\ Len(w) = Len(h) + Len(h)
      /\ \A q \in 1 .. Len(h) : w[q] = h[q]
  BY DEF Begins
<1>2. Len(w) \div 2 = Len(h)
  <2>1. \A x \in Nat : (x + x) \div 2 = x
    OBVIOUS
  <2> QED  BY <1>1, <2>1
<1> HIDE DEF w
<1>3. half = h
  <2> DEFINE v == SubSeq(w, 1, Len(h))
  <2>1. v \in Seq(C!Byte) /\ Len(v) = Len(h) /\ \A q \in 1 .. Len(h) : v[q] = w[q]
    BY <1>1
  <2> HIDE DEF v
  <2>2. v = h
    BY <1>1, <2>1
  <2> QED  BY <1>2, <2>2 DEF v
<1> HIDE DEF half
<1>4. w = half \o half /\ Prefix(half)
  BY <1>3, BeginsPrefix DEF w
<1> QED  BY <1>4 DEF Twice, half, w

-----------------------------------------------------------------------------
(* What has been read and, when reading goes on, what is still to be read. *)
Left == IF file.error THEN << >> ELSE file.bytes
Received == Contents(rb) \o Left

LEMMA ReceivedBytes ==
  ASSUME BInv
  PROVE  /\ Contents(rb) \in Seq(C!Byte) /\ Left \in Seq(C!Byte) /\ Received \in Seq(C!Byte)
         /\ Begins(Contents(rb), Received)
<1>1. Contents(rb) \in Seq(C!Byte) /\ Left \in Seq(C!Byte)
  BY HeldFacts, EmptySeq DEF BInv, HoldsBytes, Left
<1>2. Received \in Seq(C!Byte)
  BY <1>1, ConcatProperties DEF Received
<1>3. Begins(Contents(rb), Received)
  BY <1>1, <1>2, BeginsFacts, BeginsJoin DEF Received
<1> QED  BY <1>1, <1>2, <1>3

LEMMA ReadingStep ==
  ASSUME FInv, BInv, call.function = "rb_fread", Next
  PROVE  call'.function = "rb_fread" /\ Begins(Received', Received)
<1>1. /\ call \in Calls /\ IsFile(file) /\ HeldBytes(rb)
      /\ file.bytes \in Seq(C!Byte) /\ Contents(rb) \in Seq(C!Byte)
      /\ Available \in Nat /\ Available = Len(file.bytes)
      /\ Received \in Seq(C!Byte)
  BY LenProperties, ReceivedBytes DEF FInv, Counted, BInv, HoldsBytes, Available
<1>2. CASE Read
  <2>1. Asked \in Nat /\ ~file.error
    <3>1. call.n - call.moved \in Nat /\ CHUNK \in Nat
      BY <1>2, FilesAssumption DEF FInv, Counted, Reading, Reported, Calls, IsBuffer,
                                   Read, Wanting, Running
    <3> QED  BY <1>2, <3>1 DEF Asked, Read, Wanting
  <2> DEFINE q == IF Asked <= Available THEN Asked ELSE Available
             a == SubSeq(file.bytes, 1, q)
             b == SubSeq(file.bytes, q + 1, Available)
  <2>2. q \in 0 .. Available
    BY <1>1, <2>1
  <2>3. Take(q)
    BY <1>2 DEF Read
  <2> HIDE DEF q
  <2>4. /\ rb' = rb_append(rb, a) /\ file'.bytes = b /\ file'.error = FALSE
        /\ call'.function = "rb_fread"
    BY <1>1, <2>3 DEF Take, Calls
  <2>5. a \in Seq(C!Byte) /\ b \in Seq(C!Byte) /\ a \o b = file.bytes
    BY <1>1, <2>2, BeginsPart
  <2> HIDE DEF a, b
  <2>6. Contents(rb)' = Contents(rb) \o a
    BY <1>1, <2>4, <2>5, HeldCalls
  <2>7. Received' = (Contents(rb) \o a) \o b
    BY <2>4, <2>6 DEF Received, Left
  <2>8. (Contents(rb) \o a) \o b = Contents(rb) \o (a \o b)
    BY <1>1, <2>5, JoinedBytes
  <2>9. Received' = Received
    BY <2>1, <2>5, <2>7, <2>8 DEF Received, Left
  <2> QED  BY <1>1, <2>4, <2>9, BeginsFacts
<1>3. CASE ReadError
  <2>1. ~file.error
    BY <1>3 DEF ReadError, Wanting
  <2>2. PICK q \in 0 .. Available :
          /\ rb' = rb_append(rb, SubSeq(file.bytes, 1, q))
          /\ file' = [file EXCEPT !.error = TRUE]
          /\ call' = [call EXCEPT !.moved = -(@ + q + 1)]
    BY <1>3 DEF ReadError
  <2> DEFINE a == SubSeq(file.bytes, 1, q)
             b == SubSeq(file.bytes, q + 1, Available)
  <2>3. rb' = rb_append(rb, a) /\ file'.error = TRUE /\ call'.function = "rb_fread"
    BY <1>1, <2>2 DEF Calls, IsFile
  <2>4. a \in Seq(C!Byte) /\ b \in Seq(C!Byte) /\ a \o b = file.bytes
    BY <1>1, BeginsPart
  <2> HIDE DEF a, b
  <2>5. Contents(rb)' = Contents(rb) \o a /\ Contents(rb) \o a \in Seq(C!Byte)
    BY <1>1, <2>3, <2>4, HeldCalls, ConcatProperties
  <2>6. Received' = Contents(rb) \o a
    <3>1. Received' = (Contents(rb) \o a) \o << >>
      BY <2>3, <2>5 DEF Received, Left
    <3> QED  BY <2>5, <3>1, ConcatEmptySeq
  <2>7. (Contents(rb) \o a) \o b = Received
    <3>1. (Contents(rb) \o a) \o b = Contents(rb) \o (a \o b)
      BY <1>1, <2>4, JoinedBytes
    <3> QED  BY <2>1, <2>4, <3>1 DEF Received, Left
  <2>8. Begins(Contents(rb) \o a, Received)
    <3> DEFINE w == Contents(rb) \o a
    <3>1. w \in Seq(C!Byte) /\ w \o b = Received
      BY <2>5, <2>7
    <3> HIDE DEF w
    <3>2. Begins(w \o b, Received)
      BY <1>1, <3>1, BeginsFacts
    <3>3. Begins(w, Received)
      BY <2>4, <3>1, <3>2, BeginsJoin
    <3> QED  BY <3>3 DEF w
  <2> QED  BY <2>3, <2>6, <2>8
<1>4. CASE Stop
  <2>1. file' = file /\ rb' = rb_stringize(rb) /\ call'.function = "rb_fread"
    BY <1>1, <1>4 DEF Stop, Calls
  <2>2. Contents(rb)' = Contents(rb)
    BY <1>1, <2>1, HeldCalls
  <2>3. Received' = Received
    BY <2>1, <2>2 DEF Received, Left
  <2> QED  BY <1>1, <2>1, <2>3, BeginsFacts
<1> QED  BY <1>2, <1>3, <1>4 DEF Next, Write, WriteError, Written, Running

LEMMA WritingStep ==
  ASSUME FInv, BInv, call.function = "rb_fwrite", Begins(file.bytes, Contents(rb)), Next
  PROVE  /\ call'.function = "rb_fwrite" /\ rb' = rb
         /\ Begins(file'.bytes, Contents(rb))
<1>1. /\ call \in Calls /\ IsFile(file) /\ HeldBytes(rb) /\ rb' = rb
      /\ file.bytes \in Seq(C!Byte) /\ ~call.returned
      /\ call.moved = Len(file.bytes) /\ call.moved + call.n <= rb.len
      /\ call.n \in Nat /\ Len(file.bytes) \in Nat
  <2>1. Write \/ WriteError \/ Written
    BY DEF Next, Read, ReadError, Stop, Wanting, Running
  <2>2. ~call.returned /\ rb' = rb
    BY <2>1 DEF Write, WriteError, Written, Running
  <2> QED  BY <2>2, LenProperties
           DEF FInv, Counted, Writing, BInv, HoldsBytes, Calls
<1>2. /\ Contents(rb) \in Seq(C!Byte) /\ Len(Contents(rb)) = rb.len /\ rb.len \in Nat
      /\ \A p \in 1 .. rb.len : rb.mem[p] \in C!Byte
  BY <1>1, HeldFacts DEF IsBuffer
<1>3. \A p \in 1 .. rb.len : Contents(rb)[p] = rb.mem[p]
  <2>1. \A p \in 1 .. (rb.len - 1 + 1) : Contents(rb)[p] = rb.mem[1 + p - 1]
    BY <1>2, SubSeqProperties DEF Contents
  <2>2. \A p \in 1 .. rb.len : p \in 1 .. (rb.len - 1 + 1) /\ 1 + p - 1 = p
    BY <1>2
  <2> QED  BY <2>1, <2>2
<1>4. ASSUME NEW q \in 0 .. call.n,
             file'.bytes = file.bytes \o SubSeq(rb.mem, call.moved + 1, call.moved + q)
      PROVE  Begins(file'.bytes, Contents(rb))
  <2> DEFINE o == file.bytes
             w == SubSeq(rb.mem, call.moved + 1, call.moved + q)
             l == Len(o)
  <2>1. /\ o \in Seq(C!Byte) /\ l \in Nat /\ call.moved = l /\ q \in Nat /\ l + q <= rb.len
        /\ \A p \in 1 .. l : o[p] = Contents(rb)[p]
    <3>1. q \in Nat /\ q <= call.n /\ l \in Nat /\ call.moved = l
      BY <1>1
    <3>2. l + q <= rb.len
      BY <1>1, <1>2, <3>1
    <3> QED  BY <1>1, <3>1, <3>2 DEF Begins
  <2>2. w \in Seq(C!Byte) /\ Len(w) = q /\ \A p \in 1 .. q : w[p] = Contents(rb)[l + p]
    <3>1. w = SubSeq(rb.mem, l + 1, l + q)
      BY <2>1
    <3> HIDE DEF w, l, o
    <3>2. \A p \in (l + 1) .. (l + q) : rb.mem[p] \in C!Byte
      BY <1>2, <2>1
    <3>3. /\ l + 1 \in Int /\ l + q \in Int /\ (l + q) - (l + 1) + 1 = q
          /\ (l + 1 <= l + q <=> q # 0)
          /\ \A p \in 1 .. q : (l + 1) + p - 1 = l + p /\ l + p \in 1 .. rb.len
      BY <1>2, <2>1
    <3>4. /\ w \in Seq(C!Byte)
          /\ Len(w) = IF l + 1 <= l + q THEN (l + q) - (l + 1) + 1 ELSE 0
          /\ \A p \in 1 .. ((l + q) - (l + 1) + 1) : w[p] = rb.mem[(l + 1) + p - 1]
      BY <3>1, <3>2, <3>3, SubSeqProperties
    <3> QED  BY <1>3, <2>1, <3>3, <3>4
  <2> HIDE DEF o, w
  <2>3. o \o w \in Seq(C!Byte) /\ Len(o \o w) = l + q
    BY <2>1, <2>2, JoinedBytes
  <2>4. ASSUME NEW p \in 1 .. (l + q) PROVE (o \o w)[p] = Contents(rb)[p]
    <3>1. CASE p <= l
      <4>1. p \in 1 .. Len(o)
        BY <2>1, <3>1
      <4>2. (o \o w)[p] = o[p]
        BY <2>1, <2>2, <4>1, ConcatProperties
      <4> QED  BY <2>1, <4>1, <4>2
    <3>2. CASE p > l
      <4>1. p \in (Len(o) + 1) .. (Len(o) + Len(w)) /\ p - l \in 1 .. q /\ l + (p - l) = p
        BY <2>1, <2>2, <3>2
      <4>2. (o \o w)[p] = w[p - l]
        BY <2>1, <2>2, <4>1
      <4> QED  BY <2>2, <4>1, <4>2
    <3>3. p <= l \/ p > l
      BY <2>1
    <3> QED  BY <3>1, <3>2, <3>3
  <2>5. file'.bytes = o \o w
    BY <1>4 DEF o, w
  <2> DEFINE v == o \o w
  <2> HIDE DEF v, l
  <2>6. Len(v) <= Len(Contents(rb)) /\ v \in Seq(C!Byte)
        /\ \A p \in 1 .. Len(v) : v[p] = Contents(rb)[p]
    BY <1>2, <2>1, <2>3, <2>4 DEF v
  <2>7. Begins(v, Contents(rb))
    BY <1>2, <2>6 DEF Begins
  <2> QED  BY <2>5, <2>7 DEF v
<1>5. CASE Write
  <2>1. Give(call.n, FALSE) /\ call'.function = "rb_fwrite"
    BY <1>1, <1>5 DEF Write, Calls
  <2>2. file'.bytes = file.bytes \o SubSeq(rb.mem, call.moved + 1, call.moved + call.n)
    BY <1>1, <2>1 DEF Give, IsFile
  <2>3. call.n \in 0 .. call.n
    BY <1>1
  <2> QED  BY <1>1, <1>4, <2>1, <2>2, <2>3
<1>6. CASE WriteError
  <2>1. PICK q \in 0 .. call.n :
          /\ Give(q, TRUE)
          /\ call' = [call EXCEPT !.moved = @ + q, !.n = @ - q,
                                  !.result = -(call.moved + q + 1), !.returned = TRUE]
    BY <1>6 DEF WriteError
  <2>2. file'.bytes = file.bytes \o SubSeq(rb.mem, call.moved + 1, call.moved + q)
    BY <1>1, <2>1 DEF Give, IsFile
  <2>3. call'.function = "rb_fwrite"
    BY <1>1, <2>1 DEF Calls
  <2> QED  BY <1>1, <1>4, <2>2, <2>3
<1>7. CASE Written
  <2>1. file' = file /\ call'.function = "rb_fwrite"
    BY <1>1, <1>7 DEF Written, Calls
  <2> QED  BY <1>1, <2>1
<1> QED  BY <1>5, <1>6, <1>7 DEF Next, Read, ReadError, Stop, Wanting, Running

-----------------------------------------------------------------------------
(* Every stream, and those that a decoder with this unsigned int may get.  *)
AllStreams ==
  {st \in [enc : Seq(C!Byte), text : Seq(C!Byte), start : UNION {[0 .. n -> Nat] : n \in Nat}] :
     CP!IsStream(st)}
CountedStreams == {st \in AllStreams : Len(st.text) + 1 < UINT_MAX}

(* The stream e, with the characters of t that it stands for.              *)
Spelled(e, t) ==
  [enc |-> e, text |-> SubSeq(t, 1, CP!Starts(e)[Len(e)]), start |-> CP!Starts(e)]
Joined(e, t) ==
  LET st == Spelled(e, t) IN
  [enc |-> e \o e, text |-> st.text \o st.text, start |-> CP!Starts(e \o e)]

(* What of the given bytes comes before a NUL, where tiny_lzjwm stops.     *)
FirstNul(given) ==
  CHOOSE n \in 0 .. Len(given) : /\ \A q \in 1 .. n : given[q] # 0
                                 /\ n = Len(given) \/ given[n + 1] = 0
BeforeNul(given) == SubSeq(given, 1, FirstNul(given))

(* What the bytes that survive a cut stand for.                            *)
LEMMA CutSpells ==
  ASSUME NEW t \in Seq(C!Byte), NEW given, CP!Spells(given, t), NEW e, Begins(e, given)
  PROVE  CP!Spells(e, t)
<1>1. /\ e \in Seq(CP!Byte) /\ given \in Seq(CP!Byte) /\ t \in Seq(CP!Byte)
      /\ Len(e) <= Len(given) /\ \A p \in 1 .. Len(e) : e[p] = given[p]
  BY SameFormat DEF Begins
<1> QED  BY <1>1, Format, CP!SpellsCut

LEMMA SpelledIs ==
  ASSUME NEW t \in Seq(C!Byte), NEW e \in Seq(C!Byte), CP!Spells(e, t)
  PROVE  LET st == Spelled(e, t) IN
         /\ CP!IsStream(st) /\ st \in AllStreams
         /\ st.enc = e /\ st.start = CP!Starts(e) /\ Begins(st.text, t)
         /\ Len(e) <= Len(st.text)
<1> DEFINE n == CP!Starts(e)[Len(e)]
           u == SubSeq(t, 1, n)
           st == [enc |-> e, text |-> u, start |-> CP!Starts(e)]
<1>1. e \in Seq(CP!Byte) /\ t \in Seq(CP!Byte)
  BY SameFormat
<1>2. /\ n \in 0 .. Len(t) /\ Len(u) = n /\ \A q \in 1 .. n : u[q] = t[q]
      /\ CP!IsStream(st)
  BY <1>1, Format, CP!SpelledStream
<1>3. st.enc = e /\ st.text = u /\ st.start = CP!Starts(e)
  OBVIOUS
<1>4. st = Spelled(e, t)
  BY DEF Spelled
<1> HIDE DEF u, n
<1>5. /\ st.text \in Seq(CP!Byte) /\ st.start \in [0 .. Len(e) -> 0 .. Len(u)]
      /\ Len(e) \in Nat /\ Len(u) \in Nat
  BY <1>1, <1>2, <1>3, LenProperties DEF CP!IsStream, CP!DecodesVia
<1>6. st \in AllStreams
  <2>1. CP!Starts(e) \in [0 .. Len(e) -> Nat]
    BY <1>3, <1>5
  <2>2. CP!Starts(e) \in UNION {[0 .. q -> Nat] : q \in Nat}
    BY <1>5, <2>1
  <2>3. u \in Seq(C!Byte)
    BY <1>3, <1>5, SameFormat
  <2> QED  BY <1>2, <2>2, <2>3 DEF AllStreams
<1>7. Begins(u, t)
  BY <1>2, <1>3, <1>5, SameFormat, LenProperties DEF Begins
<1>8. Len(e) <= Len(u)
  BY <1>2, <1>3, Format, CP!StreamFacts
<1> HIDE DEF st
<1> QED  BY <1>2, <1>3, <1>4, <1>6, <1>7, <1>8

LEMMA NulFacts ==
  ASSUME NEW given \in Seq(C!Byte)
  PROVE  /\ FirstNul(given) \in 0 .. Len(given)
         /\ FirstNul(given) # Len(given) => given[FirstNul(given) + 1] = 0
         /\ Begins(BeforeNul(given), given) /\ Len(BeforeNul(given)) = FirstNul(given)
         /\ \A q \in 1 .. FirstNul(given) : BeforeNul(given)[q] = given[q] /\ given[q] # 0
<1> DEFINE Clear(n) == \A q \in 1 .. n : given[q] # 0
           Ends(n) == Clear(n) /\ (n = Len(given) \/ given[n + 1] = 0)
           Found == {n \in Nat : n <= Len(given) => \/ \E q \in 0 .. Len(given) : Ends(q)
                                                    \/ Clear(n)}
<1>1. Len(given) \in Nat
  BY LenProperties
<1>2. \E n \in 0 .. Len(given) : Ends(n)
  <2>1. 0 \in Found
    OBVIOUS
  <2>2. ASSUME NEW n \in Nat, n \in Found PROVE n + 1 \in Found
    <3>1. ASSUME n + 1 <= Len(given), ~ \E q \in 0 .. Len(given) : Ends(q) PROVE Clear(n + 1)
      <4>1. n \in 0 .. Len(given) /\ n # Len(given) /\ n <= Len(given)
        BY <1>1, <3>1
      <4>2. Clear(n)
        BY <2>2, <3>1, <4>1
      <4>3. given[n + 1] # 0
        BY <3>1, <4>1, <4>2
      <4>4. \A q \in 1 .. (n + 1) : q \in 1 .. n \/ q = n + 1
        OBVIOUS
      <4> QED  BY <4>2, <4>3, <4>4
    <3> QED  BY <3>1
  <2>3. \A n \in Nat : n \in Found
    <3> HIDE DEF Found
    <3> QED  BY <2>1, <2>2, Format, CP!SetInduction
  <2>4. Len(given) \in Found /\ Len(given) <= Len(given)
    BY <1>1, <2>3
  <2>5. Clear(Len(given)) => Ends(Len(given)) /\ Len(given) \in 0 .. Len(given)
    BY <1>1
  <2> QED  BY <2>4, <2>5
<1>3. FirstNul(given) \in 0 .. Len(given) /\ Ends(FirstNul(given))
  BY <1>2 DEF FirstNul
<1> DEFINE n == FirstNul(given)
           e == BeforeNul(given)
<1>4. Begins(e, given) /\ Len(e) = n
  BY <1>3, BeginsPart DEF BeforeNul
<1> HIDE DEF n, e, Found
<1>5. \A q \in 1 .. n : e[q] = given[q]
  BY <1>4 DEF Begins
<1> QED  BY <1>3, <1>4, <1>5 DEF n, e

(* The characters out of what a stream stands for.                         *)
LEMMA BeginsSpelled ==
  ASSUME NEW t \in Seq(C!Byte), NEW e \in Seq(C!Byte), CP!Spells(e, t),
         NEW s \in Seq(C!Byte), Len(s) <= Len(Spelled(e, t).text),
         \A q \in 1 .. Len(s) : s[q] = Spelled(e, t).text[q]
  PROVE  Begins(s, t)
<1> DEFINE u == Spelled(e, t).text
<1>1. Begins(u, t)
  BY SpelledIs
<1>2. u \in Seq(C!Byte)
  BY <1>1 DEF Begins
<1> HIDE DEF u
<1>3. Begins(s, u)
  BY <1>2 DEF Begins, u
<1> QED  BY <1>1, <1>3, BeginsFacts

(* What the encoder has written spells what was read.                      *)
LEMMA WrittenSpells ==
  ASSUME CP!WInv, pc = "done", Begins(in, text)
  PROVE  CP!Spells(out, text)
<1>1. /\ out \in Seq(CP!Byte) /\ CP!Spells(out, in) /\ CP!Starts(out)[Len(out)] = Len(in)
  BY CompressorOutput, SameFormat DEF CP!WInv, CP!Written, CP!isize
<1>2. Len(in) <= Len(text) /\ \A q \in 1 .. Len(in) : text[q] = in[q]
  BY DEF Begins
<1> QED  BY <1>1, <1>2, Format, CP!SpellsBegins

-----------------------------------------------------------------------------
(* What the programs leave behind, and how one starts and ends: the stream *)
(* stands for the beginning of the text, and what they wrote is one.       *)
Settled ==
  /\ text \in Inputs /\ CP!Spells(disk, text)
  /\ DOMAIN outputs = Programs
  /\ \A p \in {"lzjwm -d", "lzjwm -S", "tiny_lzjwm"} : Begins(outputs[p], text)
  /\ \E h : Begins(h, text) /\ outputs["lzjwm.py -d"] = h \o h

LEMMA SettledStays ==
  ASSUME Settled, UNCHANGED <<text, disk, outputs>> PROVE Settled'
BY DEF Settled, Begins

(* A program that leaves the beginning of the text.                        *)
LEMMA SettledByOutput ==
  ASSUME Settled, UNCHANGED <<text, disk>>,
         NEW p \in {"lzjwm -d", "lzjwm -S", "tiny_lzjwm"}, NEW b, Begins(b, text),
         outputs' = [outputs EXCEPT ![p] = b]
  PROVE  Settled'
<1>1. DOMAIN outputs = Programs /\ p \in Programs
  BY DEF Settled, Programs
<1>2. /\ DOMAIN outputs' = Programs /\ outputs'[p] = b
      /\ \A q \in Programs : q # p => outputs'[q] = outputs[q]
  BY <1>1
<1>3. \A q \in {"lzjwm -d", "lzjwm -S", "tiny_lzjwm"} : Begins(outputs'[q], text')
  <2> SUFFICES ASSUME NEW q \in {"lzjwm -d", "lzjwm -S", "tiny_lzjwm"}
               PROVE  Begins(outputs'[q], text)
    BY DEF Begins
  <2>1. q \in Programs /\ Begins(outputs[q], text)
    BY DEF Settled, Programs
  <2> QED  BY <1>2, <2>1
<1>4. outputs'["lzjwm.py -d"] = outputs["lzjwm.py -d"]
  BY <1>2 DEF Programs
<1> QED  BY <1>2, <1>3, <1>4 DEF Settled, Begins

LEMMA SettledByPython ==
  ASSUME Settled, UNCHANGED <<text, disk>>, NEW h, Begins(h, text),
         outputs' = [outputs EXCEPT !["lzjwm.py -d"] = h \o h]
  PROVE  Settled'
<1>1. DOMAIN outputs = Programs /\ "lzjwm.py -d" \in Programs
  BY DEF Settled, Programs
<1>2. /\ DOMAIN outputs' = Programs /\ outputs'["lzjwm.py -d"] = h \o h
      /\ \A q \in Programs : q # "lzjwm.py -d" => outputs'[q] = outputs[q]
  BY <1>1
<1>3. \A q \in {"lzjwm -d", "lzjwm -S", "tiny_lzjwm"} : outputs'[q] = outputs[q]
  BY <1>2 DEF Programs
<1>4. \A q \in {"lzjwm -d", "lzjwm -S", "tiny_lzjwm"} : Begins(outputs'[q], text')
  BY <1>3 DEF Settled
<1>5. Begins(h, text') /\ outputs'["lzjwm.py -d"] = h \o h
  BY <1>2
<1>6. text' \in Inputs /\ CP!Spells(disk', text')
  BY DEF Settled
<1>7. \E g : Begins(g, text') /\ outputs'["lzjwm.py -d"] = g \o g
  BY <1>5
<1>8. DOMAIN outputs' = Programs
  BY <1>2
<1>9. UNCHANGED <<text, disk>>
  OBVIOUS
<1> QED  BY ONLY <1>4, <1>6, <1>7, <1>8, <1>9 DEF Settled

(* The next program starts to read.                                        *)
LEMMA ExitReads ==
  ASSUME NEW p, NEW b, NEW next, NEW contents \in Seq(C!Byte), Exit(p, b, next, contents)
  PROVE  /\ BInv' /\ call'.function = "rb_fread" /\ Received' = contents
         /\ file'.bytes = contents /\ text' = text
         /\ program' = next /\ phase' = "read"
<1>1. /\ rb' = RB_BLANK /\ call' = rb_fread(RB_BLANK, SIZE_MAX) /\ file' = File(contents)
  BY DEF Exit
<1>2. IsSequence(contents)
  BY DEF IsSequence
<1>3. BInv' /\ text' = text /\ program' = next /\ phase' = "read" /\ file'.bytes = contents
  BY <1>2, ExitBegins
<1>4. call'.function = "rb_fread"
  BY <1>1 DEF rb_fread, Call
<1>5. Received' = contents
  <2>1. Contents(rb)' = << >>
    <3>1. Contents(rb)' = Contents(RB_BLANK)
      BY <1>1 DEF Contents
    <3> QED  BY <3>1, HeldCalls
  <2>2. Left' = contents
    BY <1>1, <1>3 DEF Left, File
  <2> QED  BY <2>1, <2>2, ConcatEmptySeq DEF Received
<1> QED  BY <1>3, <1>4, <1>5

(* Writing starts.                                                         *)
LEMMA WritesOutput ==
  ASSUME NEW r, HeldBytes(r), BeginWrite(r)
  PROVE  /\ BInv' /\ call'.function = "rb_fwrite" /\ Contents(rb)' = Contents(r)
         /\ Begins(file'.bytes, Contents(rb)') /\ phase' = "write"
<1>1. rb' = r /\ call' = rb_fwrite(r, SIZE_MAX) /\ file' = File(<< >>) /\ phase' = "write"
  BY DEF BeginWrite
<1>2. IsBuffer(r) /\ Contents(r) \in Seq(C!Byte)
  BY HeldFacts
<1>3. BInv'
  BY <1>2, WritingBegins
<1>4. call'.function = "rb_fwrite"
  BY <1>1 DEF rb_fwrite, Call
<1>5. file'.bytes = << >> /\ Contents(rb)' = Contents(r)
  BY <1>1, FileFields DEF Contents
<1>6. Begins(<< >>, Contents(r))
  BY <1>2, BeginsFacts
<1> QED  BY <1>1, <1>3, <1>4, <1>5, <1>6

-----------------------------------------------------------------------------
(* The decoders, on what the bytes that a program reads stand for.         *)
BD == INSTANCE BufferedDecoderProofs WITH
        Streams <- CountedStreams, Modes <- {"sized"}, mode <- "sized",
        stream <- Spelled(Contents(rb), text), pc <- pos, size <- dsize, i <- k

SD == INSTANCE StreamDecoderProofs WITH
        Streams <- CountedStreams, Modes <- {"sized"}, mode <- "sized",
        stream <- Spelled(Contents(rb), text), input_size <- rb.len, pc <- pos, out <- sent

PD == INSTANCE RandomAccessProofs WITH
        Streams <- {}, Limits <- Nat, stream <- Joined(disk, text),
        from <- 0, limit <- SIZE_MAX + 1, pc <- pos, out <- sent, program <- "python"

TD == INSTANCE RandomAccessProofs WITH
        Streams <- {}, Limits <- Nat, stream <- Spelled(BeforeNul(data), text),
        from <- 0, limit <- S!unsigned(-1), pc <- pos, out <- sent, program <- "tiny"

(* The assumptions of these instances.                                     *)
LEMMA SameStreams ==
  \A st : /\ BD!IsStream(st) <=> CP!IsStream(st)
          /\ SD!IsStream(st) <=> CP!IsStream(st)
          /\ PD!IsStream(st) <=> CP!IsStream(st)
          /\ TD!IsStream(st) <=> CP!IsStream(st)
<1>1. ASSUME NEW st PROVE BD!IsStream(st) <=> CP!IsStream(st)
  BY DEF BD!IsStream, CP!IsStream, BD!DecodesVia, CP!DecodesVia, BD!Byte, CP!Byte,
         BD!FLAG, CP!FLAG, BD!IsPointer, CP!IsPointer, BD!count, CP!count,
         BD!Source, CP!Source, BD!get_offset, CP!get_offset,
         BD!IsZeroOffset, CP!IsZeroOffset, BD!ZeroPage, CP!ZeroPage,
         BD!ZeroShift, CP!ZeroShift
<1>2. ASSUME NEW st PROVE SD!IsStream(st) <=> CP!IsStream(st)
  BY DEF SD!IsStream, CP!IsStream, SD!DecodesVia, CP!DecodesVia, SD!Byte, CP!Byte,
         SD!FLAG, CP!FLAG, SD!IsPointer, CP!IsPointer, SD!count, CP!count,
         SD!Source, CP!Source, SD!get_offset, CP!get_offset,
         SD!IsZeroOffset, CP!IsZeroOffset, SD!ZeroPage, CP!ZeroPage,
         SD!ZeroShift, CP!ZeroShift
<1>3. ASSUME NEW st PROVE PD!IsStream(st) <=> CP!IsStream(st)
  BY DEF PD!IsStream, CP!IsStream, PD!DecodesVia, CP!DecodesVia, PD!Byte, CP!Byte,
         PD!FLAG, CP!FLAG, PD!IsPointer, CP!IsPointer, PD!count, CP!count,
         PD!Source, CP!Source, PD!get_offset, CP!get_offset,
         PD!IsZeroOffset, CP!IsZeroOffset, PD!ZeroPage, CP!ZeroPage,
         PD!ZeroShift, CP!ZeroShift
<1>4. ASSUME NEW st PROVE TD!IsStream(st) <=> CP!IsStream(st)
  BY DEF TD!IsStream, CP!IsStream, TD!DecodesVia, CP!DecodesVia, TD!Byte, CP!Byte,
         TD!FLAG, CP!FLAG, TD!IsPointer, CP!IsPointer, TD!count, CP!count,
         TD!Source, CP!Source, TD!get_offset, CP!get_offset,
         TD!IsZeroOffset, CP!IsZeroOffset, TD!ZeroPage, CP!ZeroPage,
         TD!ZeroShift, CP!ZeroShift
<1> QED  BY <1>1, <1>2, <1>3, <1>4

LEMMA DecoderAssumptions ==
  /\ \A st \in CountedStreams : BD!IsStream(st) /\ Len(st.enc) < UINT_MAX
  /\ \A st \in CountedStreams : SD!IsStream(st) /\ Len(st.text) + 1 < UINT_MAX
  /\ UINT_MAX \in Nat /\ UINT_MAX > SD!MAX_ZERO_MATCH
  /\ {"sized"} \subseteq {"sized", "terminated"} /\ "terminated" \notin {"sized"}
<1>1. UINT_MAX \in Nat /\ UINT_MAX > SD!MAX_ZERO_MATCH
  BY LengthAssumption, NoZeroPage, RoundTripAssumption DEF SD!MAX_ZERO_MATCH
<1>2. ASSUME NEW st \in CountedStreams PROVE Len(st.enc) < UINT_MAX
  <2>1. /\ CP!IsStream(st) /\ Len(st.text) + 1 < UINT_MAX
        /\ st.enc \in Seq(C!Byte) /\ st.text \in Seq(C!Byte)
    BY DEF CountedStreams, AllStreams
  <2>2. Len(st.enc) <= Len(st.text)
    BY <2>1, Format, CP!StreamFacts
  <2>3. Len(st.enc) \in Nat /\ Len(st.text) \in Nat
    BY <2>1, LenProperties
  <2> QED  BY <1>1, <2>1, <2>2, <2>3
<1> QED  BY <1>1, <1>2, SameStreams DEF AllStreams, CountedStreams

LEMMA JoinedIs ==
  ASSUME NEW t \in Seq(C!Byte), NEW e \in Seq(C!Byte), CP!Spells(e, t)
  PROVE  LET st == Joined(e, t) IN
         /\ CP!IsStream(st) /\ PD!IsStream(st)
         /\ st.enc = e \o e /\ st.text = Spelled(e, t).text \o Spelled(e, t).text
<1> DEFINE st == Spelled(e, t)
           both == [enc |-> st.enc \o st.enc, text |-> st.text \o st.text,
                    start |-> CP!Starts(st.enc \o st.enc)]
<1>1. CP!IsStream(st) /\ st.enc = e /\ st.start = CP!Starts(st.enc)
  BY SpelledIs
<1> HIDE DEF st
<1>2. CP!IsStream(both)
  BY <1>1, Format, CP!StreamsJoin
<1>3. both = Joined(e, t)
  BY <1>1 DEF Joined, st
<1>4. both.enc = e \o e /\ both.text = st.text \o st.text
  BY <1>1
<1> HIDE DEF both
<1> QED  BY <1>2, <1>3, <1>4, SameStreams DEF st

-----------------------------------------------------------------------------
(* The decoders of the programs are those of these instances.              *)
LEMMA SameBytes ==
  \A c : /\ B!count(c) = BD!count(c) /\ B!get_offset(c) = BD!get_offset(c)
         /\ S!count(c) = SD!count(c) /\ S!get_offset(c) = SD!get_offset(c)
         /\ P!count(c) = PD!P!count(c) /\ P!get_offset(c) = PD!P!get_offset(c)
         /\ T!count(c) = TD!count(c) /\ T!get_offset(c) = TD!get_offset(c)
         /\ P!IsPointer(c) <=> PD!P!IsPointer(c)
         /\ T!IsPointer(c) <=> TD!IsPointer(c)
<1> SUFFICES ASSUME NEW c
             PROVE  /\ B!count(c) = BD!count(c) /\ B!get_offset(c) = BD!get_offset(c)
                    /\ S!count(c) = SD!count(c) /\ S!get_offset(c) = SD!get_offset(c)
                    /\ P!count(c) = PD!P!count(c) /\ P!get_offset(c) = PD!P!get_offset(c)
                    /\ T!count(c) = TD!count(c) /\ T!get_offset(c) = TD!get_offset(c)
                    /\ P!IsPointer(c) <=> PD!P!IsPointer(c)
                    /\ T!IsPointer(c) <=> TD!IsPointer(c)
  OBVIOUS
<1>1. B!count(c) = BD!count(c) /\ B!get_offset(c) = BD!get_offset(c)
  BY DEF B!count, B!get_offset, B!IsPointer, B!IsZeroOffset, B!FLAG, B!ZeroPage,
         B!ZeroShift, BD!count, BD!get_offset, BD!IsPointer, BD!IsZeroOffset, BD!FLAG,
         BD!ZeroPage, BD!ZeroShift
<1>2. S!count(c) = SD!count(c) /\ S!get_offset(c) = SD!get_offset(c)
  BY DEF S!count, S!get_offset, S!IsPointer, S!IsZeroOffset, S!FLAG, S!ZeroPage,
         S!ZeroShift, SD!count, SD!get_offset, SD!IsPointer, SD!IsZeroOffset, SD!FLAG,
         SD!ZeroPage, SD!ZeroShift
<1>3. /\ P!count(c) = PD!P!count(c) /\ P!get_offset(c) = PD!P!get_offset(c)
      /\ P!IsPointer(c) <=> PD!P!IsPointer(c)
  BY DEF P!count, P!get_offset, P!IsPointer, P!IsZeroOffset, P!FLAG, P!ZeroPage,
         P!ZeroShift, PD!P!count, PD!P!get_offset, PD!P!IsPointer, PD!P!IsZeroOffset,
         PD!P!FLAG, PD!P!ZeroPage, PD!P!ZeroShift
<1>4. /\ T!count(c) = TD!count(c) /\ T!get_offset(c) = TD!get_offset(c)
      /\ T!IsPointer(c) <=> TD!IsPointer(c)
  BY DEF T!count, T!get_offset, T!IsPointer, T!IsZeroOffset, T!FLAG, T!ZeroPage,
         T!ZeroShift, TD!count, TD!get_offset, TD!IsPointer, TD!IsZeroOffset, TD!FLAG,
         TD!ZeroPage, TD!ZeroShift
<1> QED  BY <1>1, <1>2, <1>3, <1>4

LEMMA BufferedSteps ==
  ASSUME B!Next, UNCHANGED <<rb, text>>
  PROVE  BD!Next
<1>1. /\ Spelled(Contents(rb), text).enc = Contents(rb)
      /\ Spelled(Contents(rb), text)' = Spelled(Contents(rb), text)
  BY DEF Spelled, Contents
<1>2. /\ B!isize = BD!isize /\ B!Memory = BD!Memory
      /\ \A p : /\ B!At(p) = BD!At(p) /\ (B!InMemory(p) <=> BD!InMemory(p))
                /\ B!MoreToSize(p) <=> BD!MoreToSize(p)
                /\ B!MoreToDecode(p) <=> BD!MoreToDecode(p)
      /\ \A c : B!Breaks(c) <=> BD!Breaks(c)
  <2>1. B!isize = BD!isize
    BY <1>1 DEF B!isize, BD!isize
  <2>2. B!Memory = BD!Memory
    BY <1>1, <2>1 DEF B!Memory, BD!Memory
  <2>3. \A p : B!At(p) = BD!At(p) /\ (B!InMemory(p) <=> BD!InMemory(p))
    BY <2>2 DEF B!At, BD!At, B!InMemory, BD!InMemory
  <2>4. \A p : /\ B!MoreToSize(p) <=> BD!MoreToSize(p)
               /\ B!MoreToDecode(p) <=> BD!MoreToDecode(p)
    BY <2>1, <2>3 DEF B!MoreToSize, BD!MoreToSize, B!MoreToDecode, BD!MoreToDecode,
                      B!unsigned, BD!unsigned
  <2>5. \A c : B!Breaks(c) <=> BD!Breaks(c)
    BY <2>1 DEF B!Breaks, BD!Breaks
  <2> QED  BY <2>1, <2>2, <2>3, <2>4, <2>5
<1>3. B!Uninit = BD!Uninit
  BY DEF B!Uninit, BD!Uninit
<1>4. /\ B!AddCount => BD!AddCount
      /\ B!Allocate => BD!Allocate
  BY <1>1, <1>2, <1>3, SameBytes DEF B!AddCount, BD!AddCount, B!Allocate, BD!Allocate,
                                     B!Buffer, BD!Buffer
<1>5. /\ B!Literally => BD!Literally
      /\ B!Pointer => BD!Pointer
  BY <1>1, <1>2, SameBytes DEF B!Literally, BD!Literally, B!Pointer, BD!Pointer,
                               B!Fetched, BD!Fetched
<1>6. /\ B!Rewind => BD!Rewind
      /\ B!StartCopy => BD!StartCopy
  BY <1>1, <1>2, SameBytes DEF B!Rewind, BD!Rewind, B!StepBack, BD!StepBack,
                               B!StartCopy, BD!StartCopy
<1>7. /\ B!Copy => BD!Copy
      /\ B!EndCopy => BD!EndCopy
      /\ B!Break => BD!Break
      /\ B!Return => BD!Return
  BY <1>1, <1>2 DEF B!Copy, BD!Copy, B!CopyAt, BD!CopyAt, B!EndCopy, BD!EndCopy,
                    B!Break, BD!Break, B!Return, BD!Return
<1> QED  BY <1>4, <1>5, <1>6, <1>7 DEF B!Next, BD!Next

LEMMA StreamSteps ==
  ASSUME S!Next, UNCHANGED <<rb, text>>
  PROVE  SD!Next
<1>1. /\ Spelled(Contents(rb), text).enc = Contents(rb)
      /\ Spelled(Contents(rb), text)' = Spelled(Contents(rb), text)
      /\ rb.len' = rb.len
  BY DEF Spelled, Contents
<1>2. /\ S!Memory = SD!Memory /\ S!Depth = SD!Depth /\ S!Top = SD!Top
      /\ S!ch = SD!ch /\ (S!Looping <=> SD!Looping) /\ (S!Reading <=> SD!Reading)
      /\ \A p, n : S!Call(p, n) = SD!Call(p, n)
      /\ S!Back = SD!Back
  BY <1>1, SameBytes DEF S!Memory, SD!Memory, S!Depth, SD!Depth, S!Top, SD!Top, S!ch, SD!ch,
    S!Looping, SD!Looping, S!Reading, SD!Reading, S!Call, SD!Call, S!Back, SD!Back,
    S!unsigned, SD!unsigned
<1>3. S!Literally => SD!Literally
  BY <1>1, <1>2, SameBytes DEF S!Literally, SD!Literally
<1>4. S!Recurse => SD!Recurse
  BY <1>1, <1>2, SameBytes DEF S!Recurse, SD!Recurse, S!Enter, SD!Enter
<1>5. S!Jump => SD!Jump
  BY <1>1, <1>2, SameBytes DEF S!Jump, SD!Jump, S!GoTo, SD!GoTo
<1>6. S!ReadPast => SD!ReadPast
  BY <1>1, <1>2 DEF S!ReadPast, SD!ReadPast
<1>7. S!Return => SD!Return
  BY <1>1, <1>2 DEF S!Return, SD!Return, S!Leave, SD!Leave
<1> QED  BY <1>3, <1>4, <1>5, <1>6, <1>7 DEF S!Next, SD!Next

LEMMA PythonSteps ==
  ASSUME P!Next, UNCHANGED <<disk, text>>
  PROVE  PD!P!Next
<1>1. /\ Joined(disk, text).enc = disk \o disk
      /\ Joined(disk, text)' = Joined(disk, text)
  BY DEF Joined, Spelled
<1>2. P!s = PD!P!s /\ P!slen = PD!P!slen /\ P!Depth = PD!P!Depth /\ P!Top = PD!P!Top
  BY <1>1 DEF P!s, PD!P!s, P!slen, PD!P!slen, P!Depth, PD!P!Depth, P!Top, PD!P!Top
<1>3. P!ch = PD!P!ch /\ (P!Looping <=> PD!P!Looping)
  BY <1>2 DEF P!ch, PD!P!ch, P!Looping, PD!P!Looping
<1>4. /\ P!Back = PD!P!Back
      /\ \A p, n : P!Call(p, n) = PD!P!Call(p, n)
  BY <1>2, <1>3, SameBytes DEF P!Back, PD!P!Back, P!Call, PD!P!Call
<1>5. P!Literally => PD!P!Literally
  BY <1>1, <1>2, <1>3, SameBytes DEF P!Literally, PD!P!Literally
<1>6. P!Recurse => PD!P!Recurse
  BY <1>1, <1>2, <1>3, <1>4, SameBytes DEF P!Recurse, PD!P!Recurse, P!Enter, PD!P!Enter
<1>7. P!Jump => PD!P!Jump
  BY <1>1, <1>2, <1>3, <1>4, SameBytes DEF P!Jump, PD!P!Jump, P!GoTo, PD!P!GoTo
<1>8. P!Return => PD!P!Return
  BY <1>1, <1>2 DEF P!Return, PD!P!Return, P!Leave, PD!P!Leave
<1> QED  BY <1>5, <1>6, <1>7, <1>8 DEF P!Next, PD!P!Next

(* tiny_lzjwm does not see what is behind the first NUL.                   *)
LEMMA TinySteps ==
  ASSUME data \in Seq(C!Byte), TD!TInv, T!Next, UNCHANGED <<data, text>>
  PROVE  TD!Next
<1> DEFINE n == FirstNul(data)
           e == BeforeNul(data)
<1>1. /\ Spelled(e, text).enc = e
      /\ Spelled(e, text)' = Spelled(e, text)
  BY DEF Spelled
<1>2. /\ n \in 0 .. Len(data) /\ Len(e) = n /\ e \in Seq(C!Byte) /\ Len(data) \in Nat
      /\ \A q \in 1 .. n : e[q] = data[q] /\ data[q] # 0
      /\ n # Len(data) => data[n + 1] = 0
  BY NulFacts, LenProperties DEF Begins
<1>3. T!Depth = TD!Depth /\ T!Top = TD!Top /\ TD!Top.location \in 0 .. n
  <2>1. TD!Top.location \in 0 .. Len(Spelled(e, text).enc)
    BY Format, TD!TinyInside, NoZeroPage
  <2> QED  BY <1>1, <1>2, <2>1 DEF T!Depth, TD!Depth, T!Top, TD!Top
<1>4. ASSUME NEW p \in 0 .. n
      PROVE  Append(data, 0)[p + 1] = Append(e, 0)[p + 1] /\ p \in 0 .. Len(data)
  <2>1. CASE p # n
    <3>1. p + 1 \in 1 .. Len(data) /\ p + 1 \in 1 .. Len(e)
      BY <1>2, <2>1
    <3>2. Append(data, 0)[p + 1] = data[p + 1] /\ Append(e, 0)[p + 1] = e[p + 1]
      BY <1>2, <3>1
    <3> QED  BY <1>2, <3>1, <3>2
  <2>2. CASE p = n
    <3>1. Append(e, 0)[p + 1] = 0
      BY <1>2, <2>2
    <3>2. CASE n = Len(data)
      BY <1>2, <2>2, <3>1, <3>2
    <3>3. CASE n # Len(data)
      <4>1. p + 1 \in 1 .. Len(data)
        BY <1>2, <2>2, <3>3
      <4>2. Append(data, 0)[p + 1] = data[p + 1]
        BY <4>1
      <4> QED  BY <1>2, <2>2, <3>1, <3>3, <4>2
    <3> QED  BY <3>2, <3>3
  <2> QED  BY <1>2, <2>1, <2>2
<1> HIDE DEF n, e
<1>5. T!Top.location \in 0 .. Len(data) /\ TD!Top.location \in 0 .. Len(e)
  BY <1>2, <1>3, <1>4
<1>6. T!ch = TD!ch
  <2>1. T!ch = Append(data, 0)[TD!Top.location + 1]
    BY <1>3 DEF T!ch, T!data
  <2>2. TD!ch = Append(e, 0)[TD!Top.location + 1]
    BY <1>1 DEF TD!ch, TD!data, e
  <2> QED  BY <1>3, <1>4, <2>1, <2>2
<1>7. Spelled(BeforeNul(data), text).enc = e /\ UNCHANGED Spelled(BeforeNul(data), text)
  BY <1>1 DEF e
<1>8. T!Looping <=> TD!Looping
  BY <1>3, <1>5, <1>6, <1>7 DEF T!Looping, TD!Looping
<1>9. T!nloc = TD!nloc /\ \A p, c : T!Call(p, c) = TD!Call(p, c)
  BY <1>3, <1>6, SameBytes DEF T!nloc, TD!nloc, T!Call, TD!Call
<1>10. T!Literally => TD!Literally
  BY <1>3, <1>6, <1>7, <1>8, SameBytes DEF T!Literally, TD!Literally
<1>11. T!Recurse => TD!Recurse
  BY <1>3, <1>6, <1>7, <1>8, <1>9, SameBytes DEF T!Recurse, TD!Recurse, T!Enter, TD!Enter
<1>12. T!Jump => TD!Jump
  BY <1>3, <1>6, <1>7, <1>8, <1>9, SameBytes DEF T!Jump, TD!Jump, T!GoTo, TD!GoTo
<1>13. T!Return => TD!Return
  BY <1>3, <1>5, <1>6, <1>7 DEF T!Return, TD!Return
<1> QED  BY <1>10, <1>11, <1>12, <1>13 DEF T!Next, TD!Next

(* The invariants of the decoders, step by step.                           *)
LEMMA BufferedKeeps ==
  ASSUME BD!BInv, B!Next, UNCHANGED <<rb, text>> PROVE BD!BInv'
<1>1. [BD!Next]_(BD!vars)
  BY BufferedSteps
<1> QED  BY <1>1, Format, DecoderAssumptions, BD!StepBInv

LEMMA StreamKeeps ==
  ASSUME SD!TInv, S!Next, UNCHANGED <<rb, text>> PROVE SD!TInv'
<1>1. [SD!Next]_(SD!vars)
  BY StreamSteps
<1> QED  BY <1>1, Format, DecoderAssumptions, SD!StepTInv

LEMMA PythonKeeps ==
  ASSUME PD!PInv, P!Next, UNCHANGED <<disk, text>> PROVE PD!PInv'
<1>1. [PD!P!Next]_(PD!P!vars)
  BY PythonSteps
<1> QED  BY <1>1, Format, NoZeroPage, PD!StepPInv

LEMMA TinyKeeps ==
  ASSUME data \in Seq(C!Byte), TD!TInv, T!Next, UNCHANGED <<data, text>> PROVE TD!TInv'
<1>1. [TD!Next]_(TD!vars)
  BY TinySteps
<1> QED  BY <1>1, Format, NoZeroPage, TD!StepTInv

-----------------------------------------------------------------------------
(* What holds when a decoder starts, and of what it has put out.           *)
LEMMA SameLiterals ==
  \A s : (s \in Seq(SD!Literal) \/ s \in Seq(PD!Byte) \/ s \in Seq(TD!Byte)) => s \in Seq(C!Byte)
<1>1. SD!Literal \subseteq C!Byte /\ PD!Byte = C!Byte /\ TD!Byte = C!Byte
  <2>1. 2 ^ PAYLOAD_BITS \in Nat
    <3>1. PAYLOAD_BITS \in 0 .. 7
      BY RoundTripAssumption
    <3> QED  BY <3>1, Format, CP!Powers
  <2>2. \A f \in Nat : 0 .. (f - 1) \subseteq 0 .. (2 * f - 1)
    OBVIOUS
  <2>3. SD!Literal = 0 .. (2 ^ PAYLOAD_BITS - 1)
    BY DEF SD!Literal, SD!FLAG
  <2>4. C!Byte = 0 .. (2 * 2 ^ PAYLOAD_BITS - 1)
    BY ByteRange
  <2>5. SD!Literal \subseteq C!Byte
    BY <2>1, <2>2, <2>3, <2>4
  <2> QED  BY <2>5 DEF PD!Byte, PD!FLAG, TD!Byte, TD!FLAG, C!Byte, C!FLAG
<1> QED  BY <1>1, SeqMonotonic

LEMMA BufferedBegins ==
  ASSUME Spelled(Contents(rb), text) \in CountedStreams,
         pos = "size", dsize = 0, cells = << >>, iptr = 0, len = 0, fsize = 0, outf = 0, k = 0
  PROVE  BD!BInv
<1>1. BD!Init
  BY DEF BD!Init
<1> QED  BY <1>1, Format, DecoderAssumptions, BD!InitBInv

LEMMA BufferedEnds ==
  ASSUME BD!BInv, pos = "done", text \in Seq(C!Byte), Contents(rb) \in Seq(C!Byte),
         CP!Spells(Contents(rb), text)
  PROVE  Begins(cells, text) /\ dsize = Len(cells)
<1> DEFINE st == Spelled(Contents(rb), text)
<1>1. CP!IsStream(st) /\ Begins(st.text, text)
  BY SpelledIs
<1>2. /\ dsize = Len(st.text)
      /\ cells \in Seq(BD!Literal \cup {BD!Uninit}) /\ Len(cells) = Len(st.text)
      /\ fsize = Len(st.text)
      /\ \A q \in 1 .. BD!Filled : cells[q] = st.text[q]
      /\ BD!Filled = fsize
  BY DEF BD!BInv, BD!Allocated, BD!Fetching, BD!Decoded, BD!Filled
<1> HIDE DEF st
<1>3. \A q \in 1 .. Len(st.text) : cells[q] = st.text[q]
  BY <1>2
<1>4. st.text \in Seq(C!Byte)
  BY <1>1 DEF Begins
<1>5. cells = st.text
  <2> DEFINE u == st.text
             V == BD!Literal \cup {BD!Uninit}
  <2>1. /\ cells \in Seq(V) /\ u \in Seq(C!Byte) /\ Len(cells) = Len(u) /\ Len(u) \in Nat
        /\ \A q \in 1 .. Len(u) : cells[q] = u[q]
    BY <1>2, <1>3, <1>4, LenProperties
  <2> HIDE DEF u, V
  <2>2. /\ cells = [q \in 1 .. Len(cells) |-> cells[q]]
        /\ u = [q \in 1 .. Len(u) |-> u[q]]
    BY <2>1
  <2>3. cells = u
    BY <2>1, <2>2
  <2> QED  BY <2>3 DEF u
<1> QED  BY <1>1, <1>2, <1>5

LEMMA StreamBegins == SD!Init' => SD!TInv'
<1>1. SD!Init => SD!TInv
  BY Format, DecoderAssumptions, SD!InitTInv
<1> QED  BY <1>1, PTL

LEMMA StreamSends ==
  ASSUME SD!TInv, text \in Seq(C!Byte), Contents(rb) \in Seq(C!Byte),
         CP!Spells(Contents(rb), text)
  PROVE  Begins(sent, text)
<1>1. SD!Within
  BY DEF SD!TInv, SD!Past
<1>2. /\ sent \in Seq(C!Byte) /\ Len(sent) <= Len(Spelled(Contents(rb), text).text)
      /\ \A q \in 1 .. Len(sent) : sent[q] = Spelled(Contents(rb), text).text[q]
  BY <1>1, SameLiterals DEF SD!Within, SD!Agrees, SD!TInv, SD!SInv, SD!TypeOK
<1> QED  BY <1>2, BeginsSpelled

LEMMA PythonBegins ==
  ASSUME text \in Seq(C!Byte), disk \in Seq(C!Byte), CP!Spells(disk, text),
         pos = "run", sent = << >>, stack = << P!Call(0, SIZE_MAX + 1) >>
  PROVE  PD!PInv
<1>1. PD!IsStream(Joined(disk, text)) /\ CP!IsStream(Joined(disk, text))
  BY JoinedIs
<1>2. 0 \in 0 .. Len(Joined(disk, text).enc)
  BY <1>1, Format, CP!StreamFacts
<1>3. SIZE_MAX + 1 \in Nat
  BY SizesAreNat
<1>4. stack = << PD!P!Call(0, SIZE_MAX + 1) >>
  BY DEF P!Call, PD!P!Call
<1> QED  BY <1>1, <1>2, <1>3, <1>4, Format, NoZeroPage, PD!PyBegins

LEMMA PythonEnds ==
  ASSUME PD!PInv, pos = "done", text \in Seq(C!Byte), disk \in Seq(C!Byte),
         CP!Spells(disk, text), 2 * Len(text) <= SIZE_MAX + 1
  PROVE  \E h : Begins(h, text) /\ sent = h \o h
<1> DEFINE st == Joined(disk, text)
           h == Spelled(disk, text).text
<1>1. CP!IsStream(st) /\ st.text = h \o h
  BY JoinedIs
<1>2. Begins(h, text) /\ h \in Seq(C!Byte) /\ Len(h) \in Nat
  BY SpelledIs, LenProperties DEF Begins
<1>3. PD!Delivering(st, PD!First, PD!Bound, PD!Calls(stack), sent)
  BY DEF PD!PInv
<1>4. PD!Position = PD!Bound \/ PD!Position = Len(st.text)
  BY DEF PD!PInv
<1>5. PD!First = st.start[0] /\ st.start[0] = 0
  BY <1>1, Format, CP!StreamFacts DEF PD!First
<1>6. PD!Position = Len(sent) /\ PD!Bound = SIZE_MAX + 1
  <2>1. PD!Position = 0 + Len(sent) /\ PD!Bound = 0 + (SIZE_MAX + 1)
    BY <1>5 DEF PD!Position, PD!Bound
  <2>2. sent \in Seq(PD!Byte) /\ Len(sent) \in Nat
    BY <1>3, LenProperties DEF PD!Delivering
  <2> QED  BY <2>1, <2>2, SizesAreNat
<1> HIDE DEF st, h
<1>7. /\ sent \in Seq(PD!Byte) /\ 0 + Len(sent) <= Len(st.text)
      /\ \A q \in 1 .. Len(sent) : sent[q] = st.text[0 + q]
  BY <1>3, <1>5 DEF PD!Delivering
<1>8. sent \in Seq(C!Byte) /\ Len(sent) \in Nat
  BY <1>7, SameLiterals, LenProperties
<1>9. st.text \in Seq(C!Byte) /\ Len(st.text) = Len(h) + Len(h)
  BY <1>1, <1>2, JoinedBytes
<1>10. Len(st.text) <= SIZE_MAX + 1
  <2>1. Len(h) <= Len(text) /\ Len(text) \in Nat
    BY <1>2, LenProperties DEF Begins
  <2> QED  BY <1>2, <1>9, <2>1, SizesAreNat
<1>11. Len(sent) = Len(st.text)
  BY <1>2, <1>4, <1>6, <1>7, <1>8, <1>9, <1>10, SizesAreNat
<1>12. \A q \in 1 .. Len(sent) : sent[q] = st.text[q]
  <2>1. \A q \in 1 .. Len(sent) : 0 + q = q
    BY <1>8
  <2> QED  BY <1>7, <2>1
<1>13. sent = st.text
  BY <1>8, <1>9, <1>11, <1>12
<1> QED  BY <1>1, <1>2, <1>13

LEMMA TinyStarts ==
  ASSUME text \in Seq(C!Byte), data \in Seq(C!Byte), CP!Spells(data, text),
         pos = "run", sent = << >>, stack = << T!Call(0, S!unsigned(-1)) >>
  PROVE  TD!TInv
<1> DEFINE e == BeforeNul(data)
           st == Spelled(e, text)
<1>1. /\ Begins(e, data) /\ Len(e) = FirstNul(data)
      /\ \A q \in 1 .. FirstNul(data) : e[q] = data[q] /\ data[q] # 0
  BY NulFacts
<1>2. e \in Seq(C!Byte) /\ CP!Spells(e, text)
  BY <1>1, CutSpells DEF Begins
<1> HIDE DEF e
<1>3. CP!IsStream(st) /\ TD!IsStream(st) /\ st.enc = e
  BY <1>2, SpelledIs, SameStreams
<1> HIDE DEF st
<1>4. (\A p \in 1 .. Len(st.enc) : st.enc[p] # 0) /\ 0 \in 0 .. Len(st.enc)
  BY <1>1, <1>2, <1>3, LenProperties
<1>5. S!unsigned(-1) \in Nat
  <2>1. \A u \in Nat : (-1) % (u + 1) \in Nat
    OBVIOUS
  <2> QED  BY <2>1, LengthAssumption DEF S!unsigned
<1>6. stack = << TD!Call(0, S!unsigned(-1)) >>
  BY DEF T!Call, TD!Call
<1> QED  BY <1>3, <1>4, <1>5, <1>6, Format, NoZeroPage, TD!TinyBegins DEF st, e

LEMMA TinySends ==
  ASSUME TD!TInv, text \in Seq(C!Byte), data \in Seq(C!Byte), CP!Spells(data, text)
  PROVE  Begins(sent, text)
<1> DEFINE e == BeforeNul(data)
           st == Spelled(e, text)
<1>1. e \in Seq(C!Byte) /\ CP!Spells(e, text)
  BY NulFacts, CutSpells DEF Begins
<1> HIDE DEF e
<1>2. CP!IsStream(st)
  BY <1>1, SpelledIs
<1> HIDE DEF st
<1>3. TD!First = 0
  BY <1>2, Format, CP!StreamFacts DEF TD!First, st, e
<1>4. TD!Delivering(st, 0, TD!Bound, stack, sent)
  BY <1>3 DEF TD!TInv, st, e
<1>5. /\ sent \in Seq(C!Byte) /\ Len(sent) \in Nat /\ Len(sent) <= Len(st.text)
      /\ \A q \in 1 .. Len(sent) : sent[q] = st.text[q]
  <2>1. /\ sent \in Seq(TD!Byte) /\ 0 + Len(sent) <= Len(st.text)
        /\ \A q \in 1 .. Len(sent) : sent[q] = st.text[0 + q]
    BY <1>4 DEF TD!Delivering
  <2>2. sent \in Seq(C!Byte) /\ Len(sent) \in Nat
    BY <2>1, SameLiterals, LenProperties
  <2>3. 0 + Len(sent) = Len(sent) /\ \A q \in 1 .. Len(sent) : 0 + q = q
    BY <2>2
  <2> QED  BY <2>1, <2>2, <2>3
<1> QED  BY <1>1, <1>5, BeginsSpelled DEF st

-----------------------------------------------------------------------------
(***************************************************************************)
(* What holds while the programs run, beside RInv: what a program has in   *)
(* hand stands for the beginning of the text, and what came out is one.    *)
(***************************************************************************)

(* What the program that runs was given to read.                           *)
Original == IF program = "lzjwm -c" THEN text ELSE disk

(* What a mode of lzjwm.c has read and can still read is the beginning of  *)
(* its file, and what it has written that of what it writes.               *)
Moving ==
  program \in {"lzjwm -c", "lzjwm -d", "lzjwm -S"} =>
    /\ BInv
    /\ phase = "read" => call.function = "rb_fread" /\ Begins(Received, Original)
    /\ phase = "write" => call.function = "rb_fwrite" /\ Begins(file.bytes, Contents(rb))

(* What each program has in hand, and the invariant of its decoder.        *)
Encoding ==
  /\ In("lzjwm -c", "run") => Begins(in, text)
  /\ In("lzjwm -c", "write") => CP!Spells(Contents(rb), text)

Fresh ==
  /\ pos = "size" /\ dsize = 0 /\ cells = << >>
  /\ iptr = 0 /\ len = 0 /\ fsize = 0 /\ outf = 0 /\ k = 0

Buffered ==
  /\ program = "lzjwm -c" \/ In("lzjwm -d", "read") => Fresh
  /\ In("lzjwm -d", "run") => BD!BInv /\ CP!Spells(Contents(rb), text)
  /\ In("lzjwm -d", "write") => Begins(Contents(rb), text)

Streaming ==
  /\ program \in {"lzjwm -c", "lzjwm -d"} \/ (program = "lzjwm -S" /\ phase # "run")
       => sent = << >> /\ result = 0
  /\ In("lzjwm -S", "run") => SD!TInv /\ CP!Spells(Contents(rb), text)

Python == program = "lzjwm.py -d" => PD!PInv

TinyRuns ==
  /\ program \notin {"tiny_lzjwm", "exit"} => data = << >>
  /\ program = "tiny_lzjwm" =>
       data \in Seq(C!Byte) /\ file.bytes \in Seq(C!Byte) /\ Begins(data \o file.bytes, disk)
  /\ program = "tiny_lzjwm" /\ phase # "run" => sent = << >>
  /\ In("tiny_lzjwm", "run") => TD!TInv

PrefixInv == Settled /\ Moving /\ Encoding /\ Buffered /\ Streaming /\ Python /\ TinyRuns

-----------------------------------------------------------------------------
LEMMA PrefixInvGives == RInv /\ PrefixInv => OnlyPrefixes
<1> SUFFICES ASSUME RInv, PrefixInv PROVE OnlyPrefixes
  OBVIOUS
<1>1. text \in Seq(C!Byte) /\ disk \in Seq(C!Byte) /\ Begins(<< >>, text)
  BY BeginsFacts DEF RInv, BytesOnly
<1>2. \A p \in {"lzjwm -d", "lzjwm -S", "tiny_lzjwm"} : Prefix(outputs[p])
  BY BeginsPrefix DEF PrefixInv, Settled
<1>3. Twice(outputs["lzjwm.py -d"])
  BY BeginsTwice DEF PrefixInv, Settled
<1>4. program \in {"lzjwm -S", "tiny_lzjwm"} => Begins(sent, text)
  <2>1. CASE In("lzjwm -S", "run")
    <3>1. BInv /\ SD!TInv /\ CP!Spells(Contents(rb), text)
      BY <2>1 DEF PrefixInv, Moving, Streaming, In
    <3> QED  BY <1>1, <3>1, StreamSends, ReceivedBytes
  <2>2. CASE In("tiny_lzjwm", "run")
    <3>1. TD!TInv /\ data \in Seq(C!Byte) /\ file.bytes \in Seq(C!Byte)
          /\ Begins(data \o file.bytes, disk) /\ CP!Spells(disk, text)
      BY <2>2 DEF PrefixInv, Settled, TinyRuns, In
    <3>2. CP!Spells(data, text)
      BY <1>1, <3>1, BeginsJoin, CutSpells
    <3> QED  BY <1>1, <3>1, <3>2, TinySends
  <2>3. CASE program \in {"lzjwm -S", "tiny_lzjwm"} /\ phase # "run"
    BY <1>1, <2>3 DEF PrefixInv, Streaming, TinyRuns
  <2> QED  BY <2>1, <2>2, <2>3 DEF In
<1> QED  BY <1>2, <1>3, <1>4, BeginsPrefix DEF OnlyPrefixes

-----------------------------------------------------------------------------
LEMMA InitPrefixInv == RInit => PrefixInv
<1> SUFFICES ASSUME RInit PROVE PrefixInv
  OBVIOUS
<1>1. /\ text \in Inputs /\ disk = << >> /\ program = "lzjwm -c" /\ phase = "read"
      /\ outputs = [p \in Programs |-> << >>]
      /\ rb = RB_BLANK /\ call = rb_fread(rb, SIZE_MAX) /\ file = File(text)
      /\ Fresh /\ sent = << >> /\ result = 0 /\ data = << >>
  BY DEF RInit, Fresh
<1>2. text \in Seq(C!Byte) /\ Begins(<< >>, text) /\ Begins(text, text)
  BY <1>1, InitRInv, BeginsFacts DEF RInv, BytesOnly
<1>3. Settled
  <2>1. CP!Spells(<< >>, text)
    BY <1>2, SameFormat, Format, CP!SpellsNothing
  <2>2. << >> \o << >> = << >>
    BY EmptySeq, ConcatEmptySeq
  <2>3. \A p \in Programs : outputs[p] = << >>
    BY <1>1
  <2>4. outputs["lzjwm.py -d"] = << >> \o << >>
    BY <2>2, <2>3 DEF Programs
  <2>5. \A p \in {"lzjwm -d", "lzjwm -S", "tiny_lzjwm"} : Begins(outputs[p], text)
    BY <1>2, <2>3 DEF Programs
  <2> QED  BY <1>1, <1>2, <2>1, <2>4, <2>5 DEF Settled
<1>4. Moving
  <2>1. call.function = "rb_fread" /\ BInv
    BY <1>1, <1>2, ReadsBytes DEF rb_fread, Call, BInv
  <2>2. Received = text
    <3>1. Contents(rb) = << >> /\ Left = text
      BY <1>1, HeldCalls DEF Left, File
    <3> QED  BY <1>2, <3>1, ConcatEmptySeq DEF Received
  <2> QED  BY <1>1, <1>2, <2>1, <2>2 DEF Moving, Original
<1>5. Encoding /\ Buffered /\ Streaming /\ Python /\ TinyRuns
  BY <1>1 DEF Encoding, Buffered, Streaming, Python, TinyRuns, In
<1> QED  BY <1>3, <1>4, <1>5 DEF PrefixInv

-----------------------------------------------------------------------------
LEMMA MovingStep == RInv /\ PrefixInv /\ ReadOrWrite => PrefixInv'
<1> SUFFICES ASSUME RInv, PrefixInv, ReadOrWrite PROVE PrefixInv'
  OBVIOUS
<1>1. /\ program \in {"lzjwm -c", "lzjwm -d", "lzjwm -S"} /\ phase \in {"read", "write"}
      /\ Next
      /\ UNCHANGED <<in, pos, result, sent, dsize, cells, iptr, len, fsize, outf, k, data,
                     text, disk, program, outputs, phase>>
  BY DEF ReadOrWrite, run_vars, C_vars, R_vars, B_vars, I_vars, W_vars
<1>2. FInv /\ BInv /\ BInv'
  BY <1>1, BInvStep DEF RInv, CallsCounted, PrefixInv, Moving
<1>3. Settled'
  BY <1>1, SettledStays DEF PrefixInv
<1>4. CASE phase = "read"
  <2>1. call.function = "rb_fread" /\ Begins(Received, Original)
    BY <1>1, <1>4 DEF PrefixInv, Moving
  <2>2. call'.function = "rb_fread" /\ Begins(Received', Received)
    BY <1>1, <1>2, <2>1, ReadingStep
  <2>3. Begins(Received', Original)
    BY <2>1, <2>2, BeginsFacts
  <2>4. Original' = Original
    BY <1>1 DEF Original
  <2>5. Moving'
    BY <1>1, <1>2, <1>4, <2>2, <2>3, <2>4 DEF Moving
  <2>6. Encoding' /\ Buffered' /\ Streaming' /\ Python' /\ TinyRuns'
    BY <1>1, <1>4 DEF PrefixInv, Encoding, Buffered, Streaming, Python, TinyRuns, In, Fresh
  <2> QED  BY <1>3, <2>5, <2>6 DEF PrefixInv
<1>5. CASE phase = "write"
  <2>1. call.function = "rb_fwrite" /\ Begins(file.bytes, Contents(rb))
    BY <1>1, <1>5 DEF PrefixInv, Moving
  <2>2. call'.function = "rb_fwrite" /\ rb' = rb /\ Begins(file'.bytes, Contents(rb))
    BY <1>1, <1>2, <2>1, WritingStep
  <2>3. Contents(rb)' = Contents(rb)
    BY <2>2 DEF Contents
  <2>4. Moving'
    BY <1>1, <1>2, <1>5, <2>2, <2>3 DEF Moving
  <2>5. Encoding' /\ Buffered'
    BY <1>1, <1>5, <2>3 DEF PrefixInv, Encoding, Buffered, In, Fresh
  <2>6. Streaming' /\ Python' /\ TinyRuns'
    BY <1>1, <1>5 DEF PrefixInv, Streaming, Python, TinyRuns, In
  <2> QED  BY <1>3, <2>4, <2>5, <2>6 DEF PrefixInv
<1> QED  BY <1>1, <1>4, <1>5

LEMMA StoppingStep == PrefixInv /\ (CannotRead \/ Refuse) => PrefixInv'
<1> SUFFICES ASSUME PrefixInv, CannotRead \/ Refuse PROVE PrefixInv'
  OBVIOUS
<1>1. program' = "exit" /\ UNCHANGED <<text, disk, outputs>>
  BY DEF CannotRead, Refuse
<1>2. Settled'
  BY <1>1, SettledStays DEF PrefixInv
<1>3. Moving' /\ Encoding' /\ Buffered' /\ Streaming' /\ Python' /\ TinyRuns'
  BY <1>1 DEF Moving, Encoding, Buffered, Streaming, Python, TinyRuns, In
<1> QED  BY <1>2, <1>3 DEF PrefixInv

-----------------------------------------------------------------------------
(* lzjwm -c.                                                               *)
LEMMA EncoderStarts == RInv /\ PrefixInv /\ BeginCompress => PrefixInv'
<1> SUFFICES ASSUME RInv, PrefixInv, BeginCompress PROVE PrefixInv'
  OBVIOUS
<1>1. /\ program = "lzjwm -c" /\ phase = "read" /\ phase' = "run" /\ in' = Contents(rb)
      /\ UNCHANGED io_vars
      /\ UNCHANGED <<pos, result, sent, dsize, cells, iptr, len, fsize, outf, k, data,
                     text, disk, program, outputs>>
  BY DEF BeginCompress, HasRead, R_vars, B_vars, I_vars, W_vars
<1>2. BInv /\ Begins(Received, text)
  BY <1>1 DEF PrefixInv, Moving, Original
<1>3. Begins(Contents(rb), text)
  BY <1>2, ReceivedBytes, BeginsFacts
<1>4. Settled' /\ Moving'
  BY <1>1, <1>2, SettledStays, SameIO DEF PrefixInv, Moving
<1>5. Encoding'
  BY <1>1, <1>3 DEF Encoding, In
<1>6. Buffered' /\ Streaming' /\ Python' /\ TinyRuns'
  BY <1>1 DEF PrefixInv, Buffered, Streaming, Python, TinyRuns, In, Fresh
<1> QED  BY <1>4, <1>5, <1>6 DEF PrefixInv

LEMMA EncoderWorks == RInv /\ PrefixInv /\ Compress => PrefixInv'
<1> SUFFICES ASSUME RInv, PrefixInv, Compress PROVE PrefixInv'
  OBVIOUS
<1>1. /\ program = "lzjwm -c" /\ phase = "run" /\ in' = in
      /\ UNCHANGED io_vars
      /\ UNCHANGED <<pos, result, sent, dsize, cells, iptr, len, fsize, outf, k, data,
                     text, disk, program, outputs, phase>>
  BY CompressorSteps DEF Compress, In, R_vars, B_vars, I_vars, W_vars
<1>2. Settled' /\ Moving'
  BY <1>1, SettledStays, SameIO DEF PrefixInv, Moving
<1>3. Encoding' /\ Buffered' /\ Streaming' /\ Python' /\ TinyRuns'
  BY <1>1 DEF PrefixInv, Encoding, Buffered, Streaming, Python, TinyRuns, In, Fresh
<1> QED  BY <1>2, <1>3 DEF PrefixInv

LEMMA EncoderWrites == RInv /\ PrefixInv /\ WriteCompressed => PrefixInv'
<1> SUFFICES ASSUME RInv, PrefixInv, WriteCompressed PROVE PrefixInv'
  OBVIOUS
<1>1. /\ program = "lzjwm -c" /\ phase = "run" /\ pc = "done"
      /\ BeginWrite(Output(rb.len, out)) /\ CP!WInv /\ Begins(in, text)
      /\ Len(in) = rb.len /\ rb.len \in Nat
      /\ UNCHANGED <<pos, result, sent, dsize, cells, iptr, len, fsize, outf, k, data,
                     text, disk, program, outputs>>
  BY DEF WriteCompressed, In, R_vars, B_vars, I_vars, W_vars, RInv, CallsCounted,
         FInv, Counted, IsBuffer, EncoderRuns, PrefixInv, Encoding
<1>2. out \in Seq(C!Byte) /\ Len(out) <= rb.len
  BY <1>1, CompressorOutput
<1>3. HeldBytes(Output(rb.len, out)) /\ Contents(Output(rb.len, out)) = out
  BY <1>1, <1>2, HeldOutput
<1>4. /\ BInv' /\ call'.function = "rb_fwrite" /\ Contents(rb)' = out
      /\ Begins(file'.bytes, Contents(rb)') /\ phase' = "write"
  BY <1>1, <1>3, WritesOutput
<1>5. CP!Spells(out, text)
  BY <1>1, WrittenSpells
<1>6. Settled' /\ Moving'
  BY <1>1, <1>4, SettledStays DEF PrefixInv, Moving
<1>7. Encoding'
  <2>1. CP!Spells(Contents(rb)', text')
    BY <1>1, <1>4, <1>5
  <2> QED  BY <1>4, <2>1 DEF Encoding, In
<1>8. Buffered' /\ Streaming' /\ Python' /\ TinyRuns'
  BY <1>1, <1>4 DEF PrefixInv, Buffered, Streaming, Python, TinyRuns, In, Fresh
<1> QED  BY <1>6, <1>7, <1>8 DEF PrefixInv

LEMMA EncoderEnds == RInv /\ PrefixInv /\ Compressed => PrefixInv'
<1> SUFFICES ASSUME RInv, PrefixInv, Compressed PROVE PrefixInv'
  OBVIOUS
<1>1. /\ program = "lzjwm -c" /\ phase = "write" /\ disk' = file.bytes
      /\ Exit("lzjwm -c", file.bytes, "lzjwm -d", file.bytes)
      /\ UNCHANGED <<pos, result, sent, dsize, cells, iptr, len, fsize, outf, k, data>>
  BY DEF Compressed, HasWritten, run_vars, R_vars, B_vars, I_vars
<1>2. /\ Begins(file.bytes, Contents(rb)) /\ CP!Spells(Contents(rb), text)
      /\ text \in Seq(C!Byte) /\ file.bytes \in Seq(C!Byte)
  BY <1>1 DEF PrefixInv, Moving, Encoding, In, RInv, BytesOnly, Begins
<1>3. CP!Spells(file.bytes, text)
  BY <1>2, CutSpells
<1>4. /\ BInv' /\ call'.function = "rb_fread" /\ Received' = file.bytes
      /\ text' = text /\ program' = "lzjwm -d" /\ phase' = "read"
  BY <1>1, <1>2, ExitReads
<1>5. outputs' = [outputs EXCEPT !["lzjwm -c"] = file.bytes]
  BY <1>1 DEF Exit
<1>6. Settled'
  <2>1. \A p \in Programs : p # "lzjwm -c" => outputs'[p] = outputs[p]
    BY <1>5 DEF PrefixInv, Settled
  <2>2. DOMAIN outputs' = Programs
    BY <1>5 DEF PrefixInv, Settled
  <2>3. CP!Spells(disk', text')
    BY <1>1, <1>3, <1>4
  <2>4. \A p \in {"lzjwm -d", "lzjwm -S", "tiny_lzjwm"} : Begins(outputs'[p], text')
    BY <1>4, <2>1 DEF PrefixInv, Settled, Programs
  <2>5. outputs'["lzjwm.py -d"] = outputs["lzjwm.py -d"]
    BY <2>1 DEF Programs
  <2> QED  BY <1>4, <2>2, <2>3, <2>4, <2>5 DEF PrefixInv, Settled, Begins
<1>7. Moving'
  <2>1. Begins(Received', Original')
    BY <1>1, <1>2, <1>4, BeginsFacts DEF Original
  <2> QED  BY <1>4, <2>1 DEF Moving
<1>8. Encoding' /\ Buffered' /\ Streaming' /\ Python' /\ TinyRuns'
  BY <1>1, <1>4 DEF PrefixInv, Encoding, Buffered, Streaming, Python, TinyRuns, In, Fresh
<1> QED  BY <1>6, <1>7, <1>8 DEF PrefixInv

-----------------------------------------------------------------------------
(* What the steps of the decoders need of both invariants.                 *)
LEMMA Known ==
  ASSUME RInv, PrefixInv
  PROVE  /\ text \in Seq(C!Byte) /\ disk \in Seq(C!Byte) /\ CP!Spells(disk, text)
         /\ Len(text) + 1 < UINT_MAX /\ 2 * Len(text) <= SIZE_MAX + 1
         /\ Settled
BY LengthAssumption DEF RInv, BytesOnly, PrefixInv, Settled

-----------------------------------------------------------------------------
(* lzjwm -d.                                                               *)
(* What a mode that decodes has read is the beginning of the stream.       *)
LEMMA ReadStream ==
  ASSUME RInv, PrefixInv, program \in {"lzjwm -d", "lzjwm -S"}, phase = "read"
  PROVE  /\ BInv /\ Contents(rb) \in Seq(C!Byte) /\ CP!Spells(Contents(rb), text)
<1>1. BInv /\ Begins(Received, disk)
  BY DEF PrefixInv, Moving, Original
<1>2. Contents(rb) \in Seq(C!Byte) /\ Begins(Contents(rb), disk)
  BY <1>1, ReceivedBytes, BeginsFacts
<1> QED  BY <1>1, <1>2, Known, CutSpells

(* What is read is a stream of fewer than UINT_MAX characters.             *)
LEMMA CountedStream ==
  ASSUME RInv, PrefixInv, CP!Spells(Contents(rb), text), BInv
  PROVE  /\ Spelled(Contents(rb), text) \in CountedStreams
         /\ Spelled(Contents(rb), text).enc = Contents(rb)
         /\ rb.len = SD!unsigned(Len(Contents(rb)))
<1> DEFINE e == Contents(rb)
           st == Spelled(e, text)
<1>1. e \in Seq(C!Byte) /\ Len(e) = rb.len /\ HeldBytes(rb)
  BY HeldFacts DEF BInv, HoldsBytes
<1>2. /\ st \in AllStreams /\ st.enc = e /\ Begins(st.text, text)
      /\ Len(e) <= Len(st.text)
  BY <1>1, Known, SpelledIs
<1>3. /\ Len(e) \in Nat /\ Len(st.text) \in Nat /\ Len(text) \in Nat
      /\ Len(st.text) <= Len(text)
  BY <1>1, <1>2, LenProperties DEF Begins
<1> HIDE DEF e, st
<1>4. UINT_MAX \in Nat /\ Len(text) + 1 < UINT_MAX
  BY Known, LengthAssumption
<1>5. Len(st.text) + 1 < UINT_MAX
  BY <1>3, <1>4
<1>6. Len(e) % (UINT_MAX + 1) = Len(e)
  BY <1>2, <1>3, <1>4
<1> QED  BY <1>1, <1>2, <1>5, <1>6 DEF CountedStreams, SD!unsigned, e, st

LEMMA BufferedStarts == RInv /\ PrefixInv /\ BeginDecompress => PrefixInv'
<1> SUFFICES ASSUME RInv, PrefixInv, BeginDecompress PROVE PrefixInv'
  OBVIOUS
<1>1. /\ program = "lzjwm -d" /\ phase = "read" /\ phase' = "run"
      /\ UNCHANGED io_vars
      /\ UNCHANGED <<pos, result, sent, dsize, cells, iptr, len, fsize, outf, k, data,
                     text, disk, program, outputs>>
  BY DEF BeginDecompress, HasRead, run_vars, R_vars, B_vars, I_vars, W_vars
<1>2. BInv /\ Contents(rb) \in Seq(C!Byte) /\ CP!Spells(Contents(rb), text)
  BY <1>1, ReadStream
<1>3. BD!BInv
  <2>1. Spelled(Contents(rb), text) \in CountedStreams
    BY <1>2, CountedStream
  <2> QED  BY <1>1, <2>1, BufferedBegins DEF PrefixInv, Buffered, Fresh, In
<1>4. BD!BInv'
  <2>1. UNCHANGED BD!vars
    BY <1>1 DEF io_vars, BD!vars, Contents
  <2> QED  BY <1>3, <2>1, Format, DecoderAssumptions, BD!StepBInv
<1>5. Settled' /\ Moving'
  BY <1>1, <1>2, SettledStays, SameIO DEF PrefixInv, Moving
<1>6. Buffered'
  <2>1. CP!Spells(Contents(rb)', text')
    BY <1>1, <1>2 DEF io_vars, Contents
  <2> QED  BY <1>1, <1>4, <2>1 DEF Buffered, In
<1>7. Encoding' /\ Streaming' /\ Python' /\ TinyRuns'
  BY <1>1 DEF PrefixInv, Encoding, Streaming, Python, TinyRuns, In
<1> QED  BY <1>5, <1>6, <1>7 DEF PrefixInv

LEMMA BufferedWorks == RInv /\ PrefixInv /\ Decompress => PrefixInv'
<1> SUFFICES ASSUME RInv, PrefixInv, Decompress PROVE PrefixInv'
  OBVIOUS
<1>1. /\ program = "lzjwm -d" /\ phase = "run" /\ UNCHANGED io_vars /\ B!Next
      /\ UNCHANGED <<result, sent, data, text, disk, program, outputs, phase>>
  BY DEF Decompress, In, R_vars, I_vars, W_vars
<1>2. BD!BInv /\ CP!Spells(Contents(rb), text)
  BY <1>1 DEF PrefixInv, Buffered, In
<1>3. rb' = rb /\ Contents(rb)' = Contents(rb)
  BY <1>1 DEF io_vars, Contents
<1>4. BD!BInv' /\ CP!Spells(Contents(rb)', text')
  BY <1>1, <1>2, <1>3, BufferedKeeps
<1>5. Settled' /\ Moving'
  BY <1>1, SettledStays, SameIO DEF PrefixInv, Moving
<1>6. Buffered' /\ Encoding'
  BY <1>1, <1>4 DEF Buffered, Encoding, In
<1>7. Streaming' /\ Python' /\ TinyRuns'
  BY <1>1 DEF PrefixInv, Streaming, Python, TinyRuns, In
<1> QED  BY <1>5, <1>6, <1>7 DEF PrefixInv

LEMMA BufferedWrites == RInv /\ PrefixInv /\ WriteDecompressed => PrefixInv'
<1> SUFFICES ASSUME RInv, PrefixInv, WriteDecompressed PROVE PrefixInv'
  OBVIOUS
<1>1. /\ program = "lzjwm -d" /\ phase = "run" /\ pos = "done"
      /\ BeginWrite(Output(dsize, cells))
      /\ UNCHANGED <<result, sent, data, text, disk, program, outputs>>
  BY DEF WriteDecompressed, In, R_vars, I_vars, W_vars
<1>2. BInv /\ BD!BInv /\ CP!Spells(Contents(rb), text)
  BY <1>1 DEF PrefixInv, Moving, Buffered, In
<1>3. Begins(cells, text) /\ dsize = Len(cells)
  BY <1>1, <1>2, Known, ReceivedBytes, BufferedEnds
<1>4. cells \in Seq(C!Byte) /\ dsize \in Nat /\ Len(cells) <= dsize
  BY <1>3, LenProperties DEF Begins
<1>5. HeldBytes(Output(dsize, cells)) /\ Contents(Output(dsize, cells)) = cells
  BY <1>4, HeldOutput
<1>6. /\ BInv' /\ call'.function = "rb_fwrite" /\ Contents(rb)' = cells
      /\ Begins(file'.bytes, Contents(rb)') /\ phase' = "write"
  BY <1>1, <1>5, WritesOutput
<1>7. Settled' /\ Moving'
  BY <1>1, <1>6, SettledStays DEF PrefixInv, Moving
<1>8. Buffered'
  <2>1. Begins(Contents(rb)', text')
    BY <1>1, <1>3, <1>6
  <2> QED  BY <1>1, <1>6, <2>1 DEF Buffered, In
<1>9. Encoding' /\ Streaming' /\ Python' /\ TinyRuns'
  BY <1>1, <1>6 DEF PrefixInv, Encoding, Streaming, Python, TinyRuns, In
<1> QED  BY <1>7, <1>8, <1>9 DEF PrefixInv

LEMMA BufferedExits == RInv /\ PrefixInv /\ Decompressed => PrefixInv'
<1> SUFFICES ASSUME RInv, PrefixInv, Decompressed PROVE PrefixInv'
  OBVIOUS
<1>1. /\ program = "lzjwm -d" /\ phase = "write"
      /\ Exit("lzjwm -d", file.bytes, "lzjwm -S", disk)
      /\ UNCHANGED <<pos, result, sent, data, disk>>
  BY DEF Decompressed, HasWritten, run_vars, R_vars, I_vars
<1>2. Begins(file.bytes, text)
  <2>1. Begins(file.bytes, Contents(rb)) /\ Begins(Contents(rb), text)
    BY <1>1 DEF PrefixInv, Moving, Buffered, In
  <2> QED  BY <2>1, BeginsFacts
<1>3. /\ BInv' /\ call'.function = "rb_fread" /\ Received' = disk
      /\ text' = text /\ program' = "lzjwm -S" /\ phase' = "read"
  BY <1>1, Known, ExitReads
<1>4. outputs' = [outputs EXCEPT !["lzjwm -d"] = file.bytes]
  BY <1>1 DEF Exit
<1>5. Settled'
  BY <1>1, <1>2, <1>3, <1>4, Known, SettledByOutput
<1>6. Moving'
  <2>1. Begins(Received', Original')
    BY <1>1, <1>3, Known, BeginsFacts DEF Original
  <2> QED  BY <1>3, <2>1 DEF Moving
<1>7. Encoding' /\ Buffered' /\ Streaming' /\ Python' /\ TinyRuns'
  BY <1>1, <1>3 DEF PrefixInv, Encoding, Buffered, Streaming, Python, TinyRuns, In
<1> QED  BY <1>5, <1>6, <1>7 DEF PrefixInv

-----------------------------------------------------------------------------
(* lzjwm -S.                                                               *)
LEMMA StreamStarts == RInv /\ PrefixInv /\ BeginStream => PrefixInv'
<1> SUFFICES ASSUME RInv, PrefixInv, BeginStream PROVE PrefixInv'
  OBVIOUS
<1>1. /\ program = "lzjwm -S" /\ phase = "read" /\ phase' = "run"
      /\ pos' = "run" /\ stack' = << S!Call(0, S!unsigned(-1)) >>
      /\ UNCHANGED io_vars
      /\ UNCHANGED <<result, sent, dsize, cells, iptr, len, fsize, outf, k, data,
                     text, disk, program, outputs>>
  BY DEF BeginStream, HasRead, B_vars, I_vars, W_vars
<1>2. BInv /\ Contents(rb) \in Seq(C!Byte) /\ CP!Spells(Contents(rb), text)
  BY <1>1, ReadStream
<1>3. rb' = rb /\ Contents(rb)' = Contents(rb) /\ text' = text
  BY <1>1 DEF io_vars, Contents
<1>4. SD!TInv'
  <2>1. Spelled(Contents(rb), text)' = Spelled(Contents(rb), text)
    BY <1>3 DEF Spelled
  <2>2. stack' = << SD!Call(0, SD!unsigned(-1)) >> /\ sent' = << >> /\ result' = 0
    BY <1>1 DEF PrefixInv, Streaming, S!Call, SD!Call, S!unsigned, SD!unsigned
  <2>3. /\ Spelled(Contents(rb), text) \in CountedStreams
        /\ Spelled(Contents(rb), text).enc = Contents(rb)
        /\ rb.len = SD!unsigned(Len(Contents(rb)))
    BY <1>2, CountedStream
  <2>4. rb'.len = SD!unsigned(Len(Spelled(Contents(rb), text)'.enc))
    BY <1>3, <2>1, <2>3
  <2>5. SD!Init'
    BY <1>1, <2>1, <2>2, <2>3, <2>4 DEF SD!Init
  <2> QED  BY <2>5, StreamBegins
<1>5. Settled' /\ Moving'
  BY <1>1, <1>2, SettledStays, SameIO DEF PrefixInv, Moving
<1>6. Streaming'
  <2>1. CP!Spells(Contents(rb)', text')
    BY <1>2, <1>3
  <2> QED  BY <1>1, <1>4, <2>1 DEF Streaming, In
<1>7. Encoding' /\ Buffered' /\ Python' /\ TinyRuns'
  BY <1>1 DEF PrefixInv, Encoding, Buffered, Python, TinyRuns, In
<1> QED  BY <1>5, <1>6, <1>7 DEF PrefixInv

LEMMA StreamWorks == RInv /\ PrefixInv /\ Stream => PrefixInv'
<1> SUFFICES ASSUME RInv, PrefixInv, Stream PROVE PrefixInv'
  OBVIOUS
<1>1. /\ program = "lzjwm -S" /\ phase = "run" /\ UNCHANGED io_vars /\ S!Next
      /\ UNCHANGED <<data, text, disk, program, outputs, phase>>
  BY DEF Stream, In, I_vars, W_vars
<1>2. SD!TInv /\ CP!Spells(Contents(rb), text)
  BY <1>1 DEF PrefixInv, Streaming, In
<1>3. rb' = rb /\ Contents(rb)' = Contents(rb)
  BY <1>1 DEF io_vars, Contents
<1>4. SD!TInv' /\ CP!Spells(Contents(rb)', text')
  BY <1>1, <1>2, <1>3, StreamKeeps
<1>5. Settled' /\ Moving'
  BY <1>1, SettledStays, SameIO DEF PrefixInv, Moving
<1>6. Streaming'
  BY <1>1, <1>4 DEF Streaming, In
<1>7. Encoding' /\ Buffered' /\ Python' /\ TinyRuns'
  BY <1>1 DEF PrefixInv, Encoding, Buffered, Python, TinyRuns, In
<1> QED  BY <1>5, <1>6, <1>7 DEF PrefixInv

LEMMA PythonStarts ==
  (/\ text \in Seq(C!Byte) /\ disk \in Seq(C!Byte) /\ CP!Spells(disk, text)
   /\ pos = "run" /\ sent = << >> /\ stack = << P!Call(0, SIZE_MAX + 1) >>)'
  => PD!PInv'
<1>1. (/\ text \in Seq(C!Byte) /\ disk \in Seq(C!Byte) /\ CP!Spells(disk, text)
       /\ pos = "run" /\ sent = << >> /\ stack = << P!Call(0, SIZE_MAX + 1) >>)
      => PD!PInv
  BY PythonBegins
<1> QED  BY <1>1, PTL

LEMMA StreamEnds == RInv /\ PrefixInv /\ Streamed => PrefixInv'
<1> SUFFICES ASSUME RInv, PrefixInv, Streamed PROVE PrefixInv'
  OBVIOUS
<1>1. /\ program = "lzjwm -S" /\ phase = "run"
      /\ Exit("lzjwm -S", sent, "lzjwm.py -d", << >>)
      /\ pos' = "run" /\ stack' = << P!Call(0, SIZE_MAX + 1) >> /\ sent' = << >>
      /\ UNCHANGED <<data, disk>>
  BY DEF Streamed, In, I_vars
<1>2. Begins(sent, text)
  <2>1. BInv /\ SD!TInv /\ CP!Spells(Contents(rb), text)
    BY <1>1 DEF PrefixInv, Moving, Streaming, In
  <2> QED  BY <2>1, Known, ReceivedBytes, StreamSends
<1>3. /\ text' = text /\ program' = "lzjwm.py -d" /\ phase' = "read"
      /\ outputs' = [outputs EXCEPT !["lzjwm -S"] = sent]
  BY <1>1 DEF Exit
<1>4. Settled'
  BY <1>1, <1>2, <1>3, Known, SettledByOutput
<1>5. PD!PInv'
  <2>1. text' \in Seq(C!Byte) /\ disk' \in Seq(C!Byte) /\ CP!Spells(disk', text')
    BY <1>1, <1>3, Known
  <2> QED  BY <1>1, <2>1, PythonStarts
<1>6. Moving' /\ Encoding' /\ Buffered' /\ Streaming' /\ Python' /\ TinyRuns'
  BY <1>1, <1>3, <1>5 DEF PrefixInv, Moving, Encoding, Buffered, Streaming, Python,
                          TinyRuns, In
<1> QED  BY <1>4, <1>6 DEF PrefixInv

-----------------------------------------------------------------------------
(* lzjwm.py -d.                                                            *)
LEMMA PythonWorks == RInv /\ PrefixInv /\ Decode => PrefixInv'
<1> SUFFICES ASSUME RInv, PrefixInv, Decode PROVE PrefixInv'
  OBVIOUS
<1>1. /\ program = "lzjwm.py -d" /\ P!Next
      /\ UNCHANGED <<data, text, disk, program, outputs, phase>>
  BY DEF Decode, I_vars, W_vars
<1>2. PD!PInv'
  BY <1>1, PythonKeeps DEF PrefixInv, Python
<1>3. Settled'
  BY <1>1, SettledStays DEF PrefixInv
<1>4. Moving' /\ Encoding' /\ Buffered' /\ Streaming' /\ Python' /\ TinyRuns'
  BY <1>1, <1>2 DEF PrefixInv, Moving, Encoding, Buffered, Streaming, Python, TinyRuns, In
<1> QED  BY <1>3, <1>4 DEF PrefixInv

LEMMA PythonExits == RInv /\ PrefixInv /\ Decoded => PrefixInv'
<1> SUFFICES ASSUME RInv, PrefixInv, Decoded PROVE PrefixInv'
  OBVIOUS
<1>1. /\ program = "lzjwm.py -d" /\ pos = "done" /\ PD!PInv
      /\ Exit("lzjwm.py -d", sent, "tiny_lzjwm", disk)
      /\ sent' = << >> /\ UNCHANGED <<data, disk>>
  BY DEF Decoded, I_vars, PrefixInv, Python
<1>2. PICK h : Begins(h, text) /\ sent = h \o h
  BY <1>1, Known, PythonEnds
<1>3. /\ text' = text /\ program' = "tiny_lzjwm" /\ phase' = "read"
      /\ file'.bytes = disk
  BY <1>1, Known, ExitReads
<1>4. outputs' = [outputs EXCEPT !["lzjwm.py -d"] = h \o h]
  BY <1>1, <1>2 DEF Exit
<1>5. Settled'
  BY <1>1, <1>2, <1>3, <1>4, Known, SettledByPython
<1>6. TinyRuns'
  <2>1. data' = << >> /\ << >> \in Seq(C!Byte)
    BY <1>1, EmptySeq DEF PrefixInv, TinyRuns
  <2>2. << >> \o disk = disk /\ disk \in Seq(C!Byte) /\ Begins(disk, disk)
    BY Known, ConcatEmptySeq, BeginsFacts
  <2>3. file'.bytes \in Seq(C!Byte) /\ Begins(data' \o file'.bytes, disk')
    BY <1>1, <1>3, <2>1, <2>2
  <2> QED  BY <1>1, <1>3, <2>1, <2>3 DEF TinyRuns, In
<1>7. Moving' /\ Encoding' /\ Buffered' /\ Streaming' /\ Python'
  BY <1>3 DEF Moving, Encoding, Buffered, Streaming, Python, In
<1> QED  BY <1>5, <1>6, <1>7 DEF PrefixInv

-----------------------------------------------------------------------------
(* tiny_lzjwm.                                                             *)
LEMMA TinyReads == RInv /\ PrefixInv /\ ReadTiny => PrefixInv'
<1> SUFFICES ASSUME RInv, PrefixInv, ReadTiny PROVE PrefixInv'
  OBVIOUS
<1>1. /\ program = "tiny_lzjwm" /\ phase = "read" /\ I!Next
      /\ UNCHANGED <<sent, text, disk, program, outputs, phase>>
  BY DEF ReadTiny, In, R_vars, W_vars
<1>2. /\ data \in Seq(C!Byte) /\ file.bytes \in Seq(C!Byte)
      /\ Begins(data \o file.bytes, disk) /\ sent = << >>
  BY <1>1 DEF PrefixInv, TinyRuns
<1>3. PICK n \in 0 .. Len(file.bytes), error \in BOOLEAN : I!Take(n, error)
  BY <1>1, TinyTakes
<1> DEFINE a == SubSeq(file.bytes, 1, n)
           b == SubSeq(file.bytes, n + 1, Len(file.bytes))
<1>4. data' = data \o a /\ file'.bytes = b
  BY <1>3 DEF I!Take
<1>5. a \in Seq(C!Byte) /\ b \in Seq(C!Byte) /\ a \o b = file.bytes
  BY <1>2, BeginsPart
<1> HIDE DEF a, b
<1>6. data' \in Seq(C!Byte) /\ data' \o file'.bytes = data \o file.bytes
  <2>1. data \o a \in Seq(C!Byte) /\ (data \o a) \o b = data \o (a \o b)
    BY <1>2, <1>5, JoinedBytes
  <2> QED  BY <1>4, <1>5, <2>1
<1>7. Settled'
  BY <1>1, SettledStays DEF PrefixInv
<1>8. TinyRuns'
  BY <1>1, <1>2, <1>4, <1>5, <1>6 DEF TinyRuns, In
<1>9. Moving' /\ Encoding' /\ Buffered' /\ Streaming' /\ Python'
  BY <1>1 DEF Moving, Encoding, Buffered, Streaming, Python, In
<1> QED  BY <1>7, <1>8, <1>9 DEF PrefixInv

LEMMA TinyRunStarts ==
  (/\ text \in Seq(C!Byte) /\ data \in Seq(C!Byte) /\ CP!Spells(data, text)
   /\ pos = "run" /\ sent = << >> /\ stack = << T!Call(0, S!unsigned(-1)) >>)'
  => TD!TInv'
<1>1. (/\ text \in Seq(C!Byte) /\ data \in Seq(C!Byte) /\ CP!Spells(data, text)
       /\ pos = "run" /\ sent = << >> /\ stack = << T!Call(0, S!unsigned(-1)) >>)
      => TD!TInv
  BY TinyStarts
<1> QED  BY <1>1, PTL

LEMMA TinyBeginsRun == RInv /\ PrefixInv /\ BeginTiny => PrefixInv'
<1> SUFFICES ASSUME RInv, PrefixInv, BeginTiny PROVE PrefixInv'
  OBVIOUS
<1>1. /\ program = "tiny_lzjwm" /\ phase = "read" /\ phase' = "run"
      /\ pos' = "run" /\ stack' = << T!Call(0, S!unsigned(-1)) >>
      /\ UNCHANGED io_vars /\ UNCHANGED <<sent, data, text, disk, program, outputs>>
  BY DEF BeginTiny, In, I_vars, W_vars
<1>2. /\ data \in Seq(C!Byte) /\ file.bytes \in Seq(C!Byte)
      /\ Begins(data \o file.bytes, disk) /\ sent = << >> /\ file' = file
  BY <1>1, SameIO DEF PrefixInv, TinyRuns
<1>3. CP!Spells(data, text)
  BY <1>2, Known, BeginsJoin, CutSpells
<1>4. TD!TInv'
  <2>1. /\ text' \in Seq(C!Byte) /\ data' \in Seq(C!Byte) /\ CP!Spells(data', text')
        /\ sent' = << >>
    BY <1>1, <1>2, <1>3, Known
  <2> QED  BY <1>1, <2>1, TinyRunStarts
<1>5. Settled'
  BY <1>1, SettledStays DEF PrefixInv
<1>6. TinyRuns'
  <2>1. data' \in Seq(C!Byte) /\ file'.bytes \in Seq(C!Byte)
        /\ Begins(data' \o file'.bytes, disk')
    BY <1>1, <1>2
  <2> QED  BY <1>1, <1>4, <2>1 DEF TinyRuns, In
<1>7. Moving' /\ Encoding' /\ Buffered' /\ Streaming' /\ Python'
  BY <1>1 DEF Moving, Encoding, Buffered, Streaming, Python, In
<1> QED  BY <1>5, <1>6, <1>7 DEF PrefixInv

LEMMA TinyWorks == RInv /\ PrefixInv /\ Tiny => PrefixInv'
<1> SUFFICES ASSUME RInv, PrefixInv, Tiny PROVE PrefixInv'
  OBVIOUS
<1>1. /\ program = "tiny_lzjwm" /\ phase = "run" /\ T!Next
      /\ UNCHANGED io_vars /\ UNCHANGED <<data, text, disk, program, outputs, phase>>
  BY DEF Tiny, In, I_vars, W_vars
<1>2. /\ data \in Seq(C!Byte) /\ file.bytes \in Seq(C!Byte) /\ file' = file
      /\ Begins(data \o file.bytes, disk) /\ TD!TInv
  BY <1>1, SameIO DEF PrefixInv, TinyRuns, In
<1>3. TD!TInv'
  BY <1>1, <1>2, TinyKeeps
<1>4. Settled'
  BY <1>1, SettledStays DEF PrefixInv
<1>5. TinyRuns'
  BY <1>1, <1>2, <1>3 DEF TinyRuns, In
<1>6. Moving' /\ Encoding' /\ Buffered' /\ Streaming' /\ Python'
  BY <1>1 DEF Moving, Encoding, Buffered, Streaming, Python, In
<1> QED  BY <1>4, <1>5, <1>6 DEF PrefixInv

LEMMA TinyEnds == RInv /\ PrefixInv /\ Finished => PrefixInv'
<1> SUFFICES ASSUME RInv, PrefixInv, Finished PROVE PrefixInv'
  OBVIOUS
<1>1. /\ program = "tiny_lzjwm" /\ phase = "run"
      /\ Exit("tiny_lzjwm", sent, "exit", << >>) /\ UNCHANGED disk
  BY DEF Finished, In
<1>2. Begins(sent, text)
  <2>1. /\ data \in Seq(C!Byte) /\ file.bytes \in Seq(C!Byte)
        /\ Begins(data \o file.bytes, disk) /\ TD!TInv
    BY <1>1 DEF PrefixInv, TinyRuns, In
  <2>2. CP!Spells(data, text)
    BY <2>1, Known, BeginsJoin, CutSpells
  <2> QED  BY <2>1, <2>2, Known, TinySends
<1>3. /\ text' = text /\ program' = "exit"
      /\ outputs' = [outputs EXCEPT !["tiny_lzjwm"] = sent]
  BY <1>1 DEF Exit
<1>4. Settled'
  BY <1>1, <1>2, <1>3, Known, SettledByOutput
<1>5. Moving' /\ Encoding' /\ Buffered' /\ Streaming' /\ Python' /\ TinyRuns'
  BY <1>3 DEF Moving, Encoding, Buffered, Streaming, Python, TinyRuns, In
<1> QED  BY <1>4, <1>5 DEF PrefixInv

-----------------------------------------------------------------------------
(* A step that changes nothing.                                            *)
LEMMA StillPrefixInv == PrefixInv /\ UNCHANGED all => PrefixInv'
<1> SUFFICES ASSUME PrefixInv, UNCHANGED all PROVE PrefixInv'
  OBVIOUS
<1>1. /\ UNCHANGED <<io_vars, in, pos, stack, result, sent>>
      /\ UNCHANGED <<dsize, cells, iptr, len, fsize, outf, k, bsz, data>>
      /\ UNCHANGED <<text, disk, program, outputs, phase>>
  BY DEF all, run_vars, C_vars, R_vars, B_vars, I_vars, W_vars
<1>2. Settled' /\ Moving'
  <2>1. call' = call /\ rb' = rb /\ file' = file /\ (BInv' <=> BInv)
    BY <1>1, SameIO
  <2>2. /\ Received' = Received /\ Original' = Original
        /\ Contents(rb)' = Contents(rb)
    BY <1>1, <2>1 DEF Received, Left, Original, Contents
  <2>3. Begins(Received, Original)' <=> Begins(Received, Original)
    BY <2>2 DEF Begins
  <2>4. Begins(file.bytes, Contents(rb))' <=> Begins(file.bytes, Contents(rb))
    BY <2>1, <2>2 DEF Begins
  <2> QED  BY <1>1, <2>1, <2>3, <2>4, SettledStays DEF PrefixInv, Moving
<1>3. rb' = rb /\ file' = file /\ Contents(rb)' = Contents(rb)
  BY <1>1 DEF io_vars, Contents
<1>4. Encoding'
  BY <1>1, <1>3 DEF PrefixInv, Encoding, In, Begins
<1>5. Buffered'
  <2>1. In("lzjwm -d", "run") => BD!BInv'
    <3>1. UNCHANGED BD!vars
      BY <1>1, <1>3 DEF BD!vars, Spelled
    <3> QED  BY <3>1, Format, DecoderAssumptions, BD!StepBInv DEF PrefixInv, Buffered
  <2> QED  BY <1>1, <1>3, <2>1 DEF PrefixInv, Buffered, In, Fresh, Begins
<1>6. Streaming'
  <2>1. In("lzjwm -S", "run") => SD!TInv'
    <3>1. UNCHANGED SD!vars
      BY <1>1, <1>3 DEF SD!vars, Spelled
    <3> QED  BY <3>1, Format, DecoderAssumptions, SD!StepTInv DEF PrefixInv, Streaming
  <2> QED  BY <1>1, <1>3, <2>1 DEF PrefixInv, Streaming, In
<1>7. Python'
  <2>1. UNCHANGED PD!P!vars
    BY <1>1 DEF PD!P!vars, Joined, Spelled
  <2>2. PD!PInv => PD!PInv'
    BY <2>1, Format, NoZeroPage, PD!StepPInv
  <2> QED  BY <1>1, <2>2 DEF PrefixInv, Python
<1>8. TinyRuns'
  <2>1. UNCHANGED TD!vars
    BY <1>1 DEF TD!vars, Spelled, BeforeNul, FirstNul
  <2>2. TD!TInv => TD!TInv'
    BY <2>1, Format, NoZeroPage, TD!StepTInv
  <2> QED  BY <1>1, <1>3, <2>2 DEF PrefixInv, TinyRuns, In, Begins
<1> QED  BY <1>2, <1>4, <1>5, <1>6, <1>7, <1>8 DEF PrefixInv

LEMMA StepPrefixInv == RInv /\ PrefixInv /\ [RNext]_all => PrefixInv'
<1>1. RInv /\ PrefixInv /\ RNext => PrefixInv'
  BY MovingStep, StoppingStep, EncoderStarts, EncoderWorks, EncoderWrites, EncoderEnds,
     BufferedStarts, BufferedWorks, BufferedWrites, BufferedExits,
     StreamStarts, StreamWorks, StreamEnds, PythonWorks, PythonExits,
     TinyReads, TinyBeginsRun, TinyWorks, TinyEnds DEF RNext
<1> QED  BY <1>1, StillPrefixInv

(* What a program of a round trip has in hand always stands for the        *)
(* beginning of the file that was compressed, wherever reads and writes    *)
(* broke off.                                                              *)
THEOREM PrefixInvariance == RSpec => []PrefixInv
<1>1. RInit => PrefixInv
  BY InitPrefixInv
<1>2. RInv /\ PrefixInv /\ [RNext]_all => PrefixInv'
  BY StepPrefixInv
<1>3. RSpec => []RInv
  BY RoundTripInvariance
<1> QED  BY <1>1, <1>2, <1>3, PTL DEF RSpec

(* Whatever errors cut reads and writes short, each program of a round     *)
(* trip writes a prefix of the file that was compressed, lzjwm.py -d one   *)
(* and the same again (lzjwm.c:72-73, tiny_lzjwm.c:46).                    *)
THEOREM AlwaysOnlyPrefixes == RSpec => []OnlyPrefixes
<1>1. RInv /\ PrefixInv => OnlyPrefixes
  BY PrefixInvGives
<1> QED  BY <1>1, RoundTripInvariance, PrefixInvariance, PTL
=============================================================================
