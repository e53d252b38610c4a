------------------------- MODULE StreamDecoderProofs -------------------------
(***************************************************************************)
(* The recursion of the streaming decoder is bounded, none of its unsigned *)
(* variables wraps by accident, and it delivers the text, for every        *)
(* stream, every format and every width of unsigned that can count it.     *)
(***************************************************************************)
EXTENDS StreamDecoder, LZFormatProofs, SequenceTheorems

(* The frames of a stack: a call never needs more than it was asked for,   *)
(* each inner call was asked for fewer characters than its caller needs,   *)
(* and for at least two.                                                   *)
Bounded(s) == \A k \in 1 .. Len(s) : s[k].needed <= s[k].howmany

Chain(s) ==
  \A k \in 2 .. Len(s) :
    /\ s[k].howmany >= 2
    /\ s[k].howmany <= MAX_ZERO_MATCH - (k - 2)
    /\ s[k].howmany < s[k - 1].needed

Good(s) == s \in Seq(Frame) /\ s # << >> /\ Bounded(s) /\ Chain(s)

SInv == TypeOK /\ Chain(stack)

-----------------------------------------------------------------------------
LEMMA UnsignedRange == \A x \in Int : unsigned(x) \in Unsigned
BY UIntAssumption, FormatBounds DEF unsigned, Unsigned

LEMMA FrameTypes ==
  /\ \A f \in Frame : /\ f.iptr \in Unsigned /\ f.howmany \in Unsigned
                      /\ f.needed \in Unsigned
  /\ \A p \in Unsigned, h \in Unsigned, n \in Unsigned :
       [iptr |-> p, howmany |-> h, needed |-> n] \in Frame
  /\ \A u \in Unsigned : u \in Nat /\ u <= UINT_MAX
  /\ UINT_MAX \in Nat /\ UINT_MAX > MAX_ZERO_MATCH
BY UIntAssumption DEF Frame, Unsigned

(* The innermost call moves on or puts a character out.                    *)
LEMMA TopStep ==
  ASSUME NEW s, Good(s), NEW f \in Frame,
         f.howmany = s[Len(s)].howmany, f.needed <= f.howmany
  PROVE  Good([s EXCEPT ![Len(s)] = f])
<1> DEFINE n == Len(s)
           t == [s EXCEPT ![n] = f]
<1>1. s \in Seq(Frame) /\ n \in Nat /\ n >= 1
  BY DEF Good
<1>2. t \in Seq(Frame) /\ Len(t) = n /\ t # << >>
  BY <1>1
<1>3. /\ t[n] = f
      /\ \A k \in 1 .. n : k # n => t[k] = s[k]
      /\ \A k \in 1 .. n : t[k].howmany = s[k].howmany
  BY <1>1
<1> HIDE DEF t
<1>4. Bounded(t)
  BY <1>1, <1>2, <1>3 DEF Good, Bounded
<1>5. Chain(t)
  <2> SUFFICES ASSUME NEW k \in 2 .. n
               PROVE  /\ t[k].howmany >= 2
                      /\ t[k].howmany <= MAX_ZERO_MATCH - (k - 2)
                      /\ t[k].howmany < t[k - 1].needed
    BY <1>2 DEF Chain
  <2>1. /\ s[k].howmany >= 2
        /\ s[k].howmany <= MAX_ZERO_MATCH - (k - 2)
        /\ s[k].howmany < s[k - 1].needed
    BY DEF Good, Chain
  <2>2. t[k - 1] = s[k - 1] /\ t[k].howmany = s[k].howmany
    BY <1>1, <1>3
  <2> QED  BY <2>1, <2>2
<1> QED  BY <1>2, <1>4, <1>5 DEF Good, t

(* The innermost call makes a call for n characters.                       *)
LEMMA Push ==
  ASSUME NEW s, Good(s), NEW f \in Frame, NEW n \in Nat,
         f.howmany = n, f.needed = n,
         n >= 2, n <= MAX_ZERO_MATCH, n < s[Len(s)].needed
  PROVE  Good(Append(s, f))
<1> DEFINE l == Len(s)
           t == Append(s, f)
<1>1. s \in Seq(Frame) /\ l \in Nat /\ l >= 1
  BY DEF Good
<1>2. t \in Seq(Frame) /\ Len(t) = l + 1 /\ t # << >>
  BY <1>1
<1>3. /\ t[l + 1] = f
      /\ \A k \in 1 .. l : t[k] = s[k]
  BY <1>1
<1> HIDE DEF t
<1>4. Bounded(t)
  <2>1. \A k \in 1 .. (l + 1) : k = l + 1 \/ k \in 1 .. l
    BY <1>1
  <2> QED  BY <1>1, <1>2, <1>3, <2>1 DEF Good, Bounded
<1>5. Chain(t)
  <2> SUFFICES ASSUME NEW k \in 2 .. (l + 1)
               PROVE  /\ t[k].howmany >= 2
                      /\ t[k].howmany <= MAX_ZERO_MATCH - (k - 2)
                      /\ t[k].howmany < t[k - 1].needed
    BY <1>2 DEF Chain
  <2>1. CASE k \in 2 .. l
    <3>1. t[k - 1] = s[k - 1] /\ t[k] = s[k]
      BY <1>1, <1>3, <2>1
    <3> QED  BY <2>1, <3>1 DEF Good, Chain
  <2>2. CASE k = l + 1
    <3>1. t[k] = f /\ t[k - 1] = s[l]
      BY <1>1, <1>3, <2>2
    <3>2. n <= MAX_ZERO_MATCH - (k - 2)
      <4>1. CASE l = 1
        BY <2>2, <4>1, FormatBounds
      <4>2. CASE l >= 2
        <5>1. s[l].howmany <= MAX_ZERO_MATCH - (l - 2) /\ s[l].needed <= s[l].howmany
          BY <1>1, <4>2 DEF Good, Chain, Bounded
        <5>2. s[l].howmany \in Nat /\ s[l].needed \in Nat
          BY <1>1, FrameTypes
        <5>3. \A a \in Nat, b \in Nat, M \in Nat :
                a <= M - (l - 2) /\ b <= a /\ n < b => n <= M - ((l + 1) - 2)
          BY <1>1
        <5>4. n < s[l].needed /\ MAX_ZERO_MATCH \in Nat
          BY FormatBounds
        <5>5. n <= MAX_ZERO_MATCH - ((l + 1) - 2)
          BY <5>1, <5>2, <5>3, <5>4
        <5> QED  BY <2>2, <5>5
      <4>3. l = 1 \/ l >= 2
        <5>1. \A r \in Nat : r >= 1 => r = 1 \/ r >= 2
          OBVIOUS
        <5> QED  BY <1>1, <5>1, Zenon
      <4> QED  BY <4>1, <4>2, <4>3, Zenon
    <3> QED  BY <3>1, <3>2
  <2> QED  BY <1>1, <2>1, <2>2
<1> QED  BY <1>2, <1>4, <1>5 DEF Good, t

(* The innermost call returns having put r characters out.                 *)
LEMMA Pop ==
  ASSUME NEW s, Good(s), Len(s) >= 2, NEW r \in Nat, r <= s[Len(s)].howmany
  PROVE  Good([SubSeq(s, 1, Len(s) - 1) EXCEPT ![Len(s) - 1].needed = @ - r])
<1> DEFINE l == Len(s) - 1
           u == SubSeq(s, 1, l)
           h == s[l].howmany
           g == s[l].needed
           p == s[l].iptr
           f == [iptr |-> p, howmany |-> h, needed |-> g - r]
<1>1. s \in Seq(Frame) /\ l \in Nat /\ l >= 1 /\ Len(s) = l + 1
  <2>1. s \in Seq(Frame) /\ Len(s) \in Nat
    BY DEF Good
  <2> QED  BY <2>1
<1>2. u \in Seq(Frame) /\ Len(u) = l /\ u # << >> /\ \A k \in 1 .. l : u[k] = s[k]
  <2> HIDE DEF l
  <2>1. \A k \in 1 .. l : s[k] \in Frame
    BY <1>1
  <2>2. /\ u \in Seq(Frame)
        /\ Len(u) = IF 1 <= l THEN (l - 1) + 1 ELSE 0
        /\ \A k \in 1 .. ((l - 1) + 1) : u[k] = s[(1 + k) - 1]
    BY <1>1, <2>1, SubSeqProperties
  <2> HIDE DEF u
  <2>3. Len(u) = l
    BY <1>1, <2>2
  <2>4. \A k \in 1 .. l : k \in 1 .. ((l - 1) + 1) /\ (1 + k) - 1 = k
    BY <1>1
  <2>5. \A k \in 1 .. l : u[k] = s[k]
    BY <2>2, <2>4
  <2>6. u # << >>
    BY <1>1, <2>2, <2>3
  <2> QED  BY <2>2, <2>3, <2>5, <2>6
<1>3. /\ s[l] \in Frame /\ h \in Unsigned /\ g \in Unsigned /\ p \in Unsigned
      /\ g <= h
  BY <1>1, FrameTypes DEF Good, Bounded
<1>4. s[l + 1].howmany < g /\ s[l + 1].howmany \in Nat
  <2>1. l + 1 \in 2 .. Len(s) /\ (l + 1) - 1 = l
    BY <1>1
  <2>2. s[l + 1].howmany < g
    BY <2>1 DEF Good, Chain
  <2> QED  BY <1>1, <2>1, <2>2, FrameTypes
<1>5. g - r \in Unsigned /\ g - r <= h
  <2>1. g \in Nat /\ h \in Nat /\ g <= UINT_MAX /\ UINT_MAX \in Nat
    BY <1>3, FrameTypes
  <2>2. r < g
    BY <1>1, <1>4, <2>1
  <2> QED  BY <1>3, <2>1, <2>2 DEF Unsigned
<1>6. f \in Frame
  BY <1>3, <1>5, FrameTypes
<1>7. [u EXCEPT ![l].needed = @ - r] = [u EXCEPT ![l] = f]
  <2>1. u[l] = [iptr |-> p, howmany |-> h, needed |-> g]
    BY <1>1, <1>2, <1>3 DEF Frame
  <2>2. [u[l] EXCEPT !.needed = @ - r] = f
    BY <2>1
  <2> QED  BY <2>2
<1>8. Good(u)
  <2>1. Bounded(u)
    BY <1>1, <1>2 DEF Good, Bounded
  <2>2. Chain(u)
    <3>1. \A k \in 2 .. l : u[k] = s[k] /\ u[k - 1] = s[k - 1] /\ k \in 2 .. Len(s)
      BY <1>1, <1>2
    <3> QED  BY <1>2, <3>1 DEF Good, Chain
  <2> QED  BY <1>2, <2>1, <2>2 DEF Good
<1>9. u[l].howmany = h
  BY <1>1, <1>2
<1> HIDE DEF u, h, g, p
<1>10. f.howmany = h /\ f.needed = g - r
  OBVIOUS
<1> HIDE DEF f
<1>11. Good([u EXCEPT ![l] = f])
  BY <1>2, <1>5, <1>6, <1>8, <1>9, <1>10, TopStep
<1> QED  BY <1>7, <1>11 DEF u
-----------------------------------------------------------------------------
LEMMA InitSInv == Init => SInv
<1> SUFFICES ASSUME Init PROVE SInv
  OBVIOUS
<1>1. stream.enc \in Seq(Byte) /\ mode \in {"sized", "terminated"}
  BY StreamsAssumption, ModesAssumption DEF Init, IsStream
<1>2. /\ \A l \in Nat : l \in Int
      /\ -1 \in Int
  OBVIOUS
<1>3. input_size \in Unsigned /\ unsigned(-1) \in Unsigned /\ 0 \in Unsigned
  <2>1. Len(stream.enc) \in Nat
    BY <1>1
  <2>2. input_size = unsigned(-1) \/ input_size = unsigned(Len(stream.enc))
    BY DEF Init
  <2>3. unsigned(-1) \in Unsigned /\ unsigned(Len(stream.enc)) \in Unsigned
    BY <1>2, <2>1, UnsignedRange
  <2>4. 0 \in Unsigned
    BY FrameTypes DEF Unsigned
  <2> QED  BY <2>2, <2>3, <2>4
<1> DEFINE f == Call(0, unsigned(-1))
<1>4. f \in Frame /\ f.needed = f.howmany
  BY <1>3, FrameTypes DEF Call
<1>5. f.needed <= f.howmany
  BY <1>4, FrameTypes
<1> HIDE DEF f
<1>6. stack = << f >>
  BY DEF Init, f
<1>7. stack \in Seq(Frame) /\ stack # << >> /\ Len(stack) = 1 /\ stack[1] = f
  BY <1>4, <1>6
<1>8. Chain(stack) /\ Bounded(stack)
  BY <1>5, <1>7 DEF Chain, Bounded
<1>9. result \in Unsigned /\ out \in Seq(Literal) /\ pc = "run"
  BY <1>3 DEF Init
<1> QED  BY <1>1, <1>3, <1>7, <1>8, <1>9 DEF SInv, TypeOK, Bounded

(* What a step of the innermost call knows when it reads a byte.           *)
LEMMA ReadingFacts ==
  ASSUME SInv, Reading
  PROVE  /\ Good(stack) /\ Depth \in Nat /\ Depth >= 1
         /\ Top \in Frame /\ Top.needed > 0 /\ Top.needed <= Top.howmany
         /\ Top.iptr + 1 \in Unsigned /\ Top.needed - 1 \in Unsigned
         /\ ch \in Byte /\ get_offset(ch) \in Int /\ Back \in Unsigned
<1>1. stack \in Seq(Frame) /\ stack # << >> /\ Good(stack)
  BY DEF SInv, TypeOK, Good, Bounded
<1>2. Depth \in Nat /\ Depth >= 1 /\ Top \in Frame
  BY <1>1 DEF Depth, Top
<1>3. Top.needed > 0 /\ Top.iptr < input_size /\ Top.iptr < Len(Memory)
  BY DEF Reading, Looping
<1>4. Top.needed <= Top.howmany
  BY <1>1, <1>2 DEF Good, Bounded, Top, Depth
<1>5. /\ Top.iptr \in Nat /\ Top.needed \in Nat /\ Top.needed <= UINT_MAX
      /\ input_size \in Nat /\ input_size <= UINT_MAX
      /\ UINT_MAX \in Nat
  BY <1>2, FrameTypes DEF SInv, TypeOK
<1>6. Top.iptr + 1 \in Unsigned /\ Top.needed - 1 \in Unsigned
  <2>1. \A a \in Nat, b \in Nat : a < b /\ b <= UINT_MAX => a + 1 \in Unsigned
    BY <1>5 DEF Unsigned
  <2>2. \A a \in Nat : a > 0 /\ a <= UINT_MAX => a - 1 \in Unsigned
    BY <1>5 DEF Unsigned
  <2> QED  BY <1>3, <1>5, <2>1, <2>2
<1>7. ch \in Byte
  <2>1. stream.enc \in Seq(Byte) /\ 0 \in Byte
    BY FormatBounds DEF SInv, TypeOK, Byte
  <2>2. Memory \in Seq(Byte)
    BY <2>1 DEF Memory
  <2>3. \A a \in Nat, l \in Nat : a < l => a + 1 \in 1 .. l
    OBVIOUS
  <2>4. Len(Memory) \in Nat
    BY <2>2
  <2>5. Top.iptr + 1 \in 1 .. Len(Memory)
    BY <1>3, <1>5, <2>3, <2>4
  <2> QED  BY <2>2, <2>5 DEF ch
<1>8. get_offset(ch) \in Int
  BY <1>7, OffsetRange
<1>9. Back \in Unsigned
  <2>1. \A a \in Nat, b \in Int : a + 1 - b - 2 \in Int
    OBVIOUS
  <2>2. Back = unsigned(Top.iptr + 1 - get_offset(ch) - 2)
    BY Zenon DEF Back
  <2> QED  BY <1>5, <1>8, <2>1, <2>2, UnsignedRange
<1> QED  BY <1>1, <1>2, <1>3, <1>4, <1>6, <1>7, <1>8, <1>9

(* Updates of the innermost call, field by field.                          *)
LEMMA TopFields ==
  ASSUME SInv, NEW p \in Unsigned, NEW n \in Unsigned, n <= Top.howmany
  PROVE  /\ Good([stack EXCEPT ![Depth] =
                    [iptr |-> p, howmany |-> Top.howmany, needed |-> n]])
         /\ [stack EXCEPT ![Depth].iptr = p] =
              [stack EXCEPT ![Depth] =
                 [iptr |-> p, howmany |-> Top.howmany, needed |-> Top.needed]]
         /\ [stack EXCEPT ![Depth].iptr = p, ![Depth].needed = n] =
              [stack EXCEPT ![Depth] =
                 [iptr |-> p, howmany |-> Top.howmany, needed |-> n]]
<1> DEFINE f == [iptr |-> p, howmany |-> Top.howmany, needed |-> n]
<1>1. Good(stack) /\ stack \in Seq(Frame) /\ stack # << >>
  BY DEF SInv, TypeOK, Good, Bounded
<1>2. Depth \in 1 .. Len(stack) /\ Top \in Frame /\ stack[Depth] = Top
  BY <1>1 DEF Depth, Top
<1>3. f \in Frame
  BY <1>2, FrameTypes
<1>4. Good([stack EXCEPT ![Depth] = f])
  <2>1. f.howmany = Top.howmany /\ f.needed = n
    OBVIOUS
  <2> HIDE DEF f
  <2> QED  BY <1>1, <1>3, <2>1, TopStep DEF Depth, Top
<1>5. \A r \in Frame :
        /\ [r EXCEPT !.iptr = p]
             = [iptr |-> p, howmany |-> r.howmany, needed |-> r.needed]
        /\ [[r EXCEPT !.iptr = p] EXCEPT !.needed = n]
             = [iptr |-> p, howmany |-> r.howmany, needed |-> n]
  <2>1. \A r \in Frame : [r EXCEPT !.iptr = p]
                         = [iptr |-> p, howmany |-> r.howmany, needed |-> r.needed]
    BY DEF Frame
  <2>2. \A h, g : [[iptr |-> p, howmany |-> h, needed |-> g] EXCEPT !.needed = n]
                 = [iptr |-> p, howmany |-> h, needed |-> n]
    OBVIOUS
  <2> QED  BY <2>1, <2>2
<1>6. [stack EXCEPT ![Depth].iptr = p] =
              [stack EXCEPT ![Depth] =
                 [iptr |-> p, howmany |-> Top.howmany, needed |-> Top.needed]]
  <2>1. [stack EXCEPT ![Depth].iptr = p]
          = [stack EXCEPT ![Depth] = [stack[Depth] EXCEPT !.iptr = p]]
    OBVIOUS
  <2> QED  BY <1>2, <1>5, <2>1
<1>7. [stack EXCEPT ![Depth].iptr = p, ![Depth].needed = n] =
              [stack EXCEPT ![Depth] = f]
  <2> DEFINE t == [stack EXCEPT ![Depth] = [stack[Depth] EXCEPT !.iptr = p]]
  <2>1. [stack EXCEPT ![Depth].iptr = p, ![Depth].needed = n]
          = [t EXCEPT ![Depth] = [t[Depth] EXCEPT !.needed = n]]
    BY Zenon
  <2>2. t[Depth] = [stack[Depth] EXCEPT !.iptr = p]
    BY <1>1, <1>2
  <2>3. [t[Depth] EXCEPT !.needed = n] = f
    BY <1>2, <1>5, <2>2
  <2>4. [t EXCEPT ![Depth] = f] = [stack EXCEPT ![Depth] = f]
    BY <1>1, <1>2
  <2> QED  BY <2>1, <2>3, <2>4
<1> QED  BY <1>4, <1>6, <1>7

LEMMA LiterallyStep == SInv /\ Literally => SInv'
<1> SUFFICES ASSUME SInv, Literally PROVE SInv'
  OBVIOUS
<1>1. Reading /\ pc = "run" /\ UNCHANGED <<stream, mode, input_size, pc, result>>
  BY DEF Literally, Reading, Looping
<1>2. /\ Top.iptr + 1 \in Unsigned /\ Top.needed - 1 \in Unsigned
      /\ Top.needed - 1 <= Top.howmany /\ ch \in Byte
  <2>1. Top \in Frame /\ Top.needed <= Top.howmany /\ Top.needed - 1 \in Unsigned
    BY <1>1, ReadingFacts
  <2>2. Top.needed \in Nat /\ Top.howmany \in Nat
    BY <2>1, FrameTypes
  <2>3. \A a \in Nat, b \in Nat : a <= b => a - 1 <= b
    OBVIOUS
  <2> QED  BY <1>1, <2>1, <2>2, <2>3, ReadingFacts
<1>3. Good(stack')
  <2>1. Good([stack EXCEPT ![Depth] = [iptr |-> Top.iptr + 1, howmany |-> Top.howmany,
                                       needed |-> Top.needed - 1]])
    BY <1>2, TopFields
  <2>2. [stack EXCEPT ![Depth].iptr = Top.iptr + 1, ![Depth].needed = Top.needed - 1]
          = [stack EXCEPT ![Depth] = [iptr |-> Top.iptr + 1, howmany |-> Top.howmany,
                                      needed |-> Top.needed - 1]]
    BY <1>2, TopFields
  <2>3. stack' = [stack EXCEPT ![Depth].iptr = Top.iptr + 1,
                               ![Depth].needed = Top.needed - 1]
    BY DEF Literally, Top
  <2> QED  BY <2>1, <2>2, <2>3
<1>4. ch \in Literal
  <2>1. ~IsPointer(ch)
    BY <1>2, CountRange DEF Literally
  <2>2. FLAG \in Nat
    BY FormatBounds
  <2> QED  BY <1>2, <2>1, <2>2 DEF IsPointer, Byte, Literal
<1>5. out' \in Seq(Literal)
  BY <1>4 DEF Literally, SInv, TypeOK
<1> QED  BY <1>1, <1>3, <1>5 DEF SInv, TypeOK, Good, Bounded

LEMMA JumpStep == SInv /\ Jump => SInv'
<1> SUFFICES ASSUME SInv, Jump PROVE SInv'
  OBVIOUS
<1>1. Reading /\ pc = "run" /\ UNCHANGED <<stream, mode, input_size, pc, result, out>>
  BY DEF Jump, GoTo, Reading, Looping
<1>2. /\ Back \in Unsigned /\ Top.needed \in Unsigned /\ Top.needed <= Top.howmany
  BY <1>1, ReadingFacts, FrameTypes
<1>3. Good(stack')
  <2>1. stack' = [stack EXCEPT ![Depth].iptr = Back]
    BY DEF Jump, GoTo
  <2> QED  BY <1>2, <2>1, TopFields
<1> QED  BY <1>1, <1>3 DEF SInv, TypeOK, Good, Bounded

LEMMA RecurseStep == SInv /\ Recurse => SInv'
<1> SUFFICES ASSUME SInv, Recurse PROVE SInv'
  OBVIOUS
<1>1. Reading /\ pc = "run" /\ UNCHANGED <<stream, mode, input_size, pc, result, out>>
  BY DEF Recurse, Enter, Reading, Looping
<1> DEFINE n == count(ch)
           s == [stack EXCEPT ![Depth].iptr = Top.iptr + 1]
           f == Call(Back, n)
<1>2. /\ n \in Nat /\ n >= 2 /\ n <= MAX_ZERO_MATCH /\ n < Top.needed
  <2>1. ch \in Byte /\ n # 1 /\ Top.needed > n
    BY <1>1, ReadingFacts DEF Recurse, Enter
  <2>2. n \in 1 .. MAX_ZERO_MATCH /\ n >= 2
    BY <2>1, CountRange
  <2>3. Top.needed \in Nat
    BY <1>1, ReadingFacts, FrameTypes
  <2> QED  BY <2>1, <2>2, <2>3, FormatBounds
<1>3. Good(s) /\ Len(s) = Depth /\ s[Depth].needed = Top.needed
  <2>1. Top.iptr + 1 \in Unsigned /\ Top.needed \in Unsigned /\ Top.needed <= Top.howmany
    BY <1>1, ReadingFacts, FrameTypes
  <2>2. s = [stack EXCEPT ![Depth] = [iptr |-> Top.iptr + 1, howmany |-> Top.howmany,
                                      needed |-> Top.needed]]
    BY <2>1, TopFields
  <2>3. Good(s)
    BY <2>1, <2>2, TopFields
  <2>4. stack \in Seq(Frame) /\ Depth \in 1 .. Len(stack) /\ Depth = Len(stack)
    BY <1>1, ReadingFacts DEF Good, Depth
  <2> HIDE DEF s
  <2> QED  BY <2>2, <2>3, <2>4
<1>4. f \in Frame /\ f.howmany = n /\ f.needed = n
  <2>1. Back \in Unsigned
    BY <1>1, ReadingFacts
  <2>2. n \in Unsigned
    BY <1>2, FrameTypes, FormatBounds DEF Unsigned
  <2> QED  BY <2>1, <2>2, FrameTypes DEF Call
<1>5. stack' = Append(s, f)
  BY DEF Recurse, Enter, Top
<1> HIDE DEF n, s, f
<1>6. Good(stack')
  BY <1>2, <1>3, <1>4, <1>5, Push
<1> QED  BY <1>1, <1>6 DEF SInv, TypeOK, Good, Bounded

LEMMA ReturnStep == SInv /\ Return => SInv'
<1> SUFFICES ASSUME SInv, Return PROVE SInv'
  OBVIOUS
<1>1. pc = "run" /\ UNCHANGED <<stream, mode, input_size, out>>
  BY DEF Return, Leave
<1>2. Good(stack) /\ Depth \in Nat /\ Depth >= 1 /\ Depth = Len(stack) /\ Top \in Frame
  <2>1. Good(stack)
    BY DEF SInv, TypeOK, Good, Bounded
  <2> QED  BY <2>1 DEF Good, Depth, Top
<1> DEFINE r == Top.howmany - Top.needed
<1>3. r \in Unsigned /\ r \in Nat /\ r <= Top.howmany
  <2>1. Top.needed <= Top.howmany
    BY <1>2 DEF Good, Bounded, Top
  <2>2. Top.needed \in Nat /\ Top.howmany \in Nat /\ Top.howmany <= UINT_MAX /\ UINT_MAX \in Nat
    BY <1>2, FrameTypes
  <2>3. \A a \in Nat, b \in Nat :
          b <= a /\ a <= UINT_MAX => a - b \in Unsigned /\ a - b \in Nat /\ a - b <= a
    BY <2>2 DEF Unsigned
  <2> QED  BY <2>1, <2>2, <2>3
<1>4. /\ result' = r
      /\ \/ pc' = "done" /\ stack' = stack
         \/ /\ pc' = pc /\ Depth # 1
            /\ stack' = [SubSeq(stack, 1, Depth - 1) EXCEPT ![Depth - 1].needed = @ - r]
  BY DEF Return, Leave
<1> HIDE DEF r
<1>5. Good(stack')
  <2>1. CASE stack' = stack
    BY <1>2, <2>1
  <2>2. CASE /\ Depth # 1
             /\ stack' = [SubSeq(stack, 1, Depth - 1) EXCEPT ![Depth - 1].needed = @ - r]
    <3>1. \A a \in Nat : a >= 1 /\ a # 1 => a >= 2
      OBVIOUS
    <3>2. Len(stack) >= 2 /\ r <= stack[Len(stack)].howmany
      BY <1>2, <1>3, <2>2, <3>1 DEF Top
    <3> QED  BY <1>2, <1>3, <2>2, <3>2, Pop
  <2> QED  BY <1>4, <2>1, <2>2
<1> QED  BY <1>1, <1>3, <1>4, <1>5 DEF SInv, TypeOK, Good, Bounded

LEMMA StepSInv == SInv /\ [Next]_vars => SInv'
<1> SUFFICES ASSUME SInv, [Next]_vars PROVE SInv'
  OBVIOUS
<1>1. CASE Literally
  BY <1>1, LiterallyStep
<1>2. CASE Recurse
  BY <1>2, RecurseStep
<1>3. CASE Jump
  BY <1>3, JumpStep
<1>4. CASE ReadPast
  BY <1>4 DEF ReadPast, SInv, TypeOK
<1>5. CASE Return
  BY <1>5, ReturnStep
<1>6. CASE UNCHANGED vars
  BY <1>6 DEF vars, SInv, TypeOK
<1> QED  BY <1>1, <1>2, <1>3, <1>4, <1>5, <1>6 DEF Next

(* Every variable keeps its type: in particular no subtraction from needed *)
(* wraps (lzjwm_decompress.c:62 and 66) and no call is given back more     *)
(* than it asked for.                                                      *)
THEOREM StreamTypeCorrect == Spec => []TypeOK
<1>1. SInv => TypeOK
  BY DEF SInv
<1> QED  BY InitSInv, StepSInv, <1>1, PTL DEF Spec

(* The depth of the recursion is bounded by the longest match, whatever    *)
(* the stream: each call needs fewer characters than the one that made it  *)
(* (lzjwm_decompress.c:65).                                                *)
THEOREM DepthIsBounded == Spec => []DepthBound
<1>1. SInv => DepthBound
  <2> SUFFICES ASSUME SInv PROVE DepthBound
    OBVIOUS
  <2>1. Depth \in Nat /\ stack \in Seq(Frame) /\ Depth = Len(stack) /\ Chain(stack)
    BY DEF SInv, TypeOK, Depth
  <2>2. MAX_ZERO_MATCH \in Nat /\ MAX_ZERO_MATCH >= 2
    BY FormatBounds
  <2>3. CASE Depth <= 1
    BY <2>1, <2>2, <2>3 DEF DepthBound
  <2>4. CASE Depth >= 2
    <3>1. /\ stack[Depth].howmany >= 2
          /\ stack[Depth].howmany <= MAX_ZERO_MATCH - (Depth - 2)
          /\ stack[Depth].howmany \in Nat
      BY <2>1, <2>4, FrameTypes DEF Chain
    <3>2. \A h \in Nat, l \in Nat, M \in Nat :
            h >= 2 /\ h <= M - (l - 2) => l - 1 <= M - 1
      OBVIOUS
    <3> QED  BY <2>1, <2>2, <3>1, <3>2 DEF DepthBound
  <2>5. \A a \in Nat : a <= 1 \/ a >= 2
    OBVIOUS
  <2> QED  BY <2>1, <2>3, <2>4, <2>5
<1> QED  BY InitSInv, StepSInv, <1>1, PTL DEF Spec

-----------------------------------------------------------------------------
(***************************************************************************)
(* What comes out.  Rest is what a call still has to put out itself, after *)
(* the call it made has returned; P[k] is how many characters are out by   *)
(* then.  The outermost call stands at the byte at which P[1] characters of*)
(* the text begin; from the byte where an inner call stands the stream     *)
(* yields the characters which that call has still to put out.             *)
(***************************************************************************)
Rest(s, k) == s[k].needed - (IF k = Len(s) THEN 0 ELSE s[k + 1].howmany)

Stands(st, f, k, rest, p) ==
  IF k = 1 THEN /\ f.iptr \in 0 .. Len(st.enc)
                /\ st.start[f.iptr] = p
                /\ rest = UINT_MAX - p
           ELSE Yields(st, f.iptr, rest, p)

Tracks(st, s, P, n) ==
  /\ P \in [1 .. Len(s) -> Nat]
  /\ P[Len(s)] = n
  /\ \A k \in 1 .. Len(s) : Stands(st, s[k], k, Rest(s, k), P[k])
  /\ \A k \in 2 .. Len(s) : P[k - 1] = P[k] + Rest(s, k)

(* The first n characters that are out are those of the text.              *)
Agrees(n) == \A k \in 1 .. n : out[k] = stream.text[k]

(* The decoder is within the text ...                                      *)
Within ==
  /\ \E P : Tracks(stream, stack, P, Len(out))
  /\ Len(out) <= Len(stream.text) /\ Agrees(Len(out))
  /\ pc # "undefined"
  /\ pc = "done" => Depth = 1 /\ Len(out) = Len(stream.text)

(* ... or it has taken the NUL after it for another literal.               *)
Past ==
  /\ mode = "terminated"
  /\ Depth = 1
  /\ Top.iptr = Len(stream.enc) + 1
  /\ Top.needed = UINT_MAX - (Len(stream.text) + 1)
  /\ Len(out) = Len(stream.text) + 1 /\ Agrees(Len(stream.text))
  /\ pc # "done"

TInv ==
  /\ SInv
  /\ stream \in Streams /\ mode \in Modes
  /\ input_size = IF mode = "terminated" THEN UINT_MAX ELSE Len(stream.enc)
  /\ stack[1].howmany = UINT_MAX
  /\ Within \/ Past

-----------------------------------------------------------------------------
(* The call that is running, and the others.                               *)
LEMMA TracksFacts ==
  ASSUME NEW st, NEW s, Good(s), NEW P, NEW n, Tracks(st, s, P, n)
  PROVE  LET d == Len(s) IN
         /\ s \in Seq(Frame) /\ d \in Nat /\ d >= 1 /\ d \in 1 .. d
         /\ P \in [1 .. d -> Nat] /\ n = P[d] /\ n \in Nat
         /\ s[d] \in Frame /\ s[d].needed \in Nat /\ Rest(s, d) = s[d].needed
         /\ Stands(st, s[d], d, s[d].needed, n)
         /\ d >= 2 => P[d - 1] = n + s[d].needed
         /\ \A k \in 1 .. d : /\ s[k] \in Frame /\ s[k].needed \in Nat
                              /\ s[k].howmany \in Nat /\ s[k].iptr \in Nat
                              /\ P[k] \in Nat
<1> DEFINE d == Len(s)
<1>1. s \in Seq(Frame) /\ d \in Nat /\ d >= 1 /\ d \in 1 .. d
  BY DEF Good
<1>2. \A k \in 1 .. d : /\ s[k] \in Frame /\ s[k].needed \in Nat
                        /\ s[k].howmany \in Nat /\ s[k].iptr \in Nat
  BY <1>1, FrameTypes
<1>3. P \in [1 .. d -> Nat] /\ n = P[d] /\ \A k \in 1 .. d : P[k] \in Nat
  BY <1>1 DEF Tracks
<1>4. Rest(s, d) = s[d].needed
  <2>1. Rest(s, d) = s[d].needed - 0
    BY DEF Rest
  <2> QED  BY <1>1, <1>2, <2>1
<1>5. Stands(st, s[d], d, s[d].needed, n)
  BY <1>1, <1>3, <1>4 DEF Tracks
<1>6. d >= 2 => P[d - 1] = n + s[d].needed
  BY <1>1, <1>3, <1>4 DEF Tracks
<1> QED  BY <1>1, <1>2, <1>3, <1>4, <1>5, <1>6

(* The call that is running moves on, having put m - n characters out.     *)
LEMMA TrackTop ==
  ASSUME NEW st, NEW s, Good(s), NEW P, NEW n, Tracks(st, s, P, n),
         NEW f \in Frame, NEW m \in Nat,
         f.howmany = s[Len(s)].howmany,
         m + f.needed = n + s[Len(s)].needed,
         Stands(st, f, Len(s), f.needed, m)
  PROVE  Tracks(st, [s EXCEPT ![Len(s)] = f], [P EXCEPT ![Len(s)] = m], m)
<1> DEFINE d == Len(s)
           t == [s EXCEPT ![d] = f]
           Q == [P EXCEPT ![d] = m]
<1>1. /\ s \in Seq(Frame) /\ d \in Nat /\ d >= 1 /\ d \in 1 .. d
      /\ P \in [1 .. d -> Nat] /\ n = P[d] /\ n \in Nat
      /\ s[d].needed \in Nat
      /\ d >= 2 => P[d - 1] = n + s[d].needed
  BY TracksFacts
<1>2. /\ t \in Seq(Frame) /\ Len(t) = d /\ t[d] = f
      /\ \A k \in 1 .. d : k # d => t[k] = s[k]
      /\ \A k \in 1 .. d : t[k].howmany = s[k].howmany
  BY <1>1
<1>3. /\ Q \in [1 .. d -> Nat] /\ Q[d] = m
      /\ \A k \in 1 .. d : k # d => Q[k] = P[k]
  BY <1>1
<1>4. f.needed \in Nat
  BY FrameTypes
<1>5. \A k \in 1 .. d : Stands(st, s[k], k, Rest(s, k), P[k])
  BY DEF Tracks
<1>6. \A k \in 2 .. d : P[k - 1] = P[k] + Rest(s, k)
  BY DEF Tracks
<1> HIDE DEF d, t, Q
<1>7. Rest(t, d) = f.needed
  <2>1. Rest(t, d) = t[d].needed - 0
    BY <1>2 DEF Rest
  <2> QED  BY <1>2, <1>4, <2>1
<1>8. \A k \in 1 .. d : k # d => Rest(t, k) = Rest(s, k)
  <2> SUFFICES ASSUME NEW k \in 1 .. d, k # d PROVE Rest(t, k) = Rest(s, k)
    OBVIOUS
  <2>1. k + 1 \in 1 .. d
    BY <1>1
  <2>2. t[k + 1].howmany = s[k + 1].howmany /\ t[k] = s[k]
    BY <1>2, <2>1
  <2> QED  BY <1>2, <2>2 DEF Rest, d
<1>9. \A k \in 1 .. d : Stands(st, t[k], k, Rest(t, k), Q[k])
  <2> SUFFICES ASSUME NEW k \in 1 .. d PROVE Stands(st, t[k], k, Rest(t, k), Q[k])
    OBVIOUS
  <2>1. CASE k = d
    <3>1. Stands(st, f, d, f.needed, m)
      BY DEF d
    <3> QED  BY <1>2, <1>3, <1>7, <2>1, <3>1
  <2>2. CASE k # d
    BY <1>2, <1>3, <1>5, <1>8, <2>2
  <2> QED  BY <2>1, <2>2
<1>10. \A k \in 2 .. d : Q[k - 1] = Q[k] + Rest(t, k)
  <2> SUFFICES ASSUME NEW k \in 2 .. d PROVE Q[k - 1] = Q[k] + Rest(t, k)
    OBVIOUS
  <2>1. k - 1 \in 1 .. d /\ k - 1 # d /\ k \in 1 .. d
    BY <1>1
  <2>2. Q[k - 1] = P[k - 1]
    BY <1>3, <2>1
  <2>3. CASE k = d
    <3>1. P[d - 1] = n + s[d].needed
      BY <1>1, <2>3
    <3>2. m + f.needed = n + s[d].needed
      BY DEF d
    <3> QED  BY <1>3, <1>7, <2>2, <2>3, <3>1, <3>2
  <2>4. CASE k # d
    BY <1>3, <1>6, <1>8, <2>1, <2>2, <2>4
  <2> QED  BY <2>3, <2>4
<1> QED  BY <1>2, <1>3, <1>9, <1>10 DEF Tracks, d, t, Q

(* The call that is running calls for the next l characters.               *)
LEMMA TrackPush ==
  ASSUME NEW st, NEW s, Good(s), NEW P, NEW n, Tracks(st, s, P, n),
         NEW g \in Frame, NEW f \in Frame, NEW l \in Nat,
         g.howmany = s[Len(s)].howmany, g.needed = s[Len(s)].needed,
         l <= g.needed, f.howmany = l, f.needed = l,
         Stands(st, g, Len(s), g.needed - l, n + l),
         Yields(st, f.iptr, l, n)
  PROVE  \E Q : Tracks(st, Append([s EXCEPT ![Len(s)] = g], f), Q, n)
<1> DEFINE d == Len(s)
           u == [s EXCEPT ![d] = g]
           t == Append(u, f)
           Q == [k \in 1 .. (d + 1) |-> IF k = d + 1 THEN n
                                        ELSE IF k = d THEN n + l ELSE P[k]]
<1>1. /\ s \in Seq(Frame) /\ d \in Nat /\ d >= 1 /\ d \in 1 .. d
      /\ P \in [1 .. d -> Nat] /\ n = P[d] /\ n \in Nat
      /\ s[d].needed \in Nat
      /\ d >= 2 => P[d - 1] = n + s[d].needed
  <2>1. s \in Seq(Frame) /\ d \in Nat /\ d >= 1 /\ d \in 1 .. d
    BY DEF Good
  <2>2. P \in [1 .. d -> Nat] /\ n = P[d]
    BY DEF Tracks
  <2>3. n \in Nat /\ s[d].needed \in Nat
    BY TracksFacts
  <2>4. d >= 2 => P[d - 1] = n + s[d].needed
    BY TracksFacts
  <2> QED  BY <2>1, <2>2, <2>3, <2>4
<1>2. /\ u \in Seq(Frame) /\ Len(u) = d /\ u[d] = g
      /\ \A k \in 1 .. d : k # d => u[k] = s[k]
      /\ \A k \in 1 .. d : u[k].howmany = s[k].howmany
  BY <1>1
<1>3. \A k \in 1 .. d : P[k] \in Nat
  BY <1>1
<1>4. \A k \in 1 .. d : Stands(st, s[k], k, Rest(s, k), P[k])
  BY DEF Tracks
<1>5. \A k \in 2 .. d : P[k - 1] = P[k] + Rest(s, k)
  BY DEF Tracks
<1>6. g.needed = s[d].needed /\ Stands(st, g, d, g.needed - l, n + l)
  OBVIOUS
<1> HIDE DEF u
<1>7. /\ t \in Seq(Frame) /\ Len(t) = d + 1 /\ t[d + 1] = f /\ t[d] = g
      /\ \A k \in 1 .. d : t[k] = u[k]
  BY <1>1, <1>2
<1> HIDE DEF d, t
<1>8. /\ Q \in [1 .. (d + 1) -> Nat] /\ Q[d + 1] = n /\ Q[d] = n + l
      /\ \A k \in 1 .. d : k # d => Q[k] = P[k]
  BY <1>1, <1>3
<1> HIDE DEF Q
<1>9. Rest(t, d + 1) = l
  <2>1. Rest(t, d + 1) = t[d + 1].needed - 0
    BY <1>7 DEF Rest
  <2> QED  BY <1>7, <2>1
<1>10. Rest(t, d) = g.needed - l
  BY <1>1, <1>7 DEF Rest
<1>11. \A k \in 1 .. d : k # d => Rest(t, k) = Rest(s, k)
  <2> SUFFICES ASSUME NEW k \in 1 .. d, k # d PROVE Rest(t, k) = Rest(s, k)
    OBVIOUS
  <2>1. k + 1 \in 1 .. d /\ k # d + 1
    BY <1>1
  <2>2. t[k + 1].howmany = s[k + 1].howmany /\ t[k] = s[k]
    BY <1>2, <1>7, <2>1
  <2> QED  BY <1>7, <2>1, <2>2 DEF Rest, d
<1>12. \A k \in 1 .. (d + 1) : Stands(st, t[k], k, Rest(t, k), Q[k])
  <2> SUFFICES ASSUME NEW k \in 1 .. (d + 1)
               PROVE  Stands(st, t[k], k, Rest(t, k), Q[k])
    OBVIOUS
  <2>1. CASE k = d + 1
    <3>1. k # 1
      BY <1>1, <2>1
    <3>2. Stands(st, f, k, l, n)
      BY <3>1 DEF Stands
    <3> QED  BY <1>7, <1>8, <1>9, <2>1, <3>2
  <2>2. CASE k = d
    BY <1>6, <1>7, <1>8, <1>10, <2>2
  <2>3. CASE k \in 1 .. d /\ k # d
    BY <1>2, <1>4, <1>7, <1>8, <1>11, <2>3
  <2> QED  BY <1>1, <2>1, <2>2, <2>3
<1>13. \A k \in 2 .. (d + 1) : Q[k - 1] = Q[k] + Rest(t, k)
  <2> SUFFICES ASSUME NEW k \in 2 .. (d + 1) PROVE Q[k - 1] = Q[k] + Rest(t, k)
    OBVIOUS
  <2>1. CASE k = d + 1
    <3>1. k - 1 = d
      BY <1>1, <2>1
    <3> QED  BY <1>8, <1>9, <2>1, <3>1
  <2>2. CASE k = d
    <3>1. Q[k - 1] = n + s[d].needed
      <4>1. d >= 2 /\ d - 1 \in 1 .. d /\ d - 1 # d
        BY <1>1, <2>2
      <4>2. Q[d - 1] = P[d - 1]
        BY <1>8, <4>1
      <4> QED  BY <1>1, <2>2, <4>1, <4>2
    <3>2. \A a \in Nat, b \in Nat, c \in Nat : a + b = (a + c) + (b - c)
      OBVIOUS
    <3>3. g.needed \in Nat /\ g.needed = s[d].needed
      BY <1>1, <1>6
    <3>4. n + g.needed = (n + l) + (g.needed - l)
      BY <1>1, <3>2, <3>3
    <3>5. Q[k] = n + l /\ Rest(t, k) = g.needed - l
      BY <1>8, <1>10, <2>2
    <3> QED  BY <3>1, <3>3, <3>4, <3>5
  <2>3. CASE k \in 2 .. d /\ k # d
    <3>1. k - 1 \in 1 .. d /\ k - 1 # d /\ k \in 1 .. d
      <4>1. d \in Nat
        BY <1>1
      <4> QED  BY <2>3, <4>1
    <3>2. Q[k - 1] = P[k - 1] /\ Q[k] = P[k]
      BY <1>8, <2>3, <3>1
    <3>3. P[k - 1] = P[k] + Rest(s, k) /\ Rest(t, k) = Rest(s, k)
      BY <1>5, <1>11, <2>3, <3>1
    <3> QED  BY <3>2, <3>3
  <2> QED  BY <1>1, <2>1, <2>2, <2>3
<1>14. Tracks(st, t, Q, n)
  BY <1>7, <1>8, <1>12, <1>13 DEF Tracks
<1> QED  BY <1>14 DEF t, u, d

(* An inner call that has put out all it was asked for returns.            *)
LEMMA TrackPop ==
  ASSUME NEW st, NEW s, Good(s), NEW P, NEW n, Tracks(st, s, P, n),
         Len(s) >= 2, s[Len(s)].needed = 0
  PROVE  \E Q : Tracks(st, [SubSeq(s, 1, Len(s) - 1) EXCEPT
                              ![Len(s) - 1].needed = @ - s[Len(s)].howmany], Q, n)
<1> DEFINE l == Len(s) - 1
           r == s[Len(s)].howmany
           u == SubSeq(s, 1, l)
           t == [u EXCEPT ![l].needed = @ - r]
           Q == [k \in 1 .. l |-> P[k]]
<1>1. /\ s \in Seq(Frame) /\ Len(s) = l + 1 /\ l \in Nat /\ l >= 1
      /\ P \in [1 .. (l + 1) -> Nat] /\ n \in Nat
      /\ P[l] = n
      /\ \A k \in 1 .. (l + 1) : P[k] \in Nat
  <2> DEFINE d == Len(s)
  <2>1. /\ s \in Seq(Frame) /\ d \in Nat /\ P \in [1 .. d -> Nat] /\ n \in Nat
        /\ P[d - 1] = n + s[d].needed
        /\ \A k \in 1 .. d : P[k] \in Nat
    <3>1. s \in Seq(Frame) /\ d \in Nat
      BY DEF Good
    <3>2. P \in [1 .. d -> Nat]
      BY DEF Tracks
    <3>3. n \in Nat
      BY TracksFacts
    <3>4. P[d - 1] = n + s[d].needed
      BY TracksFacts
    <3> QED  BY <3>1, <3>2, <3>3, <3>4
  <2>2. l \in Nat /\ d = l + 1 /\ l = d - 1 /\ l >= 1
    BY <2>1
  <2>3. P[d - 1] = n
    BY <2>1
  <2> HIDE DEF d, l
  <2> QED  BY <2>1, <2>2, <2>3 DEF d
<1>2. /\ u \in Seq(Frame) /\ Len(u) = l /\ \A k \in 1 .. l : u[k] = s[k]
  <2>1. \A k \in 1 .. l : s[k] \in Frame
    BY <1>1
  <2> HIDE DEF l
  <2>2. /\ u \in Seq(Frame)
        /\ Len(u) = IF 1 <= l THEN (l - 1) + 1 ELSE 0
        /\ \A k \in 1 .. ((l - 1) + 1) : u[k] = s[(1 + k) - 1]
    BY <1>1, <2>1, SubSeqProperties
  <2> HIDE DEF u
  <2>3. Len(u) = l
    BY <1>1, <2>2
  <2>4. \A k \in 1 .. l : k \in 1 .. ((l - 1) + 1) /\ (1 + k) - 1 = k
    BY <1>1
  <2> QED  BY <2>2, <2>3, <2>4
<1>3. /\ Len(t) = l
      /\ t[l].needed = s[l].needed - r /\ t[l].iptr = s[l].iptr
      /\ \A k \in 1 .. l : t[k].howmany = s[k].howmany
      /\ \A k \in 1 .. l : k # l => t[k] = s[k]
  <2> HIDE DEF l, r, u
  <2>1. l \in 1 .. l /\ s[l] \in Frame
    BY <1>1
  <2>2. t = [u EXCEPT ![l] = [u[l] EXCEPT !.needed = @ - r]]
    OBVIOUS
  <2>3. /\ [s[l] EXCEPT !.needed = @ - r].needed = s[l].needed - r
        /\ [s[l] EXCEPT !.needed = @ - r].iptr = s[l].iptr
        /\ [s[l] EXCEPT !.needed = @ - r].howmany = s[l].howmany
    BY <2>1 DEF Frame
  <2> HIDE DEF t
  <2>4. /\ Len(t) = l /\ t[l] = [s[l] EXCEPT !.needed = @ - r]
        /\ \A k \in 1 .. l : k # l => t[k] = s[k]
    BY <1>2, <2>1, <2>2
  <2> QED  BY <2>3, <2>4
<1>4. \A k \in 1 .. (l + 1) : Stands(st, s[k], k, Rest(s, k), P[k])
  BY <1>1 DEF Tracks
<1>5. \A k \in 2 .. (l + 1) : P[k - 1] = P[k] + Rest(s, k)
  BY <1>1 DEF Tracks
<1>6. Q \in [1 .. l -> Nat] /\ \A k \in 1 .. l : Q[k] = P[k]
  BY <1>1
<1>7. r = s[l + 1].howmany
  BY <1>1
<1> HIDE DEF l, r, u, t, Q
<1>8. \A k \in 1 .. l : Rest(t, k) = Rest(s, k)
  <2> SUFFICES ASSUME NEW k \in 1 .. l PROVE Rest(t, k) = Rest(s, k)
    OBVIOUS
  <2>1. k # Len(s)
    BY <1>1
  <2>2. CASE k = l
    <3>1. Rest(t, l) = t[l].needed - 0
      BY <1>3 DEF Rest
    <3>2. Rest(s, l) = s[l].needed - r
      BY <1>7, <2>1, <2>2 DEF Rest
    <3>3. s[l].needed \in Nat /\ r \in Nat
      BY <1>1, <1>7, TracksFacts
    <3>4. \A a \in Nat, b \in Nat : (a - b) - 0 = a - b
      OBVIOUS
    <3> QED  BY <1>3, <2>2, <3>1, <3>2, <3>3, <3>4
  <2>3. CASE k # l
    <3>1. k + 1 \in 1 .. l
      BY <1>1, <2>3
    <3>2. t[k + 1].howmany = s[k + 1].howmany /\ t[k] = s[k]
      BY <1>3, <2>3, <3>1
    <3> QED  BY <1>3, <2>1, <2>3, <3>2 DEF Rest
  <2> QED  BY <2>2, <2>3
<1>9. \A k \in 1 .. l : Stands(st, t[k], k, Rest(t, k), Q[k])
  <2> SUFFICES ASSUME NEW k \in 1 .. l PROVE Stands(st, t[k], k, Rest(t, k), Q[k])
    OBVIOUS
  <2>1. k \in 1 .. (l + 1)
    BY <1>1
  <2>2. Stands(st, s[k], k, Rest(t, k), Q[k])
    BY <1>4, <1>6, <1>8, <2>1
  <2>3. t[k].iptr = s[k].iptr
    BY <1>3
  <2> QED  BY <2>2, <2>3 DEF Stands
<1>10. \A k \in 2 .. l : Q[k - 1] = Q[k] + Rest(t, k)
  <2> SUFFICES ASSUME NEW k \in 2 .. l PROVE Q[k - 1] = Q[k] + Rest(t, k)
    OBVIOUS
  <2>1. k - 1 \in 1 .. l /\ k \in 1 .. l /\ k \in 2 .. (l + 1)
    BY <1>1
  <2> QED  BY <1>5, <1>6, <1>8, <2>1
<1>11. Q[l] = n
  BY <1>1, <1>6
<1>12. Tracks(st, t, Q, n)
  BY <1>3, <1>6, <1>9, <1>10, <1>11 DEF Tracks
<1> QED  BY <1>12 DEF t, u, l, r

-----------------------------------------------------------------------------
(* What is known of the stream and of the call that is running.            *)
LEMMA KnownSizes ==
  ASSUME TInv
  PROVE  /\ IsStream(stream) /\ stream.enc \in Seq(Byte) /\ stream.text \in Seq(Byte)
         /\ Len(stream.enc) \in Nat /\ Len(stream.text) \in Nat
         /\ Len(stream.enc) <= Len(stream.text) /\ Len(stream.text) + 1 < UINT_MAX
         /\ UINT_MAX \in Nat
         /\ stream.start[0] = 0 /\ stream.start[Len(stream.enc)] = Len(stream.text)
         /\ \A p \in 0 .. Len(stream.enc) : stream.start[p] \in 0 .. Len(stream.text)
         /\ Good(stack) /\ Depth = Len(stack) /\ Depth \in Nat /\ Depth >= 1
         /\ Top \in Frame /\ Top = stack[Depth] /\ Top.iptr \in Nat
         /\ Top.needed \in Nat /\ Top.howmany \in Nat
         /\ out \in Seq(Literal) /\ Len(out) \in Nat
<1>1. stream \in Streams
  BY DEF TInv
<1>2. IsStream(stream) /\ Len(stream.text) + 1 < UINT_MAX
  BY <1>1, StreamsAssumption, LengthAssumption
<1>3. /\ stream.enc \in Seq(Byte) /\ stream.text \in Seq(Byte)
      /\ Len(stream.enc) \in Nat /\ Len(stream.text) \in Nat
      /\ Len(stream.enc) <= Len(stream.text)
      /\ stream.start[0] = 0 /\ stream.start[Len(stream.enc)] = Len(stream.text)
      /\ \A p \in 0 .. Len(stream.enc) : stream.start[p] \in 0 .. Len(stream.text)
  BY <1>2, StreamFacts DEF IsStream
<1>4. Good(stack) /\ out \in Seq(Literal)
  BY DEF TInv, SInv, TypeOK, Good, Bounded
<1>5. Depth = Len(stack) /\ Depth \in Nat /\ Depth >= 1 /\ Top \in Frame /\ Top = stack[Depth]
  BY <1>4 DEF Good, Depth, Top
<1>6. Top.iptr \in Nat /\ Top.needed \in Nat /\ Top.howmany \in Nat /\ UINT_MAX \in Nat
  BY <1>5, FrameTypes
<1> QED  BY <1>2, <1>3, <1>4, <1>5, <1>6

LEMMA Running ==
  ASSUME TInv, NEW P, Tracks(stream, stack, P, Len(out))
  PROVE  /\ Depth = 1 =>
              /\ Top.iptr \in 0 .. Len(stream.enc)
              /\ stream.start[Top.iptr] = Len(out)
              /\ Top.needed = UINT_MAX - Len(out)
         /\ Depth # 1 => Yields(stream, Top.iptr, Top.needed, Len(out))
<1>1. Good(stack) /\ Depth = Len(stack) /\ Top = stack[Depth]
  BY KnownSizes
<1>2. Stands(stream, Top, Depth, Top.needed, Len(out))
  BY <1>1, TracksFacts
<1> QED  BY <1>2 DEF Stands

(* An inner call that needs characters stands at a byte of the stream.     *)
LEMMA InnerInStream ==
  ASSUME TInv, NEW P, Tracks(stream, stack, P, Len(out)), Depth # 1, Top.needed > 0
  PROVE  Top.iptr \in 0 .. (Len(stream.enc) - 1)
<1>1. Yields(stream, Top.iptr, Top.needed, Len(out))
  BY Running
<1> QED  BY <1>1, KnownSizes, YieldsMore

(* The bytes that are read are those of the stream.                        *)
LEMMA CurrentByte ==
  ASSUME TInv, Top.iptr \in 0 .. (Len(stream.enc) - 1)
  PROVE  /\ ch = stream.enc[Top.iptr + 1] /\ ch \in Byte
         /\ Top.iptr + 1 \in 0 .. Len(stream.enc)
         /\ count(ch) \in Nat /\ get_offset(ch) \in Nat
         /\ stream.start[Top.iptr + 1] = stream.start[Top.iptr] + count(ch)
         /\ ~IsPointer(ch) => /\ count(ch) = 1
                              /\ stream.text[stream.start[Top.iptr] + 1] = ch
         /\ count(ch) # 1 =>
              /\ IsPointer(ch) /\ count(ch) >= 2
              /\ Source(stream.enc, Top.iptr) \in 0 .. (Top.iptr - 1)
              /\ Back = Source(stream.enc, Top.iptr)
<1> DEFINE p == Top.iptr
           c == stream.enc[p + 1]
<1>1. /\ IsStream(stream) /\ stream.enc \in Seq(Byte) /\ Len(stream.enc) \in Nat
      /\ p \in Nat /\ UINT_MAX \in Nat /\ Len(stream.enc) < UINT_MAX
  BY KnownSizes
<1>2. ch = c
  <2>1. p + 1 \in 1 .. Len(stream.enc)
    BY <1>1
  <2>2. Memory[p + 1] = stream.enc[p + 1]
    BY <1>1, <2>1 DEF Memory
  <2> QED  BY <2>2 DEF ch
<1>3. p + 1 \in 0 .. Len(stream.enc)
  BY <1>1
<1>4. /\ c \in Byte /\ count(c) \in Nat
      /\ stream.start[p + 1] = stream.start[p] + count(c)
      /\ ~IsPointer(c) => count(c) = 1 /\ stream.text[stream.start[p] + 1] = c
      /\ IsPointer(c) => count(c) >= 2 /\ Source(stream.enc, p) \in 0 .. (p - 1)
  BY <1>1, StreamByte
<1>5. get_offset(c) \in Nat
  BY <1>4, OffsetRange
<1>6. ASSUME IsPointer(c) PROVE Back = Source(stream.enc, p)
  <2>1. Source(stream.enc, p) = p - get_offset(c) - 1
    BY DEF Source
  <2>2. Back = unsigned(p + 1 - get_offset(ch) - 2)
    BY Zenon DEF Back
  <2> HIDE DEF c
  <2>3. \A a \in Nat, b \in Nat : a + 1 - b - 2 = a - b - 1
    OBVIOUS
  <2>4. p + 1 - get_offset(ch) - 2 = Source(stream.enc, p)
    BY <1>1, <1>2, <1>5, <2>1, <2>3
  <2>5. Source(stream.enc, p) \in 0 .. UINT_MAX
    BY <1>1, <1>4, <1>6 DEF c
  <2>6. \A x \in 0 .. UINT_MAX : unsigned(x) = x
    BY <1>1 DEF unsigned
  <2> QED  BY <2>2, <2>4, <2>5, <2>6
<1> HIDE DEF c
<1>7. count(ch) # 1 => IsPointer(ch) /\ count(ch) >= 2
  BY <1>2, <1>4
<1> QED  BY <1>2, <1>3, <1>4, <1>5, <1>6, <1>7 DEF c

(* The reads of a decoder that is within the text: of the stream, or of the*)
(* NUL after it, which the outermost call takes for a literal.             *)
LEMMA ReadsInside ==
  ASSUME TInv, NEW P, Tracks(stream, stack, P, Len(out)), Len(out) <= Len(stream.text),
         Looping
  PROVE  /\ Reading
         /\ \/ Top.iptr \in 0 .. (Len(stream.enc) - 1)
            \/ /\ mode = "terminated" /\ Depth = 1 /\ Top.iptr = Len(stream.enc)
               /\ Len(out) = Len(stream.text) /\ ch = 0 /\ count(ch) = 1
<1>1. /\ Len(stream.enc) \in Nat /\ Top.iptr \in Nat /\ Top.needed > 0
      /\ Top.iptr < input_size /\ stream.enc \in Seq(Byte)
  BY KnownSizes DEF Looping
<1>2. Len(Memory) \in Nat /\ Len(Memory) >= Len(stream.enc)
      /\ (mode = "terminated" => /\ Len(Memory) = Len(stream.enc) + 1
                                 /\ Memory[Len(stream.enc) + 1] = 0)
  BY <1>1 DEF Memory
<1>3. CASE Top.iptr \in 0 .. (Len(stream.enc) - 1)
  <2>1. Top.iptr < Len(Memory)
    BY <1>1, <1>2, <1>3
  <2> QED  BY <1>3, <2>1 DEF Reading
<1>4. CASE Top.iptr \notin 0 .. (Len(stream.enc) - 1)
  <2>1. Depth = 1
    BY <1>1, <1>4, InnerInStream
  <2>2. Top.iptr \in 0 .. Len(stream.enc) /\ stream.start[Top.iptr] = Len(out)
    BY <2>1, Running
  <2>3. Top.iptr = Len(stream.enc)
    BY <1>1, <1>4, <2>2
  <2>4. mode = "terminated"
    BY <1>1, <2>3 DEF TInv
  <2>5. Reading
    BY <1>1, <1>2, <2>3, <2>4 DEF Reading
  <2>6. ch = 0
    BY <1>2, <2>3, <2>4 DEF ch
  <2>7. count(ch) = 1
    BY <2>6, FormatBounds DEF count, IsPointer
  <2> QED  BY <2>1, <2>2, <2>3, <2>4, <2>5, <2>6, <2>7, KnownSizes
<1> QED  BY <1>3, <1>4

(* The calls of such a decoder return when they have put out what they were*)
(* asked for, and the outermost one at the end of the stream.              *)
LEMMA ReturnsWithAll ==
  ASSUME TInv, NEW P, Tracks(stream, stack, P, Len(out)), Len(out) <= Len(stream.text),
         pc = "run", ~Looping
  PROVE  /\ Depth = 1 => /\ mode # "terminated" /\ Len(out) = Len(stream.text)
                         /\ Top.howmany - Top.needed = Len(stream.text)
         /\ Depth # 1 => /\ Top.needed = 0
                         /\ Top.howmany - Top.needed = Top.howmany
<1>1. /\ Len(stream.enc) \in Nat /\ Len(stream.text) \in Nat /\ UINT_MAX \in Nat
      /\ Len(stream.enc) <= Len(stream.text) /\ Len(stream.text) + 1 < UINT_MAX
      /\ Top.iptr \in Nat /\ Top.needed \in Nat /\ Top.howmany \in Nat /\ Len(out) \in Nat
      /\ stream.start[Len(stream.enc)] = Len(stream.text)
      /\ Top = stack[Depth]
  BY KnownSizes
<1>2. ~(Top.needed > 0) \/ ~(Top.iptr < input_size)
  BY DEF Looping
<1>3. CASE Depth = 1
  <2>1. /\ Top.iptr \in 0 .. Len(stream.enc) /\ stream.start[Top.iptr] = Len(out)
        /\ Top.needed = UINT_MAX - Len(out)
    BY <1>3, Running
  <2>2. ~(Top.iptr < input_size)
    BY <1>1, <1>2, <2>1
  <2>3. mode # "terminated" /\ Top.iptr = Len(stream.enc)
    BY <1>1, <2>1, <2>2 DEF TInv
  <2>4. Top.howmany = UINT_MAX
    BY <1>1, <1>3 DEF TInv
  <2> QED  BY <1>1, <1>3, <2>1, <2>3, <2>4
<1>4. CASE Depth # 1
  <2>1. Top.needed = 0
    <3> SUFFICES ASSUME Top.needed > 0 PROVE FALSE
      BY <1>1
    <3>1. Top.iptr \in 0 .. (Len(stream.enc) - 1)
      BY <1>4, InnerInStream
    <3> QED  BY <1>1, <1>2, <3>1 DEF TInv
  <2> QED  BY <1>1, <1>4, <2>1
<1> QED  BY <1>3, <1>4

(* Past the text there is nothing to read.                                 *)
LEMMA PastEnds ==
  ASSUME TInv, Past, pc = "run"
  PROVE  Looping /\ ~Reading
<1>1. /\ Len(stream.enc) \in Nat /\ Len(stream.text) \in Nat /\ UINT_MAX \in Nat
      /\ Len(stream.enc) <= Len(stream.text) /\ Len(stream.text) + 1 < UINT_MAX
      /\ stream.enc \in Seq(Byte)
  BY KnownSizes
<1>2. Looping
  BY <1>1 DEF Looping, Past, TInv
<1>3. Len(Memory) = Len(stream.enc) + 1
  BY <1>1 DEF Memory, Past
<1> QED  BY <1>1, <1>2, <1>3 DEF Reading, Past

-----------------------------------------------------------------------------
LEMMA InitTInv == Init => TInv
<1> SUFFICES ASSUME Init PROVE TInv
  OBVIOUS
<1>1. SInv /\ stream \in Streams /\ mode \in Modes
  BY InitSInv DEF Init
<1>2. /\ Len(stream.text) + 1 < UINT_MAX /\ IsStream(stream) /\ UINT_MAX \in Nat
  BY <1>1, StreamsAssumption, LengthAssumption, UIntAssumption
<1>3. /\ stream.start[0] = 0 /\ Len(stream.enc) \in Nat /\ Len(stream.text) \in Nat
      /\ Len(stream.enc) <= Len(stream.text)
  BY <1>2, StreamFacts
<1>4. unsigned(-1) = UINT_MAX
  BY <1>2 DEF unsigned
<1>5. input_size = IF mode = "terminated" THEN UINT_MAX ELSE Len(stream.enc)
  <2>1. unsigned(Len(stream.enc)) = Len(stream.enc)
    <3>1. \A x \in 0 .. UINT_MAX : unsigned(x) = x
      BY <1>2 DEF unsigned
    <3>2. Len(stream.enc) \in 0 .. UINT_MAX
      BY <1>2, <1>3
    <3> QED  BY <3>1, <3>2
  <2> QED  BY <1>4, <2>1 DEF Init
<1> DEFINE f == Call(0, UINT_MAX)
           P == [k \in 1 .. 1 |-> 0]
<1>6. stack = << f >> /\ f.iptr = 0 /\ f.needed = UINT_MAX /\ f.howmany = UINT_MAX
  BY <1>4 DEF Init, Call
<1> HIDE DEF f
<1>7. Len(stack) = 1 /\ stack[1] = f
  BY <1>6
<1>8. Rest(stack, 1) = UINT_MAX
  <2>1. Rest(stack, 1) = UINT_MAX - 0
    BY <1>6, <1>7 DEF Rest
  <2> QED  BY <1>2, <2>1
<1>9. Stands(stream, stack[1], 1, Rest(stack, 1), 0)
  BY <1>2, <1>3, <1>6, <1>7, <1>8 DEF Stands
<1>10. Tracks(stream, stack, P, 0)
  <2>1. P \in [1 .. 1 -> Nat] /\ P[1] = 0
    OBVIOUS
  <2> HIDE DEF P
  <2>2. \A k \in 1 .. Len(stack) : k = 1
    BY <1>7
  <2>3. \A k \in 2 .. Len(stack) : FALSE
    BY <1>7
  <2> QED  BY <1>7, <1>9, <2>1, <2>2, <2>3 DEF Tracks
<1>11. Len(out) = 0 /\ pc = "run"
  BY DEF Init
<1>12. Within
  BY <1>3, <1>10, <1>11 DEF Within, Agrees
<1> QED  BY <1>1, <1>5, <1>6, <1>7, <1>12 DEF TInv

(* A byte of the stream that is put out is the next character of the text. *)
LEMMA LiterallyTracks ==
  ASSUME TInv, Literally, NEW P, Tracks(stream, stack, P, Len(out)),
         Len(out) <= Len(stream.text), Agrees(Len(out))
  PROVE  /\ stack'[1].howmany = UINT_MAX
         /\ \/ Within' /\ Len(out) < Len(stream.text)
               /\ ch = stream.text[Len(out) + 1]
            \/ Past' /\ Len(out) = Len(stream.text)
<1> DEFINE n == Len(out)
           d == Depth
           f == [iptr |-> Top.iptr + 1, howmany |-> Top.howmany, needed |-> Top.needed - 1]
<1>1. /\ Reading /\ Looping /\ pc = "run" /\ count(ch) = 1 /\ out' = Append(out, ch)
      /\ UNCHANGED <<stream, mode, input_size, pc, result>>
  BY DEF Literally, Reading, Looping
<1>2. /\ IsStream(stream) /\ Len(stream.enc) \in Nat /\ Len(stream.text) \in Nat
      /\ stream.start[Len(stream.enc)] = Len(stream.text)
      /\ \A p \in 0 .. Len(stream.enc) : stream.start[p] \in 0 .. Len(stream.text)
      /\ Good(stack) /\ d = Len(stack) /\ d \in Nat /\ d >= 1
      /\ Top \in Frame /\ Top = stack[d] /\ Top.iptr \in Nat /\ Top.needed \in Nat
      /\ out \in Seq(Literal) /\ n \in Nat /\ stack \in Seq(Frame) /\ UINT_MAX \in Nat
  BY KnownSizes DEF Good
<1>3. Top.needed > 0 /\ SInv
  BY <1>1 DEF Looping, TInv
<1>4. f \in Frame /\ stack' = [stack EXCEPT ![d] = f]
  <2>1. /\ Top.iptr + 1 \in Unsigned /\ Top.needed - 1 \in Unsigned
        /\ Top.needed <= Top.howmany /\ Top.howmany \in Unsigned
    BY <1>1, <1>3, ReadingFacts, FrameTypes
  <2>2. Top.needed - 1 <= Top.howmany
    <3>1. Top.howmany \in Nat
      BY <1>2, FrameTypes
    <3> QED  BY <1>2, <2>1, <3>1
  <2>3. [stack EXCEPT ![Depth].iptr = Top.iptr + 1, ![Depth].needed = Top.needed - 1]
          = [stack EXCEPT ![Depth] = f]
    BY <1>3, <2>1, <2>2, TopFields
  <2>4. stack' = [stack EXCEPT ![Depth].iptr = Top.iptr + 1,
                               ![Depth].needed = Top.needed - 1]
    BY DEF Literally, Top
  <2> QED  BY <2>1, <2>3, <2>4, FrameTypes
<1>5. f.iptr = Top.iptr + 1 /\ f.howmany = Top.howmany /\ f.needed = Top.needed - 1
  OBVIOUS
<1> HIDE DEF f
<1>6. /\ Len(stack') = d /\ stack'[d] = f
      /\ \A k \in 1 .. d : stack'[k].howmany = stack[k].howmany
  BY <1>2, <1>4, <1>5
<1>7. stack'[1].howmany = UINT_MAX
  BY <1>2, <1>6 DEF TInv
<1>8. /\ Len(out') = n + 1 /\ out'[n + 1] = ch
      /\ \A k \in 1 .. n : out'[k] = out[k]
  BY <1>1, <1>2
<1>9. CASE Top.iptr \in 0 .. (Len(stream.enc) - 1)
  <2>1. /\ ch = stream.enc[Top.iptr + 1] /\ ch \in Byte
        /\ Top.iptr + 1 \in 0 .. Len(stream.enc)
        /\ stream.start[Top.iptr + 1] = stream.start[Top.iptr] + count(ch)
        /\ ~IsPointer(ch) => stream.text[stream.start[Top.iptr] + 1] = ch
    BY <1>9, CurrentByte
  <2>2. ~IsPointer(ch)
    BY <1>1, <2>1, CountRange
  <2>3. Stands(stream, f, d, f.needed, n + 1) /\ n < Len(stream.text)
        /\ ch = stream.text[n + 1]
    <3>1. CASE d = 1
      <4>1. stream.start[Top.iptr] = n /\ Top.needed = UINT_MAX - n
        BY <3>1, Running
      <4>2. stream.start[Top.iptr + 1] = n + 1
        BY <1>1, <2>1, <4>1
      <4>3. f.needed = UINT_MAX - (n + 1)
        BY <1>2, <1>5, <4>1
      <4>4. n + 1 \in 0 .. Len(stream.text)
        BY <1>2, <2>1, <4>2
      <4> QED  BY <1>2, <1>5, <2>1, <2>2, <3>1, <4>1, <4>2, <4>3, <4>4, SMTT(30) DEF Stands
    <3>2. CASE d # 1
      <4>1. Yields(stream, Top.iptr, Top.needed, n)
        BY <3>2, Running
      <4>2. /\ stream.enc[Top.iptr + 1] = stream.text[n + 1]
            /\ Yields(stream, Top.iptr + 1, Top.needed - 1, n + 1)
        BY <1>2, <1>3, <2>1, <2>2, <4>1, YieldsLiteral
      <4>3. n + Top.needed <= Len(stream.text)
        BY <4>1 DEF Yields
      <4> QED  BY <1>2, <1>3, <1>5, <2>1, <3>2, <4>2, <4>3 DEF Stands
    <3> QED  BY <3>1, <3>2
  <2>4. (n + 1) + f.needed = n + stack[d].needed /\ f.howmany = stack[d].howmany
    <3>1. \A a \in Nat, b \in Nat : (a + 1) + (b - 1) = a + b
      OBVIOUS
    <3>2. /\ f.needed = stack[d].needed - 1 /\ f.howmany = stack[d].howmany
          /\ stack[d].needed \in Nat /\ n \in Nat
      BY <1>2, <1>5
    <3> QED  BY <3>1, <3>2, Zenon
  <2>5. n + 1 \in Nat
    BY <1>2
  <2>6. Tracks(stream, stack', [P EXCEPT ![d] = n + 1], n + 1)
    <3>1. Tracks(stream, [stack EXCEPT ![Len(stack)] = f],
                 [P EXCEPT ![Len(stack)] = n + 1], n + 1)
      BY <1>2, <1>4, <2>3, <2>4, <2>5, TrackTop
    <3> QED  BY <1>2, <1>4, <3>1
  <2>7. Agrees(Len(out))'
    <3> SUFFICES ASSUME NEW k \in 1 .. (n + 1) PROVE out'[k] = stream.text[k]
      BY <1>1, <1>8 DEF Agrees
    <3>1. k = n + 1 \/ k \in 1 .. n
      BY <1>2
    <3> QED  BY <1>8, <2>3, <3>1 DEF Agrees
  <2>8. Within'
    <3>1. \E Q : Tracks(stream', stack', Q, Len(out'))
      BY <1>1, <1>8, <2>6
    <3>2. Len(out') <= Len(stream'.text)
      BY <1>1, <1>2, <1>8, <2>3
    <3>3. pc' = "run"
      BY <1>1
    <3> QED  BY <2>7, <3>1, <3>2, <3>3 DEF Within
  <2> QED  BY <1>7, <2>3, <2>8
<1>10. CASE /\ mode = "terminated" /\ Depth = 1 /\ Top.iptr = Len(stream.enc)
            /\ Len(out) = Len(stream.text) /\ ch = 0
  <2>1. Top.needed = UINT_MAX - n
    BY <1>10, Running
  <2>2. Depth' = 1 /\ Top' = f
    BY <1>6, <1>10 DEF Depth, Top
  <2>3. /\ Top'.iptr = Len(stream.enc) + 1
        /\ Top'.needed = UINT_MAX - (Len(stream.text) + 1)
    BY <1>2, <1>5, <1>10, <2>1, <2>2
  <2>4. Agrees(Len(stream.text))'
    BY <1>1, <1>8, <1>10 DEF Agrees
  <2>5. Past'
    BY <1>1, <1>8, <1>10, <2>2, <2>3, <2>4 DEF Past
  <2> QED  BY <1>7, <1>10, <2>5
<1> QED  BY <1>1, <1>9, <1>10, ReadsInside

(* A pointer that stands for no fewer characters than are needed.          *)
LEMMA JumpTracks ==
  ASSUME TInv, Jump, NEW P, Tracks(stream, stack, P, Len(out)),
         Len(out) <= Len(stream.text), Agrees(Len(out))
  PROVE  stack'[1].howmany = UINT_MAX /\ Within' /\ Len(stack') = Len(stack)
<1> DEFINE n == Len(out)
           d == Depth
           f == [iptr |-> Back, howmany |-> Top.howmany, needed |-> Top.needed]
<1>1. /\ Reading /\ Looping /\ pc = "run" /\ count(ch) # 1 /\ Top.needed <= count(ch)
      /\ UNCHANGED <<stream, mode, input_size, pc, result, out>>
  BY DEF Jump, GoTo, Reading, Looping
<1>2. /\ IsStream(stream) /\ Len(stream.enc) \in Nat /\ Len(stream.text) \in Nat
      /\ Len(stream.text) + 1 < UINT_MAX /\ UINT_MAX \in Nat
      /\ \A p \in 0 .. Len(stream.enc) : stream.start[p] \in 0 .. Len(stream.text)
      /\ Good(stack) /\ d = Len(stack) /\ d \in Nat /\ d >= 1
      /\ Top \in Frame /\ Top = stack[d] /\ Top.iptr \in Nat /\ Top.needed \in Nat
      /\ n \in Nat /\ stack \in Seq(Frame)
  BY KnownSizes DEF Good
<1>3. Top.needed > 0 /\ SInv
  BY <1>1 DEF Looping, TInv
<1>4. Top.iptr \in 0 .. (Len(stream.enc) - 1)
  BY <1>1, ReadsInside
<1>5. /\ ch = stream.enc[Top.iptr + 1] /\ count(ch) \in Nat /\ IsPointer(ch)
      /\ Top.iptr + 1 \in 0 .. Len(stream.enc)
      /\ stream.start[Top.iptr + 1] = stream.start[Top.iptr] + count(ch)
      /\ Back = Source(stream.enc, Top.iptr)
  BY <1>1, <1>4, CurrentByte
<1>6. d # 1
  <2> SUFFICES ASSUME d = 1 PROVE FALSE
    OBVIOUS
  <2>1. stream.start[Top.iptr] = n /\ Top.needed = UINT_MAX - n
    BY Running
  <2>2. n + count(ch) <= Len(stream.text)
    BY <1>2, <1>5, <2>1
  <2> QED  BY <1>1, <1>2, <1>5, <2>1, <2>2
<1>7. Yields(stream, Back, Top.needed, n)
  <2>1. Yields(stream, Top.iptr, Top.needed, n)
    BY <1>6, Running
  <2> QED  BY <1>1, <1>2, <1>3, <1>5, <2>1, YieldsPointer
<1>8. f \in Frame /\ stack' = [stack EXCEPT ![d] = f]
  <2>1. Back \in Unsigned /\ Top.needed \in Unsigned /\ Top.howmany \in Unsigned
        /\ Top.needed <= Top.howmany
    BY <1>1, <1>3, ReadingFacts, FrameTypes
  <2>2. stack' = [stack EXCEPT ![Depth].iptr = Back]
    BY DEF Jump, GoTo
  <2>3. [stack EXCEPT ![Depth].iptr = Back] = [stack EXCEPT ![Depth] = f]
    BY <1>3, <2>1, TopFields
  <2> QED  BY <2>1, <2>2, <2>3, FrameTypes
<1>9. f.iptr = Back /\ f.howmany = Top.howmany /\ f.needed = Top.needed
  OBVIOUS
<1> HIDE DEF f
<1>10. /\ Len(stack') = d
       /\ \A k \in 1 .. d : stack'[k].howmany = stack[k].howmany
  BY <1>2, <1>8, <1>9
<1>11. stack'[1].howmany = UINT_MAX
  BY <1>2, <1>10 DEF TInv
<1>12. Tracks(stream, stack', [P EXCEPT ![d] = n], n)
  <2>1. Stands(stream, f, Len(stack), f.needed, n)
    BY <1>2, <1>6, <1>7, <1>9 DEF Stands
  <2>2. n + f.needed = n + stack[Len(stack)].needed
        /\ f.howmany = stack[Len(stack)].howmany
    BY <1>2, <1>9
  <2>3. Tracks(stream, [stack EXCEPT ![Len(stack)] = f],
               [P EXCEPT ![Len(stack)] = n], n)
    BY <1>2, <1>8, <2>1, <2>2, TrackTop
  <2> QED  BY <1>2, <1>8, <2>3
<1>13. Within'
  <2>1. \E Q : Tracks(stream', stack', Q, Len(out'))
    BY <1>1, <1>12
  <2>2. Agrees(Len(out))'
    BY <1>1 DEF Agrees
  <2> QED  BY <1>1, <2>1, <2>2 DEF Within
<1> QED  BY <1>2, <1>10, <1>11, <1>13

(* A pointer that stands for fewer.                                        *)
LEMMA RecurseTracks ==
  ASSUME TInv, Recurse, NEW P, Tracks(stream, stack, P, Len(out)),
         Len(out) <= Len(stream.text), Agrees(Len(out))
  PROVE  stack'[1].howmany = UINT_MAX /\ Within' /\ Len(stack') = Len(stack) + 1
<1> DEFINE n == Len(out)
           d == Depth
           l == count(ch)
           g == [iptr |-> Top.iptr + 1, howmany |-> Top.howmany, needed |-> Top.needed]
           f == Call(Back, l)
<1>1. /\ Reading /\ Looping /\ pc = "run" /\ l # 1 /\ Top.needed > l
      /\ UNCHANGED <<stream, mode, input_size, pc, result, out>>
  BY DEF Recurse, Enter, Reading, Looping
<1>2. /\ IsStream(stream) /\ Len(stream.enc) \in Nat /\ Len(stream.text) \in Nat
      /\ Len(stream.text) + 1 < UINT_MAX /\ UINT_MAX \in Nat
      /\ \A p \in 0 .. Len(stream.enc) : stream.start[p] \in 0 .. Len(stream.text)
      /\ Good(stack) /\ d = Len(stack) /\ d \in Nat /\ d >= 1
      /\ Top \in Frame /\ Top = stack[d] /\ Top.iptr \in Nat /\ Top.needed \in Nat
      /\ n \in Nat /\ stack \in Seq(Frame)
  BY KnownSizes DEF Good
<1>3. Top.needed > 0 /\ SInv
  BY <1>1 DEF Looping, TInv
<1>4. Top.iptr \in 0 .. (Len(stream.enc) - 1)
  BY <1>1, ReadsInside
<1>5. /\ ch = stream.enc[Top.iptr + 1] /\ l \in Nat /\ IsPointer(ch) /\ l >= 2
      /\ Top.iptr + 1 \in 0 .. Len(stream.enc)
      /\ stream.start[Top.iptr + 1] = stream.start[Top.iptr] + l
      /\ Source(stream.enc, Top.iptr) \in 0 .. (Top.iptr - 1)
      /\ Back = Source(stream.enc, Top.iptr)
  BY <1>1, <1>4, CurrentByte
<1> HIDE DEF l
<1>6. Stands(stream, g, d, Top.needed - l, n + l) /\ Yields(stream, Back, l, n)
  <2>1. CASE d = 1
    <3>1. stream.start[Top.iptr] = n /\ Top.needed = UINT_MAX - n
      BY <2>1, Running
    <3>2. stream.start[Top.iptr + 1] = n + l
      BY <1>5, <3>1
    <3>3. Top.needed - l = UINT_MAX - (n + l)
      BY <1>2, <1>5, <3>1
    <3>4. Stands(stream, g, d, Top.needed - l, n + l)
      BY <1>5, <2>1, <3>2, <3>3 DEF Stands
    <3>5. n + l <= Len(stream.text)
      <4>1. stream.start[Top.iptr + 1] \in 0 .. Len(stream.text)
        BY <1>2, <1>5
      <4> QED  BY <3>2, <4>1
    <3>6. Yields(stream, Top.iptr, l, n)
      <4>1. l \in 0 .. (Len(stream.text) - stream.start[Top.iptr])
        BY <1>2, <1>5, <3>1, <3>5
      <4>2. Top.iptr \in 0 .. Len(stream.enc)
        BY <1>2, <1>4
      <4> QED  BY <1>2, <3>1, <4>1, <4>2, YieldsRest
    <3>7. Yields(stream, Back, l, n)
      <4>1. l > 0 /\ l <= count(stream.enc[Top.iptr + 1])
        BY <1>5 DEF l
      <4> QED  BY <1>2, <1>5, <3>6, <4>1, YieldsPointer
    <3> QED  BY <3>4, <3>7
  <2>2. CASE d # 1
    <3>1. Yields(stream, Top.iptr, Top.needed, n)
      BY <2>2, Running
    <3>2. l = count(stream.enc[Top.iptr + 1])
      BY <1>5 DEF l
    <3>3. /\ Yields(stream, Back, l, n)
          /\ Yields(stream, Top.iptr + 1, Top.needed - l, n + l)
      BY <1>1, <1>2, <1>3, <1>5, <3>1, <3>2, YieldsPointer
    <3> QED  BY <2>2, <3>3 DEF Stands
  <2> QED  BY <2>1, <2>2
<1>7. g \in Frame /\ f \in Frame /\ stack' = Append([stack EXCEPT ![d] = g], f)
  <2>1. /\ Back \in Unsigned /\ Top.needed \in Unsigned /\ Top.howmany \in Unsigned
        /\ Top.needed <= Top.howmany /\ Top.iptr + 1 \in Unsigned
    BY <1>1, <1>3, ReadingFacts, FrameTypes
  <2>2. stack' = Append([stack EXCEPT ![Depth].iptr = Top.iptr + 1], f)
    BY DEF Recurse, Enter, Top, l
  <2>3. [stack EXCEPT ![Depth].iptr = Top.iptr + 1] = [stack EXCEPT ![Depth] = g]
    BY <1>3, <2>1, TopFields
  <2>4. l \in Unsigned
    <3>1. Top.needed <= UINT_MAX
      BY <2>1, FrameTypes
    <3> QED  BY <1>1, <1>2, <1>5, <3>1 DEF Unsigned
  <2> QED  BY <2>1, <2>2, <2>3, <2>4, FrameTypes DEF Call
<1>8. /\ g.howmany = Top.howmany /\ g.needed = Top.needed
      /\ f.iptr = Back /\ f.howmany = l /\ f.needed = l
  BY DEF Call
<1> HIDE DEF f, g
<1>9. /\ Len(stack') = d + 1
      /\ \A k \in 1 .. d : stack'[k].howmany = stack[k].howmany
  BY <1>2, <1>7, <1>8
<1>10. stack'[1].howmany = UINT_MAX
  BY <1>2, <1>9 DEF TInv
<1>11. \E Q : Tracks(stream, stack', Q, n)
  <2>1. g.howmany = stack[Len(stack)].howmany /\ g.needed = stack[Len(stack)].needed
    BY <1>2, <1>8
  <2>2. l <= g.needed
    BY <1>1, <1>2, <1>5, <1>8
  <2>3. Stands(stream, g, Len(stack), g.needed - l, n + l) /\ Yields(stream, f.iptr, l, n)
    BY <1>2, <1>6, <1>8
  <2>4. \E Q : Tracks(stream, Append([stack EXCEPT ![Len(stack)] = g], f), Q, n)
    BY <1>2, <1>5, <1>7, <1>8, <2>1, <2>2, <2>3, TrackPush
  <2> QED  BY <1>2, <1>7, <2>4
<1>12. Within'
  <2>1. \E Q : Tracks(stream', stack', Q, Len(out'))
    BY <1>1, <1>11
  <2>2. Agrees(Len(out))'
    BY <1>1 DEF Agrees
  <2> QED  BY <1>1, <2>1, <2>2 DEF Within
<1> QED  BY <1>2, <1>9, <1>10, <1>12

LEMMA ReturnTracks ==
  ASSUME TInv, Return, NEW P, Tracks(stream, stack, P, Len(out)),
         Len(out) <= Len(stream.text), Agrees(Len(out))
  PROVE  stack'[1].howmany = UINT_MAX /\ Within'
<1> DEFINE n == Len(out)
           d == Depth
           r == Top.howmany - Top.needed
<1>1. /\ pc = "run" /\ ~Looping /\ UNCHANGED <<stream, mode, input_size, out>>
      /\ \/ d = 1 /\ pc' = "done" /\ stack' = stack
         \/ /\ pc' = pc /\ d # 1
            /\ stack' = [SubSeq(stack, 1, d - 1) EXCEPT ![d - 1].needed = @ - r]
  BY DEF Return, Leave
<1>2. /\ Good(stack) /\ d = Len(stack) /\ d \in Nat /\ d >= 1
      /\ Top = stack[d] /\ stack \in Seq(Frame)
  BY KnownSizes DEF Good
<1>3. Agrees(Len(out))'
  BY <1>1 DEF Agrees
<1>4. CASE d = 1 /\ pc' = "done" /\ stack' = stack
  <2>1. n = Len(stream.text)
    BY <1>1, <1>4, ReturnsWithAll
  <2>2. Depth' = 1
    BY <1>4 DEF Depth
  <2>3. \E Q : Tracks(stream', stack', Q, Len(out'))
    BY <1>1, <1>4
  <2>4. Within'
    BY <1>1, <1>3, <1>4, <2>1, <2>2, <2>3 DEF Within
  <2> QED  BY <1>4, <2>4 DEF TInv
<1>5. CASE /\ pc' = pc /\ d # 1
           /\ stack' = [SubSeq(stack, 1, d - 1) EXCEPT ![d - 1].needed = @ - r]
  <2>1. Top.needed = 0 /\ r = Top.howmany
    BY <1>1, <1>5, ReturnsWithAll
  <2>2. Len(stack) >= 2 /\ stack[Len(stack)].needed = 0
    BY <1>2, <1>5, <2>1
  <2>3. \E Q : Tracks(stream, stack', Q, n)
    <3>1. stack' = [SubSeq(stack, 1, Len(stack) - 1) EXCEPT
                      ![Len(stack) - 1].needed = @ - stack[Len(stack)].howmany]
      BY <1>2, <1>5, <2>1
    <3>2. \E Q : Tracks(stream, [SubSeq(stack, 1, Len(stack) - 1) EXCEPT
                      ![Len(stack) - 1].needed = @ - stack[Len(stack)].howmany], Q, n)
      BY <1>2, <2>2, TrackPop
    <3> QED  BY <3>1, <3>2
  <2>4. Within'
    <3>1. \E Q : Tracks(stream', stack', Q, Len(out'))
      BY <1>1, <2>3
    <3> QED  BY <1>1, <1>3, <1>5, <3>1 DEF Within
  <2>5. stack'[1].howmany = stack[1].howmany
    <3> DEFINE u == SubSeq(stack, 1, d - 1)
    <3>1. d - 1 \in Nat /\ d - 1 >= 1 /\ d - 1 <= Len(stack)
      BY <1>2, <1>5
    <3>2. u \in Seq(Frame) /\ Len(u) = d - 1 /\ u[1] = stack[1] /\ 1 \in 1 .. Len(u)
          /\ \A k \in 1 .. Len(u) : u[k] \in Frame
      <4> HIDE DEF d
      <4>1. \A k \in 1 .. (d - 1) : stack[k] \in Frame
        BY <1>2, <3>1
      <4>2. /\ u \in Seq(Frame)
            /\ Len(u) = IF 1 <= d - 1 THEN ((d - 1) - 1) + 1 ELSE 0
            /\ \A k \in 1 .. (((d - 1) - 1) + 1) : u[k] = stack[(1 + k) - 1]
        BY <1>2, <3>1, <4>1, SubSeqProperties
      <4> HIDE DEF u
      <4>3. Len(u) = d - 1 /\ 1 \in 1 .. (((d - 1) - 1) + 1) /\ (1 + 1) - 1 = 1
        BY <3>1, <4>2
      <4> QED  BY <3>1, <4>2, <4>3
    <3>3. stack' = [u EXCEPT ![d - 1] = [u[d - 1] EXCEPT !.needed = @ - r]]
      BY <1>5
    <3> HIDE DEF u, r, d
    <3>4. \A h \in Frame : [h EXCEPT !.needed = @ - r].howmany = h.howmany
      BY DEF Frame
    <3>5. CASE d - 1 = 1
      BY <3>2, <3>3, <3>4, <3>5
    <3>6. CASE d - 1 # 1
      BY <3>2, <3>3, <3>6
    <3> QED  BY <3>5, <3>6
  <2> QED  BY <2>4, <2>5 DEF TInv
<1> QED  BY <1>1, <1>4, <1>5

LEMMA StepTInv == TInv /\ [Next]_vars => TInv'
<1> SUFFICES ASSUME TInv, [Next]_vars PROVE TInv'
  OBVIOUS
<1>1. SInv'
  BY StepSInv DEF TInv
<1>2. UNCHANGED <<stream, mode, input_size>>
  BY DEF Next, vars, Literally, Recurse, Enter, Jump, GoTo, ReadPast, Return, Leave
<1>3. stack'[1].howmany = UINT_MAX /\ (Within' \/ Past')
  <2>1. CASE UNCHANGED vars
    <3>1. Within => Within'
      BY <2>1 DEF vars, Within, Agrees, Depth
    <3>2. Past => Past'
      BY <2>1 DEF vars, Past, Agrees, Depth, Top
    <3> QED  BY <2>1, <3>1, <3>2 DEF TInv, vars
  <2>2. CASE Within /\ Next
    <3>1. PICK P : Tracks(stream, stack, P, Len(out))
      BY <2>2 DEF Within
    <3>2. Len(out) <= Len(stream.text) /\ Agrees(Len(out))
      BY <2>2 DEF Within
    <3>3. ~ReadPast
      <4> SUFFICES ASSUME ReadPast PROVE FALSE
        OBVIOUS
      <4>1. Reading
        BY <3>1, <3>2, ReadsInside DEF ReadPast
      <4>2. Top.iptr \in Nat /\ Len(Memory) \in Nat
        <5>1. stream.enc \in Seq(Byte) /\ Top.iptr \in Nat
          BY KnownSizes
        <5> QED  BY <5>1 DEF Memory
      <4> QED  BY <4>1, <4>2 DEF Reading, ReadPast
    <3>4. CASE Literally
      BY <3>1, <3>2, <3>4, LiterallyTracks
    <3>5. CASE Jump
      BY <3>1, <3>2, <3>5, JumpTracks
    <3>6. CASE Recurse
      BY <3>1, <3>2, <3>6, RecurseTracks
    <3>7. CASE Return
      BY <3>1, <3>2, <3>7, ReturnTracks
    <3> QED  BY <2>2, <3>3, <3>4, <3>5, <3>6, <3>7 DEF Next
  <2>3. CASE Past /\ Next
    <3>1. pc = "run"
      BY <2>3 DEF Next, Literally, Recurse, Enter, Jump, GoTo, ReadPast, Return, Leave,
                  Reading, Looping
    <3>2. Looping /\ ~Reading
      BY <2>3, <3>1, PastEnds
    <3>3. ReadPast
      BY <2>3, <3>2 DEF Next, Literally, Recurse, Enter, Jump, GoTo, Return, Leave
    <3>4. pc' = "undefined" /\ UNCHANGED <<stream, mode, input_size, stack, result, out>>
      BY <3>3 DEF ReadPast
    <3>5. Depth' = Depth /\ Top' = Top
      BY <3>4 DEF Depth, Top
    <3>6. Past'
      BY <2>3, <3>4, <3>5 DEF Past, Agrees
    <3> QED  BY <3>4, <3>6 DEF TInv
  <2> QED  BY <2>1, <2>2, <2>3 DEF TInv
<1> QED  BY <1>1, <1>2, <1>3 DEF TInv

(* Throughout a call each frame of the recursion stands where the stream   *)
(* yields the characters that are due next.                                *)
THEOREM StreamInvariance == Spec => []TInv
BY InitTInv, StepTInv, PTL DEF Spec

(* A pointer leads neither before the input nor past its end, and a decoder*)
(* that was given the size of the input reads no byte outside it           *)
(* (lzjwm_decompress.c:58 and 64-68).                                      *)
THEOREM StaysInsideInput == Spec => []StaysInInput
<1>1. TInv => StaysInInput
  <2> SUFFICES ASSUME TInv PROVE StaysInInput
    OBVIOUS
  <2>1. CASE Within
    <3>1. PICK P : Tracks(stream, stack, P, Len(out))
      BY <2>1 DEF Within
    <3>2. Good(stack) /\ IsStream(stream) /\ Len(stream.enc) \in Nat
      BY KnownSizes
    <3>3. ASSUME NEW k \in 2 .. Len(stack), stack[k].needed # 0
          PROVE  stack[k].iptr < Len(stream.enc)
      <4>1. /\ Len(stack) \in Nat /\ k \in 1 .. Len(stack) /\ k # 1
            /\ stack[k].needed \in Nat /\ stack[k].howmany \in Nat
            /\ P[k] \in Nat
        <5>1. Len(stack) \in Nat
          BY <3>2 DEF Good
        <5>2. k \in 1 .. Len(stack) /\ k # 1
          BY <5>1
        <5>3. stack[k].needed \in Nat /\ stack[k].howmany \in Nat /\ P[k] \in Nat
          BY <3>1, <3>2, <5>2, TracksFacts
        <5> QED  BY <5>1, <5>2, <5>3
      <4>2. Rest(stack, k) \in Nat /\ Rest(stack, k) > 0
        <5>1. CASE k = Len(stack)
          <6>1. Rest(stack, k) = stack[k].needed - 0
            BY <5>1 DEF Rest
          <6> QED  BY <3>3, <4>1, <6>1
        <5>2. CASE k # Len(stack)
          <6>1. k + 1 \in 2 .. Len(stack) /\ k + 1 \in 1 .. Len(stack) /\ (k + 1) - 1 = k
            BY <4>1, <5>2
          <6>2. stack[k + 1].howmany < stack[k].needed
            BY <3>2, <6>1 DEF Good, Chain
          <6>3. stack[k + 1].howmany \in Nat
            BY <3>1, <3>2, <6>1, TracksFacts
          <6>4. Rest(stack, k) = stack[k].needed - stack[k + 1].howmany
            BY <5>2 DEF Rest
          <6>5. \A a \in Nat, b \in Nat : b < a => a - b \in Nat /\ a - b > 0
            OBVIOUS
          <6> QED  BY <4>1, <6>2, <6>3, <6>4, <6>5
        <5> QED  BY <5>1, <5>2
      <4>3. Yields(stream, stack[k].iptr, Rest(stack, k), P[k])
        BY <3>1, <4>1 DEF Tracks, Stands
      <4>4. stack[k].iptr \in 0 .. (Len(stream.enc) - 1)
        BY <3>2, <4>1, <4>2, <4>3, YieldsMore
      <4> QED  BY <3>2, <4>4
    <3> QED  BY <2>1, <3>3 DEF Within, StaysInInput
  <2>2. CASE Past
    <3>1. \A k \in 2 .. Len(stack) : FALSE
      BY <2>2 DEF Past, Depth
    <3> QED  BY <2>2, <3>1 DEF Past, StaysInInput
  <2> QED  BY <2>1, <2>2 DEF TInv
<1> QED  BY StreamInvariance, <1>1, PTL

(* An inner call puts out all it was asked for and says so, and the        *)
(* outermost one returns the length of the text (lzjwm_decompress.c:65     *)
(* and 71).                                                                *)
THEOREM CalleesAlwaysComplete == Spec => CalleeCompletes
<1> DEFINE Completes ==
      pc = "run" /\ (Len(stack') < Len(stack) \/ pc' = "done") =>
        result' = IF Depth = 1 THEN Len(stream.text) ELSE Top.howmany
<1>1. TInv /\ [Next]_vars => [Completes]_vars
  <2> SUFFICES ASSUME TInv, Next, pc = "run", Len(stack') < Len(stack) \/ pc' = "done"
               PROVE  result' = IF Depth = 1 THEN Len(stream.text) ELSE Top.howmany
    OBVIOUS
  <2>1. Len(stack) \in Nat /\ stack \in Seq(Frame)
    BY KnownSizes DEF Good
  <2>2. ~Past
    <3> SUFFICES ASSUME Past PROVE FALSE
      OBVIOUS
    <3>1. Looping /\ ~Reading
      BY PastEnds
    <3>2. ReadPast
      BY <3>1 DEF Next, Literally, Recurse, Enter, Jump, GoTo, Return, Leave
    <3> QED  BY <2>1, <3>2 DEF ReadPast
  <2>3. PICK P : Tracks(stream, stack, P, Len(out))
    BY <2>2 DEF TInv, Within
  <2>4. Len(out) <= Len(stream.text) /\ Agrees(Len(out))
    BY <2>2 DEF TInv, Within
  <2>5. CASE Literally
    <3>1. pc' = pc /\ Len(stack') = Len(stack)
      BY <2>1, <2>5 DEF Literally
    <3> QED  BY <2>1, <3>1
  <2>6. CASE Jump
    <3>1. pc' = pc
      BY <2>6 DEF Jump, GoTo
    <3>2. Len(stack') = Len(stack)
      BY <2>3, <2>4, <2>6, JumpTracks
    <3> QED  BY <2>1, <3>1, <3>2
  <2>7. CASE Recurse
    <3>1. pc' = pc
      BY <2>7 DEF Recurse, Enter
    <3>2. Len(stack') = Len(stack) + 1
      BY <2>3, <2>4, <2>7, RecurseTracks
    <3> QED  BY <2>1, <3>1, <3>2
  <2>8. CASE ReadPast
    BY <2>1, <2>8 DEF ReadPast
  <2>9. CASE Return
    <3>1. ~Looping /\ result' = Top.howmany - Top.needed
      BY <2>9 DEF Return, Leave
    <3> QED  BY <2>3, <2>4, <3>1, ReturnsWithAll
  <2> QED  BY <2>5, <2>6, <2>7, <2>8, <2>9 DEF Next
<1>2. TInv /\ [Next]_vars =>
        [pc = "run" /\ (Len(stack') < Len(stack) \/ pc' = "done") =>
           result' = IF Depth = 1 THEN Len(stream.text) ELSE Top.howmany]_vars
  BY <1>1
<1> QED  BY StreamInvariance, <1>2, PTL DEF Spec, CalleeCompletes

-----------------------------------------------------------------------------
(* Each step puts out the next character of the text or none, and the      *)
(* decoder returns when all of them are out; one that was not given a size *)
(* has delivered the text when it takes the NUL for a literal.  It is what *)
(* Delivery asks of every decoder, but for its fairness.                   *)
THEOREM StreamDelivers == Spec => D!Init /\ [][D!Next]_(D!vars)
<1>1. Init => D!Init
  <2> SUFFICES ASSUME Init PROVE D!Init
    OBVIOUS
  <2>1. stream.text \in Seq(Byte) /\ Len(stream.text) \in Nat
    BY InitTInv, KnownSizes
  <2>2. ~Overrun /\ out = << >> /\ pc = "run"
    BY <2>1 DEF Init, Overrun
  <2> QED  BY <2>1, <2>2 DEF D!Init
<1>2. TInv /\ [Next]_vars => [D!Next]_(D!vars)
  <2> SUFFICES ASSUME TInv, [Next]_vars PROVE [D!Next]_(D!vars)
    OBVIOUS
  <2> DEFINE L == Len(stream.text)
  <2>1. /\ L \in Nat /\ stream.text \in Seq(Byte) /\ out \in Seq(Literal)
        /\ Len(out) \in Nat
    BY KnownSizes
  <2>2. stream' = stream /\ mode' = mode
    BY DEF Next, vars, Literally, Recurse, Enter, Jump, GoTo, ReadPast, Return, Leave
  <2>3. ASSUME out' = out, (pc' = "done") <=> (pc = "done") PROVE UNCHANGED D!vars
    <3>1. Overrun' <=> Overrun
      BY <2>2, <2>3 DEF Overrun
    <3> QED  BY <2>2, <2>3, <3>1 DEF D!vars
  <2>4. CASE Literally
    <3>1. /\ pc = "run" /\ pc' = pc /\ out' = Append(out, ch) /\ Reading
      BY <2>4 DEF Literally, Reading, Looping
    <3>2. ~Past
      BY <3>1, PastEnds
    <3>3. PICK P : Tracks(stream, stack, P, Len(out))
      BY <3>2 DEF TInv, Within
    <3>4. Len(out) <= L /\ Agrees(Len(out))
      BY <3>2 DEF TInv, Within
    <3>5. \/ Len(out) < L /\ ch = stream.text[Len(out) + 1]
          \/ Past' /\ Len(out) = L
      BY <2>4, <3>3, <3>4, LiterallyTracks
    <3>6. ~Overrun
      BY <2>1, <3>4 DEF Overrun
    <3>7. Len(out') = Len(out) + 1
      BY <2>1, <3>1
    <3>8. CASE Len(out) < L /\ ch = stream.text[Len(out) + 1]
      <4>1. ~Overrun'
        BY <2>1, <2>2, <3>7, <3>8 DEF Overrun
      <4> QED  BY <2>2, <3>1, <3>6, <3>8, <4>1 DEF D!Next, D!Deliver
    <3>9. CASE Past' /\ Len(out) = L
      <4>1. Overrun'
        BY <2>1, <2>2, <3>7, <3>9 DEF Overrun, Past
      <4>2. out = stream.text
        <5>1. \A k \in 1 .. L : out[k] = stream.text[k]
          BY <3>4, <3>9 DEF Agrees
        <5> QED  BY <2>1, <3>9, <5>1
      <4>3. SubSeq(out', 1, L) = out
        <5>1. /\ SubSeq(out', 1, L) \in Seq(Literal \cup {ch})
              /\ Len(SubSeq(out', 1, L)) = L
              /\ \A k \in 1 .. L : SubSeq(out', 1, L)[k] = out[k]
          <6> DEFINE o == out'
          <6>1. o \in Seq(Literal \cup {ch}) /\ Len(o) = L + 1
                /\ \A k \in 1 .. L : o[k] = out[k]
            BY <2>1, <3>1, <3>9
          <6> HIDE DEF o, L
          <6> QED  BY <2>1, <6>1 DEF o
        <5> QED  BY <2>1, <3>9, <5>1
      <4> QED  BY <2>2, <3>1, <3>6, <4>1, <4>2, <4>3 DEF D!Next, D!End
    <3> QED  BY <3>5, <3>8, <3>9
  <2>5. CASE Recurse \/ Jump
    <3>1. out' = out /\ pc' = pc
      BY <2>5 DEF Recurse, Enter, Jump, GoTo
    <3> QED  BY <2>3, <3>1
  <2>6. CASE ReadPast
    <3>1. out' = out /\ pc = "run" /\ pc' = "undefined"
      BY <2>6 DEF ReadPast, Looping
    <3> QED  BY <2>3, <3>1
  <2>7. CASE Return
    <3>1. out' = out /\ pc = "run" /\ ~Looping
      BY <2>7 DEF Return, Leave
    <3>2. CASE pc' # "done"
      BY <2>3, <3>1, <3>2
    <3>3. CASE pc' = "done"
      <4>1. Depth = 1
        BY <2>7, <3>1, <3>3 DEF Return, Leave
      <4>2. ~Past
        BY <3>1, PastEnds
      <4>3. PICK P : Tracks(stream, stack, P, Len(out))
        BY <4>2 DEF TInv, Within
      <4>4. Len(out) <= L /\ Agrees(Len(out))
        BY <4>2 DEF TInv, Within
      <4>5. mode # "terminated" /\ Len(out) = L
        BY <3>1, <4>1, <4>3, <4>4, ReturnsWithAll
      <4>6. out = stream.text
        <5>1. \A k \in 1 .. L : out[k] = stream.text[k]
          BY <4>4, <4>5 DEF Agrees
        <5> QED  BY <2>1, <4>5, <5>1
      <4>7. ~Overrun /\ ~Overrun'
        BY <2>2, <4>5 DEF Overrun
      <4> QED  BY <2>2, <3>1, <3>3, <4>6, <4>7 DEF D!Next, D!End
    <3> QED  BY <3>2, <3>3
  <2>8. CASE UNCHANGED vars
    BY <2>3, <2>8 DEF vars
  <2> QED  BY <2>4, <2>5, <2>6, <2>7, <2>8 DEF Next
<1> QED  BY <1>1, <1>2, StreamInvariance, PTL DEF Spec
=============================================================================
