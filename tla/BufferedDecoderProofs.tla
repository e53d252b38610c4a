------------------------ MODULE BufferedDecoderProofs ------------------------
(***************************************************************************)
(* The buffered decoder delivers the text of every stream, in a buffer of  *)
(* exactly the size its caller computed, and touches no byte outside its   *)
(* buffers.                                                                *)
(***************************************************************************)
EXTENDS BufferedDecoder, LZFormatProofs, SequenceTheorems

-----------------------------------------------------------------------------
(***************************************************************************)
(* The inductive invariant.  Each loop has its own relation between the    *)
(* position in the stream and the sums computed so far; what is in the     *)
(* buffer is a prefix of the text throughout.                              *)
(***************************************************************************)
Given ==
  /\ stream \in Streams /\ mode \in Modes
  /\ mode = "terminated" => Terminated(stream)

Sizing ==
  pc = "size" =>
    /\ i \in 0 .. Len(stream.enc) /\ size = stream.start[i]
    /\ cells = << >> /\ iptr = 0 /\ fsize = 0

Allocated ==
  pc # "size" =>
    /\ size = Len(stream.text)
    /\ cells \in Seq(Literal \cup {Uninit}) /\ Len(cells) = Len(stream.text)

Fetching ==
  /\ pc = "fetch" => iptr \in 0 .. Len(stream.enc) /\ fsize = stream.start[iptr]
  /\ pc = "done" => iptr \in 0 .. Len(Memory) /\ fsize = Len(stream.text)

AtPointer ==
  pc \in {"rewind", "copy"} =>
    /\ iptr \in 1 .. Len(stream.enc)
    /\ IsPointer(stream.enc[iptr])
    /\ len = count(stream.enc[iptr])
    /\ fsize = stream.start[iptr - 1]

Walking ==
  pc = "rewind" =>
    /\ i \in 0 .. (get_offset(stream.enc[iptr]) + 1)
    /\ outf = stream.start[iptr - 1 - i]
    /\ fsize - outf <= i * MAX_ZERO_MATCH

Copying ==
  pc = "copy" =>
    /\ i \in 0 .. len
    /\ outf = stream.start[Source(stream.enc, iptr - 1)]
    /\ fsize - outf <= (get_offset(stream.enc[iptr]) + 1) * MAX_ZERO_MATCH

Decoded ==
  \A k \in 1 .. Filled : cells[k] = stream.text[k] /\ stream.text[k] \in Literal

BInv ==
  /\ Given
  /\ pc \in {"size", "fetch", "rewind", "copy", "done"}
  /\ len \in {0, 1} \cup 2 .. MAX_ZERO_MATCH
  /\ outf \in Int /\ i \in Nat
  /\ Sizing /\ Allocated /\ Fetching /\ AtPointer /\ Walking /\ Copying
  /\ Decoded

-----------------------------------------------------------------------------
(* What is known of the stream.                                            *)
LEMMA KnownStream ==
  ASSUME Given
  PROVE  /\ IsStream(stream)
         /\ stream.enc \in Seq(Byte) /\ stream.text \in Seq(Byte)
         /\ Len(stream.enc) \in Nat /\ Len(stream.text) \in Nat
         /\ stream.start[0] = 0 /\ stream.start[Len(stream.enc)] = Len(stream.text)
         /\ \A p \in 0 .. Len(stream.enc) : stream.start[p] \in 0 .. Len(stream.text)
<1>1. IsStream(stream)
  BY StreamsAssumption DEF Given
<1> QED  BY <1>1, StreamFacts DEF IsStream

(* The caller's arguments do not change.                                   *)
LEMMA GivenStays ==
  ASSUME Given, UNCHANGED <<stream, mode>>
  PROVE  Given' /\ Memory' = Memory
<1>1. stream' = stream /\ mode' = mode
  OBVIOUS
<1>2. Given'
  BY <1>1 DEF Given, Terminated
<1>3. isize' = isize
  BY <1>1 DEF isize
<1> QED  BY <1>1, <1>2, <1>3 DEF Memory

(* The sizes given, and what they are as unsigned ints.                    *)
LEMMA GivenSize ==
  ASSUME Given
  PROVE  /\ mode = "terminated" => isize = -1 /\ unsigned(isize) = UINT_MAX
         /\ mode # "terminated" => isize = Len(stream.enc) /\ unsigned(isize) = isize
         /\ isize = -1 <=> mode = "terminated"
         /\ UINT_MAX \in Nat /\ Len(stream.enc) \in Nat /\ Len(stream.enc) < UINT_MAX
<1>1. /\ UINT_MAX \in Nat /\ Len(stream.enc) \in Nat /\ Len(stream.enc) < UINT_MAX
      /\ Len(stream.enc) >= 0
  BY KnownStream, LengthAssumption DEF Given
<1>2. \A x, u \in Nat : x < u => x % (u + 1) = x
  OBVIOUS
<1>3. \A u \in Nat : -1 % (u + 1) = u
  OBVIOUS
<1>4. CASE mode = "terminated"
  <2>1. isize = -1
    BY <1>4 DEF isize
  <2>2. unsigned(isize) = UINT_MAX
    BY <1>1, <1>3, <2>1 DEF unsigned
  <2> QED  BY <1>1, <1>4, <2>1, <2>2
<1>5. CASE mode # "terminated"
  <2>1. isize = Len(stream.enc)
    BY <1>5 DEF isize
  <2>2. unsigned(isize) = isize
    BY <1>1, <1>2, <2>1 DEF unsigned
  <2>3. isize # -1
    BY <1>1, <2>1
  <2> QED  BY <1>1, <1>5, <2>1, <2>2, <2>3
<1> QED  BY <1>4, <1>5

(* Both loops stop at the end of the stream, and there only, whichever way *)
(* its size is given: the one before the NUL, the other after it.          *)
LEMMA MoreIsBeforeEnd ==
  ASSUME Given, NEW p \in 0 .. Len(stream.enc)
  PROVE  /\ MoreToSize(p) <=> p < Len(stream.enc)
         /\ p < Len(stream.enc) =>
              MoreToDecode(p) /\ InMemory(p) /\ ~Breaks(At(p)) /\ At(p) = stream.enc[p + 1]
         /\ p = Len(stream.enc) /\ mode = "terminated" =>
              MoreToDecode(p) /\ InMemory(p) /\ Breaks(At(p))
         /\ p = Len(stream.enc) /\ mode # "terminated" => ~MoreToDecode(p)
         /\ Len(Memory) \in Nat
         /\ mode = "terminated" => Len(Memory) = Len(stream.enc) + 1
         /\ mode # "terminated" => Len(Memory) = Len(stream.enc)
<1> DEFINE e == stream.enc
<1>1. e \in Seq(Byte) /\ Len(e) \in Nat /\ UINT_MAX \in Nat /\ Len(e) < UINT_MAX
  BY KnownStream, GivenSize DEF Given
<1>2. CASE mode = "terminated"
  <2>1. \A k \in 1 .. Len(e) : e[k] # 0
    BY <1>2 DEF Given, Terminated
  <2>2. isize = -1 /\ unsigned(isize) = UINT_MAX
    BY <1>2, GivenSize
  <2>3. Memory = Append(e, 0)
    BY <2>2 DEF Memory
  <2> HIDE DEF e
  <2>4. /\ Len(Memory) = Len(e) + 1
        /\ Memory[Len(e) + 1] = 0
        /\ \A k \in 1 .. Len(e) : Memory[k] = e[k]
    BY <1>1, <2>3
  <2>5. p \in 0 .. Len(e)
    BY DEF e
  <2>6. InMemory(p) /\ MoreToDecode(p)
    BY <1>1, <2>2, <2>4, <2>5 DEF InMemory, MoreToDecode
  <2>7. MoreToSize(p) <=> At(p) # 0
    BY <2>2, <2>5, <2>6, <1>1 DEF MoreToSize
  <2>8. Breaks(At(p)) <=> At(p) = 0
    BY <2>2 DEF Breaks
  <2>9. CASE p = Len(e)
    <3>1. At(p) = 0
      BY <2>4, <2>9 DEF At
    <3> QED  BY <1>1, <1>2, <2>4, <2>6, <2>7, <2>8, <2>9, <3>1 DEF e
  <2>10. CASE p < Len(e)
    <3>1. p + 1 \in 1 .. Len(e)
      BY <1>1, <2>5, <2>10
    <3>2. At(p) = e[p + 1] /\ At(p) # 0
      BY <2>1, <2>4, <3>1 DEF At
    <3> QED  BY <1>1, <1>2, <2>4, <2>6, <2>7, <2>8, <2>10, <3>2 DEF e
  <2>11. p = Len(e) \/ p < Len(e)
    BY <1>1, <2>5
  <2> QED  BY <2>9, <2>10, <2>11
<1>3. CASE mode # "terminated"
  <2>1. isize = Len(e) /\ unsigned(isize) = Len(e) /\ isize # -1
    BY <1>3, GivenSize
  <2>2. Memory = e
    BY <2>1 DEF Memory
  <2> QED  BY <1>1, <1>3, <2>1, <2>2 DEF MoreToSize, MoreToDecode, Breaks, InMemory, At
<1> QED  BY <1>2, <1>3

(* The byte that is decoded next.                                          *)
LEMMA NextByte ==
  ASSUME Given, NEW p \in 0 .. Len(stream.enc),
         MoreToSize(p) \/ p < Len(stream.enc)
  PROVE  /\ p \in 0 .. (Len(stream.enc) - 1) /\ p + 1 \in 1 .. Len(stream.enc)
         /\ InMemory(p) /\ At(p) = stream.enc[p + 1] /\ At(p) \in Byte
         /\ count(At(p)) \in Nat /\ count(At(p)) \in 1 .. MAX_ZERO_MATCH
         /\ stream.start[p] \in Nat /\ stream.start[p + 1] \in Nat
         /\ stream.start[p + 1] = stream.start[p] + count(At(p))
         /\ stream.start[p + 1] <= Len(stream.text)
         /\ ~IsPointer(At(p)) => count(At(p)) = 1
                                 /\ stream.text[stream.start[p] + 1] = At(p)
         /\ IsPointer(At(p)) => count(At(p)) >= 2
<1>1. IsStream(stream) /\ Len(stream.enc) \in Nat
  BY KnownStream
<1>2. p < Len(stream.enc) /\ InMemory(p) /\ At(p) = stream.enc[p + 1]
  BY MoreIsBeforeEnd
<1>3. p \in 0 .. (Len(stream.enc) - 1) /\ p + 1 \in 1 .. Len(stream.enc)
      /\ p + 1 \in 0 .. Len(stream.enc)
  BY <1>1, <1>2
<1>4. /\ stream.start[p] \in 0 .. Len(stream.text)
      /\ stream.start[p + 1] \in 0 .. Len(stream.text)
  BY <1>3, KnownStream
<1>5. /\ At(p) \in Byte
      /\ count(At(p)) \in Nat /\ count(At(p)) \in 1 .. MAX_ZERO_MATCH
      /\ stream.start[p + 1] = stream.start[p] + count(At(p))
      /\ ~IsPointer(At(p)) => count(At(p)) = 1
                              /\ stream.text[stream.start[p] + 1] = At(p)
      /\ IsPointer(At(p)) => count(At(p)) >= 2
  <2> DEFINE c == stream.enc[p + 1]
  <2>1. /\ c \in Byte
        /\ count(c) \in Nat /\ count(c) \in 1 .. MAX_ZERO_MATCH
        /\ stream.start[p + 1] = stream.start[p] + count(c)
        /\ ~IsPointer(c) => count(c) = 1 /\ stream.text[stream.start[p] + 1] = c
        /\ IsPointer(c) => count(c) >= 2
    BY <1>1, <1>3, StreamByte
  <2>2. At(p) = c
    BY <1>2
  <2> HIDE DEF c
  <2> QED  BY <2>1, <2>2
<1> QED  BY <1>2, <1>3, <1>4, <1>5

(* The loop decodes a byte of the stream, never the NUL behind it.         *)
LEMMA FetchesByte ==
  ASSUME BInv, Fetched
  PROVE  pc = "fetch" /\ iptr \in 0 .. Len(stream.enc) /\ iptr < Len(stream.enc)
<1>1. pc = "fetch" /\ iptr \in 0 .. Len(stream.enc) /\ Given
  BY DEF Fetched, BInv, Fetching
<1>2. iptr # Len(stream.enc)
  BY <1>1, MoreIsBeforeEnd DEF Fetched
<1> QED  BY <1>1, <1>2, KnownStream

(* The pointer being copied.                                               *)
LEMMA CurrentPointer ==
  ASSUME BInv, pc \in {"rewind", "copy"}
  PROVE  LET p == iptr - 1
             c == stream.enc[iptr]
         IN  /\ iptr \in Nat /\ p \in 0 .. (Len(stream.enc) - 1) /\ p + 1 = iptr
             /\ At(iptr - 1) = c /\ get_offset(c) \in Nat /\ len = count(c)
             /\ len \in Nat /\ len >= 2 /\ fsize \in Nat
             /\ fsize = stream.start[p] /\ stream.start[iptr] = fsize + len
             /\ fsize + len <= Len(stream.text)
             /\ Source(stream.enc, p) = p - get_offset(c) - 1
             /\ Source(stream.enc, p) \in 0 .. (p - 1)
             /\ \A k \in 1 .. len :
                  stream.text[fsize + k]
                    = stream.text[stream.start[Source(stream.enc, p)] + k]
<1> DEFINE p == iptr - 1
           c == stream.enc[iptr]
<1>1. Given /\ iptr \in 1 .. Len(stream.enc)
      /\ IsPointer(c) /\ len = count(c) /\ fsize = stream.start[p]
  BY DEF BInv, AtPointer
<1>2. Len(stream.enc) \in Nat /\ IsStream(stream)
  BY <1>1, KnownStream
<1>3. p \in 0 .. (Len(stream.enc) - 1) /\ p \in 0 .. Len(stream.enc) /\ p + 1 = iptr
      /\ p < Len(stream.enc) /\ iptr \in Nat
  BY <1>1, <1>2
<1> HIDE DEF p
<1>4. /\ At(p) = stream.enc[p + 1] /\ At(p) \in Byte
      /\ count(At(p)) \in Nat /\ stream.start[p] \in Nat
      /\ stream.start[p + 1] = stream.start[p] + count(At(p))
      /\ stream.start[p + 1] <= Len(stream.text)
      /\ IsPointer(At(p)) => count(At(p)) >= 2
  BY <1>1, <1>3, NextByte
<1>5. At(p) = c
  BY <1>3, <1>4
<1> HIDE DEF c
<1>6. get_offset(c) \in Nat
  BY <1>4, <1>5, OffsetRange
<1>7. Source(stream.enc, p) = p - get_offset(c) - 1
  BY <1>3 DEF Source, c
<1>8. stream.enc[p + 1] = c
  BY <1>4, <1>5
<1>9. /\ Source(stream.enc, p) \in 0 .. (p - 1)
      /\ \A k \in 1 .. len :
           stream.text[stream.start[p] + k]
             = stream.text[stream.start[Source(stream.enc, p)] + k]
  BY <1>1, <1>2, <1>3, <1>8, StreamByte
<1> QED  BY <1>1, <1>3, <1>4, <1>5, <1>6, <1>7, <1>9 DEF p, c

-----------------------------------------------------------------------------
LEMMA InitBInv == Init => BInv
<1> SUFFICES ASSUME Init PROVE BInv
  OBVIOUS
<1> Given
  BY DEF Init, Given
<1>1. stream.start[0] = 0 /\ Len(stream.enc) \in Nat
  BY KnownStream
<1>2. Sizing
  BY <1>1 DEF Init, Sizing
<1>3. Filled = 0
  BY DEF Init, Filled
<1>4. Decoded
  BY <1>3 DEF Decoded
<1> QED  BY <1>2, <1>4 DEF Init, BInv, Allocated, Fetching, AtPointer, Walking, Copying

LEMMA AddCountStep == BInv /\ AddCount => BInv'
<1> SUFFICES ASSUME BInv, AddCount PROVE BInv'
  OBVIOUS
<1>1. /\ pc = "size" /\ MoreToSize(i)
      /\ UNCHANGED <<stream, mode, cells, iptr, len, fsize, outf>>
      /\ Given
      /\ i \in 0 .. Len(stream.enc) /\ size = stream.start[i]
      /\ cells = << >> /\ iptr = 0 /\ fsize = 0
  BY DEF AddCount, BInv, Sizing
<1>2. /\ InMemory(i) /\ i + 1 \in 1 .. Len(stream.enc)
      /\ stream.start[i + 1] = stream.start[i] + count(At(i))
  BY <1>1, NextByte
<1>3. pc' = pc /\ i' = i + 1 /\ size' = stream.start[i + 1]
  BY <1>1, <1>2 DEF AddCount
<1>4. Sizing'
  BY <1>1, <1>2, <1>3 DEF Sizing
<1>5. Filled' = 0
  BY <1>1, <1>3 DEF Filled
<1>6. Decoded'
  BY <1>5 DEF Decoded
<1>7. Given'
  BY <1>1, GivenStays DEF BInv
<1> QED  BY <1>1, <1>3, <1>4, <1>6, <1>7
         DEF BInv, Allocated, Fetching, AtPointer, Walking, Copying

LEMMA AllocateStep == BInv /\ Allocate => BInv'
<1> SUFFICES ASSUME BInv, Allocate PROVE BInv'
  OBVIOUS
<1>1. /\ pc = "size" /\ ~MoreToSize(i) /\ pc' = "fetch" /\ i' = 0
      /\ cells' = [k \in 1 .. size |-> Uninit]
      /\ UNCHANGED <<stream, mode, size, iptr, len, fsize, outf>>
      /\ Given
      /\ i \in 0 .. Len(stream.enc) /\ size = stream.start[i]
      /\ iptr = 0 /\ fsize = 0
  BY DEF Allocate, Buffer, BInv, Sizing
<1>2. Len(stream.enc) \in Nat /\ Len(stream.text) \in Nat
      /\ stream.start[0] = 0 /\ stream.start[Len(stream.enc)] = Len(stream.text)
  BY <1>1, KnownStream
<1>3. ~(i < Len(stream.enc))
  BY <1>1, MoreIsBeforeEnd
<1>4. i = Len(stream.enc) /\ size = Len(stream.text)
  BY <1>1, <1>2, <1>3
<1>5. cells' \in Seq(Literal \cup {Uninit}) /\ Len(cells') = Len(stream.text)
  BY <1>1, <1>2, <1>4
<1>6. Allocated' /\ Fetching'
  BY <1>1, <1>2, <1>4, <1>5 DEF Allocated, Fetching
<1>7. Filled' = 0
  BY <1>1 DEF Filled
<1>8. Decoded'
  BY <1>7 DEF Decoded
<1>9. Given'
  BY <1>1, GivenStays DEF BInv
<1> QED  BY <1>1, <1>6, <1>8, <1>9 DEF BInv, Sizing, AtPointer, Walking, Copying

LEMMA LiterallyStep == BInv /\ Literally => BInv'
<1> SUFFICES ASSUME BInv, Literally PROVE BInv'
  OBVIOUS
<1> DEFINE c == At(iptr)
           L == Len(stream.text)
<1>1. /\ pc = "fetch" /\ count(c) = 1 /\ len' = 1
      /\ iptr' = iptr + 1 /\ fsize' = fsize + 1
      /\ UNCHANGED <<stream, mode, size, outf, i>>
      /\ Given
      /\ iptr \in 0 .. Len(stream.enc) /\ fsize = stream.start[iptr]
      /\ size = L /\ iptr < Len(stream.enc)
      /\ cells \in Seq(Literal \cup {Uninit}) /\ Len(cells) = L
  BY FetchesByte DEF Literally, BInv, Fetching, Allocated
<1>2. /\ iptr + 1 \in 1 .. Len(stream.enc) /\ c \in Byte
      /\ fsize \in Nat /\ stream.start[iptr + 1] = fsize + count(c)
      /\ stream.start[iptr + 1] <= L
      /\ ~IsPointer(c) => stream.text[fsize + 1] = c
      /\ IsPointer(c) => count(c) >= 2
  BY <1>1, NextByte
<1>3. L \in Nat
  BY <1>1, KnownStream
<1>4. c \in Literal
  <2>1. ~IsPointer(c)
    BY <1>1, <1>2
  <2> HIDE DEF c
  <2> QED  BY <1>2, <2>1, FormatBounds DEF IsPointer, Byte, Literal
<1>5. fsize + 1 \in 1 .. L /\ fsize < size
  BY <1>1, <1>2, <1>3
<1>6. cells' = [cells EXCEPT ![fsize + 1] = c] /\ pc' = "fetch"
  BY <1>1, <1>5 DEF Literally
<1> HIDE DEF c, L
<1>7. /\ cells' \in Seq(Literal \cup {Uninit}) /\ Len(cells') = L
      /\ cells'[fsize + 1] = c
      /\ \A k \in 1 .. L : k # fsize + 1 => cells'[k] = cells[k]
  BY <1>1, <1>3, <1>4, <1>5, <1>6
<1>8. Allocated' /\ Fetching'
  BY <1>1, <1>2, <1>6, <1>7 DEF Allocated, Fetching, L
<1>9. Filled = fsize /\ Filled' = fsize + 1
  BY <1>1, <1>6 DEF Filled
<1>10. Decoded'
  <2> SUFFICES ASSUME NEW k \in 1 .. (fsize + 1)
               PROVE  cells'[k] = stream.text[k] /\ stream.text[k] \in Literal
    BY <1>1, <1>9 DEF Decoded
  <2>1. CASE k = fsize + 1
    <3>1. stream.text[k] = c
      BY <1>1, <1>2, <2>1, FormatBounds
    <3> QED  BY <1>4, <1>7, <2>1, <3>1
  <2>2. CASE k # fsize + 1
    <3>1. k \in 1 .. fsize /\ k \in 1 .. L
      BY <1>2, <1>3, <1>5, <2>2
    <3> QED  BY <1>7, <1>9, <2>2, <3>1 DEF BInv, Decoded
  <2> QED  BY <2>1, <2>2
<1>11. Given'
  BY <1>1, GivenStays DEF BInv
<1> QED  BY <1>1, <1>6, <1>8, <1>10, <1>11 DEF BInv, Sizing, AtPointer, Walking, Copying

LEMMA PointerStep == BInv /\ Pointer => BInv'
<1> SUFFICES ASSUME BInv, Pointer PROVE BInv'
  OBVIOUS
<1> DEFINE c == At(iptr)
<1>1. /\ pc = "fetch" /\ count(c) # 1 /\ len' = count(c)
      /\ iptr' = iptr + 1 /\ outf' = fsize /\ i' = 0 /\ pc' = "rewind"
      /\ UNCHANGED <<stream, mode, size, cells, fsize>>
      /\ Given
      /\ iptr \in 0 .. Len(stream.enc) /\ fsize = stream.start[iptr]
      /\ iptr < Len(stream.enc)
  BY FetchesByte DEF Pointer, BInv, Fetching
<1>2. /\ iptr + 1 \in 1 .. Len(stream.enc) /\ (iptr + 1) - 1 = iptr
      /\ c = stream.enc[iptr + 1] /\ c \in Byte
      /\ fsize \in Nat /\ count(c) \in 1 .. MAX_ZERO_MATCH
      /\ ~IsPointer(c) => count(c) = 1
      /\ IsPointer(c) => count(c) >= 2
  BY <1>1, NextByte
<1>3. count(c) \in 2 .. MAX_ZERO_MATCH /\ IsPointer(c)
  BY <1>1, <1>2, FormatBounds
<1>4. get_offset(c) \in Nat
  BY <1>2, OffsetRange
<1> HIDE DEF c
<1>5. AtPointer'
  BY <1>1, <1>2, <1>3 DEF AtPointer
<1>6. Walking'
  <2>1. 0 \in 0 .. (get_offset(c) + 1) /\ iptr' - 1 - 0 = iptr /\ fsize - fsize <= 0
    BY <1>1, <1>2, <1>4
  <2>2. 0 * MAX_ZERO_MATCH = 0
    BY FormatBounds
  <2> QED  BY <1>1, <1>2, <2>1, <2>2 DEF Walking
<1>7. Filled = fsize /\ Filled' = fsize
  BY <1>1 DEF Filled
<1>8. Decoded'
  BY <1>1, <1>7 DEF BInv, Decoded
<1>9. Given'
  BY <1>1, GivenStays DEF BInv
<1> QED  BY <1>1, <1>2, <1>3, <1>5, <1>6, <1>8, <1>9
         DEF BInv, Sizing, Allocated, Fetching, Copying

LEMMA RewindStep == BInv /\ Rewind => BInv'
<1> SUFFICES ASSUME BInv, Rewind PROVE BInv'
  OBVIOUS
<1> DEFINE o == get_offset(stream.enc[iptr])
           q == iptr - 2 - i
<1>1. /\ pc = "rewind" /\ i <= get_offset(At(iptr - 1))
      /\ UNCHANGED <<stream, mode, size, cells, iptr, len, fsize>>
      /\ Given
      /\ i \in 0 .. (o + 1) /\ outf = stream.start[iptr - 1 - i]
      /\ fsize - outf <= i * MAX_ZERO_MATCH
      /\ outf \in Int /\ i \in Nat
  BY DEF Rewind, StepBack, BInv, Walking
<1>2. /\ iptr \in Nat /\ iptr - 1 \in 0 .. (Len(stream.enc) - 1)
      /\ At(iptr - 1) = stream.enc[iptr] /\ o \in Nat
      /\ Source(stream.enc, iptr - 1) = iptr - 1 - o - 1
      /\ Source(stream.enc, iptr - 1) \in 0 .. (iptr - 1 - 1)
      /\ fsize \in Nat
  BY <1>1, CurrentPointer
<1>3. Len(stream.enc) \in Nat
  BY <1>1, KnownStream
<1>4. i <= o /\ i + 1 \in 0 .. (o + 1)
  BY <1>1, <1>2
<1> HIDE DEF o
<1>5. /\ q \in 0 .. Len(stream.enc) /\ q < Len(stream.enc)
      /\ q + 1 = iptr - 1 - i /\ q = iptr - 1 - (i + 1)
  BY <1>1, <1>2, <1>3, <1>4
<1> HIDE DEF q
<1>6. /\ InMemory(q) /\ count(At(q)) \in Nat /\ count(At(q)) \in 1 .. MAX_ZERO_MATCH
      /\ stream.start[q] \in Nat
      /\ stream.start[q + 1] = stream.start[q] + count(At(q))
  BY <1>1, <1>5, NextByte
<1>7. pc' = pc /\ i' = i + 1 /\ outf' = outf - count(At(q))
  BY <1>1, <1>6 DEF Rewind, StepBack, q
<1>8. outf' = stream.start[q] /\ outf' \in Int
  BY <1>1, <1>5, <1>6, <1>7
<1>9. fsize - outf' <= (i + 1) * MAX_ZERO_MATCH
  <2>1. i * MAX_ZERO_MATCH + MAX_ZERO_MATCH <= (i + 1) * MAX_ZERO_MATCH
        /\ i * MAX_ZERO_MATCH \in Nat
    BY <1>1, FormatBounds, ProductBound
  <2>2. \A a \in Nat, b \in Nat, f \in Nat, x \in Int, m \in Nat, k \in Nat :
          f - x <= a /\ k <= m /\ a + m <= b => f - (x - k) <= b
    OBVIOUS
  <2>3. (i + 1) * MAX_ZERO_MATCH \in Nat /\ MAX_ZERO_MATCH \in Nat
        /\ count(At(q)) <= MAX_ZERO_MATCH
    BY <1>1, <1>6, FormatBounds
  <2>4. fsize - (outf - count(At(q))) <= (i + 1) * MAX_ZERO_MATCH
    <3> DEFINE a == i * MAX_ZERO_MATCH
               b == (i + 1) * MAX_ZERO_MATCH
               k == count(At(q))
    <3>1. a \in Nat /\ b \in Nat /\ k \in Nat /\ k <= MAX_ZERO_MATCH
          /\ fsize - outf <= a /\ a + MAX_ZERO_MATCH <= b
      BY <1>1, <1>6, <2>1, <2>3
    <3> HIDE DEF a, b, k
    <3>2. fsize \in Nat /\ outf \in Int /\ MAX_ZERO_MATCH \in Nat
      BY <1>1, <1>2, <2>3
    <3>3. fsize - (outf - k) <= b
      BY <2>2, <3>1, <3>2
    <3> QED  BY <3>3 DEF b, k
  <2> QED  BY <1>7, <2>4
<1>10. Walking'
  BY <1>1, <1>4, <1>5, <1>7, <1>8, <1>9 DEF Walking, o
<1>11. Filled = fsize /\ Filled' = fsize
  BY <1>1, <1>7 DEF Filled
<1>12. Decoded'
  BY <1>1, <1>11 DEF BInv, Decoded
<1>13. Given'
  BY <1>1, GivenStays DEF BInv
<1> QED  BY <1>1, <1>7, <1>8, <1>10, <1>12, <1>13
         DEF BInv, Sizing, Allocated, Fetching, AtPointer, Copying

LEMMA StartCopyStep == BInv /\ StartCopy => BInv'
<1> SUFFICES ASSUME BInv, StartCopy PROVE BInv'
  OBVIOUS
<1> DEFINE o == get_offset(stream.enc[iptr])
<1>1. /\ pc = "rewind" /\ i > get_offset(At(iptr - 1)) /\ i' = 0 /\ pc' = "copy"
      /\ UNCHANGED <<stream, mode, size, cells, iptr, len, fsize, outf>>
      /\ i \in 0 .. (o + 1) /\ outf = stream.start[iptr - 1 - i]
      /\ fsize - outf <= i * MAX_ZERO_MATCH
  BY DEF StartCopy, BInv, Walking
<1>2. /\ At(iptr - 1) = stream.enc[iptr] /\ o \in Nat
      /\ iptr - 1 \in 0 .. (Len(stream.enc) - 1)
      /\ Source(stream.enc, iptr - 1) = iptr - 1 - o - 1
      /\ len \in Nat /\ fsize \in Nat
  BY <1>1, CurrentPointer
<1>3. i = o + 1
  BY <1>1, <1>2
<1> HIDE DEF o
<1>4. iptr - 1 - i = Source(stream.enc, iptr - 1)
  BY <1>2, <1>3
<1>5. Copying'
  BY <1>1, <1>2, <1>3, <1>4 DEF Copying, o
<1>6. Filled = fsize /\ Filled' = fsize
  BY <1>1, <1>2 DEF Filled
<1>7. Decoded'
  BY <1>1, <1>6 DEF BInv, Decoded
<1>8. Given'
  BY <1>1, GivenStays DEF BInv
<1> QED  BY <1>1, <1>5, <1>7, <1>8
         DEF BInv, Sizing, Allocated, Fetching, AtPointer, Walking

(* Where a copy reads and writes.                                          *)
LEMMA CopyCells ==
  ASSUME BInv, pc = "copy", i < len
  PROVE  /\ outf \in Nat /\ outf < fsize /\ fsize + i < size
         /\ outf + i + 1 \in 1 .. (fsize + i) /\ fsize + i + 1 \in 1 .. Len(stream.text)
         /\ fsize \in Nat /\ i \in Nat /\ Filled = fsize + i
         /\ cells[outf + i + 1] = stream.text[fsize + i + 1]
         /\ cells[outf + i + 1] \in Literal
<1> DEFINE p == iptr - 1
           source == Source(stream.enc, p)
<1>1. /\ p \in 0 .. (Len(stream.enc) - 1) /\ len \in Nat /\ fsize \in Nat
      /\ fsize = stream.start[p] /\ fsize + len <= Len(stream.text)
      /\ source \in 0 .. (p - 1)
      /\ \A k \in 1 .. len :
           stream.text[fsize + k] = stream.text[stream.start[source] + k]
  BY CurrentPointer
<1>2. /\ Given /\ i \in 0 .. len /\ outf = stream.start[source]
      /\ size = Len(stream.text)
  BY DEF BInv, Copying, Allocated
<1>3. Len(stream.text) \in Nat /\ Len(stream.enc) \in Nat /\ IsStream(stream)
  BY <1>2, KnownStream
<1> HIDE DEF p, source
<1>4. p \in 0 .. Len(stream.enc) /\ source \in 0 .. Len(stream.enc) /\ source <= p
      /\ p - source >= 1
  BY <1>1, <1>3
<1>5. outf \in Nat /\ outf + (p - source) <= fsize
  <2>1. stream.start[source] + (p - source) <= stream.start[p]
        /\ stream.start[source] \in 0 .. Len(stream.text)
    BY <1>3, <1>4, StreamFacts
  <2> QED  BY <1>1, <1>2, <1>3, <2>1
<1>6. outf < fsize
  BY <1>1, <1>4, <1>5
<1>7. /\ fsize + i < size /\ outf + i + 1 \in 1 .. (fsize + i)
      /\ fsize + i + 1 \in 1 .. Len(stream.text) /\ i \in Nat
  <2>1. \A f \in Nat, o \in Nat, l \in Nat, k \in Nat, L \in Nat :
          f + l <= L /\ o < f /\ k < l =>
            /\ f + k < L /\ o + k + 1 \in 1 .. (f + k) /\ f + k + 1 \in 1 .. L
    OBVIOUS
  <2>2. fsize \in Nat /\ outf \in Nat /\ len \in Nat /\ i \in Nat
        /\ Len(stream.text) \in Nat
    BY <1>1, <1>2, <1>3, <1>5
  <2> QED  BY <1>1, <1>2, <1>6, <2>1, <2>2
<1>8. Filled = fsize + i
  BY DEF Filled
<1>9. /\ cells[outf + i + 1] = stream.text[outf + i + 1]
      /\ stream.text[outf + i + 1] \in Literal
  BY <1>7, <1>8 DEF BInv, Decoded
<1>10. stream.text[fsize + i + 1] = stream.text[outf + i + 1]
  <2>1. i + 1 \in 1 .. len
    BY <1>1, <1>2
  <2>2. stream.text[fsize + (i + 1)] = stream.text[outf + (i + 1)]
    BY <1>1, <1>2, <2>1
  <2>3. fsize + (i + 1) = fsize + i + 1 /\ outf + (i + 1) = outf + i + 1
    <3>1. fsize \in Nat /\ outf \in Nat /\ i \in Nat
      BY <1>1, <1>5, <1>7
    <3> QED  BY <3>1
  <2> QED  BY <2>2, <2>3
<1> QED  BY <1>1, <1>2, <1>5, <1>6, <1>7, <1>8, <1>9, <1>10

LEMMA CopyStep == BInv /\ Copy => BInv'
<1> SUFFICES ASSUME BInv, Copy PROVE BInv'
  OBVIOUS
<1> DEFINE L == Len(stream.text)
           n == fsize + i
<1>1. /\ pc = "copy" /\ i < len
      /\ UNCHANGED <<stream, mode, size, iptr, len, fsize, outf>>
      /\ Given
  BY DEF Copy, CopyAt, BInv
<1>2. /\ outf \in Nat /\ fsize + i < size /\ n + 1 \in 1 .. L
      /\ fsize \in Nat /\ i \in Nat /\ Filled = n
      /\ cells[outf + i + 1] = stream.text[n + 1]
      /\ cells[outf + i + 1] \in Literal
  BY <1>1, CopyCells
<1>3. /\ cells' = [cells EXCEPT ![n + 1] = cells[outf + i + 1]]
      /\ i' = i + 1 /\ pc' = pc
  BY <1>1, <1>2 DEF Copy, CopyAt
<1>4. cells \in Seq(Literal \cup {Uninit}) /\ Len(cells) = L /\ L \in Nat /\ len \in Nat
  BY <1>1, KnownStream, CurrentPointer DEF BInv, Allocated
<1>5. Filled' = n + 1
  BY <1>1, <1>2, <1>3 DEF Filled
<1> HIDE DEF L, n
<1>6. /\ cells' \in Seq(Literal \cup {Uninit}) /\ Len(cells') = L
      /\ cells'[n + 1] = stream.text[n + 1]
      /\ \A k \in 1 .. L : k # n + 1 => cells'[k] = cells[k]
  BY <1>2, <1>3, <1>4
<1>7. Allocated'
  BY <1>1, <1>3, <1>6 DEF BInv, Allocated, L
<1>8. Copying'
  BY <1>1, <1>2, <1>3, <1>4 DEF BInv, Copying
<1>9. Decoded'
  <2> SUFFICES ASSUME NEW k \in 1 .. (n + 1)
               PROVE  cells'[k] = stream.text[k] /\ stream.text[k] \in Literal
    BY <1>1, <1>5 DEF Decoded
  <2>1. CASE k = n + 1
    BY <1>2, <1>6, <2>1
  <2>2. CASE k # n + 1
    <3>1. n \in Nat
      BY <1>2 DEF n
    <3>2. k \in 1 .. n /\ k \in 1 .. L
      BY <1>2, <1>4, <2>2, <3>1
    <3> QED  BY <1>2, <1>6, <2>2, <3>2 DEF BInv, Decoded
  <2> QED  BY <2>1, <2>2
<1>10. Given'
  BY <1>1, GivenStays DEF BInv
<1> QED  BY <1>1, <1>2, <1>3, <1>7, <1>8, <1>9, <1>10
         DEF BInv, Sizing, Fetching, AtPointer, Walking

LEMMA EndCopyStep == BInv /\ EndCopy => BInv'
<1> SUFFICES ASSUME BInv, EndCopy PROVE BInv'
  OBVIOUS
<1>1. /\ pc = "copy" /\ i = len /\ fsize' = fsize + len /\ i' = 0 /\ pc' = "fetch"
      /\ UNCHANGED <<stream, mode, size, cells, iptr, len, outf>>
      /\ Given /\ iptr \in 1 .. Len(stream.enc)
  BY DEF EndCopy, BInv, AtPointer
<1>2. stream.start[iptr] = fsize + len
  BY <1>1, CurrentPointer
<1>3. Fetching'
  BY <1>1, <1>2 DEF Fetching
<1>4. Filled' = Filled
  BY <1>1 DEF Filled
<1>5. Decoded'
  BY <1>1, <1>4 DEF BInv, Decoded
<1>6. Given'
  BY <1>1, GivenStays DEF BInv
<1> QED  BY <1>1, <1>3, <1>5, <1>6
         DEF BInv, Sizing, Allocated, AtPointer, Walking, Copying

(* The loop ends, by its test or by its break, behind the last byte.       *)
LEMMA EndsAtEnd ==
  ASSUME BInv, Return \/ Break
  PROVE  /\ pc = "fetch" /\ pc' = "done" /\ iptr' \in 0 .. Len(Memory)
         /\ fsize = Len(stream.text)
         /\ UNCHANGED <<stream, mode, size, cells, len, fsize, outf, i>>
<1>1. /\ pc = "fetch" /\ Given
      /\ iptr \in 0 .. Len(stream.enc) /\ fsize = stream.start[iptr]
      /\ UNCHANGED <<stream, mode, size, cells, len, fsize, outf, i>>
  BY DEF Return, Break, BInv, Fetching
<1>2. /\ Len(stream.enc) \in Nat /\ stream.start[Len(stream.enc)] = Len(stream.text)
      /\ Len(Memory) \in Nat
      /\ mode = "terminated" => Len(Memory) = Len(stream.enc) + 1
      /\ mode # "terminated" => Len(Memory) = Len(stream.enc)
  BY <1>1, KnownStream, MoreIsBeforeEnd
<1>3. iptr = Len(stream.enc)
  <2>1. ~(iptr < Len(stream.enc))
    BY <1>1, MoreIsBeforeEnd DEF Return, Break
  <2> QED  BY <1>1, <1>2, <2>1
<1>4. CASE Return
  <2>1. pc' = "done" /\ iptr' = iptr
    BY <1>4 DEF Return
  <2> QED  BY <1>1, <1>2, <1>3, <2>1
<1>5. CASE Break
  <2>1. mode = "terminated" /\ InMemory(iptr)
    BY <1>1, <1>3, <1>5, MoreIsBeforeEnd DEF Break
  <2>2. pc' = "done" /\ iptr' = iptr + 1
    BY <1>5, <2>1 DEF Break
  <2> QED  BY <1>1, <1>2, <1>3, <2>1, <2>2
<1> QED  BY <1>4, <1>5

LEMMA EndStep == BInv /\ (Return \/ Break) => BInv'
<1> SUFFICES ASSUME BInv, Return \/ Break PROVE BInv'
  OBVIOUS
<1>1. /\ pc = "fetch" /\ pc' = "done" /\ iptr' \in 0 .. Len(Memory)
      /\ fsize = Len(stream.text) /\ Given
      /\ UNCHANGED <<stream, mode, size, cells, len, fsize, outf, i>>
  BY EndsAtEnd DEF BInv
<1>2. Given' /\ Memory' = Memory
  BY <1>1, GivenStays
<1>3. Fetching'
  BY <1>1, <1>2 DEF Fetching
<1>4. Filled' = Filled
  BY <1>1 DEF Filled
<1>5. Decoded'
  BY <1>1, <1>4 DEF BInv, Decoded
<1> QED  BY <1>1, <1>2, <1>3, <1>5
         DEF BInv, Sizing, Allocated, AtPointer, Walking, Copying

LEMMA StepBInv == BInv /\ [Next]_vars => BInv'
<1> SUFFICES ASSUME BInv, [Next]_vars PROVE BInv'
  OBVIOUS
<1>1. CASE UNCHANGED vars
  <2>1. Given' /\ Memory' = Memory
    BY <1>1, GivenStays DEF vars, BInv
  <2> QED
    BY <1>1, <2>1 DEF vars, BInv, Sizing, Allocated, Fetching, AtPointer, Walking, Copying,
                      Decoded, Filled
<1> QED
  BY <1>1, AddCountStep, AllocateStep, LiterallyStep, PointerStep, RewindStep,
     StartCopyStep, CopyStep, EndCopyStep, EndStep DEF Next

THEOREM DecoderInvariance == Spec => []BInv
BY InitBInv, StepBInv, PTL DEF Spec

-----------------------------------------------------------------------------
(* Every variable keeps its type; the walk back never leaves the input.    *)
THEOREM BufferedTypeCorrect == Spec => []TypeOK
<1>1. BInv => TypeOK
  <2> SUFFICES ASSUME BInv PROVE TypeOK
    OBVIOUS
  <2>1. Given
    BY DEF BInv
  <2>2. /\ Len(stream.enc) \in Nat /\ Len(stream.text) \in Nat
        /\ stream.start[0] = 0
        /\ \A p \in 0 .. Len(stream.enc) : stream.start[p] \in Nat
    BY <2>1, KnownStream
  <2>3. 0 \in 0 .. Len(stream.enc)
    BY <2>2
  <2>4. Len(Memory) \in Nat /\ Len(stream.enc) <= Len(Memory)
    BY <2>1, <2>3, MoreIsBeforeEnd
  <2>5. iptr \in 0 .. Len(Memory) /\ fsize \in Nat
    <3>1. CASE pc = "size"
      BY <2>3, <2>4, <3>1 DEF BInv, Sizing
    <3>2. CASE pc \in {"fetch", "done"}
      BY <2>2, <2>4, <3>2 DEF BInv, Fetching
    <3>3. CASE pc \in {"rewind", "copy"}
      <4>1. iptr \in 0 .. Len(Memory)
        BY <2>2, <2>4, <3>3 DEF BInv, AtPointer
      <4>2. fsize \in Nat
        BY <3>3, CurrentPointer
      <4> QED  BY <4>1, <4>2
    <3> QED  BY <3>1, <3>2, <3>3 DEF BInv
  <2>6. size \in Nat /\ cells \in Seq(Literal \cup {Uninit})
    <3>1. CASE pc = "size"
      <4>1. size \in Nat /\ cells = << >>
        BY <2>2, <3>1 DEF BInv, Sizing
      <4> QED  BY <4>1
    <3>2. CASE pc # "size"
      BY <2>2, <3>2 DEF BInv, Allocated
    <3> QED  BY <3>1, <3>2
  <2>7. pc \notin {"size", "undefined"} => Len(cells) = size
    BY DEF BInv, Allocated
  <2>8. mode \in {"sized", "terminated"}
    BY <2>1, ModesAssumption DEF Given
  <2> QED  BY <2>5, <2>6, <2>7, <2>8 DEF BInv, TypeOK
<1> QED  BY DecoderInvariance, <1>1, PTL

(* lzjwm_decompressed_size returns the length of the text; the loop of     *)
(* lzjwm_decompress is, at each byte, where the bytes before it decode to, *)
(* and has decoded as many characters when it ends, though it looks for    *)
(* the end in another way (lzjwm_decompress.c:28-34 and 91-114).           *)
THEOREM SizesAlwaysAgree == Spec => []SizesAgree
<1>1. BInv => SizesAgree
  <2> SUFFICES ASSUME BInv PROVE SizesAgree
    OBVIOUS
  <2> QED  BY DEF BInv, Allocated, Fetching, SizesAgree
<1> QED  BY DecoderInvariance, <1>1, PTL

(* No access is outside the input or the buffer, and a copy, overlapping   *)
(* or not, reads only what was written before (lzjwm_decompress.c:103-109).*)
THEOREM BuffersAlwaysRespected == Spec => []BuffersRespected
<1>1. BInv => BuffersRespected
  <2> SUFFICES ASSUME BInv PROVE BuffersRespected
    OBVIOUS
  <2>1. ASSUME pc = "copy", i < len PROVE cells[outf + i + 1] # Uninit
    <3>1. cells[outf + i + 1] \in Literal
      BY <2>1, CopyCells
    <3>2. Uninit \notin Literal
      BY FormatBounds DEF Literal, Uninit
    <3> QED  BY <3>1, <3>2
  <2> QED  BY <2>1 DEF BInv, BuffersRespected
<1> QED  BY DecoderInvariance, <1>1, PTL

(* Without a page for offset 0, as shipped, a copy starts at most LOOKBACK *)
(* of the longest matches back: 160 characters (README.md:104-106).  With  *)
(* such a page a byte can hold an offset of LOOKBACK, one more than the    *)
(* encoder ever uses.                                                      *)
LEMMA OffsetsInWindow ==
  ASSUME ZERO_BITS = 0, NEW c \in Byte, IsPointer(c)
  PROVE  get_offset(c) + 1 <= LOOKBACK
<1> DEFINE w == 2 ^ COUNT_BITS
           r == 2 ^ (PAYLOAD_BITS - COUNT_BITS)
           x == c % FLAG
<1>1. /\ COUNT_BITS \in 0 .. 7 /\ PAYLOAD_BITS \in 0 .. 7
      /\ PAYLOAD_BITS - COUNT_BITS \in 0 .. 7
      /\ PAYLOAD_BITS = (PAYLOAD_BITS - COUNT_BITS) + COUNT_BITS
  BY FormatAssumption
<1>2. w \in Nat /\ w >= 1 /\ r \in Nat /\ FLAG = r * w
  <2>1. w \in Nat /\ w >= 1 /\ r \in Nat
    BY <1>1, Powers
  <2>2. FLAG = r * w
    BY <1>1, PowerSums DEF FLAG
  <2> QED  BY <2>1, <2>2
<1>3. x \in Nat /\ x < FLAG
  BY FormatBounds DEF Byte
<1>4. LOOKBACK = r /\ get_offset(c) = x \div w
  <2>1. LOOKBACK = r - 0
    BY DEF LOOKBACK
  <2>2. get_offset(c) = (x \div w) + 0
    BY DEF get_offset, IsZeroOffset, ZeroShift
  <2> HIDE DEF r, x, w
  <2>3. x \div w \in Int
    BY <1>2, <1>3
  <2> QED  BY <1>2, <2>1, <2>2, <2>3
<1> HIDE DEF w, r, x
<1>5. x \div w < r
  <2> DEFINE q == x \div w
  <2>1. q \in Nat /\ w * q <= x
    BY <1>2, <1>3
  <2> HIDE DEF q
  <2>2. CASE q >= r
    <3>1. PICK k \in Nat : q = r + k
      BY <1>2, <2>1, <2>2
    <3>2. w * q = r * w + w * k /\ w * k \in Nat
      BY <1>2, <3>1
    <3> QED  BY <1>2, <1>3, <2>1, <3>2
  <2> QED  BY <1>2, <2>1, <2>2 DEF q
<1>6. x \div w \in Int
  BY <1>2, <1>3
<1> QED  BY <1>2, <1>4, <1>5, <1>6

(* The bound of README.md:104-106, for the format without a zero page.     *)
THEOREM WindowAlwaysSuffices ==
  ASSUME ZERO_BITS = 0
  PROVE  Spec => []WindowSuffices
<1>1. BInv => WindowSuffices
  <2> SUFFICES ASSUME BInv, pc = "copy"
               PROVE  fsize - outf <= LOOKBACK * MAX_ZERO_MATCH
    BY DEF WindowSuffices
  <2> DEFINE c == stream.enc[iptr]
             o == get_offset(c) + 1
  <2>1. c \in Byte /\ IsPointer(c) /\ fsize - outf <= o * MAX_ZERO_MATCH
    <3>1. stream.enc \in Seq(Byte)
      BY KnownStream DEF BInv
    <3> QED  BY <3>1 DEF BInv, AtPointer, Copying
  <2>2. o \in Nat /\ o <= LOOKBACK /\ LOOKBACK \in Nat /\ MAX_ZERO_MATCH \in Nat
    <3>1. get_offset(c) \in Nat
      BY <2>1, OffsetRange
    <3>2. o <= LOOKBACK
      BY <2>1, OffsetsInWindow
    <3> HIDE DEF c
    <3> QED  BY <3>1, <3>2, FormatBounds
  <2>3. fsize \in Nat /\ outf \in Int
    BY CurrentPointer DEF BInv
  <2> HIDE DEF o, c
  <2>4. o * MAX_ZERO_MATCH <= LOOKBACK * MAX_ZERO_MATCH
    <3>1. PICK k \in Nat : LOOKBACK = o + k
      BY <2>2
    <3>2. (o + k) * MAX_ZERO_MATCH = o * MAX_ZERO_MATCH + k * MAX_ZERO_MATCH
          /\ k * MAX_ZERO_MATCH \in Nat /\ o * MAX_ZERO_MATCH \in Nat
      BY <2>2
    <3> QED  BY <3>1, <3>2
  <2>5. o * MAX_ZERO_MATCH \in Nat /\ LOOKBACK * MAX_ZERO_MATCH \in Nat
    BY <2>2
  <2> QED  BY <2>1, <2>3, <2>4, <2>5
<1> QED  BY DecoderInvariance, <1>1, PTL

-----------------------------------------------------------------------------
(* What has come out is the beginning of the text.                         *)
Sent == SubSeq(stream.text, 1, Filled)

LEMMA SentIsPrefix ==
  BInv => /\ Filled \in 0 .. Len(stream.text)
          /\ SubSeq(cells, 1, Filled) = Sent
          /\ Sent \in Seq(Byte) /\ Len(Sent) = Filled
<1> SUFFICES ASSUME BInv
             PROVE  /\ Filled \in 0 .. Len(stream.text)
                    /\ SubSeq(cells, 1, Filled) = Sent
                    /\ Sent \in Seq(Byte) /\ Len(Sent) = Filled
  OBVIOUS
<1>1. /\ stream.text \in Seq(Byte)
      /\ Len(stream.text) \in Nat /\ Len(stream.enc) \in Nat
      /\ \A p \in 0 .. Len(stream.enc) : stream.start[p] \in 0 .. Len(stream.text)
  BY KnownStream DEF BInv
<1>2. Filled \in 0 .. Len(stream.text)
  <2>1. CASE pc = "size"
    <3>1. fsize = 0 /\ Filled = 0
      BY <2>1 DEF BInv, Sizing, Filled
    <3> QED  BY <1>1, <3>1
  <2>2. CASE pc \in {"fetch", "done"}
    BY <1>1, <2>2 DEF BInv, Fetching, Filled
  <2>3. CASE pc \in {"rewind", "copy"}
    <3>1. fsize \in Nat /\ len \in Nat /\ fsize + len <= Len(stream.text)
      BY <2>3, CurrentPointer
    <3>2. Filled = fsize \/ (Filled = fsize + i /\ i \in 0 .. len)
      BY <2>3 DEF BInv, Copying, Filled
    <3> QED  BY <1>1, <3>1, <3>2
  <2> QED  BY <2>1, <2>2, <2>3 DEF BInv
<1>3. \A k \in 1 .. Filled : cells[k] = stream.text[k]
  BY DEF BInv, Decoded
<1> HIDE DEF Filled
<1>4. /\ Sent \in Seq(Byte) /\ Len(Sent) = Filled
      /\ \A k \in 1 .. Filled : Sent[k] = stream.text[k]
  BY <1>1, <1>2 DEF Sent
<1>5. Filled = 0 \/ (cells \in Seq(Literal \cup {Uninit}) /\ Len(cells) = Len(stream.text))
  <2>1. pc = "size" => Filled = 0
    BY DEF BInv, Sizing, Filled
  <2> QED  BY <2>1 DEF BInv, Allocated
<1>6. SubSeq(cells, 1, Filled) = Sent
  <2>1. CASE Filled = 0
    BY <2>1 DEF Sent
  <2>2. CASE Filled # 0
    <3>1. /\ cells \in Seq(Literal \cup {Uninit}) /\ Len(cells) = Len(stream.text)
      BY <1>5, <2>2
    <3>2. /\ SubSeq(cells, 1, Filled) \in Seq(Literal \cup {Uninit})
          /\ Len(SubSeq(cells, 1, Filled)) = Filled
          /\ \A k \in 1 .. Filled : SubSeq(cells, 1, Filled)[k] = cells[k]
      BY <1>1, <1>2, <3>1
    <3> QED  BY <1>2, <1>3, <1>4, <3>2
  <2> QED  BY <2>1, <2>2
<1> QED  BY <1>2, <1>4, <1>6

(* Each step of the decoder delivers the next character or nothing, and it *)
(* returns when all are delivered: what Delivery asks of every decoder,    *)
(* but for its fairness.                                                   *)
THEOREM BufferedDelivers == Spec => D!Init /\ [][D!Next]_(D!vars)
<1>1. Init => D!Init
  <2> SUFFICES ASSUME Init PROVE D!Init
    OBVIOUS
  <2>1. BInv /\ Filled = 0
    BY InitBInv DEF Init, Filled
  <2>2. stream.text \in Seq(Byte)
    BY <2>1, KnownStream DEF BInv
  <2> QED  BY <2>1, <2>2 DEF Init, D!Init
<1>2. BInv /\ [Next]_vars => [D!Next]_(D!vars)
  <2> SUFFICES ASSUME BInv, [Next]_vars PROVE [D!Next]_(D!vars)
    OBVIOUS
  <2>1. BInv'
    BY StepBInv
  <2> DEFINE L == Len(stream.text)
             sent == IF pc = "undefined" THEN << >> ELSE SubSeq(cells, 1, Filled)
             ended == (pc = "done")
  <2>2. stream' = stream /\ stream.text \in Seq(Byte) /\ L \in Nat
    <3>1. stream' = stream
      BY DEF Next, vars, AddCount, Allocate, Buffer, Literally, Pointer, Rewind, StepBack,
             StartCopy, Copy, CopyAt, EndCopy, Break, Return
    <3> QED  BY <3>1, KnownStream DEF BInv
  <2>3. /\ sent = Sent /\ Len(sent) = Filled /\ Filled \in 0 .. L
        /\ sent' = Sent' /\ Filled' \in 0 .. L
    <3>1. pc # "undefined" /\ pc' # "undefined"
      BY <2>1 DEF BInv
    <3>2. Filled \in 0 .. L /\ SubSeq(cells, 1, Filled) = Sent /\ Len(Sent) = Filled
      BY SentIsPrefix
    <3>3. (Filled \in 0 .. L /\ SubSeq(cells, 1, Filled) = Sent)'
      BY <2>1, SentIsPrefix, PTL
    <3> QED  BY <2>2, <3>1, <3>2, <3>3
  <2>4. ASSUME Filled' = Filled, (pc' = "done") <=> (pc = "done")
        PROVE  UNCHANGED D!vars
    <3>1. Sent' = Sent
      BY <2>2, <2>4 DEF Sent
    <3> QED  BY <2>2, <2>3, <2>4, <3>1 DEF D!vars
  <2>5. ASSUME Filled' = Filled + 1, pc # "done", pc' # "done"
        PROVE  D!Deliver
    <3>1. Sent' = Append(Sent, stream.text[Filled + 1])
      <4>1. Filled + 1 \in 1 .. L /\ Filled \in 0 .. L
        BY <2>2, <2>3, <2>5
      <4> HIDE DEF Filled, L
      <4>2. SubSeq(stream.text, 1, Filled + 1)
              = Append(SubSeq(stream.text, 1, Filled), stream.text[Filled + 1])
        BY <2>2, <4>1 DEF L
      <4> QED  BY <2>2, <2>5, <4>2 DEF Sent
    <3>2. Filled < L
      BY <2>2, <2>3, <2>5
    <3> QED  BY <2>2, <2>3, <2>5, <3>1, <3>2 DEF D!Deliver
  <2>6. CASE Literally
    <3>1. pc = "fetch" /\ fsize' = fsize + 1
      BY <2>6 DEF Literally, Fetched
    <3>2. pc' = "fetch" \/ pc' = "undefined"
      BY <2>6, <3>1 DEF Literally
    <3>3. Filled' = Filled + 1
      BY <3>1, <3>2 DEF Filled
    <3> QED  BY <2>5, <3>1, <3>2, <3>3 DEF D!Next
  <2>7. CASE Copy
    <3>1. pc = "copy" /\ fsize' = fsize /\ i < len
      BY <2>7 DEF Copy, CopyAt
    <3>2. i' = i + 1 /\ pc' = pc
      BY <2>7, <3>1, CopyCells DEF Copy, CopyAt
    <3>3. Filled' = Filled + 1
      <4>1. fsize \in Nat /\ i \in Nat
        BY <3>1, CopyCells
      <4> QED  BY <3>1, <3>2, <4>1 DEF Filled
    <3> QED  BY <2>5, <3>1, <3>2, <3>3 DEF D!Next
  <2>8. CASE Return \/ Break
    <3>1. pc = "fetch" /\ pc' = "done" /\ fsize = L /\ UNCHANGED <<stream, fsize>>
      BY <2>8, EndsAtEnd
    <3>2. Filled = L /\ Filled' = Filled
      BY <3>1 DEF Filled
    <3>3. Sent = stream.text /\ Sent' = Sent
      BY <2>2, <3>2 DEF Sent
    <3> QED  BY <2>2, <2>3, <3>1, <3>3 DEF D!Next, D!End
  <2>9. CASE AddCount \/ Allocate \/ Pointer \/ Rewind \/ StartCopy
    <3>1. pc \in {"size", "fetch", "rewind"} /\ fsize' = fsize
          /\ (pc' = "copy" => pc = "rewind" /\ i' = 0)
          /\ pc' # "done"
      BY <2>9 DEF AddCount, Allocate, Buffer, Pointer, Fetched, Rewind, StepBack, StartCopy
    <3>2. fsize \in Int
      <4>1. Filled = fsize
        BY <3>1 DEF Filled
      <4> QED  BY <2>2, <2>3, <4>1
    <3>3. Filled' = Filled
      BY <3>1, <3>2 DEF Filled
    <3> QED  BY <2>4, <3>1, <3>3
  <2>10. CASE EndCopy
    <3>1. Filled' = Filled /\ pc' # "done" /\ pc # "done"
      BY <2>10 DEF EndCopy, Filled
    <3> QED  BY <2>4, <3>1
  <2>11. CASE UNCHANGED vars
    BY <2>4, <2>11 DEF vars, Filled
  <2> QED  BY <2>6, <2>7, <2>8, <2>9, <2>10, <2>11 DEF Next
<1> QED  BY <1>1, <1>2, DecoderInvariance, PTL DEF Spec
=============================================================================
