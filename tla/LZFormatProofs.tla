--------------------------- MODULE LZFormatProofs ---------------------------
EXTENDS LZFormat, WellFoundedInduction, TLAPS

LEMMA PowerTable ==
  /\ 2^0 = 1 /\ 2^1 = 2 /\ 2^2 = 4 /\ 2^3 = 8 /\ 2^4 = 16
  /\ 2^5 = 32 /\ 2^6 = 64 /\ 2^7 = 128
OBVIOUS

(* The powers of two, case by case: the provers know no exponentiation.    *)
LEMMA PowerCases ==
  \A k \in 0 .. 7 :
    \/ k = 0 /\ 2^k = 1
    \/ k = 1 /\ 2^k = 2
    \/ k = 2 /\ 2^k = 4
    \/ k = 3 /\ 2^k = 8
    \/ k = 4 /\ 2^k = 16
    \/ k = 5 /\ 2^k = 32
    \/ k = 6 /\ 2^k = 64
    \/ k = 7 /\ 2^k = 128
<1> TAKE k \in 0 .. 7
<1>0. k = 0 => 2^k = 1
  BY PowerTable, Zenon
<1>1. k = 1 => 2^k = 2
  BY PowerTable, Zenon
<1>2. k = 2 => 2^k = 4
  BY PowerTable, Zenon
<1>3. k = 3 => 2^k = 8
  BY PowerTable, Zenon
<1>4. k = 4 => 2^k = 16
  BY PowerTable, Zenon
<1>5. k = 5 => 2^k = 32
  BY PowerTable, Zenon
<1>6. k = 6 => 2^k = 64
  BY PowerTable, Zenon
<1>7. k = 7 => 2^k = 128
  BY PowerTable, Zenon
<1> QED  BY <1>0, <1>1, <1>2, <1>3, <1>4, <1>5, <1>6, <1>7

LEMMA Powers ==
  ASSUME NEW a \in 0 .. 7
  PROVE  /\ 2^a \in Nat /\ 2^a >= 1
         /\ a >= 1 => 2^a >= 2
         /\ \A b \in 0 .. a : 2^b <= 2^a
<1> DEFINE P(k) == 2^k
<1>2. \A k \in 0 .. 7 :
        \/ k = 0 /\ P(k) = 1
        \/ k = 1 /\ P(k) = 2
        \/ k = 2 /\ P(k) = 4
        \/ k = 3 /\ P(k) = 8
        \/ k = 4 /\ P(k) = 16
        \/ k = 5 /\ P(k) = 32
        \/ k = 6 /\ P(k) = 64
        \/ k = 7 /\ P(k) = 128
  BY PowerCases
<1> HIDE DEF P
<1>3. /\ P(a) \in Nat /\ P(a) >= 1
      /\ a >= 1 => P(a) >= 2
  BY <1>2
<1>4. \A b \in 0 .. a : P(b) <= P(a)
  BY <1>2
<1> QED  BY <1>3, <1>4 DEF P

(* Exponents add up.                                                       *)
LEMMA PowerSums ==
  ASSUME NEW a \in 0 .. 7, NEW b \in 0 .. 7, NEW c \in 0 .. 7, c = a + b
  PROVE  2 ^ c = 2 ^ a * 2 ^ b
<1> DEFINE P(k) == 2 ^ k
<1>1. /\ P(0) = 1 /\ P(1) = 2 /\ P(2) = 4 /\ P(3) = 8 /\ P(4) = 16
      /\ P(5) = 32 /\ P(6) = 64 /\ P(7) = 128
  BY PowerTable
<1> HIDE DEF P
<1>2. P(c) = P(a) * P(b)
  <2>1. CASE a = 0
    <3>1. P(b) \in Int
      BY <1>1
    <3> QED  BY <1>1, <2>1, <3>1
  <2>2. CASE a = 1
    BY <1>1, <2>2
  <2>3. CASE a = 2
    BY <1>1, <2>3
  <2>4. CASE a = 3
    BY <1>1, <2>4
  <2>5. CASE a = 4
    BY <1>1, <2>5
  <2>6. CASE a = 5
    BY <1>1, <2>6
  <2>7. CASE a = 6
    BY <1>1, <2>7
  <2>8. CASE a = 7
    BY <1>1, <2>8
  <2> QED  BY <2>1, <2>2, <2>3, <2>4, <2>5, <2>6, <2>7, <2>8
<1> QED  BY <1>2 DEF P

(* The two fields of a number, when the lower one has the width of a power.*)
LEMMA Fields ==
  ASSUME NEW a \in 0 .. 7, NEW o \in Nat, NEW k \in 0 .. (2 ^ a - 1)
  PROVE  /\ (o * 2 ^ a + k) % 2 ^ a = k
         /\ (o * 2 ^ a + k) \div 2 ^ a = o
<1> DEFINE P == 2 ^ a
<1>1. \/ P = 1 \/ P = 2 \/ P = 4 \/ P = 8 \/ P = 16 \/ P = 32 \/ P = 64 \/ P = 128
  BY PowerCases
<1>2. k \in 0 .. (P - 1)
  OBVIOUS
<1> HIDE DEF P
<1>3. (o * P + k) % P = k /\ (o * P + k) \div P = o
  <2>1. CASE P = 1
    BY <1>2, <2>1
  <2>2. CASE P = 2
    BY <1>2, <2>2
  <2>3. CASE P = 4
    BY <1>2, <2>3
  <2>4. CASE P = 8
    BY <1>2, <2>4
  <2>5. CASE P = 16
    BY <1>2, <2>5
  <2>6. CASE P = 32
    BY <1>2, <2>6
  <2>7. CASE P = 64
    BY <1>2, <2>7
  <2>8. CASE P = 128
    BY <1>2, <2>8
  <2> QED  BY <1>1, <2>1, <2>2, <2>3, <2>4, <2>5, <2>6, <2>7, <2>8
<1> QED  BY <1>3 DEF P

(* A product of a bounded factor and a number is bounded.                  *)
LEMMA ProductBound ==
  ASSUME NEW a \in Nat, NEW b \in Nat, NEW f \in Nat, a + 1 <= b
  PROVE  a * f + f <= b * f
<1>1. b = a + 1 + (b - a - 1) /\ b - a - 1 \in Nat
  OBVIOUS
<1>2. PICK r \in Nat : b = a + 1 + r
  BY <1>1
<1>3. (a + 1 + r) * f = a * f + f + r * f
  BY SMTT(30)
<1>4. r * f \in Nat /\ a * f \in Nat
  OBVIOUS
<1>5. a * f + f <= a * f + f + r * f
  BY <1>4
<1> QED  BY <1>2, <1>3, <1>5

LEMMA FormatBounds ==
  /\ FLAG \in Nat /\ FLAG >= 2
  /\ LOOKBACK \in Nat /\ LOOKBACK <= FLAG
  /\ MAX_MATCH \in Nat /\ MAX_MATCH >= 2 /\ MAX_MATCH <= MAX_ZERO_MATCH
  /\ MAX_ZERO_MATCH \in Nat /\ MAX_ZERO_MATCH < 2 * FLAG
<1>1. /\ PAYLOAD_BITS \in 0 .. 7 /\ PAYLOAD_BITS >= 1
      /\ COUNT_BITS \in 0 .. PAYLOAD_BITS
      /\ ZERO_BITS \in 0 .. (PAYLOAD_BITS - COUNT_BITS)
  BY FormatAssumption
<1>2. FLAG \in Nat /\ FLAG >= 2
  BY <1>1, Powers DEF FLAG
<1>3. /\ 2 ^ (PAYLOAD_BITS - COUNT_BITS) \in Nat
      /\ 2 ^ ZERO_BITS \in Nat
      /\ 2 ^ ZERO_BITS <= 2 ^ (PAYLOAD_BITS - COUNT_BITS)
      /\ 2 ^ (PAYLOAD_BITS - COUNT_BITS) <= FLAG
  <2>1. /\ PAYLOAD_BITS - COUNT_BITS \in 0 .. 7 /\ ZERO_BITS \in 0 .. 7
        /\ PAYLOAD_BITS - COUNT_BITS \in 0 .. PAYLOAD_BITS
    BY <1>1
  <2> QED  BY <1>1, <2>1, Powers DEF FLAG
<1>4. LOOKBACK \in Nat /\ LOOKBACK <= FLAG
  BY <1>2, <1>3 DEF LOOKBACK
<1>5. /\ 2 ^ COUNT_BITS \in Nat /\ 2 ^ COUNT_BITS >= 1
      /\ 2 ^ (COUNT_BITS + ZERO_BITS) \in Nat
      /\ 2 ^ COUNT_BITS <= 2 ^ (COUNT_BITS + ZERO_BITS)
      /\ 2 ^ (COUNT_BITS + ZERO_BITS) <= FLAG
  <2>1. /\ COUNT_BITS + ZERO_BITS \in 0 .. 7 /\ COUNT_BITS \in 0 .. 7
        /\ COUNT_BITS \in 0 .. (COUNT_BITS + ZERO_BITS)
        /\ COUNT_BITS + ZERO_BITS \in 0 .. PAYLOAD_BITS
    BY <1>1
  <2> QED  BY <1>1, <2>1, Powers DEF FLAG
<1> QED
  BY <1>2, <1>4, <1>5 DEF MAX_MATCH, MAX_ZERO_MATCH

(* A pointer holds the count and the offset it was made of, whenever these *)
(* are what the assertions of mk_ptr demand (lzjwm_compress.c:18-33,       *)
(* lzjwm_decompress.c:22-47).                                              *)
LEMMA PointerFields ==
  ASSUME NEW o \in 0 .. (LOOKBACK - 1),
         NEW n \in 2 .. (IF o = 0 THEN MAX_ZERO_MATCH ELSE MAX_MATCH)
  PROVE  /\ IsPointer(mk_ptr(n, o))
         /\ count(mk_ptr(n, o)) = n
         /\ get_offset(mk_ptr(n, o)) = o
<1> DEFINE F == 2 ^ COUNT_BITS
           Z == 2 ^ ZERO_BITS
           W == 2 ^ (PAYLOAD_BITS - COUNT_BITS)
           V == 2 ^ (PAYLOAD_BITS - (COUNT_BITS + ZERO_BITS))
           G == 2 ^ (COUNT_BITS + ZERO_BITS)
           k == n - 2
           x == mk_ptr(n, o)
<1>1. /\ PAYLOAD_BITS \in 1 .. 7 /\ PAYLOAD_BITS \in 0 .. 7 /\ COUNT_BITS \in 0 .. 7
      /\ ZERO_BITS \in 0 .. 7
      /\ COUNT_BITS + ZERO_BITS \in 0 .. 7 /\ PAYLOAD_BITS - COUNT_BITS \in 0 .. 7
      /\ PAYLOAD_BITS - (COUNT_BITS + ZERO_BITS) \in 0 .. 7
      /\ (PAYLOAD_BITS - COUNT_BITS) + COUNT_BITS = PAYLOAD_BITS
      /\ (PAYLOAD_BITS - (COUNT_BITS + ZERO_BITS)) + (COUNT_BITS + ZERO_BITS) = PAYLOAD_BITS
      /\ COUNT_BITS + ZERO_BITS <= 7
  BY FormatAssumption
<1>2. /\ F \in Nat /\ F >= 1 /\ Z \in Nat /\ Z >= 1 /\ W \in Nat /\ W >= 1
      /\ V \in Nat /\ V >= 1 /\ G \in Nat /\ G >= 1
      /\ FLAG \in Nat /\ FLAG >= 2
  BY <1>1, Powers, FormatBounds
<1>3. FLAG = W * F /\ FLAG = V * G /\ G = F * Z
  <2>1. 2 ^ PAYLOAD_BITS = W * F
    BY <1>1, PowerSums
  <2>2. 2 ^ PAYLOAD_BITS = V * G
    BY <1>1, PowerSums
  <2>3. G = F * Z
    BY <1>1, PowerSums
  <2> HIDE DEF F, Z, W, V, G
  <2> QED  BY <1>1, <2>1, <2>2, <2>3 DEF FLAG
<1>4. k \in 0 .. (IF o = 0 THEN G - 1 ELSE F - 1) /\ k \in Nat /\ o \in Nat
      /\ n = k + 2
  BY <1>2, FormatBounds DEF MAX_ZERO_MATCH, MAX_MATCH
<1>5. LOOKBACK = W - (IF ZERO_BITS > 0 THEN Z ELSE 0) /\ LOOKBACK \in Nat
  BY FormatBounds DEF LOOKBACK
<1>6. x = (IF ZERO_BITS > 0 /\ o = 0 THEN (2 * FLAG - G) + k
           ELSE FLAG + ((o - ZeroShift) * F) + k) % (2 * FLAG)
  BY DEF mk_ptr, uint8, ZeroPage
<1>7. /\ IsPointer(x) <=> x >= FLAG
      /\ IsZeroOffset(x) <=> ZERO_BITS > 0 /\ x >= 2 * FLAG - G
      /\ IsPointer(x) => count(x) = IF IsZeroOffset(x) THEN (x % G) + 2 ELSE (x % F) + 2
      /\ get_offset(x) = IF IsZeroOffset(x) THEN 0 ELSE ((x % FLAG) \div F) + ZeroShift
  BY DEF IsPointer, IsZeroOffset, count, get_offset, ZeroPage
<1>9. /\ \A q \in Nat : \A r \in 0 .. (F - 1) :
           (q * F + r) % F = r /\ (q * F + r) \div F = q
      /\ \A q \in Nat : \A r \in 0 .. (G - 1) : (q * G + r) % G = r
      /\ \A r \in 0 .. (FLAG - 1) : (1 * FLAG + r) % FLAG = r
  <2>1. \A q \in Nat : \A r \in 0 .. (F - 1) :
           (q * F + r) % F = r /\ (q * F + r) \div F = q
    BY <1>1, Fields
  <2>2. \A q \in Nat : \A r \in 0 .. (G - 1) : (q * G + r) % G = r
    BY <1>1, Fields
  <2>3. \A r \in 0 .. (FLAG - 1) : (1 * FLAG + r) % FLAG = r
    BY <1>1, Fields DEF FLAG
  <2> QED  BY <2>1, <2>2, <2>3
<1> HIDE DEF F, Z, W, V, G, k, x
<1>10. CASE ZERO_BITS > 0 /\ o = 0
  <2>1. k \in 0 .. (G - 1)
    BY <1>4, <1>10
  <2>2. V * G >= G
    <3>1. PICK v \in Nat : V = v + 1
      BY <1>2
    <3>2. (v + 1) * G = v * G + G /\ v * G \in Nat
      BY <1>2
    <3> QED  BY <1>2, <3>1, <3>2
  <2>3. (2 * FLAG - G) + k \in 0 .. (2 * FLAG - 1) /\ (2 * FLAG - G) + k >= FLAG
    BY <1>2, <1>3, <2>1, <2>2
  <2>4. x = (2 * FLAG - G) + k
    BY <1>2, <1>6, <1>10, <2>3
  <2>5. IsPointer(x) /\ IsZeroOffset(x)
    BY <1>2, <1>7, <1>10, <2>1, <2>3, <2>4
  <2>6. (2 * FLAG - G) + k = (2 * V - 1) * G + k
    BY <1>2, <1>3, <2>1
  <2>7. 2 * V - 1 \in Nat
    BY <1>2
  <2>8. x % G = k
    BY <1>9, <2>1, <2>4, <2>6, <2>7
  <2> QED  BY <1>4, <1>7, <1>10, <2>5, <2>8 DEF x
<1>11. CASE ~(ZERO_BITS > 0 /\ o = 0)
  <2> DEFINE q == o - ZeroShift
  <2>1. q \in Nat /\ k \in 0 .. (F - 1) /\ o = q + ZeroShift
       /\ o - ZeroShift = q
    <3>1. CASE ZERO_BITS > 0
      BY <1>4, <1>11, <3>1 DEF ZeroShift
    <3>2. CASE ~(ZERO_BITS > 0)
      <4>1. ZERO_BITS = 0
        BY <1>1, <3>2
      <4>2. Z = 1
        BY <4>1, PowerTable, Zenon DEF Z
      <4>3. G = F
        BY <1>2, <1>3, <4>2
      <4> QED  BY <1>4, <4>1, <4>3 DEF ZeroShift
    <3> QED  BY <3>1, <3>2
  <2> HIDE DEF q
  <2>2. q * F + F <= FLAG /\ (ZERO_BITS > 0 => q * F + F <= FLAG - G)
    <3>1. CASE ZERO_BITS > 0
      <4>1. ZeroShift = 1 /\ q + 1 <= W - Z /\ W - Z \in Nat
        BY <1>1, <1>2, <1>5, <2>1, <3>1 DEF ZeroShift
      <4>2. q * F + F <= (W - Z) * F
        BY <1>2, <2>1, <4>1, ProductBound
      <4>3. (W - Z) * F = W * F - F * Z
        BY <1>2
      <4>4. FLAG - G <= FLAG /\ (W - Z) * F = FLAG - G /\ FLAG \in Int /\ G \in Int
        BY <1>2, <1>3, <4>3
      <4>5. q * F + F <= FLAG - G /\ q * F + F \in Int
        BY <1>2, <2>1, <4>2, <4>4
      <4> QED  BY <4>4, <4>5
    <3>2. CASE ~(ZERO_BITS > 0)
      <4>1. q + 1 <= W
        BY <1>1, <1>2, <1>4, <1>5, <2>1, <3>2 DEF ZeroShift
      <4> QED  BY <1>2, <1>3, <2>1, <3>2, <4>1, ProductBound
    <3> QED  BY <3>1, <3>2
  <2>3. q * F \in Nat
    BY <1>2, <2>1
  <2>4. /\ q * F + k \in 0 .. (FLAG - 1)
        /\ FLAG + q * F + k \in FLAG .. (2 * FLAG - 1)
        /\ ZERO_BITS > 0 => FLAG + q * F + k < 2 * FLAG - G
    BY <1>2, <2>1, <2>2, <2>3
  <2>5. x = (FLAG + q * F + k) % (2 * FLAG)
    BY <1>6, <1>11, <2>1
  <2>6. x = FLAG + q * F + k
    BY <1>2, <2>4, <2>5
  <2>7. IsPointer(x) /\ ~IsZeroOffset(x)
    BY <1>2, <1>7, <2>3, <2>4, <2>6
  <2>8. x = (W + q) * F + k /\ W + q \in Nat
    <3>1. (W + q) * F = W * F + q * F
      BY <1>2, <2>1
    <3> QED  BY <1>2, <1>3, <2>1, <2>6, <3>1
  <2>9. x % F = k
    BY <1>9, <2>1, <2>8
  <2>10. x % FLAG = q * F + k
    <3>1. x = 1 * FLAG + (q * F + k)
      BY <1>2, <2>1, <2>3, <2>6
    <3> QED  BY <1>9, <2>4, <3>1
  <2>11. (q * F + k) \div F = q
    BY <1>9, <2>1
  <2> QED  BY <1>4, <1>7, <2>1, <2>7, <2>9, <2>10, <2>11 DEF x
<1> QED  BY <1>10, <1>11 DEF x

(* Whatever the count and the offset, a pointer is a byte.                 *)
LEMMA PointerIsByte == \A n \in Nat, o \in Int : mk_ptr(n, o) \in Byte
<1> SUFFICES ASSUME NEW n \in Nat, NEW o \in Int PROVE mk_ptr(n, o) \in Byte
  OBVIOUS
<1> DEFINE field == 2 ^ COUNT_BITS
           page == 2 ^ (COUNT_BITS + ZERO_BITS)
           x == IF ZERO_BITS > 0 /\ o = 0
                THEN (2 * FLAG - page) + (n - 2)
                ELSE FLAG + ((o - ZeroShift) * field) + (n - 2)
<1>1. field \in Nat /\ page \in Nat
  <2>1. COUNT_BITS \in 0 .. 7 /\ COUNT_BITS + ZERO_BITS \in 0 .. 7
    BY FormatAssumption
  <2> QED  BY <2>1, Powers
<1>2. mk_ptr(n, o) = x % (2 * FLAG)
  BY DEF mk_ptr, uint8, ZeroPage
<1>3. ZeroShift \in Int
  BY DEF ZeroShift
<1> HIDE DEF field, page
<1>4. FLAG \in Nat /\ FLAG >= 2
  BY FormatBounds
<1>5. (o - ZeroShift) * field \in Int
  BY <1>1, <1>3
<1>6. x \in Int
  BY <1>1, <1>4, <1>5
<1> HIDE DEF x
<1>7. x % (2 * FLAG) \in 0 .. (2 * FLAG - 1)
  BY <1>4, <1>6
<1> QED  BY <1>2, <1>7 DEF Byte

(* The counts of bytes, and that only a pointer has a count above 1.       *)
LEMMA CountRange ==
  \A c \in Byte : /\ count(c) \in 1 .. MAX_ZERO_MATCH
                  /\ IsPointer(c) => count(c) >= 2
                  /\ ~IsPointer(c) => count(c) = 1
<1> DEFINE field == 2 ^ COUNT_BITS
           page == 2 ^ (COUNT_BITS + ZERO_BITS)
<1>1. field \in Nat /\ page \in Nat /\ field >= 1 /\ page >= field
  <2>1. /\ COUNT_BITS \in 0 .. (COUNT_BITS + ZERO_BITS)
        /\ COUNT_BITS + ZERO_BITS \in 0 .. 7 /\ COUNT_BITS \in 0 .. 7
    BY FormatAssumption
  <2> QED  BY <2>1, Powers
<1>2. MAX_ZERO_MATCH = page + 1
  BY DEF MAX_ZERO_MATCH
<1>3. \A c \in Byte : c \in Nat
  BY FormatBounds DEF Byte
<1> SUFFICES ASSUME NEW c \in Byte
             PROVE  /\ count(c) \in 1 .. MAX_ZERO_MATCH
                    /\ IsPointer(c) => count(c) >= 2
                    /\ ~IsPointer(c) => count(c) = 1
  OBVIOUS
<1>4. \/ ~IsPointer(c) /\ count(c) = 1
      \/ IsPointer(c) /\ count(c) = (c % page) + 2
      \/ IsPointer(c) /\ count(c) = (c % field) + 2
  BY DEF count
<1> HIDE DEF field, page
<1>5. c % page \in 0 .. (page - 1) /\ c % field \in 0 .. (field - 1)
  BY <1>1, <1>3
<1> QED  BY <1>1, <1>2, <1>4, <1>5

(* The offset of a byte is a number.                                       *)
LEMMA OffsetRange == \A c \in Byte : get_offset(c) \in Nat
<1> SUFFICES ASSUME NEW c \in Byte PROVE get_offset(c) \in Nat
  OBVIOUS
<1> DEFINE field == 2 ^ COUNT_BITS
<1>1. field \in Nat /\ field >= 1
  <2>1. COUNT_BITS \in 0 .. 7
    BY FormatAssumption
  <2> QED  BY <2>1, Powers
<1>2. c \in Nat /\ FLAG \in Nat /\ FLAG >= 2
  BY FormatBounds DEF Byte
<1>3. ZeroShift \in {0, 1}
  BY DEF ZeroShift
<1>4. get_offset(c) = 0 \/ get_offset(c) = ((c % FLAG) \div field) + ZeroShift
  BY DEF get_offset
<1> HIDE DEF field
<1>5. c % FLAG \in Nat
  BY <1>2
<1>6. \A a \in Nat : a \div field \in Nat
  BY <1>1
<1>7. (c % FLAG) \div field \in Nat
  BY <1>5, <1>6
<1> QED  BY <1>3, <1>4, <1>7
-----------------------------------------------------------------------------
(* Induction over the naturals for a set.                                  *)
LEMMA SetInduction ==
  ASSUME NEW S, 0 \in S, \A n \in Nat : n \in S => n + 1 \in S
  PROVE  \A n \in Nat : n \in S
<1> SUFFICES ASSUME NEW n \in Nat, n \notin S PROVE FALSE
  OBVIOUS
<1> DEFINE T == {k \in Nat : k \notin S}
<1>1. PICK x \in T : \A y \in T : ~(<<y, x>> \in OpToRel(<, Nat))
  <2>1. IsWellFoundedOn(OpToRel(<, Nat), Nat)
    BY NatLessThanWellFounded
  <2> QED  BY <2>1, WFMin
<1>2. x # 0 /\ x - 1 \in Nat /\ x - 1 < x /\ (x - 1) + 1 = x
  OBVIOUS
<1>3. x - 1 \in S
  BY <1>1, <1>2 DEF OpToRel
<1> QED  BY <1>2, <1>3

(* Where the bytes of a stream start in its text.                          *)
LEMMA StartsValue ==
  ASSUME NEW enc \in Seq(Byte)
  PROVE  /\ Starts(enc) \in [0 .. Len(enc) -> Nat]
         /\ Starts(enc)[0] = 0
         /\ \A p \in 1 .. Len(enc) :
              Starts(enc)[p] = Starts(enc)[p - 1] + count(enc[p])
<1> DEFINE Sums(f, n) == /\ f \in [0 .. n -> Nat]
                         /\ f[0] = 0
                         /\ \A p \in 1 .. n : f[p] = f[p - 1] + count(enc[p])
           S == {n \in Nat : n <= Len(enc) => \E f : Sums(f, n)}
<1>1. 0 \in S
  <2>1. Sums([p \in 0 .. 0 |-> 0], 0)
    OBVIOUS
  <2> QED  BY <2>1
<1>2. ASSUME NEW n \in Nat, n \in S PROVE n + 1 \in S
  <2> SUFFICES ASSUME n + 1 <= Len(enc) PROVE \E f : Sums(f, n + 1)
    OBVIOUS
  <2>1. PICK f : Sums(f, n)
    BY <1>2
  <2> DEFINE g == [p \in 0 .. (n + 1) |-> IF p = n + 1 THEN f[n] + count(enc[n + 1])
                                          ELSE f[p]]
  <2>2. count(enc[n + 1]) \in Nat
    <3>1. enc[n + 1] \in Byte
      OBVIOUS
    <3> QED  BY <3>1, CountRange, FormatBounds
  <2>3. g \in [0 .. (n + 1) -> Nat] /\ g[0] = 0
    BY <2>1, <2>2
  <2>4. ASSUME NEW p \in 1 .. (n + 1) PROVE g[p] = g[p - 1] + count(enc[p])
    <3>1. p - 1 # n + 1 /\ p - 1 \in 0 .. (n + 1)
      OBVIOUS
    <3>2. g[p - 1] = f[p - 1]
      BY <3>1
    <3>3. CASE p = n + 1
      BY <3>2, <3>3
    <3>4. CASE p # n + 1
      BY <2>1, <3>2, <3>4
    <3> QED  BY <3>3, <3>4
  <2> HIDE DEF g
  <2> QED  BY <2>3, <2>4
<1>3. Len(enc) \in S
  <2> HIDE DEF S
  <2> QED  BY <1>1, <1>2, SetInduction
<1>4. PICK f : Sums(f, Len(enc))
  BY <1>3
<1>5. f = [p \in 0 .. Len(enc) |-> IF p = 0 THEN 0 ELSE f[p - 1] + count(enc[p])]
  BY <1>4
<1>6. Starts(enc)
        = [p \in 0 .. Len(enc) |->
             IF p = 0 THEN 0 ELSE Starts(enc)[p - 1] + count(enc[p])]
  BY <1>5 DEF Starts
<1> DEFINE s == Starts(enc)
<1>7. /\ s[0] = 0
      /\ \A p \in 1 .. Len(enc) : s[p] = s[p - 1] + count(enc[p])
      /\ DOMAIN s = 0 .. Len(enc)
      /\ s = [p \in 0 .. Len(enc) |-> s[p]]
  BY <1>6
<1> HIDE DEF s
<1> DEFINE N == {n \in Nat : n <= Len(enc) => s[n] \in Nat}
<1>8. 0 \in N
  BY <1>7
<1>9. ASSUME NEW n \in Nat, n \in N PROVE n + 1 \in N
  <2> SUFFICES ASSUME n + 1 <= Len(enc) PROVE s[n + 1] \in Nat
    OBVIOUS
  <2>1. enc[n + 1] \in Byte /\ n + 1 \in 1 .. Len(enc) /\ (n + 1) - 1 = n
    OBVIOUS
  <2>2. count(enc[n + 1]) \in Nat
    BY <2>1, CountRange, FormatBounds
  <2> QED  BY <1>7, <1>9, <2>1, <2>2
<1>10. \A n \in Nat : n \in N
  <2> HIDE DEF N
  <2> QED  BY <1>8, <1>9, SetInduction
<1>11. s \in [0 .. Len(enc) -> Nat]
  BY <1>7, <1>10
<1> QED  BY <1>7, <1>11 DEF s

(* A byte more does not move the others.                                   *)
LEMMA StartsAppend ==
  ASSUME NEW enc \in Seq(Byte), NEW c \in Byte
  PROVE  /\ \A p \in 0 .. Len(enc) : Starts(Append(enc, c))[p] = Starts(enc)[p]
         /\ Starts(Append(enc, c))[Len(enc) + 1] = Starts(enc)[Len(enc)] + count(c)
<1> DEFINE enc2 == Append(enc, c)
           s == Starts(enc)
           t == Starts(enc2)
<1>1. enc2 \in Seq(Byte) /\ Len(enc2) = Len(enc) + 1 /\ enc2[Len(enc) + 1] = c
      /\ \A p \in 1 .. Len(enc) : enc2[p] = enc[p]
  OBVIOUS
<1> HIDE DEF enc2
<1>2. /\ s[0] = 0
      /\ \A p \in 1 .. Len(enc) : s[p] = s[p - 1] + count(enc[p])
  BY StartsValue
<1>3. /\ t[0] = 0
      /\ \A p \in 1 .. (Len(enc) + 1) : t[p] = t[p - 1] + count(enc2[p])
  BY <1>1, StartsValue
<1> HIDE DEF s, t
<1> DEFINE S == {n \in Nat : n <= Len(enc) => t[n] = s[n]}
<1>4. 0 \in S
  BY <1>2, <1>3
<1>5. ASSUME NEW n \in Nat, n \in S PROVE n + 1 \in S
  <2> SUFFICES ASSUME n + 1 <= Len(enc) PROVE t[n + 1] = s[n + 1]
    OBVIOUS
  <2>1. n + 1 \in 1 .. Len(enc) /\ n + 1 \in 1 .. (Len(enc) + 1) /\ (n + 1) - 1 = n
    OBVIOUS
  <2>2. t[n + 1] = t[n] + count(enc2[n + 1]) /\ s[n + 1] = s[n] + count(enc[n + 1])
    BY <1>2, <1>3, <2>1
  <2> QED  BY <1>1, <1>5, <2>1, <2>2
<1>6. \A n \in Nat : n \in S
  <2> HIDE DEF S
  <2> QED  BY <1>4, <1>5, SetInduction
<1>7. Len(enc) + 1 \in 1 .. (Len(enc) + 1) /\ (Len(enc) + 1) - 1 = Len(enc)
  OBVIOUS
<1>8. t[Len(enc) + 1] = s[Len(enc)] + count(c)
  BY <1>1, <1>3, <1>6, <1>7
<1> QED  BY <1>6, <1>8 DEF enc2, s, t

(* Every byte stands for at least one character.                           *)
LEMMA SumsGrow ==
  ASSUME NEW enc \in Seq(Byte), NEW s \in [0 .. Len(enc) -> Nat],
         \A p \in 0 .. (Len(enc) - 1) : s[p + 1] = s[p] + count(enc[p + 1])
  PROVE  \A p \in 0 .. Len(enc), q \in 0 .. Len(enc) :
           p <= q => s[p] + (q - p) <= s[q]
<1> DEFINE S == {n \in Nat : \A p \in 0 .. Len(enc) :
                   p + n <= Len(enc) => s[p] + n <= s[p + n]}
<1>1. \A p \in 0 .. Len(enc) : s[p] \in Int
  OBVIOUS
<1>2. 0 \in S
  <2> SUFFICES ASSUME NEW p \in 0 .. Len(enc) PROVE s[p] + 0 <= s[p + 0]
    OBVIOUS
  <2> QED  BY <1>1
<1>3. ASSUME NEW n \in Nat, n \in S PROVE n + 1 \in S
  <2> SUFFICES ASSUME NEW p \in 0 .. Len(enc), p + (n + 1) <= Len(enc)
               PROVE  s[p] + (n + 1) <= s[p + (n + 1)]
    OBVIOUS
  <2>1. /\ p + n \in 0 .. (Len(enc) - 1) /\ (p + n) + 1 = p + (n + 1)
        /\ p + n \in 0 .. Len(enc) /\ p + (n + 1) \in 0 .. Len(enc)
    OBVIOUS
  <2>2. enc[(p + n) + 1] \in Byte
    BY <2>1
  <2>3. s[(p + n) + 1] = s[p + n] + count(enc[(p + n) + 1])
    BY <2>1
  <2>4. count(enc[(p + n) + 1]) >= 1 /\ count(enc[(p + n) + 1]) \in Nat
    BY <2>2, CountRange, FormatBounds
  <2>5. s[p] + n <= s[p + n]
    BY <1>3, <2>1
  <2> QED  BY <1>1, <2>1, <2>3, <2>4, <2>5
<1>4. \A n \in Nat : n \in S
  <2> HIDE DEF S
  <2> QED  BY <1>2, <1>3, SetInduction
<1> SUFFICES ASSUME NEW p \in 0 .. Len(enc), NEW q \in 0 .. Len(enc), p <= q
             PROVE  s[p] + (q - p) <= s[q]
  OBVIOUS
<1>5. q - p \in Nat /\ p + (q - p) = q
  OBVIOUS
<1>6. q - p \in S
  BY <1>4, <1>5
<1> QED  BY <1>5, <1>6

(* The text of a byte comes before that of the bytes after it.             *)
LEMMA StartsGrow ==
  ASSUME NEW enc \in Seq(Byte), NEW text, NEW s, DecodesVia(enc, text, s)
  PROVE  /\ \A p \in 0 .. Len(enc) : s[p] \in 0 .. Len(text)
         /\ \A p \in 0 .. Len(enc), q \in 0 .. Len(enc) :
              p <= q => s[p] + (q - p) <= s[q]
<1>1. s \in [0 .. Len(enc) -> 0 .. Len(text)]
  BY DEF DecodesVia
<1>2. s \in [0 .. Len(enc) -> Nat]
  BY <1>1
<1>3. \A p \in 0 .. (Len(enc) - 1) : s[p + 1] = s[p] + count(enc[p + 1])
  BY DEF DecodesVia
<1> QED  BY <1>1, <1>2, <1>3, SumsGrow

-----------------------------------------------------------------------------
(***************************************************************************)
(* The stream enc stands for the first characters of text: what an encoder *)
(* has written when it is not done.                                        *)
(***************************************************************************)
Spells(enc, text) ==
  LET s == Starts(enc) IN
  /\ s[Len(enc)] <= Len(text)
  /\ \A p \in 0 .. (Len(enc) - 1) :
       LET c == enc[p + 1] IN
       /\ ~IsPointer(c) => text[s[p] + 1] = c
       /\ IsPointer(c) =>
            /\ Source(enc, p) >= 0
            /\ \A k \in 1 .. count(c) :
                 text[s[p] + k] = text[s[Source(enc, p)] + k]

LEMMA SpellsNothing == \A text \in Seq(Byte) : Spells(<< >>, text)
<1> SUFFICES ASSUME NEW text \in Seq(Byte) PROVE Spells(<< >>, text)
  OBVIOUS
<1>1. << >> \in Seq(Byte) /\ Len(<< >>) = 0 /\ Len(text) >= 0
  OBVIOUS
<1>2. Starts(<< >>)[0] = 0
  BY <1>1, StartsValue
<1> QED  BY <1>1, <1>2 DEF Spells

(* A byte that stands for the next characters extends the stream.          *)
LEMMA SpellsAppend ==
  ASSUME NEW enc \in Seq(Byte), NEW text, NEW c \in Byte, Spells(enc, text),
         Starts(enc)[Len(enc)] + count(c) <= Len(text),
         ~IsPointer(c) => text[Starts(enc)[Len(enc)] + 1] = c,
         IsPointer(c) =>
           /\ Source(Append(enc, c), Len(enc)) >= 0
           /\ \A k \in 1 .. count(c) :
                text[Starts(enc)[Len(enc)] + k]
                  = text[Starts(enc)[Source(Append(enc, c), Len(enc))] + k]
  PROVE  Spells(Append(enc, c), text)
<1> DEFINE e == Append(enc, c)
           s == Starts(enc)
           t == Starts(e)
           n == Len(enc)
<1>1. e \in Seq(Byte) /\ Len(e) = n + 1 /\ e[n + 1] = c /\ n \in Nat
      /\ \A p \in 1 .. n : e[p] = enc[p]
  OBVIOUS
<1>2. /\ \A p \in 0 .. n : t[p] = s[p]
      /\ t[n + 1] = s[n] + count(c)
  BY StartsAppend
<1>3. ASSUME NEW p \in 0 .. (n - 1)
      PROVE  /\ e[p + 1] = enc[p + 1] /\ t[p] = s[p] /\ Source(e, p) = Source(enc, p)
             /\ enc[p + 1] \in Byte
             /\ Source(enc, p) >= 0 => t[Source(e, p)] = s[Source(enc, p)]
  <2>1. p + 1 \in 1 .. n /\ p \in 0 .. n
    OBVIOUS
  <2>2. e[p + 1] = enc[p + 1] /\ t[p] = s[p] /\ enc[p + 1] \in Byte
    BY <1>1, <1>2, <2>1
  <2>3. Source(e, p) = Source(enc, p)
    BY <2>2 DEF Source
  <2>4. get_offset(enc[p + 1]) \in Nat
    BY <2>2, OffsetRange
  <2>5. Source(enc, p) >= 0 => Source(enc, p) \in 0 .. n
    BY <2>4 DEF Source
  <2> QED  BY <1>2, <2>2, <2>3, <2>5
<1>4. IsPointer(c) /\ Source(e, n) >= 0 => Source(e, n) \in 0 .. n
  <2>1. get_offset(c) \in Nat
    BY OffsetRange
  <2> QED  BY <1>1, <2>1 DEF Source
<1>5. t[Len(e)] <= Len(text)
  BY <1>1, <1>2
<1>6. ASSUME NEW p \in 0 .. (Len(e) - 1)
      PROVE  LET b == e[p + 1] IN
             /\ ~IsPointer(b) => text[t[p] + 1] = b
             /\ IsPointer(b) =>
                  /\ Source(e, p) >= 0
                  /\ \A k \in 1 .. count(b) :
                       text[t[p] + k] = text[t[Source(e, p)] + k]
  <2>1. CASE p = n
    <3>1. t[p] = s[n] /\ e[p + 1] = c
      BY <1>1, <1>2, <2>1
    <3>2. IsPointer(c) => t[Source(e, p)] = s[Source(e, n)] /\ Source(e, p) >= 0
      BY <1>2, <1>4, <2>1
    <3> HIDE DEF e, s, t
    <3> QED  BY <2>1, <3>1, <3>2 DEF e, s, n
  <2>2. CASE p # n
    <3>1. p \in 0 .. (n - 1)
      BY <1>1, <2>2
    <3>2. /\ ~IsPointer(enc[p + 1]) => text[s[p] + 1] = enc[p + 1]
          /\ IsPointer(enc[p + 1]) =>
               /\ Source(enc, p) >= 0
               /\ \A k \in 1 .. count(enc[p + 1]) :
                    text[s[p] + k] = text[s[Source(enc, p)] + k]
      BY <3>1 DEF Spells
    <3>3. /\ e[p + 1] = enc[p + 1] /\ t[p] = s[p] /\ Source(e, p) = Source(enc, p)
          /\ Source(enc, p) >= 0 => t[Source(e, p)] = s[Source(enc, p)]
      BY <1>3, <3>1
    <3> HIDE DEF e, s, t
    <3> QED  BY <3>2, <3>3
  <2> QED  BY <2>1, <2>2
<1> QED  BY <1>5, <1>6 DEF Spells

(* A stream that covers the text decodes to it and is not longer.          *)
LEMMA SpellsAll ==
  ASSUME NEW enc \in Seq(Byte), NEW text \in Seq(Byte), Spells(enc, text),
         Starts(enc)[Len(enc)] = Len(text)
  PROVE  DecodesVia(enc, text, Starts(enc)) /\ Len(enc) <= Len(text)
<1> DEFINE s == Starts(enc)
<1>1. /\ s \in [0 .. Len(enc) -> Nat] /\ s[0] = 0
      /\ \A p \in 1 .. Len(enc) : s[p] = s[p - 1] + count(enc[p])
  BY StartsValue
<1>2. \A p \in 0 .. (Len(enc) - 1) : s[p + 1] = s[p] + count(enc[p + 1])
  <2> SUFFICES ASSUME NEW p \in 0 .. (Len(enc) - 1)
               PROVE  s[p + 1] = s[p] + count(enc[p + 1])
    OBVIOUS
  <2>1. p + 1 \in 1 .. Len(enc) /\ (p + 1) - 1 = p
    OBVIOUS
  <2> HIDE DEF s
  <2> QED  BY <1>1, <2>1
<1>3. s[Len(enc)] = Len(text)
  OBVIOUS
<1>4. \A p \in 0 .. (Len(enc) - 1) :
        /\ ~IsPointer(enc[p + 1]) => text[s[p] + 1] = enc[p + 1]
        /\ IsPointer(enc[p + 1]) =>
             /\ Source(enc, p) >= 0
             /\ \A k \in 1 .. count(enc[p + 1]) :
                  text[s[p] + k] = text[s[Source(enc, p)] + k]
  BY DEF Spells
<1> HIDE DEF s
<1>5. \A p \in 0 .. Len(enc), q \in 0 .. Len(enc) : p <= q => s[p] + (q - p) <= s[q]
  BY <1>1, <1>2, SumsGrow
<1>6. \A p \in 0 .. Len(enc) : s[p] \in 0 .. Len(text)
  <2> SUFFICES ASSUME NEW p \in 0 .. Len(enc) PROVE s[p] \in 0 .. Len(text)
    OBVIOUS
  <2>1. s[p] + (Len(enc) - p) <= s[Len(enc)]
    BY <1>5
  <2> QED  BY <1>1, <1>3, <2>1
<1>7. s \in [0 .. Len(enc) -> 0 .. Len(text)]
  BY <1>1, <1>6
<1>8. Len(enc) <= Len(text)
  <2>1. s[0] + (Len(enc) - 0) <= s[Len(enc)]
    BY <1>5
  <2> QED  BY <1>1, <1>3, <2>1
<1>9. DecodesVia(enc, text, s)
  BY <1>1, <1>2, <1>3, <1>4, <1>7 DEF DecodesVia
<1> QED  BY <1>8, <1>9 DEF s

-----------------------------------------------------------------------------
(* Remainders, one divisor further.                                        *)
LEMMA Remainders ==
  ASSUME NEW x \in Nat, NEW n \in Nat, n > 0
  PROVE  /\ x % n \in 0 .. (n - 1)
         /\ x < n => x % n = x
         /\ x >= n => x % n = (x - n) % n
<1>1. x % n \in 0 .. (n - 1)
  OBVIOUS
<1>2. x < n => x % n = x
  OBVIOUS
<1>3. ASSUME x >= n PROVE x % n = (x - n) % n
  <2>1. PICK q \in Int : x = n * q + (x % n)
    <3>1. x = n * (x \div n) + (x % n) /\ x \div n \in Int
      OBVIOUS
    <3> QED  BY <3>1
  <2>2. PICK w \in Int : x - n = n * w + ((x - n) % n)
    <3>1. x - n = n * ((x - n) \div n) + ((x - n) % n) /\ (x - n) \div n \in Int
      OBVIOUS
    <3> QED  BY <3>1
  <2> DEFINE r == x % n
             u == (x - n) % n
             z == q - 1 - w
  <2>3. r \in 0 .. (n - 1) /\ u \in 0 .. (n - 1)
    OBVIOUS
  <2> HIDE DEF r, u
  <2>4. n * z = u - r
    BY <2>1, <2>2, <2>3 DEF r, u
  <2>5. z \in Int
    OBVIOUS
  <2>6. \A a \in Int : a >= 1 => n * a >= n
    OBVIOUS
  <2>7. \A a \in Int : a <= -1 => n * a <= -n
    OBVIOUS
  <2> HIDE DEF z
  <2>8. z = 0
    BY <2>3, <2>4, <2>5, <2>6, <2>7
  <2>9. u = r
    BY <2>3, <2>4, <2>8
  <2> QED  BY <2>9 DEF u, r
<1> QED  BY <1>1, <1>2, <1>3

(* A copy from inside the text to its end repeats the same characters, in  *)
(* the order in which the text goes on.                                    *)
LEMMA RepeatContinues ==
  ASSUME NEW text \in Seq(Byte), NEW a \in Nat, NEW f \in Nat, f < a,
         NEW n \in Nat, a + n <= Len(text),
         \A k \in 1 .. n : text[a + k] = text[f + k]
  PROVE  SubSeq(text, 1, a) \o Repeat(SubSeq(text, 1, a), f, n)
           = SubSeq(text, 1, a + n)
<1> DEFINE w == a - f
           R(k) == text[f + 1 + ((k - 1) % w)]
           S == {c \in Nat : \A k \in 1 .. n : k <= c => text[a + k] = R(k)}
<1>1. w \in Nat /\ w > 0 /\ f + w = a
  OBVIOUS
<1>2. 0 \in S
  OBVIOUS
<1>3. ASSUME NEW c \in Nat, c \in S PROVE c + 1 \in S
  <2> SUFFICES ASSUME c + 1 \in 1 .. n PROVE text[a + (c + 1)] = R(c + 1)
    <3>1. \A k \in 1 .. n : k <= c + 1 => k <= c \/ k = c + 1
      OBVIOUS
    <3> QED  BY <1>3, <3>1
  <2>1. (c + 1) - 1 = c /\ c \in Nat
    OBVIOUS
  <2>2. text[a + (c + 1)] = text[f + (c + 1)]
    OBVIOUS
  <2>3. CASE c < w
    <3>1. c % w = c
      BY <1>1, <2>3, Remainders
    <3>2. f + 1 + c = f + (c + 1)
      OBVIOUS
    <3> QED  BY <2>1, <2>2, <3>1, <3>2
  <2>4. CASE c >= w
    <3> DEFINE b == (c + 1) - w
    <3>1. b \in 1 .. n /\ b <= c /\ f + (c + 1) = a + b /\ b - 1 = c - w
      BY <1>1, <2>4
    <3>2. text[a + b] = R(b)
      BY <1>3, <3>1
    <3>3. c % w = (c - w) % w
      BY <1>1, <2>4, Remainders
    <3>4. R(b) = R(c + 1)
      BY <2>1, <3>1, <3>3
    <3> QED  BY <2>2, <3>1, <3>2, <3>4
  <2> QED  BY <1>1, <2>3, <2>4
<1>4. n \in S
  <2> HIDE DEF S
  <2> QED  BY <1>2, <1>3, SetInduction
<1>5. \A k \in 1 .. n : text[a + k] = R(k)
  BY <1>4
<1> DEFINE pre == SubSeq(text, 1, a)
           rep == Repeat(pre, f, n)
<1>6. pre \in Seq(Byte) /\ Len(pre) = a /\ \A k \in 1 .. a : pre[k] = text[k]
  OBVIOUS
<1>7. rep = [k \in 1 .. n |-> pre[f + 1 + ((k - 1) % w)]]
  BY <1>6 DEF Repeat
<1>8. \A k \in 1 .. n : rep[k] = text[a + k]
  <2> SUFFICES ASSUME NEW k \in 1 .. n PROVE rep[k] = text[a + k]
    OBVIOUS
  <2>1. (k - 1) % w \in 0 .. (w - 1)
    <3>1. k - 1 \in Nat
      OBVIOUS
    <3> QED  BY <1>1, <3>1, Remainders
  <2>2. f + 1 + ((k - 1) % w) \in 1 .. a
    BY <1>1, <2>1
  <2>3. rep[k] = pre[f + 1 + ((k - 1) % w)]
    BY <1>7
  <2> HIDE DEF pre, rep
  <2> QED  BY <1>5, <1>6, <2>2, <2>3
<1>9. \A k \in 1 .. n : text[a + k] \in Byte
  OBVIOUS
<1>10. rep \in Seq(Byte) /\ Len(rep) = n
  <2>1. rep \in [1 .. n -> Byte]
    <3> HIDE DEF rep
    <3> QED  BY <1>7, <1>8, <1>9
  <2> HIDE DEF rep, pre
  <2> QED  BY <2>1
<1> HIDE DEF pre, rep
<1>11. pre \o rep \in Seq(Byte) /\ Len(pre \o rep) = a + n
  BY <1>6, <1>10
<1>12. \A k \in 1 .. (a + n) : (pre \o rep)[k] = text[k]
  <2> SUFFICES ASSUME NEW k \in 1 .. (a + n) PROVE (pre \o rep)[k] = text[k]
    OBVIOUS
  <2>1. CASE k <= a
    BY <1>6, <1>10, <2>1
  <2>2. CASE k > a
    <3>1. k - a \in 1 .. n /\ a + (k - a) = k
      BY <2>2
    <3>2. (pre \o rep)[k] = rep[k - a]
      BY <1>6, <1>10, <2>2
    <3> QED  BY <1>8, <3>1, <3>2
  <2>3. k <= a \/ k > a
    OBVIOUS
  <2> QED  BY <2>1, <2>2, <2>3, Zenon
<1>13. /\ SubSeq(text, 1, a + n) \in Seq(Byte) /\ Len(SubSeq(text, 1, a + n)) = a + n
       /\ \A k \in 1 .. (a + n) : SubSeq(text, 1, a + n)[k] = text[k]
  OBVIOUS
<1>14. pre \o rep = SubSeq(text, 1, a + n)
  BY <1>11, <1>12, <1>13
<1> QED  BY <1>14 DEF pre, rep

(* Decoding a stream of a text yields the text.                            *)
LEMMA DecodeIsText ==
  ASSUME NEW enc \in Seq(Byte), NEW text \in Seq(Byte),
         DecodesVia(enc, text, Starts(enc))
  PROVE  Decode(enc) = text
<1> DEFINE s == Starts(enc)
           g == [p \in 0 .. Len(enc) |-> SubSeq(text, 1, s[p])]
           Grows(h) ==
             h = [p \in 0 .. Len(enc) |->
                    IF p = 0 THEN << >>
                    ELSE IF ~IsPointer(enc[p]) THEN Append(h[p - 1], enc[p])
                    ELSE h[p - 1] \o Repeat(h[p - 1], s[Source(enc, p - 1)], count(enc[p]))]
<1>1. /\ s \in [0 .. Len(enc) -> 0 .. Len(text)]
      /\ s[0] = 0 /\ s[Len(enc)] = Len(text)
      /\ \A p \in 0 .. (Len(enc) - 1) :
           LET c == enc[p + 1] IN
           /\ s[p + 1] = s[p] + count(c)
           /\ ~IsPointer(c) => text[s[p] + 1] = c
           /\ IsPointer(c) =>
                /\ Source(enc, p) >= 0
                /\ \A k \in 1 .. count(c) :
                     text[s[p] + k] = text[s[Source(enc, p)] + k]
  BY DEF DecodesVia
<1>2. \A p \in 0 .. Len(enc), q \in 0 .. Len(enc) : p <= q => s[p] + (q - p) <= s[q]
  BY StartsGrow
<1> HIDE DEF s
<1>3. ASSUME NEW p \in 1 .. Len(enc)
      PROVE  g[p] = IF ~IsPointer(enc[p]) THEN Append(g[p - 1], enc[p])
                    ELSE g[p - 1] \o Repeat(g[p - 1], s[Source(enc, p - 1)], count(enc[p]))
  <2> DEFINE o == p - 1
             c == enc[o + 1]
  <2>1. o \in 0 .. (Len(enc) - 1) /\ o + 1 = p /\ o \in 0 .. Len(enc) /\ c \in Byte
    OBVIOUS
  <2>2. s[o] \in Nat /\ s[p] \in Nat /\ s[p] <= Len(text) /\ s[p] = s[o] + count(c)
    BY <1>1, <2>1
  <2>3. g[p] = SubSeq(text, 1, s[p]) /\ g[o] = SubSeq(text, 1, s[o])
    <3>1. p \in 0 .. Len(enc) /\ o \in 0 .. Len(enc)
      BY <2>1
    <3> HIDE DEF o
    <3> QED  BY <3>1, Zenon
  <2>4. CASE ~IsPointer(c)
    <3>1. count(c) = 1 /\ text[s[o] + 1] = c
      BY <1>1, <2>1, <2>4, CountRange
    <3>2. \A a \in Nat : a + 1 <= Len(text) =>
            SubSeq(text, 1, a + 1) = Append(SubSeq(text, 1, a), text[a + 1])
      OBVIOUS
    <3> HIDE DEF g, c
    <3>3. s[p] = s[o] + 1 /\ s[o] + 1 <= Len(text)
      BY <2>2, <3>1
    <3>4. g[p] = Append(g[o], c)
      BY <2>2, <2>3, <3>1, <3>2, <3>3
    <3> QED  BY <2>1, <2>4, <3>4 DEF c
  <2>5. CASE IsPointer(c)
    <3> DEFINE f == s[Source(enc, o)]
               n == count(c)
    <3>1. /\ Source(enc, o) >= 0 /\ n \in Nat
          /\ \A k \in 1 .. n : text[s[o] + k] = text[f + k]
      BY <1>1, <2>1, <2>5, CountRange, FormatBounds
    <3>2. Source(enc, o) \in 0 .. Len(enc) /\ Source(enc, o) < o
      <4>1. get_offset(enc[o + 1]) \in Nat
        BY <2>1, OffsetRange
      <4> QED  BY <2>1, <3>1, <4>1 DEF Source
    <3>3. f \in Nat /\ f < s[o]
      <4>1. f \in 0 .. Len(text)
        BY <1>1, <3>2
      <4>2. f + (o - Source(enc, o)) <= s[o]
        BY <1>2, <2>1, <3>2
      <4> QED  BY <2>1, <2>2, <3>2, <4>1, <4>2
    <3> HIDE DEF f, n, g, c
    <3>4. s[o] + n <= Len(text) /\ s[p] = s[o] + n
      BY <2>2 DEF n
    <3>5. SubSeq(text, 1, s[o]) \o Repeat(SubSeq(text, 1, s[o]), f, n)
            = SubSeq(text, 1, s[o] + n)
      BY <2>2, <3>1, <3>3, <3>4, RepeatContinues
    <3>6. g[p] = g[o] \o Repeat(g[o], f, n)
      BY <2>3, <3>4, <3>5
    <3> QED  BY <2>1, <2>5, <3>6 DEF c, f, n
  <2> QED  BY <2>4, <2>5
<1>4. g[0] = << >>
  BY <1>1
<1>5. Grows(g)
  <2> HIDE DEF g
  <2>1. g = [p \in 0 .. Len(enc) |-> g[p]]
    BY DEF g
  <2>2. ASSUME NEW p \in 0 .. Len(enc)
        PROVE  g[p] = IF p = 0 THEN << >>
                      ELSE IF ~IsPointer(enc[p]) THEN Append(g[p - 1], enc[p])
                      ELSE g[p - 1] \o Repeat(g[p - 1], s[Source(enc, p - 1)], count(enc[p]))
    <3>1. CASE p = 0
      BY <1>4, <3>1
    <3>2. CASE p # 0
      <4>1. p \in 1 .. Len(enc)
        BY <3>2
      <4> QED  BY <1>3, <3>2, <4>1
    <3> QED  BY <3>1, <3>2
  <2> QED  BY <2>1, <2>2, Zenon
<1> DEFINE t == CHOOSE h : Grows(h)
<1>6. Grows(t)
  <2> HIDE DEF Grows
  <2> QED  BY <1>5
<1>7. Decode(enc) = t[Len(enc)]
  BY Zenon DEF Decode, s
<1> HIDE DEF t, g
<1> DEFINE N == {n \in Nat : n <= Len(enc) => t[n] = g[n]}
<1>8. 0 \in N
  BY <1>4, <1>6
<1>9. ASSUME NEW n \in Nat, n \in N PROVE n + 1 \in N
  <2> SUFFICES ASSUME n + 1 <= Len(enc) PROVE t[n + 1] = g[n + 1]
    OBVIOUS
  <2>1. n + 1 \in 0 .. Len(enc) /\ n + 1 \in 1 .. Len(enc) /\ n + 1 # 0 /\ (n + 1) - 1 = n
    OBVIOUS
  <2>2. t[n] = g[n]
    BY <1>9
  <2>3. t[n + 1] = IF ~IsPointer(enc[n + 1]) THEN Append(t[(n + 1) - 1], enc[n + 1])
                   ELSE t[(n + 1) - 1] \o Repeat(t[(n + 1) - 1], s[Source(enc, (n + 1) - 1)],
                                                count(enc[n + 1]))
    BY <1>6, <2>1, Zenon
  <2>4. g[n + 1] = IF ~IsPointer(enc[n + 1]) THEN Append(g[(n + 1) - 1], enc[n + 1])
                   ELSE g[(n + 1) - 1] \o Repeat(g[(n + 1) - 1], s[Source(enc, (n + 1) - 1)],
                                                count(enc[n + 1]))
    BY <1>3, <2>1, Zenon
  <2> QED  BY <2>1, <2>2, <2>3, <2>4
<1>10. Len(enc) \in N
  <2> HIDE DEF N
  <2> QED  BY <1>8, <1>9, SetInduction
<1>11. g[Len(enc)] = SubSeq(text, 1, Len(text)) /\ SubSeq(text, 1, Len(text)) = text
  BY <1>1 DEF g
<1> QED  BY <1>7, <1>10, <1>11

-----------------------------------------------------------------------------
(***************************************************************************)
(* From byte p on, the stream st decodes to the n characters that follow   *)
(* position q of its text: what a decoder that stands at byte p, needs n   *)
(* characters and has put out q of them relies on.                         *)
(***************************************************************************)
Yields(st, p, n, q) ==
  /\ p \in 0 .. Len(st.enc)
  /\ st.start[p] + n <= Len(st.text)
  /\ q + n <= Len(st.text)
  /\ \A k \in 1 .. n : st.text[q + k] = st.text[st.start[p] + k]

(* What is known of a stream.                                              *)
LEMMA StreamFacts ==
  ASSUME NEW st, IsStream(st)
  PROVE  /\ st.enc \in Seq(Byte) /\ Len(st.enc) \in Nat /\ Len(st.text) \in Nat
         /\ Len(st.enc) <= Len(st.text)
         /\ st.start[0] = 0 /\ st.start[Len(st.enc)] = Len(st.text)
         /\ \A p \in 0 .. Len(st.enc) : st.start[p] \in 0 .. Len(st.text)
         /\ \A p \in 0 .. Len(st.enc), q \in 0 .. Len(st.enc) :
              p <= q => st.start[p] + (q - p) <= st.start[q]
<1>1. st.enc \in Seq(Byte) /\ st.text \in Seq(Byte) /\ DecodesVia(st.enc, st.text, st.start)
  BY DEF IsStream
<1>2. Len(st.enc) \in Nat /\ Len(st.text) \in Nat
  BY <1>1
<1>3. /\ \A p \in 0 .. Len(st.enc) : st.start[p] \in 0 .. Len(st.text)
      /\ \A p \in 0 .. Len(st.enc), q \in 0 .. Len(st.enc) :
           p <= q => st.start[p] + (q - p) <= st.start[q]
  BY <1>1, StartsGrow
<1>4. st.start[0] = 0 /\ st.start[Len(st.enc)] = Len(st.text)
  BY <1>1 DEF DecodesVia
<1>5. Len(st.enc) <= Len(st.text)
  <2>1. 0 \in 0 .. Len(st.enc) /\ Len(st.enc) \in 0 .. Len(st.enc)
    BY <1>2
  <2>2. st.start[0] + (Len(st.enc) - 0) <= st.start[Len(st.enc)]
    BY <1>2, <1>3, <2>1
  <2> QED  BY <1>2, <1>4, <2>2
<1> QED  BY <1>1, <1>2, <1>3, <1>4, <1>5

(* The byte at position p of a stream.                                     *)
LEMMA StreamByte ==
  ASSUME NEW st, IsStream(st), NEW p \in 0 .. (Len(st.enc) - 1)
  PROVE  LET c == st.enc[p + 1] IN
         /\ c \in Byte /\ count(c) \in 1 .. MAX_ZERO_MATCH /\ count(c) \in Nat
         /\ st.start[p + 1] = st.start[p] + count(c)
         /\ ~IsPointer(c) => count(c) = 1 /\ st.text[st.start[p] + 1] = c
         /\ IsPointer(c) =>
              /\ count(c) >= 2
              /\ Source(st.enc, p) \in 0 .. (p - 1)
              /\ \A k \in 1 .. count(c) :
                   st.text[st.start[p] + k] = st.text[st.start[Source(st.enc, p)] + k]
<1> DEFINE c == st.enc[p + 1]
<1>1. st.enc \in Seq(Byte) /\ DecodesVia(st.enc, st.text, st.start)
  BY DEF IsStream
<1>2. c \in Byte
  BY <1>1
<1>3. count(c) \in 1 .. MAX_ZERO_MATCH /\ count(c) \in Nat
      /\ (IsPointer(c) => count(c) >= 2) /\ (~IsPointer(c) => count(c) = 1)
  BY <1>2, CountRange, FormatBounds
<1>4. get_offset(c) \in Nat
  BY <1>2, OffsetRange
<1>5. /\ st.start[p + 1] = st.start[p] + count(c)
      /\ ~IsPointer(c) => st.text[st.start[p] + 1] = c
      /\ IsPointer(c) =>
           /\ Source(st.enc, p) >= 0
           /\ \A k \in 1 .. count(c) :
                st.text[st.start[p] + k] = st.text[st.start[Source(st.enc, p)] + k]
  BY <1>1 DEF DecodesVia
<1>6. Source(st.enc, p) >= 0 => Source(st.enc, p) \in 0 .. (p - 1)
  <2>1. Source(st.enc, p) = p - get_offset(c) - 1
    BY DEF Source
  <2> HIDE DEF c
  <2> QED  BY <1>4, <2>1
<1> HIDE DEF c
<1> QED  BY <1>2, <1>3, <1>5, <1>6 DEF c

(* At the byte where a position of the text starts, the rest of the text   *)
(* follows.                                                                *)
LEMMA YieldsRest ==
  ASSUME NEW st, IsStream(st), NEW p \in 0 .. Len(st.enc),
         NEW n \in 0 .. (Len(st.text) - st.start[p])
  PROVE  Yields(st, p, n, st.start[p])
<1>1. st.start[p] \in 0 .. Len(st.text) /\ Len(st.text) \in Nat
  BY StreamFacts
<1> QED  BY <1>1 DEF Yields

(* As long as characters are needed there is a byte to take.               *)
LEMMA YieldsMore ==
  ASSUME NEW st, IsStream(st), NEW p, NEW n \in Nat, n > 0, NEW q \in Nat,
         Yields(st, p, n, q)
  PROVE  p \in 0 .. (Len(st.enc) - 1)
<1>1. /\ Len(st.enc) \in Nat /\ Len(st.text) \in Nat
      /\ st.start[Len(st.enc)] = Len(st.text)
  BY StreamFacts
<1>2. p \in 0 .. Len(st.enc) /\ st.start[p] + n <= Len(st.text)
  BY DEF Yields
<1>3. p # Len(st.enc)
  BY <1>1, <1>2
<1> QED  BY <1>1, <1>2, <1>3

(* A literal is the next character.                                        *)
LEMMA YieldsLiteral ==
  ASSUME NEW st, IsStream(st), NEW p, NEW n \in Nat, n > 0, NEW q \in Nat,
         Yields(st, p, n, q), ~IsPointer(st.enc[p + 1])
  PROVE  /\ st.enc[p + 1] = st.text[q + 1]
         /\ Yields(st, p + 1, n - 1, q + 1)
<1>1. p \in 0 .. (Len(st.enc) - 1)
  BY YieldsMore
<1>2. /\ st.start[p + 1] = st.start[p] + 1
      /\ st.text[st.start[p] + 1] = st.enc[p + 1]
  BY <1>1, StreamByte
<1>3. /\ Len(st.enc) \in Nat /\ Len(st.text) \in Nat /\ st.start[p] \in Nat
  BY <1>1, StreamFacts
<1>4. /\ st.start[p] + n <= Len(st.text)
      /\ q + n <= Len(st.text)
      /\ \A k \in 1 .. n : st.text[q + k] = st.text[st.start[p] + k]
  BY DEF Yields
<1>5. st.enc[p + 1] = st.text[q + 1]
  BY <1>2, <1>4
<1>6. ASSUME NEW k \in 1 .. (n - 1)
      PROVE  st.text[(q + 1) + k] = st.text[st.start[p + 1] + k]
  <2>1. \A a \in Nat : (a + 1) + k = a + (k + 1)
    OBVIOUS
  <2>2. k + 1 \in 1 .. n
    OBVIOUS
  <2>3. (q + 1) + k = q + (k + 1) /\ st.start[p + 1] + k = st.start[p] + (k + 1)
    BY <1>2, <1>3, <2>1
  <2>4. st.text[q + (k + 1)] = st.text[st.start[p] + (k + 1)]
    BY <1>4, <2>2
  <2> QED  BY <2>3, <2>4
<1>7. p + 1 \in 0 .. Len(st.enc) /\ st.start[p + 1] + (n - 1) <= Len(st.text)
      /\ (q + 1) + (n - 1) <= Len(st.text)
  <2>1. \A a \in Nat, L \in Nat : a + n <= L => (a + 1) + (n - 1) <= L
    OBVIOUS
  <2>2. p + 1 \in 0 .. Len(st.enc)
    BY <1>1, <1>3
  <2> QED  BY <1>2, <1>3, <1>4, <2>1, <2>2
<1> QED  BY <1>5, <1>6, <1>7 DEF Yields

(* The characters of a pointer are those from its source on: as many as    *)
(* the pointer stands for, when more are needed, and the byte after the    *)
(* pointer yields the others.                                              *)
LEMMA YieldsPointer ==
  ASSUME NEW st, IsStream(st), NEW p, NEW n \in Nat, n > 0, NEW q \in Nat,
         Yields(st, p, n, q), IsPointer(st.enc[p + 1])
  PROVE  LET l == count(st.enc[p + 1])
             source == Source(st.enc, p)
         IN  /\ n <= l => Yields(st, source, n, q)
             /\ n > l => /\ Yields(st, source, l, q)
                         /\ Yields(st, p + 1, n - l, q + l)
<1> DEFINE l == count(st.enc[p + 1])
           source == Source(st.enc, p)
<1>1. p \in 0 .. (Len(st.enc) - 1)
  BY YieldsMore
<1>2. /\ st.start[p + 1] = st.start[p] + l /\ l \in Nat /\ l >= 2
      /\ source \in 0 .. (p - 1)
      /\ \A k \in 1 .. l : st.text[st.start[p] + k] = st.text[st.start[source] + k]
  BY <1>1, StreamByte
<1> HIDE DEF l, source
<1>3. /\ Len(st.enc) \in Nat /\ Len(st.text) \in Nat
      /\ p \in 0 .. Len(st.enc) /\ p + 1 \in 0 .. Len(st.enc) /\ source \in 0 .. Len(st.enc)
  BY <1>1, <1>2, StreamFacts
<1>4. st.start[p] \in Nat /\ st.start[source] \in Nat /\ st.start[source] <= st.start[p]
  <2>1. p \in Nat /\ source \in Nat /\ source <= p
    BY <1>2, <1>3
  <2>2. st.start[source] + (p - source) <= st.start[p]
    BY <1>3, <2>1, StreamFacts
  <2>3. st.start[p] \in Nat /\ st.start[source] \in Nat
    BY <1>3, StreamFacts
  <2>4. \A a \in Nat, b \in Nat : a + (p - source) <= b => a <= b
    BY <2>1
  <2> QED  BY <2>2, <2>3, <2>4
<1>5. /\ st.start[p] + n <= Len(st.text)
      /\ q + n <= Len(st.text)
      /\ \A k \in 1 .. n : st.text[q + k] = st.text[st.start[p] + k]
  BY DEF Yields
<1>6. ASSUME NEW r \in Nat, r <= n, r <= l PROVE Yields(st, source, r, q)
  <2>1. st.start[source] + r <= Len(st.text) /\ q + r <= Len(st.text)
    <3>1. \A a \in Nat, b \in Nat, L \in Nat : a <= b /\ b + n <= L => a + r <= L
      BY <1>6
    <3>2. st.start[source] + r <= Len(st.text)
      BY <1>3, <1>4, <1>5, <3>1
    <3>3. q <= q /\ q + n <= Len(st.text)
      BY <1>5
    <3>4. q + r <= Len(st.text)
      BY <1>3, <3>1, <3>3
    <3> QED  BY <3>2, <3>4
  <2>2. ASSUME NEW k \in 1 .. r PROVE st.text[q + k] = st.text[st.start[source] + k]
    <3>1. k \in 1 .. n /\ k \in 1 .. l
      BY <1>2, <1>6
    <3> QED  BY <1>2, <1>5, <3>1
  <2> QED  BY <1>3, <2>1, <2>2 DEF Yields
<1>7. ASSUME n > l PROVE Yields(st, p + 1, n - l, q + l)
  <2>1. ASSUME NEW k \in 1 .. (n - l)
        PROVE  st.text[(q + l) + k] = st.text[st.start[p + 1] + k]
    <3>1. l + k \in 1 .. n
      BY <1>2, <1>7
    <3>2. \A a \in Nat : (a + l) + k = a + (l + k)
      BY <1>2
    <3>3. (q + l) + k = q + (l + k) /\ st.start[p + 1] + k = st.start[p] + (l + k)
      BY <1>2, <1>4, <3>2
    <3>4. st.text[q + (l + k)] = st.text[st.start[p] + (l + k)]
      BY <1>5, <3>1
    <3> QED  BY <3>3, <3>4
  <2>2. st.start[p + 1] + (n - l) <= Len(st.text) /\ (q + l) + (n - l) <= Len(st.text)
    <3>1. \A a \in Nat, L \in Nat : a + n <= L => (a + l) + (n - l) <= L
      BY <1>2
    <3> QED  BY <1>2, <1>3, <1>4, <1>5, <3>1
  <2> QED  BY <1>3, <2>1, <2>2 DEF Yields
<1> QED  BY <1>2, <1>6, <1>7 DEF l, source

-----------------------------------------------------------------------------
(***************************************************************************)
(* Streams that were cut short, and streams that were joined.              *)
(***************************************************************************)
(* The bytes before a cut stand for the same characters as without it.     *)
LEMMA StartsPrefix ==
  ASSUME NEW enc \in Seq(Byte), NEW e \in Seq(Byte), Len(e) <= Len(enc),
         \A p \in 1 .. Len(e) : e[p] = enc[p]
  PROVE  \A p \in 0 .. Len(e) : Starts(e)[p] = Starts(enc)[p]
<1> DEFINE s == Starts(enc)
           t == Starts(e)
           S == {n \in Nat : n <= Len(e) => t[n] = s[n]}
<1>1. /\ s[0] = 0
      /\ \A p \in 1 .. Len(enc) : s[p] = s[p - 1] + count(enc[p])
  BY StartsValue
<1>2. /\ t[0] = 0
      /\ \A p \in 1 .. Len(e) : t[p] = t[p - 1] + count(e[p])
  BY StartsValue
<1> HIDE DEF s, t
<1>3. 0 \in S
  BY <1>1, <1>2
<1>4. ASSUME NEW n \in Nat, n \in S PROVE n + 1 \in S
  <2> SUFFICES ASSUME n + 1 <= Len(e) PROVE t[n + 1] = s[n + 1]
    OBVIOUS
  <2>1. n + 1 \in 1 .. Len(e) /\ n + 1 \in 1 .. Len(enc) /\ (n + 1) - 1 = n
    OBVIOUS
  <2>2. t[n + 1] = t[n] + count(e[n + 1]) /\ s[n + 1] = s[n] + count(enc[n + 1])
    BY <1>1, <1>2, <2>1
  <2> QED  BY <1>4, <2>1, <2>2
<1>5. \A n \in Nat : n \in S
  <2> HIDE DEF S
  <2> QED  BY <1>3, <1>4, SetInduction
<1> QED  BY <1>5 DEF s, t

(* Where the text of each byte of a stream is.                             *)
LEMMA SpellsPlaces ==
  ASSUME NEW enc \in Seq(Byte), NEW text, Spells(enc, text)
  PROVE  LET s == Starts(enc) IN
         /\ \A p \in 0 .. Len(enc) : s[p] \in Nat /\ s[p] <= s[Len(enc)]
         /\ \A p \in 0 .. (Len(enc) - 1) :
              LET c == enc[p + 1] IN
              /\ c \in Byte /\ count(c) \in Nat /\ count(c) >= 1
              /\ s[p] + count(c) <= s[Len(enc)]
              /\ IsPointer(c) => /\ Source(enc, p) \in 0 .. (p - 1)
                                 /\ s[Source(enc, p)] + count(c) <= s[Len(enc)]
<1> DEFINE s == Starts(enc)
           n == Len(enc)
<1>1. /\ s \in [0 .. n -> Nat] /\ n \in Nat
      /\ \A p \in 1 .. n : s[p] = s[p - 1] + count(enc[p])
  BY StartsValue
<1>2. ASSUME NEW p \in 0 .. (n - 1)
      PROVE  /\ p + 1 \in 1 .. n /\ enc[p + 1] \in Byte
             /\ s[p + 1] = s[p] + count(enc[p + 1])
             /\ count(enc[p + 1]) \in Nat /\ count(enc[p + 1]) >= 1
             /\ get_offset(enc[p + 1]) \in Nat
             /\ IsPointer(enc[p + 1]) => Source(enc, p) >= 0
  <2>1. p + 1 \in 1 .. n /\ (p + 1) - 1 = p
    BY <1>1
  <2>2. enc[p + 1] \in Byte
    BY <2>1
  <2>3. s[p + 1] = s[p] + count(enc[p + 1])
    BY <1>1, <2>1
  <2>4. /\ count(enc[p + 1]) \in Nat /\ count(enc[p + 1]) >= 1
        /\ get_offset(enc[p + 1]) \in Nat
    BY <2>2, CountRange, OffsetRange, FormatBounds
  <2>5. IsPointer(enc[p + 1]) => Source(enc, p) >= 0
    BY DEF Spells
  <2> QED  BY <2>1, <2>2, <2>3, <2>4, <2>5
<1> HIDE DEF s
<1>3. \A p \in 0 .. n, q \in 0 .. n : p <= q => s[p] + (q - p) <= s[q]
  BY <1>1, <1>2, SumsGrow DEF n
<1>4. ASSUME NEW p \in 0 .. n, NEW q \in 0 .. n, p <= q
      PROVE  s[p] \in Nat /\ s[q] \in Nat /\ s[p] <= s[q]
  <2>1. s[p] + (q - p) <= s[q]
    BY <1>3, <1>4
  <2>2. s[p] \in Nat /\ s[q] \in Nat
    BY <1>1
  <2> QED  BY <1>1, <1>4, <2>1, <2>2
<1>5. ASSUME NEW p \in 0 .. n PROVE s[p] \in Nat /\ s[p] <= s[n]
  BY <1>1, <1>4
<1>6. ASSUME NEW p \in 0 .. (n - 1)
      PROVE  LET c == enc[p + 1] IN
             /\ c \in Byte /\ count(c) \in Nat /\ count(c) >= 1
             /\ s[p] + count(c) <= s[n]
             /\ IsPointer(c) => /\ Source(enc, p) \in 0 .. (p - 1)
                                /\ s[Source(enc, p)] + count(c) <= s[n]
  <2> DEFINE c == enc[p + 1]
             f == Source(enc, p)
  <2>1. s[p] + count(c) <= s[n]
    BY <1>1, <1>2, <1>5
  <2>2. IsPointer(c) => f \in 0 .. (p - 1)
    <3>1. f = p - get_offset(c) - 1
      BY DEF Source
    <3>2. get_offset(c) \in Nat /\ (IsPointer(c) => f >= 0)
      BY <1>2
    <3> HIDE DEF c, f
    <3> QED  BY <3>1, <3>2
  <2>3. IsPointer(c) => s[f] + count(c) <= s[n]
    <3> SUFFICES ASSUME IsPointer(c) PROVE s[f] + count(c) <= s[n]
      OBVIOUS
    <3>1. f \in 0 .. n /\ p \in 0 .. n /\ f <= p
      BY <1>1, <2>2
    <3>2. s[f] \in Nat /\ s[p] \in Nat /\ s[f] <= s[p]
      BY <1>4, <3>1
    <3>3. count(c) \in Nat /\ s[n] \in Nat
      BY <1>1, <1>2
    <3> HIDE DEF c, f
    <3> QED  BY <2>1, <3>2, <3>3
  <2> QED  BY <1>2, <2>1, <2>2, <2>3
<1> QED  BY <1>5, <1>6 DEF s, n

(* A stream that is cut anywhere stands for the beginning of its text.     *)
LEMMA SpellsCut ==
  ASSUME NEW enc \in Seq(Byte), NEW text \in Seq(Byte), Spells(enc, text),
         NEW e \in Seq(Byte), Len(e) <= Len(enc), \A p \in 1 .. Len(e) : e[p] = enc[p]
  PROVE  Spells(e, text)
<1> DEFINE s == Starts(enc)
           t == Starts(e)
<1>1. \A p \in 0 .. Len(e) : t[p] = s[p]
  BY StartsPrefix
<1>2. /\ Len(e) \in Nat /\ Len(enc) \in Nat /\ s[Len(enc)] <= Len(text)
      /\ \A p \in 0 .. Len(enc) : s[p] \in Nat /\ s[p] <= s[Len(enc)]
      /\ \A p \in 0 .. (Len(enc) - 1) :
           IsPointer(enc[p + 1]) => Source(enc, p) \in 0 .. (p - 1)
  BY SpellsPlaces DEF Spells
<1>3. \A p \in 0 .. (Len(enc) - 1) :
        /\ ~IsPointer(enc[p + 1]) => text[s[p] + 1] = enc[p + 1]
        /\ IsPointer(enc[p + 1]) =>
             \A k \in 1 .. count(enc[p + 1]) :
               text[s[p] + k] = text[s[Source(enc, p)] + k]
  BY DEF Spells
<1> HIDE DEF s, t
<1>4. t[Len(e)] <= Len(text)
  <2>1. Len(e) \in 0 .. Len(e) /\ Len(e) \in 0 .. Len(enc) /\ Len(text) \in Nat
    BY <1>2
  <2> QED  BY <1>1, <1>2, <2>1
<1>5. ASSUME NEW p \in 0 .. (Len(e) - 1)
      PROVE  /\ ~IsPointer(e[p + 1]) => text[t[p] + 1] = e[p + 1]
             /\ IsPointer(e[p + 1]) =>
                  /\ Source(e, p) >= 0
                  /\ \A k \in 1 .. count(e[p + 1]) :
                       text[t[p] + k] = text[t[Source(e, p)] + k]
  <2>1. /\ p \in 0 .. (Len(enc) - 1) /\ p \in 0 .. Len(e) /\ p + 1 \in 1 .. Len(e)
    BY <1>2
  <2>2. e[p + 1] = enc[p + 1] /\ t[p] = s[p]
    BY <1>1, <2>1
  <2>3. Source(e, p) = Source(enc, p)
    BY <2>2 DEF Source
  <2>4. IsPointer(enc[p + 1]) =>
          /\ Source(enc, p) >= 0
          /\ t[Source(enc, p)] = s[Source(enc, p)]
    <3> SUFFICES ASSUME IsPointer(enc[p + 1])
                 PROVE  Source(enc, p) >= 0 /\ t[Source(enc, p)] = s[Source(enc, p)]
      OBVIOUS
    <3>1. Source(enc, p) \in 0 .. (p - 1)
      BY <1>2, <2>1
    <3>2. Source(enc, p) \in 0 .. Len(e)
      BY <1>2, <3>1
    <3> QED  BY <1>1, <3>1, <3>2
  <2> QED  BY <1>3, <2>1, <2>2, <2>3, <2>4
<1> QED  BY <1>4, <1>5 DEF Spells, t

(* What comes after the characters a stream stands for does not matter.    *)
LEMMA SpellsBegins ==
  ASSUME NEW enc \in Seq(Byte), NEW text, Spells(enc, text), NEW u,
         Starts(enc)[Len(enc)] <= Len(u),
         \A q \in 1 .. Starts(enc)[Len(enc)] : u[q] = text[q]
  PROVE  Spells(enc, u)
<1> DEFINE s == Starts(enc)
           n == Len(enc)
<1>1. /\ n \in Nat /\ \A p \in 0 .. n : s[p] \in Nat /\ s[p] <= s[n]
      /\ \A p \in 0 .. (n - 1) :
           /\ count(enc[p + 1]) \in Nat /\ count(enc[p + 1]) >= 1
           /\ s[p] + count(enc[p + 1]) <= s[n]
           /\ IsPointer(enc[p + 1]) =>
                /\ Source(enc, p) \in 0 .. (p - 1)
                /\ s[Source(enc, p)] + count(enc[p + 1]) <= s[n]
  BY SpellsPlaces
<1>2. \A p \in 0 .. (n - 1) :
        /\ ~IsPointer(enc[p + 1]) => text[s[p] + 1] = enc[p + 1]
        /\ IsPointer(enc[p + 1]) =>
             \A k \in 1 .. count(enc[p + 1]) :
               text[s[p] + k] = text[s[Source(enc, p)] + k]
  BY DEF Spells
<1>3. s[n] <= Len(u) /\ \A q \in 1 .. s[n] : u[q] = text[q]
  OBVIOUS
<1> HIDE DEF s, n
<1>4. ASSUME NEW a \in Nat, NEW l \in Nat, a + l <= s[n], NEW k \in 1 .. l
      PROVE  u[a + k] = text[a + k]
  <2>1. s[n] \in Nat
    BY <1>1
  <2>2. a + k \in 1 .. s[n]
    BY <1>4, <2>1
  <2> QED  BY <1>3, <2>2
<1>5. ASSUME NEW p \in 0 .. (n - 1)
      PROVE  /\ ~IsPointer(enc[p + 1]) => u[s[p] + 1] = enc[p + 1]
             /\ IsPointer(enc[p + 1]) =>
                  /\ Source(enc, p) >= 0
                  /\ \A k \in 1 .. count(enc[p + 1]) :
                       u[s[p] + k] = u[s[Source(enc, p)] + k]
  <2>1. /\ s[p] \in Nat /\ count(enc[p + 1]) \in Nat /\ 1 \in 1 .. count(enc[p + 1])
        /\ s[p] + count(enc[p + 1]) <= s[n]
    BY <1>1
  <2>2. \A k \in 1 .. count(enc[p + 1]) : u[s[p] + k] = text[s[p] + k]
    BY <1>4, <2>1
  <2>3. IsPointer(enc[p + 1]) =>
          /\ Source(enc, p) >= 0
          /\ \A k \in 1 .. count(enc[p + 1]) :
               u[s[Source(enc, p)] + k] = text[s[Source(enc, p)] + k]
    <3> SUFFICES ASSUME IsPointer(enc[p + 1])
                 PROVE  /\ Source(enc, p) >= 0
                        /\ \A k \in 1 .. count(enc[p + 1]) :
                             u[s[Source(enc, p)] + k] = text[s[Source(enc, p)] + k]
      OBVIOUS
    <3>1. /\ Source(enc, p) \in 0 .. (p - 1)
          /\ s[Source(enc, p)] + count(enc[p + 1]) <= s[n]
      BY <1>1
    <3>2. Source(enc, p) >= 0 /\ Source(enc, p) \in 0 .. n
      BY <1>1, <3>1
    <3>3. s[Source(enc, p)] \in Nat
      BY <1>1, <3>2
    <3> QED  BY <1>4, <2>1, <3>1, <3>2, <3>3
  <2> QED  BY <1>2, <2>1, <2>2, <2>3
<1> QED  BY <1>3, <1>5 DEF Spells, s, n

(* A stream with the characters it stands for.                             *)
LEMMA SpelledStream ==
  ASSUME NEW enc \in Seq(Byte), NEW text \in Seq(Byte), Spells(enc, text)
  PROVE  LET n == Starts(enc)[Len(enc)] IN
         /\ n \in 0 .. Len(text) /\ Len(SubSeq(text, 1, n)) = n
         /\ \A q \in 1 .. n : SubSeq(text, 1, n)[q] = text[q]
         /\ IsStream([enc |-> enc, text |-> SubSeq(text, 1, n), start |-> Starts(enc)])
<1> DEFINE n == Starts(enc)[Len(enc)]
           u == SubSeq(text, 1, n)
<1>1. n \in Nat /\ n <= Len(text) /\ Len(text) \in Nat
  <2>1. Len(enc) \in 0 .. Len(enc)
    OBVIOUS
  <2> QED  BY <2>1, SpellsPlaces DEF Spells
<1>2. u \in Seq(Byte) /\ Len(u) = n /\ \A q \in 1 .. n : u[q] = text[q]
  <2> HIDE DEF n
  <2> QED  BY <1>1
<1> HIDE DEF u
<1>3. Spells(enc, u)
  BY <1>1, <1>2, SpellsBegins
<1>4. DecodesVia(enc, u, Starts(enc))
  BY <1>2, <1>3, SpellsAll
<1> DEFINE st == [enc |-> enc, text |-> u, start |-> Starts(enc)]
<1>5. st.enc = enc /\ st.text = u /\ st.start = Starts(enc)
  OBVIOUS
<1> HIDE DEF st
<1>6. IsStream(st)
  BY <1>2, <1>4, <1>5 DEF IsStream
<1> QED  BY <1>1, <1>2, <1>6 DEF u, n, st

(* Two streams one after the other: the second one's bytes follow.         *)
LEMMA StartsJoin ==
  ASSUME NEW a \in Seq(Byte), NEW b \in Seq(Byte)
  PROVE  LET s == Starts(a \o b) IN
         /\ \A p \in 0 .. Len(a) : s[p] = Starts(a)[p]
         /\ \A p \in 0 .. Len(b) : s[Len(a) + p] = Starts(a)[Len(a)] + Starts(b)[p]
<1> DEFINE e == a \o b
           s == Starts(e)
           l == Len(a)
           sa == Starts(a)
           sb == Starts(b)
           S == {n \in Nat : n <= Len(b) => s[l + n] = sa[l] + sb[n]}
<1>1. /\ e \in Seq(Byte) /\ l \in Nat /\ Len(b) \in Nat /\ Len(e) = l + Len(b)
      /\ \A p \in 1 .. l : e[p] = a[p]
      /\ \A p \in 1 .. Len(b) : e[l + p] = b[p]
  OBVIOUS
<1> HIDE DEF e, l
<1>2. \A p \in 0 .. l : s[p] = sa[p]
  <2>1. Len(a) <= Len(e) /\ \A p \in 1 .. Len(a) : a[p] = e[p]
    BY <1>1 DEF l
  <2> QED  BY <1>1, <2>1, StartsPrefix, Zenon DEF l
<1>3. \A p \in 1 .. Len(e) : s[p] = s[p - 1] + count(e[p])
  BY <1>1, StartsValue
<1>4. sa \in [0 .. l -> Nat]
  BY StartsValue DEF l
<1>5. /\ sb \in [0 .. Len(b) -> Nat] /\ sb[0] = 0
      /\ \A p \in 1 .. Len(b) : sb[p] = sb[p - 1] + count(b[p])
  BY StartsValue
<1> HIDE DEF s, sa, sb
<1>6. 0 \in S
  <2>1. l + 0 = l /\ l \in 0 .. l /\ sa[l] \in Nat
    BY <1>1, <1>4
  <2> QED  BY <1>2, <1>5, <2>1
<1>7. ASSUME NEW n \in Nat, n \in S PROVE n + 1 \in S
  <2> SUFFICES ASSUME n + 1 <= Len(b) PROVE s[l + (n + 1)] = sa[l] + sb[n + 1]
    OBVIOUS
  <2>1. /\ n + 1 \in 1 .. Len(b) /\ (n + 1) - 1 = n /\ n \in 0 .. Len(b)
        /\ l + (n + 1) \in 1 .. Len(e) /\ (l + (n + 1)) - 1 = l + n
        /\ l \in 0 .. l
    BY <1>1
  <2>2. /\ s[l + (n + 1)] = s[l + n] + count(e[l + (n + 1)])
        /\ e[l + (n + 1)] = b[n + 1]
    BY <1>1, <1>3, <2>1
  <2>3. sb[n + 1] = sb[n] + count(b[n + 1])
    BY <1>5, <2>1
  <2>4. s[l + n] = sa[l] + sb[n]
    BY <1>7, <2>1
  <2>5. count(b[n + 1]) \in Nat
    <3>1. b[n + 1] \in Byte
      BY <2>1
    <3> QED  BY <3>1, CountRange, FormatBounds
  <2>6. sa[l] \in Nat /\ sb[n] \in Nat
    BY <1>4, <1>5, <2>1
  <2> QED  BY <2>2, <2>3, <2>4, <2>5, <2>6
<1>8. \A n \in Nat : n \in S
  <2> HIDE DEF S
  <2> QED  BY <1>6, <1>7, SetInduction
<1>9. ASSUME NEW p \in 0 .. Len(b) PROVE s[l + p] = sa[l] + sb[p]
  BY <1>1, <1>8
<1> QED  BY <1>2, <1>9 DEF e, s, l, sa, sb

(* A pointer leads back by encoded bytes, so that it means the same where  *)
(* another stream precedes its own.                                        *)
LEMMA StreamsJoin ==
  ASSUME NEW st, IsStream(st), st.start = Starts(st.enc)
  PROVE  LET e == st.enc \o st.enc
             u == st.text \o st.text
         IN  IsStream([enc |-> e, text |-> u, start |-> Starts(e)])
<1> DEFINE a == st.enc
           t == st.text
           e == a \o a
           u == t \o t
           l == Len(a)
           n == Len(t)
           s == Starts(a)
           z == Starts(e)
<1>1. /\ a \in Seq(Byte) /\ t \in Seq(Byte) /\ l \in Nat /\ n \in Nat
      /\ s[0] = 0 /\ s[l] = n /\ \A p \in 0 .. l : s[p] \in 0 .. n
  BY StreamFacts DEF IsStream
<1>2. \A p \in 0 .. (l - 1) :
        LET c == a[p + 1] IN
        /\ c \in Byte /\ count(c) \in Nat
        /\ s[p + 1] = s[p] + count(c)
        /\ ~IsPointer(c) => count(c) = 1 /\ t[s[p] + 1] = c
        /\ IsPointer(c) =>
             /\ Source(a, p) \in 0 .. (p - 1)
             /\ \A k \in 1 .. count(c) : t[s[p] + k] = t[s[Source(a, p)] + k]
  BY StreamByte
<1>3. /\ e \in Seq(Byte) /\ Len(e) = l + l
      /\ \A p \in 1 .. l : e[p] = a[p] /\ e[l + p] = a[p]
  BY <1>1
<1>4. /\ u \in Seq(Byte) /\ Len(u) = n + n
      /\ \A q \in 1 .. n : u[q] = t[q] /\ u[n + q] = t[q]
  BY <1>1
<1>5. \A p \in 0 .. l : z[p] = s[p] /\ z[l + p] = n + s[p]
  BY <1>1, StartsJoin
<1> HIDE DEF e, u, a, t, l, n, s, z
<1>6. z[Len(e)] = Len(u)
  <2>1. l \in 0 .. l
    BY <1>1
  <2> QED  BY <1>1, <1>3, <1>4, <1>5, <2>1
<1>7. ASSUME NEW b \in {0, 1}, NEW p \in 0 .. (l - 1),
             NEW x, x = b * l + p
      PROVE  LET c == e[x + 1] IN
             /\ ~IsPointer(c) => u[z[x] + 1] = c
             /\ IsPointer(c) =>
                  /\ Source(e, x) >= 0
                  /\ \A k \in 1 .. count(c) : u[z[x] + k] = u[z[Source(e, x)] + k]
  <2> DEFINE c == a[p + 1]
             f == Source(a, p)
             h == b * n
             g == b * l
  <2>1. /\ p \in 0 .. l /\ p + 1 \in 1 .. l /\ p + 1 \in 0 .. l
        /\ (b = 0 /\ g = 0 /\ h = 0) \/ (b = 1 /\ g = l /\ h = n)
    BY <1>1
  <2>2. x = g + p
    BY <1>7
  <2> HIDE DEF c, f, g, h
  <2>3. e[x + 1] = c
    <3>1. CASE g = 0
      <4>1. x + 1 = p + 1
        BY <2>2, <3>1
      <4> QED  BY <1>3, <2>1, <4>1 DEF c
    <3>2. CASE g = l
      <4>1. x + 1 = l + (p + 1)
        BY <1>1, <2>2, <3>2
      <4> QED  BY <1>3, <2>1, <4>1 DEF c
    <3> QED  BY <2>1, <3>1, <3>2
  <2>4. ASSUME NEW q \in 0 .. l PROVE z[g + q] = h + s[q] /\ s[q] \in 0 .. n
    <3>1. s[q] \in 0 .. n
      BY <1>1
    <3>2. CASE g = 0 /\ h = 0
      <4>1. g + q = q /\ h + s[q] = s[q]
        BY <1>1, <3>1, <3>2
      <4> QED  BY <1>5, <3>1, <4>1
    <3>3. CASE g = l /\ h = n
      BY <1>5, <3>1, <3>3
    <3> QED  BY <2>1, <3>1, <3>2, <3>3
  <2>5. ASSUME NEW q \in 1 .. n PROVE u[h + q] = t[q]
    <3>1. CASE h = 0
      <4>1. h + q = q
        BY <1>1, <3>1
      <4> QED  BY <1>4, <4>1
    <3>2. CASE h = n
      BY <1>4, <3>2
    <3> QED  BY <2>1, <3>1, <3>2
  <2>6. /\ c \in Byte /\ count(c) \in Nat
        /\ s[p + 1] = s[p] + count(c)
        /\ ~IsPointer(c) => count(c) = 1 /\ t[s[p] + 1] = c
        /\ IsPointer(c) =>
             /\ f \in 0 .. (p - 1)
             /\ \A k \in 1 .. count(c) : t[s[p] + k] = t[s[f] + k]
    BY <1>2 DEF c, f
  <2>7. z[x] = h + s[p] /\ s[p] \in 0 .. n /\ s[p + 1] \in 0 .. n
    BY <2>1, <2>2, <2>4
  <2>8. h \in Nat /\ g \in Nat
    BY <1>1, <2>1
  <2>9. \A a1 \in 0 .. s[p], k \in 1 .. count(c) :
            a1 + k \in 1 .. n /\ (h + a1) + k = h + (a1 + k)
    <3> DEFINE m == count(c)
               o == s[p]
    <3>1. m \in Nat /\ o \in Nat /\ o + m <= n /\ n \in Nat /\ h \in Nat
      BY <1>1, <2>6, <2>7, <2>8
    <3> HIDE DEF m, o
    <3>2. \A a1 \in 0 .. o, k \in 1 .. m : a1 + k \in 1 .. n /\ (h + a1) + k = h + (a1 + k)
      BY <3>1
    <3> QED  BY <3>2 DEF m, o
  <2>10. \A k \in 1 .. count(c) : u[z[x] + k] = t[s[p] + k]
    <3> SUFFICES ASSUME NEW k \in 1 .. count(c) PROVE u[z[x] + k] = t[s[p] + k]
      OBVIOUS
    <3>1. s[p] \in 0 .. s[p]
      BY <2>7
    <3>2. s[p] + k \in 1 .. n /\ (h + s[p]) + k = h + (s[p] + k)
      BY <2>9, <3>1
    <3> QED  BY <2>5, <2>7, <3>2
  <2>11. ~IsPointer(c) => u[z[x] + 1] = c
    <3> SUFFICES ASSUME ~IsPointer(c) PROVE u[z[x] + 1] = c
      OBVIOUS
    <3>1. 1 \in 1 .. count(c) /\ t[s[p] + 1] = c
      BY <2>6
    <3> QED  BY <2>10, <3>1
  <2>12. IsPointer(c) =>
           /\ Source(e, x) >= 0
           /\ \A k \in 1 .. count(c) : u[z[x] + k] = u[z[Source(e, x)] + k]
    <3> SUFFICES ASSUME IsPointer(c)
                 PROVE  /\ Source(e, x) >= 0
                        /\ \A k \in 1 .. count(c) : u[z[x] + k] = u[z[Source(e, x)] + k]
      OBVIOUS
    <3>1. f \in 0 .. (p - 1) /\ f \in 0 .. l
      BY <1>1, <2>6
    <3>2. Source(e, x) = g + f
      <4>1. Source(e, x) = x - get_offset(c) - 1 /\ f = p - get_offset(c) - 1
        BY <2>3 DEF Source, c, f
      <4>2. get_offset(c) \in Nat
        BY <2>6, OffsetRange
      <4> QED  BY <2>2, <2>8, <4>1, <4>2
    <3>3. z[Source(e, x)] = h + s[f] /\ s[f] \in 0 .. n
      BY <2>4, <3>1, <3>2
    <3>4. s[f] <= s[p]
      <4>1. \A q \in 0 .. l : st.start[q] = s[q]
        BY DEF s, a
      <4>2. st.start[f] + (p - f) <= st.start[p]
        BY <2>1, <3>1, StreamFacts DEF l, a
      <4>3. s[f] \in Nat /\ s[p] \in Nat
        BY <2>7, <3>3
      <4> QED  BY <2>1, <3>1, <4>1, <4>2, <4>3
    <3>5. ASSUME NEW k \in 1 .. count(c) PROVE u[z[x] + k] = u[z[Source(e, x)] + k]
      <4>1. s[f] \in 0 .. s[p]
        BY <2>7, <3>3, <3>4
      <4>2. s[f] + k \in 1 .. n /\ (h + s[f]) + k = h + (s[f] + k)
        BY <2>9, <4>1
      <4>3. u[z[Source(e, x)] + k] = t[s[f] + k]
        BY <2>5, <3>3, <4>2
      <4> QED  BY <2>6, <2>10, <4>3
    <3> QED  BY <2>8, <3>1, <3>2, <3>5
  <2> QED  BY <2>3, <2>11, <2>12
<1>8. Spells(e, u)
  <2> SUFFICES ASSUME NEW x \in 0 .. (Len(e) - 1)
               PROVE  LET c == e[x + 1] IN
                      /\ ~IsPointer(c) => u[z[x] + 1] = c
                      /\ IsPointer(c) =>
                           /\ Source(e, x) >= 0
                           /\ \A k \in 1 .. count(c) :
                                u[z[x] + k] = u[z[Source(e, x)] + k]
    BY <1>4, <1>6 DEF Spells, z
  <2>1. CASE x < l
    <3>1. x \in 0 .. (l - 1) /\ x = 0 * l + x
      BY <1>1, <2>1
    <3> QED  BY <1>7, <3>1
  <2>2. CASE x >= l
    <3>1. x - l \in 0 .. (l - 1) /\ x = 1 * l + (x - l)
      BY <1>1, <1>3, <2>2
    <3> QED  BY <1>7, <3>1
  <2> QED  BY <1>1, <2>1, <2>2
<1>9. DecodesVia(e, u, z)
  BY <1>3, <1>4, <1>6, <1>8, SpellsAll DEF z
<1> DEFINE w == [enc |-> e, text |-> u, start |-> z]
<1>10. w.enc = e /\ w.text = u /\ w.start = z
  OBVIOUS
<1> HIDE DEF w
<1>11. IsStream(w)
  BY <1>3, <1>4, <1>9, <1>10 DEF IsStream
<1> QED  BY <1>11 DEF w, e, u, z, a, t
=============================================================================
