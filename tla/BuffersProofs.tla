---------------------------- MODULE BuffersProofs ----------------------------
(***************************************************************************)
(* Whatever calls are made on two buffers and a fifo, they hold what was   *)
(* put into them, and no call leaves its memory.  First a lemma for each   *)
(* function of resizable_buf.c, about any buffer; then BInv, the inductive *)
(* invariant, and a lemma for each kind of call.                           *)
(***************************************************************************)
EXTENDS Buffers, SequenceTheorems, WellFoundedInduction, TLAPS

Cell == Byte \cup {Junk}

(* A buffer that was only used as its calls allow.                         *)
Sound(r) ==
  /\ r \in [mem : Seq(Cell), len : Nat, ok : {TRUE}]
  /\ r.len <= Len(r.mem)

(* r holds data from a place on, but for what is left open.                *)
Shows(r, from, data) ==
  /\ Sound(r) /\ from \in Nat /\ data \in Seq(Cell)
  /\ r.len = from + Len(data)
  /\ \A k \in 1 .. Len(data) : data[k] # Junk => r.mem[from + k] = data[k]

(* A NUL follows what r holds.                                             *)
Ends(r) == r.len < Len(r.mem) /\ r.mem[r.len + 1] = NUL

-----------------------------------------------------------------------------
(* Induction over the naturals for a set.                                  *)
LEMMA SetInduction ==
  ASSUME NEW S, 0 \in S, \A n \in Nat : n \in S => n + 1 \in S
  PROVE  \A n \in Nat : n \in S
<1> SUFFICES ASSUME NEW n \in Nat, n \notin S PROVE FALSE
  OBVIOUS
<1> DEFINE T == {k \in Nat : k \notin S}
<1>1. PICK x \in T : \A y \in T : ~(<<y, x>> \in OpToRel(<, Nat))
  <2>1. IsWellFoundedOn(OpToRel(<, Nat), Nat)
    BY NatLessThanWellFounded
  <2> QED  BY <2>1, WFMin
<1>2. x # 0 /\ x - 1 \in Nat /\ x - 1 < x /\ (x - 1) + 1 = x
  OBVIOUS
<1>3. x - 1 \in S
  BY <1>1, <1>2 DEF OpToRel
<1> QED  BY <1>2, <1>3

LEMMA NextSizeGrows == \A z \in Nat : NextSize(z) \in Nat /\ NextSize(z) >= z + 1
BY GrowthAssumption DEF NextSize

(* The loop that looks for a size ends, with one that is large enough      *)
(* (resizable_buf.c:24-31).                                                *)
LEMMA RoomForSuffices ==
  ASSUME NEW z \in Nat, NEW n \in Nat, z < n
  PROVE  RoomFor(z, n) \in Nat /\ RoomFor(z, n) >= n
<1> DEFINE Sizes(g, m) == /\ g \in [0 .. m -> Nat]
                          /\ g[0] = z
                          /\ \A k \in 1 .. m : g[k] = NextSize(g[k - 1])
           S == {m \in Nat : \E g : Sizes(g, m)}
<1>1. 0 \in S
  <2>1. Sizes([k \in 0 .. 0 |-> z], 0)
    OBVIOUS
  <2> QED  BY <2>1
<1>2. ASSUME NEW m \in Nat, m \in S PROVE m + 1 \in S
  <2>1. PICK g : Sizes(g, m)
    BY <1>2
  <2> DEFINE h == [k \in 0 .. (m + 1) |-> IF k = m + 1 THEN NextSize(g[m]) ELSE g[k]]
  <2>2. \A k \in 0 .. m : g[k] \in Nat /\ h[k] = g[k]
    BY <2>1
  <2>3. h[m + 1] = NextSize(g[m]) /\ NextSize(g[m]) \in Nat
    <3>1. g[m] \in Nat
      BY <2>1
    <3>2. h[m + 1] = NextSize(g[m])
      OBVIOUS
    <3> QED  BY <3>1, <3>2, NextSizeGrows
  <2>4. h \in [0 .. (m + 1) -> Nat] /\ h[0] = z
    BY <2>1, <2>2, <2>3
  <2>5. ASSUME NEW k \in 1 .. (m + 1) PROVE h[k] = NextSize(h[k - 1])
    <3>1. k - 1 \in 0 .. m
      OBVIOUS
    <3>2. CASE k = m + 1
      BY <2>2, <2>3, <3>1, <3>2
    <3>3. CASE k \in 1 .. m
      <4>1. g[k] = NextSize(g[k - 1])
        BY <2>1, <3>3
      <4>2. k \in 0 .. m
        BY <3>3
      <4> HIDE DEF h
      <4>3. h[k] = g[k] /\ h[k - 1] = g[k - 1]
        BY <2>2, <3>1, <4>2
      <4> QED  BY <4>1, <4>3
    <3> QED  BY <3>2, <3>3
  <2> HIDE DEF h
  <2>6. Sizes(h, m + 1)
    BY <2>4, <2>5
  <2> HIDE DEF Sizes
  <2> QED  BY <2>6
<1>3. n \in S
  <2> HIDE DEF S
  <2> QED  BY <1>1, <1>2, SetInduction
<1>4. PICK g : Sizes(g, n)
  BY <1>3
<1>5. g = [k \in 0 .. n |-> IF k = 0 THEN z ELSE NextSize(g[k - 1])]
  BY <1>4
<1> DEFINE f[k \in 0 .. n] == IF k = 0 THEN z ELSE NextSize(f[k - 1])
<1>6. f = [k \in 0 .. n |-> IF k = 0 THEN z ELSE NextSize(f[k - 1])]
  BY <1>5
<1> DEFINE found == CHOOSE k \in 0 .. n : f[k] >= n /\ (k = 0 \/ f[k - 1] < n)
<1>7. RoomFor(z, n) = f[found]
  BY Zenon DEF RoomFor
<1> HIDE DEF f, found
<1>8. f[0] = z /\ \A k \in 1 .. n : f[k] = NextSize(f[k - 1])
  <2>1. \A k \in 0 .. n : f[k] = IF k = 0 THEN z ELSE NextSize(f[k - 1])
    BY <1>6, Zenon
  <2> QED  BY <2>1
<1> DEFINE N == {k \in Nat : k <= n => f[k] \in Nat /\ f[k] >= k}
<1>9. 0 \in N
  BY <1>8
<1>10. ASSUME NEW k \in Nat, k \in N PROVE k + 1 \in N
  <2> SUFFICES ASSUME k + 1 <= n PROVE f[k + 1] \in Nat /\ f[k + 1] >= k + 1
    OBVIOUS
  <2>1. k + 1 \in 1 .. n /\ (k + 1) - 1 = k /\ k <= n
    OBVIOUS
  <2>2. f[k] \in Nat /\ f[k] >= k
    BY <1>10, <2>1
  <2>3. f[k + 1] = NextSize(f[k])
    BY <1>8, <2>1
  <2> QED  BY <2>2, <2>3, NextSizeGrows
<1>11. \A k \in 0 .. n : f[k] \in Nat /\ f[k] >= k
  <2> HIDE DEF N
  <2>1. \A k \in Nat : k \in N
    BY <1>9, <1>10, SetInduction
  <2> QED  BY <2>1 DEF N
(* The first of the sizes from which on there is room.                     *)
<1>12. \E k \in 0 .. n : f[k] >= n /\ (k = 0 \/ f[k - 1] < n)
  <2> DEFINE L == {k \in Nat : k <= n => f[k] < n}
  <2>1. SUFFICES ASSUME \A k \in 0 .. n : ~(f[k] >= n /\ (k = 0 \/ f[k - 1] < n))
                 PROVE  FALSE
    OBVIOUS
  <2>2. 0 \in L
    BY <1>8
  <2>3. ASSUME NEW k \in Nat, k \in L PROVE k + 1 \in L
    <3> SUFFICES ASSUME k + 1 <= n PROVE f[k + 1] < n
      OBVIOUS
    <3>1. k + 1 \in 0 .. n /\ (k + 1) - 1 = k /\ k <= n
      OBVIOUS
    <3>2. f[k] < n /\ f[k + 1] \in Nat
      BY <1>11, <2>3, <3>1
    <3> QED  BY <2>1, <3>1, <3>2
  <2>4. n \in L
    <3> HIDE DEF L
    <3> QED  BY <2>2, <2>3, SetInduction
  <2>5. f[n] < n /\ f[n] \in Nat /\ f[n] >= n
    BY <1>11, <2>4
  <2> QED  BY <2>5
<1>13. found \in 0 .. n /\ f[found] >= n
  BY <1>12 DEF found
<1> QED  BY <1>7, <1>11, <1>13

-----------------------------------------------------------------------------
(* Sequences of cells.                                                     *)
LEMMA Cells == NUL \in Byte /\ NUL \in Cell /\ Junk \in Cell /\ Byte \subseteq Cell /\ NUL # Junk
BY DEF NUL, Junk, Byte, Cell

LEMMA Filled ==
  ASSUME NEW b \in Cell, NEW n \in Nat
  PROVE  /\ Fill(b, n) \in Seq(Cell) /\ Len(Fill(b, n)) = n
         /\ \A k \in 1 .. n : Fill(b, n)[k] = b
<1>1. Fill(b, n) \in [1 .. n -> Cell]
  BY DEF Fill
<1>2. Fill(b, n) \in Seq(Cell)
  BY <1>1, SeqDef
<1> QED  BY <1>1, <1>2, LenProperties DEF Fill

LEMMA UnwrittenFilled == \A n \in Nat : Unwritten(n) = Fill(Junk, n)
BY DEF Unwritten, Fill

(* A part of a sequence.                                                   *)
LEMMA Part ==
  ASSUME NEW s \in Seq(Cell), NEW a \in Nat, NEW n \in Nat, a + n <= Len(s)
  PROVE  /\ SubSeq(s, a + 1, a + n) \in Seq(Cell)
         /\ Len(SubSeq(s, a + 1, a + n)) = n
         /\ \A k \in 1 .. n : SubSeq(s, a + 1, a + n)[k] = s[a + k]
<1>1. /\ a + 1 \in Int /\ a + n \in Int /\ (a + n) - (a + 1) + 1 = n
      /\ (a + 1 <= a + n <=> n # 0)
      /\ \A i \in (a + 1) .. (a + n) : i \in 1 .. Len(s)
      /\ \A k \in 1 .. n : (a + 1) + k - 1 = a + k
  OBVIOUS
<1>2. \A i \in (a + 1) .. (a + n) : s[i] \in Cell
  BY <1>1, ElementOfSeq
<1>3. /\ SubSeq(s, a + 1, a + n) \in Seq(Cell)
      /\ Len(SubSeq(s, a + 1, a + n)) = IF a + 1 <= a + n THEN (a + n) - (a + 1) + 1 ELSE 0
      /\ \A k \in 1 .. ((a + n) - (a + 1) + 1) :
           SubSeq(s, a + 1, a + n)[k] = s[(a + 1) + k - 1]
  BY <1>1, <1>2, SubSeqProperties
<1> QED  BY <1>1, <1>3

(* The beginning and the end of a sequence.                                *)
LEMMA Beginning ==
  ASSUME NEW s \in Seq(Cell), NEW n \in Nat, n <= Len(s)
  PROVE  /\ SubSeq(s, 1, n) \in Seq(Cell) /\ Len(SubSeq(s, 1, n)) = n
         /\ \A k \in 1 .. n : SubSeq(s, 1, n)[k] = s[k]
<1>1. 0 + 1 = 1 /\ 0 + n = n /\ \A k \in 1 .. n : 0 + k = k
  OBVIOUS
<1>2. /\ SubSeq(s, 0 + 1, 0 + n) \in Seq(Cell) /\ Len(SubSeq(s, 0 + 1, 0 + n)) = n
      /\ \A k \in 1 .. n : SubSeq(s, 0 + 1, 0 + n)[k] = s[0 + k]
  <2>1. 0 \in Nat /\ 0 + n <= Len(s)
    OBVIOUS
  <2> QED  BY <2>1, Part
<1> QED  BY <1>1, <1>2

LEMMA Ending ==
  ASSUME NEW s \in Seq(Cell), NEW a \in Nat, a <= Len(s)
  PROVE  /\ SubSeq(s, a + 1, Len(s)) \in Seq(Cell)
         /\ Len(SubSeq(s, a + 1, Len(s))) = Len(s) - a
         /\ \A k \in 1 .. (Len(s) - a) : SubSeq(s, a + 1, Len(s))[k] = s[a + k]
<1>1. Len(s) \in Nat
  BY LenProperties
<1>2. PICK n \in Nat : n = Len(s) - a
  BY <1>1
<1>3. a + n = Len(s)
  BY <1>1, <1>2
<1> QED  BY <1>2, <1>3, <1>1, Part

(* Two sequences behind each other.                                        *)
LEMMA Joined ==
  ASSUME NEW s \in Seq(Cell), NEW t \in Seq(Cell)
  PROVE  /\ s \o t \in Seq(Cell) /\ Len(s \o t) = Len(s) + Len(t)
         /\ \A k \in 1 .. Len(s) : (s \o t)[k] = s[k]
         /\ \A k \in 1 .. Len(t) : (s \o t)[Len(s) + k] = t[k]
<1>1. Len(s) \in Nat /\ Len(t) \in Nat
  BY LenProperties
<1>2. /\ s \o t \in Seq(Cell) /\ Len(s \o t) = Len(s) + Len(t)
      /\ \A i \in 1 .. (Len(s) + Len(t)) :
           (s \o t)[i] = IF i <= Len(s) THEN s[i] ELSE t[i - Len(s)]
  BY ConcatProperties
<1>3. ASSUME NEW k \in 1 .. Len(s) PROVE (s \o t)[k] = s[k]
  <2>1. k \in 1 .. (Len(s) + Len(t)) /\ k <= Len(s)
    BY <1>1
  <2> QED  BY <1>2, <2>1
<1>4. ASSUME NEW k \in 1 .. Len(t) PROVE (s \o t)[Len(s) + k] = t[k]
  <2>1. /\ Len(s) + k \in 1 .. (Len(s) + Len(t))
        /\ ~(Len(s) + k <= Len(s)) /\ (Len(s) + k) - Len(s) = k
    BY <1>1
  <2> QED  BY <1>2, <2>1
<1> QED  BY <1>2, <1>3, <1>4

(* A sequence with a part of it replaced.                                  *)
LEMMA Replaced ==
  ASSUME NEW m \in Seq(Cell), NEW s \in Seq(Cell), NEW at \in Nat, at + Len(s) <= Len(m)
  PROVE  LET x == SubSeq(m, 1, at) \o s \o SubSeq(m, at + Len(s) + 1, Len(m)) IN
         /\ x \in Seq(Cell) /\ Len(x) = Len(m)
         /\ \A k \in 1 .. Len(s) : x[at + k] = s[k]
         /\ \A k \in 1 .. Len(m) : (k <= at \/ k > at + Len(s)) => x[k] = m[k]
<1>1. Len(m) \in Nat /\ Len(s) \in Nat
  BY LenProperties
<1> DEFINE a == SubSeq(m, 1, at)
           c == SubSeq(m, at + Len(s) + 1, Len(m))
           b == a \o s
           x == b \o c
<1>2. a \in Seq(Cell) /\ Len(a) = at /\ \A k \in 1 .. at : a[k] = m[k]
  <2>1. at <= Len(m)
    BY <1>1
  <2> QED  BY <2>1, Beginning
<1>3. /\ c \in Seq(Cell) /\ Len(c) = Len(m) - (at + Len(s))
      /\ \A k \in 1 .. (Len(m) - (at + Len(s))) : c[k] = m[at + Len(s) + k]
  <2>1. at + Len(s) \in Nat
    BY <1>1
  <2> QED  BY <2>1, Ending
<1> HIDE DEF a, c
<1>5. /\ b \in Seq(Cell) /\ Len(b) = at + Len(s)
      /\ \A k \in 1 .. at : b[k] = a[k]
      /\ \A k \in 1 .. Len(s) : b[at + k] = s[k]
  BY <1>2, Joined
<1> HIDE DEF b, x
<1>6. /\ x \in Seq(Cell) /\ Len(x) = (at + Len(s)) + Len(c)
      /\ \A k \in 1 .. (at + Len(s)) : x[k] = b[k]
      /\ \A k \in 1 .. Len(c) : x[(at + Len(s)) + k] = c[k]
  <2>1. /\ b \o c \in Seq(Cell) /\ Len(b \o c) = Len(b) + Len(c)
        /\ \A k \in 1 .. Len(b) : (b \o c)[k] = b[k]
        /\ \A k \in 1 .. Len(c) : (b \o c)[Len(b) + k] = c[k]
    BY <1>3, <1>5, Joined
  <2> QED  BY <1>5, <2>1, Zenon DEF x
<1>7. Len(x) = Len(m)
  <2>1. \A i \in Nat, j \in Nat : j + (i - j) = i
    OBVIOUS
  <2>2. at + Len(s) \in Nat
    BY <1>1
  <2>3. (at + Len(s)) + (Len(m) - (at + Len(s))) = Len(m)
    BY <1>1, <2>1, <2>2
  <2> QED  BY <1>3, <1>6, <2>3, Zenon
<1>8. ASSUME NEW k \in 1 .. Len(s) PROVE x[at + k] = s[k]
  <2>1. at + k \in 1 .. (at + Len(s))
    BY <1>1
  <2> QED  BY <1>5, <1>6, <2>1
<1>9. ASSUME NEW k \in 1 .. Len(m), k <= at PROVE x[k] = m[k]
  <2>1. k \in 1 .. at /\ k \in 1 .. (at + Len(s))
    BY <1>1, <1>9
  <2> QED  BY <1>2, <1>5, <1>6, <2>1
<1>10. ASSUME NEW k \in 1 .. Len(m), k > at + Len(s) PROVE x[k] = m[k]
  <2>1. PICK i \in 1 .. Len(c) : k = (at + Len(s)) + i
    <3>1. k - (at + Len(s)) \in 1 .. Len(c) /\ k = (at + Len(s)) + (k - (at + Len(s)))
      BY <1>1, <1>3, <1>10
    <3> QED  BY <3>1
  <2>2. i \in 1 .. (Len(m) - (at + Len(s)))
    BY <1>3
  <2> QED  BY <1>3, <1>6, <2>1, <2>2
<1>11. x = SubSeq(m, 1, at) \o s \o SubSeq(m, at + Len(s) + 1, Len(m))
  BY DEF x, b, a, c
<1> QED  BY <1>6, <1>7, <1>8, <1>9, <1>10, <1>11, Zenon

-----------------------------------------------------------------------------
(* The fields of a buffer.                                                 *)
LEMMA SoundFields ==
  ASSUME NEW r, Sound(r)
  PROVE  /\ r.mem \in Seq(Cell) /\ Len(r.mem) \in Nat /\ r.len \in Nat /\ r.ok = TRUE
         /\ r.len <= Len(r.mem)
         /\ \A k \in 1 .. Len(r.mem) : r.mem[k] \in Cell
<1>1. r.mem \in Seq(Cell) /\ r.len \in Nat /\ r.ok = TRUE /\ r.len <= Len(r.mem)
  BY DEF Sound
<1> QED  BY <1>1, LenProperties, ElementOfSeq

LEMMA WithMem ==
  ASSUME NEW r, Sound(r), NEW x \in Seq(Cell), r.len <= Len(x)
  PROVE  /\ Sound([r EXCEPT !.mem = x])
         /\ [r EXCEPT !.mem = x].mem = x /\ [r EXCEPT !.mem = x].len = r.len
<1>1. r \in [mem : Seq(Cell), len : Nat, ok : {TRUE}]
  BY DEF Sound
<1>2. /\ [r EXCEPT !.mem = x] \in [mem : Seq(Cell), len : Nat, ok : {TRUE}]
      /\ [r EXCEPT !.mem = x].mem = x /\ [r EXCEPT !.mem = x].len = r.len
  BY <1>1
<1> QED  BY <1>2 DEF Sound

LEMMA WithLen ==
  ASSUME NEW r, Sound(r), NEW n \in Nat, n <= Len(r.mem)
  PROVE  /\ Sound([r EXCEPT !.len = n])
         /\ [r EXCEPT !.len = n].mem = r.mem /\ [r EXCEPT !.len = n].len = n
<1>1. r \in [mem : Seq(Cell), len : Nat, ok : {TRUE}]
  BY DEF Sound
<1>2. /\ [r EXCEPT !.len = n] \in [mem : Seq(Cell), len : Nat, ok : {TRUE}]
      /\ [r EXCEPT !.len = n].mem = r.mem /\ [r EXCEPT !.len = n].len = n
  BY <1>1
<1> QED  BY <1>2 DEF Sound

LEMMA Lengthened ==
  ASSUME NEW r, Sound(r), NEW n \in Int, r.len + n \in 0 .. Len(r.mem)
  PROVE  /\ Sound(Longer(r, n))
         /\ Longer(r, n).mem = r.mem /\ Longer(r, n).len = r.len + n
<1>1. r.len + n \in Nat /\ r.len + n <= Len(r.mem)
  BY SoundFields
<1>2. Longer(r, n) = [r EXCEPT !.len = r.len + n]
  BY DEF Longer
<1> QED  BY <1>1, <1>2, WithLen

(* realloc.                                                                *)
LEMMA Reallocated ==
  ASSUME NEW r, Sound(r), NEW z \in Nat, Len(r.mem) <= z
  PROVE  /\ Sound(realloc(r, z)) /\ realloc(r, z).len = r.len
         /\ Len(realloc(r, z).mem) = z
         /\ \A k \in 1 .. Len(r.mem) : realloc(r, z).mem[k] = r.mem[k]
<1>1. r.mem \in Seq(Cell) /\ Len(r.mem) \in Nat /\ r.len \in Nat /\ r.len <= Len(r.mem)
  BY SoundFields
<1>2. PICK n \in Nat : n = z - Len(r.mem) /\ Len(r.mem) + n = z
  <2>1. \A a \in Nat : a <= z => z - a \in Nat /\ a + (z - a) = z
    OBVIOUS
  <2> QED  BY <1>1, <2>1
<1> DEFINE u == Unwritten(n)
<1>3. u \in Seq(Cell) /\ Len(u) = n
  BY Cells, Filled, UnwrittenFilled
<1>4. realloc(r, z) = [r EXCEPT !.mem = r.mem \o u]
  BY <1>2 DEF realloc
<1> HIDE DEF u
<1>5. /\ r.mem \o u \in Seq(Cell) /\ Len(r.mem \o u) = Len(r.mem) + Len(u)
      /\ \A k \in 1 .. Len(r.mem) : (r.mem \o u)[k] = r.mem[k]
  BY <1>1, <1>3, Joined
<1> DEFINE x == r.mem \o u
<1>6. x \in Seq(Cell) /\ Len(x) = z /\ \A k \in 1 .. Len(r.mem) : x[k] = r.mem[k]
  BY <1>2, <1>3, <1>5
<1>7. realloc(r, z) = [r EXCEPT !.mem = x]
  BY <1>4
<1> HIDE DEF x
<1>8. r.len <= Len(x)
  BY <1>1, <1>6
<1> QED  BY <1>6, <1>7, <1>8, WithMem

(* memcpy and memmove.                                                     *)
LEMMA Copied ==
  ASSUME NEW r, Sound(r), NEW at \in Nat, NEW s \in Seq(Cell), at + Len(s) <= Len(r.mem)
  PROVE  LET c == memcpy(r, at, s) IN
         /\ Sound(c) /\ c.len = r.len /\ Len(c.mem) = Len(r.mem)
         /\ \A k \in 1 .. Len(s) : c.mem[at + k] = s[k]
         /\ \A k \in 1 .. Len(r.mem) : (k <= at \/ k > at + Len(s)) => c.mem[k] = r.mem[k]
<1>1. r.mem \in Seq(Cell) /\ Len(r.mem) \in Nat /\ r.len \in Nat /\ r.len <= Len(r.mem)
      /\ Len(s) \in Nat
  BY SoundFields, LenProperties
<1> DEFINE x == SubSeq(r.mem, 1, at) \o s \o SubSeq(r.mem, at + Len(s) + 1, Len(r.mem))
<1>2. memcpy(r, at, s) = [r EXCEPT !.mem = x]
  <2>1. ~(at + Len(s) > rb_size(r))
    BY <1>1 DEF rb_size
  <2> QED  BY <2>1 DEF memcpy
<1>3. /\ x \in Seq(Cell) /\ Len(x) = Len(r.mem)
      /\ \A k \in 1 .. Len(s) : x[at + k] = s[k]
      /\ \A k \in 1 .. Len(r.mem) : (k <= at \/ k > at + Len(s)) => x[k] = r.mem[k]
  BY <1>1, Replaced, Zenon
<1> HIDE DEF x
<1>4. r.len <= Len(x)
  BY <1>1, <1>3
<1> QED  BY <1>2, <1>3, <1>4, WithMem

MovesTo(c, r, to, from, n) ==
  /\ Sound(c) /\ c.len = r.len /\ Len(c.mem) = Len(r.mem)
  /\ \A k \in 1 .. n : c.mem[to + k] = r.mem[from + k]
  /\ \A k \in 1 .. Len(r.mem) : (k <= to \/ k > to + n) => c.mem[k] = r.mem[k]

LEMMA Moved ==
  ASSUME NEW r, Sound(r), NEW to \in Nat, NEW from \in Nat, NEW n \in Nat,
         from + n <= Len(r.mem), to + n <= Len(r.mem)
  PROVE  MovesTo(memmove(r, to, from, n), r, to, from, n)
<1>1. r.mem \in Seq(Cell) /\ Len(r.mem) \in Nat
  BY SoundFields
<1> DEFINE s == SubSeq(r.mem, from + 1, from + n)
<1>2. memmove(r, to, from, n) = memcpy(r, to, s)
  <2>1. ~(from + n > rb_size(r))
    BY <1>1 DEF rb_size
  <2> QED  BY <2>1 DEF memmove
<1>3. s \in Seq(Cell) /\ Len(s) = n /\ \A k \in 1 .. n : s[k] = r.mem[from + k]
  BY <1>1, Part
<1> HIDE DEF s
<1> DEFINE c == memcpy(r, to, s)
<1>4. /\ Sound(c) /\ c.len = r.len /\ Len(c.mem) = Len(r.mem)
      /\ \A k \in 1 .. Len(s) : c.mem[to + k] = s[k]
      /\ \A k \in 1 .. Len(r.mem) : (k <= to \/ k > to + Len(s)) => c.mem[k] = r.mem[k]
  <2>1. to + Len(s) <= Len(r.mem)
    BY <1>3
  <2> QED  BY <1>3, <2>1, Copied
<1>5. memmove(r, to, from, n) = c
  BY <1>2
<1> HIDE DEF c
<1> QED  BY <1>3, <1>4, <1>5 DEF MovesTo

-----------------------------------------------------------------------------
(* Room is made without touching what is there.                            *)
LEMMA Grown ==
  ASSUME NEW r, Sound(r), NEW n \in Nat
  PROVE  LET g == rb_grow(r, n) IN
         /\ Sound(g) /\ g.len = r.len
         /\ Len(g.mem) \in Nat /\ Len(r.mem) <= Len(g.mem) /\ r.len + n <= Len(g.mem)
         /\ \A k \in 1 .. Len(r.mem) : g.mem[k] = r.mem[k]
<1>1. Len(r.mem) \in Nat /\ r.len \in Nat
  BY SoundFields
<1>2. CASE r.len + n > Len(r.mem)
  <2> DEFINE z == RoomFor(Len(r.mem), r.len + n)
  <2>1. z \in Nat /\ z >= r.len + n
    <3>1. r.len + n \in Nat /\ Len(r.mem) < r.len + n
      BY <1>1, <1>2
    <3> QED  BY <1>1, <3>1, RoomForSuffices
  <2>2. rb_grow(r, n) = realloc(r, z)
    BY <1>2 DEF rb_grow, rb_size
  <2> HIDE DEF z
  <2>3. Len(r.mem) <= z
    BY <1>1, <1>2, <2>1
  <2> QED  BY <1>1, <2>1, <2>2, <2>3, Reallocated
<1>3. CASE r.len + n <= Len(r.mem)
  <2>1. rb_grow(r, n) = r
    BY <1>1, <1>3 DEF rb_grow, rb_size
  <2> QED  BY <1>1, <1>3, <2>1
<1> QED  BY <1>1, <1>2, <1>3

LEMMA Sized ==
  ASSUME NEW r, Sound(r), NEW n \in Nat, NEW preserve \in BOOLEAN
  PROVE  LET g == rb_makesize(r, n, preserve) IN
         /\ Sound(g) /\ g.len = r.len
         /\ Len(g.mem) \in Nat /\ Len(r.mem) <= Len(g.mem) /\ n <= Len(g.mem)
         /\ preserve => \A k \in 1 .. Len(r.mem) : g.mem[k] = r.mem[k]
<1>1. Len(r.mem) \in Nat /\ r.len \in Nat /\ r.len <= Len(r.mem)
  BY SoundFields
<1>2. CASE n <= Len(r.mem)
  <2>1. rb_makesize(r, n, preserve) = r
    BY <1>2 DEF rb_makesize, rb_size
  <2> QED  BY <1>1, <1>2, <2>1
<1>3. CASE ~(n <= Len(r.mem))
  <2> DEFINE z == RoomFor(Len(r.mem), n)
  <2>1. z \in Nat /\ z >= n
    <3>1. Len(r.mem) < n
      BY <1>1, <1>3
    <3> QED  BY <1>1, <3>1, RoomForSuffices
  <2>2. rb_makesize(r, n, preserve) = IF preserve THEN realloc(r, z) ELSE malloc(r, z)
    BY <1>3 DEF rb_makesize, rb_size
  <2> HIDE DEF z
  <2>3. Len(r.mem) <= z /\ r.len <= z
    BY <1>1, <1>3, <2>1
  <2>4. CASE preserve
    <3>1. rb_makesize(r, n, preserve) = realloc(r, z)
      BY <2>2, <2>4
    <3> QED  BY <1>1, <2>1, <2>3, <3>1, Reallocated
  <2>5. CASE ~preserve
    <3> DEFINE x == Unwritten(z)
    <3>1. x \in Seq(Cell) /\ Len(x) = z
      BY <2>1, Cells, Filled, UnwrittenFilled
    <3>2. rb_makesize(r, n, preserve) = [r EXCEPT !.mem = x]
      BY <2>2, <2>5 DEF malloc
    <3> HIDE DEF x
    <3>3. r.len <= Len(x)
      BY <2>3, <3>1
    <3> QED  BY <1>1, <2>1, <2>3, <2>5, <3>1, <3>2, <3>3, WithMem
  <2> QED  BY <2>4, <2>5
<1> QED  BY <1>1, <1>2, <1>3

LEMMA Resized ==
  ASSUME NEW r, Sound(r), NEW n \in Nat, NEW preserve \in BOOLEAN
  PROVE  LET g == rb_resize(r, n, preserve) IN
         /\ Sound(g) /\ g.len = n
         /\ Len(g.mem) \in Nat /\ Len(r.mem) <= Len(g.mem) /\ n <= Len(g.mem)
         /\ preserve => \A k \in 1 .. Len(r.mem) : g.mem[k] = r.mem[k]
<1> DEFINE m == rb_makesize(r, n, preserve)
<1>1. /\ Sound(m) /\ Len(m.mem) \in Nat /\ Len(r.mem) <= Len(m.mem) /\ n <= Len(m.mem)
      /\ preserve => \A k \in 1 .. Len(r.mem) : m.mem[k] = r.mem[k]
  BY Sized
<1>2. rb_resize(r, n, preserve) = [m EXCEPT !.len = n]
  BY DEF rb_resize
<1> HIDE DEF m
<1> QED  BY <1>1, <1>2, WithLen

-----------------------------------------------------------------------------
(* What the functions make of a buffer that holds something.               *)
LEMMA ShowsFacts ==
  ASSUME NEW r, NEW from, NEW data, Shows(r, from, data)
  PROVE  /\ Sound(r) /\ from \in Nat /\ data \in Seq(Cell)
         /\ Len(data) \in Nat /\ r.len = from + Len(data) /\ r.len \in Nat
         /\ Len(r.mem) \in Nat /\ r.len <= Len(r.mem)
         /\ \A k \in 1 .. Len(data) : from + k \in 1 .. r.len /\ from + k \in 1 .. Len(r.mem)
         /\ \A k \in 1 .. Len(data) : data[k] # Junk => r.mem[from + k] = data[k]
<1>1. /\ Sound(r) /\ from \in Nat /\ data \in Seq(Cell) /\ r.len = from + Len(data)
      /\ \A k \in 1 .. Len(data) : data[k] # Junk => r.mem[from + k] = data[k]
  BY DEF Shows
<1>2. /\ Len(data) \in Nat /\ r.len \in Nat /\ Len(r.mem) \in Nat /\ r.len <= Len(r.mem)
  BY <1>1, SoundFields, LenProperties
<1>3. \A k \in 1 .. Len(data) : from + k \in 1 .. r.len /\ from + k \in 1 .. Len(r.mem)
  BY <1>1, <1>2
<1> QED  BY <1>1, <1>2, <1>3

(* The same bytes are still there.                                         *)
LEMMA StillShows ==
  ASSUME NEW r, NEW from, NEW data, Shows(r, from, data),
         NEW g, Sound(g), g.len = r.len,
         \A k \in 1 .. r.len : g.mem[k] = r.mem[k]
  PROVE  Shows(g, from, data)
<1>1. /\ from \in Nat /\ data \in Seq(Cell) /\ r.len = from + Len(data)
      /\ \A k \in 1 .. Len(data) : from + k \in 1 .. r.len
      /\ \A k \in 1 .. Len(data) : data[k] # Junk => r.mem[from + k] = data[k]
  BY ShowsFacts
<1> QED  BY <1>1 DEF Shows

(* More bytes behind those that are there.                                 *)
LEMMA ShowsMore ==
  ASSUME NEW r, NEW from, NEW data, Shows(r, from, data), NEW t \in Seq(Cell),
         NEW g, Sound(g), g.len = r.len + Len(t),
         \A k \in 1 .. r.len : g.mem[k] = r.mem[k],
         \A k \in 1 .. Len(t) : t[k] # Junk => g.mem[r.len + k] = t[k]
  PROVE  Shows(g, from, data \o t)
<1>1. /\ from \in Nat /\ data \in Seq(Cell) /\ r.len = from + Len(data)
      /\ Len(data) \in Nat /\ Len(t) \in Nat /\ r.len \in Nat
      /\ \A k \in 1 .. Len(data) : from + k \in 1 .. r.len
      /\ \A k \in 1 .. Len(data) : data[k] # Junk => r.mem[from + k] = data[k]
  BY ShowsFacts, LenProperties
<1> DEFINE x == data \o t
<1>2. /\ x \in Seq(Cell) /\ Len(x) = Len(data) + Len(t)
      /\ \A k \in 1 .. Len(data) : x[k] = data[k]
      /\ \A k \in 1 .. Len(t) : x[Len(data) + k] = t[k]
  BY <1>1, Joined
<1> HIDE DEF x
<1>3. g.len = from + Len(x)
  BY <1>1, <1>2
<1>4. ASSUME NEW k \in 1 .. Len(x), x[k] # Junk PROVE g.mem[from + k] = x[k]
  <2>1. CASE k \in 1 .. Len(data)
    BY <1>1, <1>2, <1>4, <2>1
  <2>2. CASE ~(k \in 1 .. Len(data))
    <3>1. PICK i \in 1 .. Len(t) : k = Len(data) + i
      <4>1. k - Len(data) \in 1 .. Len(t) /\ k = Len(data) + (k - Len(data))
        BY <1>1, <1>2, <2>2
      <4> QED  BY <4>1
    <3>2. from + k = r.len + i
      BY <1>1, <3>1
    <3> QED  BY <1>2, <1>4, <3>1, <3>2
  <2> QED  BY <2>1, <2>2
<1> QED  BY <1>1, <1>2, <1>3, <1>4 DEF Shows

LEMMA Pushed ==
  ASSUME NEW r, Sound(r), NEW n \in Nat
  PROVE  LET g == rb_push(r, n) IN
         /\ Sound(g) /\ g.len = r.len + n
         /\ Len(g.mem) \in Nat /\ g.len <= Len(g.mem)
         /\ \A k \in 1 .. Len(r.mem) : g.mem[k] = r.mem[k]
<1> DEFINE m == rb_grow(r, n)
<1>1. /\ Sound(m) /\ m.len = r.len /\ Len(m.mem) \in Nat /\ r.len + n <= Len(m.mem)
      /\ \A k \in 1 .. Len(r.mem) : m.mem[k] = r.mem[k]
  BY Grown
<1>2. rb_push(r, n) = Longer(m, n)
  BY DEF rb_push
<1> HIDE DEF m
<1>3. m.len + n \in 0 .. Len(m.mem)
  <2>1. r.len \in Nat
    BY SoundFields
  <2> QED  BY <1>1, <2>1
<1>4. /\ Sound(Longer(m, n)) /\ Longer(m, n).mem = m.mem
      /\ Longer(m, n).len = m.len + n
  BY <1>1, <1>3, Lengthened
<1> QED  BY <1>1, <1>2, <1>4

LEMMA PushShows ==
  ASSUME NEW r, NEW from, NEW data, Shows(r, from, data), NEW n \in Nat
  PROVE  Shows(rb_push(r, n), from, data \o Unwritten(n))
<1>1. /\ Sound(r) /\ r.len \in Nat /\ Len(r.mem) \in Nat /\ r.len <= Len(r.mem)
  BY ShowsFacts
<1> DEFINE g == rb_push(r, n)
           t == Unwritten(n)
<1>2. /\ Sound(g) /\ g.len = r.len + n
      /\ \A k \in 1 .. Len(r.mem) : g.mem[k] = r.mem[k]
  BY <1>1, Pushed
<1>3. t \in Seq(Cell) /\ Len(t) = n /\ \A k \in 1 .. Len(t) : t[k] = Junk
  BY Cells, Filled, UnwrittenFilled
<1> HIDE DEF g, t
<1>4. \A k \in 1 .. r.len : g.mem[k] = r.mem[k]
  BY <1>1, <1>2
<1>5. Shows(g, from, data \o t)
  BY <1>2, <1>3, <1>4, ShowsMore
<1> QED  BY <1>5 DEF g, t

(* s is put where t is promised.                                           *)
LEMMA AppendShows ==
  ASSUME NEW r, NEW from, NEW data, Shows(r, from, data),
         NEW s \in Seq(Cell), NEW t \in Seq(Cell), Len(s) = Len(t),
         \A k \in 1 .. Len(t) : t[k] # Junk => s[k] = t[k]
  PROVE  Shows(rb_append(r, s), from, data \o t)
<1>1. /\ Sound(r) /\ r.len \in Nat /\ Len(r.mem) \in Nat /\ r.len <= Len(r.mem)
      /\ Len(s) \in Nat
  BY ShowsFacts, LenProperties
<1> DEFINE p == rb_push(r, Len(s))
           g == memcpy(p, r.len, s)
<1>2. /\ Sound(p) /\ p.len = r.len + Len(s) /\ Len(p.mem) \in Nat /\ p.len <= Len(p.mem)
      /\ \A k \in 1 .. Len(r.mem) : p.mem[k] = r.mem[k]
  BY <1>1, Pushed
<1> HIDE DEF p
<1>3. /\ Sound(g) /\ g.len = p.len
      /\ \A k \in 1 .. Len(s) : g.mem[r.len + k] = s[k]
      /\ \A k \in 1 .. Len(p.mem) : (k <= r.len \/ k > r.len + Len(s)) => g.mem[k] = p.mem[k]
  <2>1. r.len + Len(s) <= Len(p.mem)
    BY <1>2
  <2> QED  BY <1>1, <1>2, <2>1, Copied
<1>4. rb_append(r, s) = g
  BY DEF rb_append, p
<1> HIDE DEF g
<1>5. \A k \in 1 .. r.len : g.mem[k] = r.mem[k]
  <2>1. \A k \in 1 .. r.len : k \in 1 .. Len(p.mem) /\ k \in 1 .. Len(r.mem) /\ k <= r.len
    BY <1>1, <1>2
  <2> QED  BY <1>2, <1>3, <2>1
<1>6. \A k \in 1 .. Len(t) : t[k] # Junk => g.mem[r.len + k] = t[k]
  BY <1>3
<1>7. Shows(g, from, data \o t)
  BY <1>2, <1>3, <1>5, <1>6, ShowsMore
<1> QED  BY <1>4, <1>7

(* s is put behind what is there, n of its bytes count (resizable_buf.h,   *)
(* rb_putc; resizable_buf.c, rb_putwc and rb_printf).                      *)
PutBehind(r, room, s, n) == Longer(memcpy(rb_grow(r, room), r.len, s), n)

LEMMA PutShows ==
  ASSUME NEW r, NEW from, NEW data, Shows(r, from, data),
         NEW s \in Seq(Cell), NEW room \in Nat, Len(s) <= room,
         NEW t \in Seq(Cell), Len(t) <= Len(s), \A k \in 1 .. Len(t) : s[k] = t[k]
  PROVE  LET g == PutBehind(r, room, s, Len(t)) IN
         /\ Shows(g, from, data \o t)
         /\ Len(t) < Len(s) /\ s[Len(t) + 1] = NUL => Ends(g)
<1>1. /\ Sound(r) /\ r.len \in Nat /\ Len(r.mem) \in Nat /\ r.len <= Len(r.mem)
      /\ Len(s) \in Nat /\ Len(t) \in Nat
  BY ShowsFacts, LenProperties
<1> DEFINE m == rb_grow(r, room)
           c == memcpy(m, r.len, s)
           g == Longer(c, Len(t))
<1>2. /\ Sound(m) /\ m.len = r.len /\ Len(m.mem) \in Nat
      /\ Len(r.mem) <= Len(m.mem) /\ r.len + room <= Len(m.mem)
      /\ \A k \in 1 .. Len(r.mem) : m.mem[k] = r.mem[k]
  BY <1>1, Grown
<1> HIDE DEF m
<1>3. /\ Sound(c) /\ c.len = r.len /\ Len(c.mem) = Len(m.mem)
      /\ \A k \in 1 .. Len(s) : c.mem[r.len + k] = s[k]
      /\ \A k \in 1 .. Len(m.mem) : (k <= r.len \/ k > r.len + Len(s)) => c.mem[k] = m.mem[k]
  <2>1. r.len + Len(s) <= Len(m.mem)
    BY <1>1, <1>2
  <2> QED  BY <1>1, <1>2, <2>1, Copied
<1>4. PutBehind(r, room, s, Len(t)) = g
  BY DEF PutBehind, m
<1> HIDE DEF c
<1>5. Sound(g) /\ g.mem = c.mem /\ g.len = r.len + Len(t)
  <2>1. c.len + Len(t) \in 0 .. Len(c.mem) /\ Len(t) \in Int
    BY <1>1, <1>2, <1>3
  <2> QED  BY <1>3, <2>1, Lengthened
<1> HIDE DEF g
<1>6. \A k \in 1 .. r.len : g.mem[k] = r.mem[k]
  <2>1. \A k \in 1 .. r.len : k \in 1 .. Len(m.mem) /\ k \in 1 .. Len(r.mem) /\ k <= r.len
    BY <1>1, <1>2
  <2> QED  BY <1>2, <1>3, <1>5, <2>1
<1>7. \A k \in 1 .. Len(t) : g.mem[r.len + k] = t[k]
  <2>1. \A k \in 1 .. Len(t) : k \in 1 .. Len(s)
    BY <1>1
  <2> QED  BY <1>3, <1>5, <2>1
<1>8. Shows(g, from, data \o t)
  BY <1>5, <1>6, <1>7, ShowsMore
<1>9. ASSUME Len(t) < Len(s), s[Len(t) + 1] = NUL PROVE Ends(g)
  <2>1. Len(t) + 1 \in 1 .. Len(s) /\ r.len + (Len(t) + 1) = g.len + 1
    BY <1>1, <1>5, <1>9
  <2>2. g.mem[g.len + 1] = NUL
    BY <1>3, <1>5, <1>9, <2>1
  <2>3. g.len < Len(g.mem)
    BY <1>1, <1>2, <1>3, <1>5, <1>9
  <2> QED  BY <2>2, <2>3 DEF Ends
<1> QED  BY <1>4, <1>8, <1>9

LEMMA StringizeShows ==
  ASSUME NEW r, NEW from, NEW data, Shows(r, from, data)
  PROVE  Shows(rb_stringize(r), from, data) /\ Ends(rb_stringize(r))
<1>1. Sound(r) /\ r.len \in Nat /\ Len(r.mem) \in Nat /\ r.len <= Len(r.mem)
  BY ShowsFacts
<1> DEFINE m == rb_grow(r, 1)
           g == memcpy(m, r.len, <<NUL>>)
<1>2. /\ Sound(m) /\ m.len = r.len /\ Len(m.mem) \in Nat
      /\ Len(r.mem) <= Len(m.mem) /\ r.len + 1 <= Len(m.mem)
      /\ \A k \in 1 .. Len(r.mem) : m.mem[k] = r.mem[k]
  BY <1>1, Grown
<1> HIDE DEF m
<1>3. <<NUL>> \in Seq(Cell) /\ Len(<<NUL>>) = 1 /\ <<NUL>>[1] = NUL
  BY Cells
<1>4. /\ Sound(g) /\ g.len = r.len /\ Len(g.mem) = Len(m.mem)
      /\ \A k \in 1 .. 1 : g.mem[r.len + k] = <<NUL>>[k]
      /\ \A k \in 1 .. Len(m.mem) : (k <= r.len \/ k > r.len + 1) => g.mem[k] = m.mem[k]
  <2>1. r.len + Len(<<NUL>>) <= Len(m.mem)
    BY <1>2, <1>3
  <2> QED  BY <1>1, <1>2, <1>3, <2>1, Copied, Zenon
<1>5. rb_stringize(r) = g
  BY DEF rb_stringize, m
<1> HIDE DEF g
<1>6. \A k \in 1 .. r.len : g.mem[k] = r.mem[k]
  <2>1. \A k \in 1 .. r.len : k \in 1 .. Len(m.mem) /\ k \in 1 .. Len(r.mem) /\ k <= r.len
    BY <1>1, <1>2
  <2> QED  BY <1>2, <1>4, <2>1
<1>7. Shows(g, from, data)
  BY <1>4, <1>6, StillShows
<1>8. Ends(g)
  BY <1>1, <1>2, <1>3, <1>4 DEF Ends
<1> QED  BY <1>5, <1>7, <1>8

(* The functions that put bytes behind what is there.                      *)
LEMMA SetShows ==
  ASSUME NEW r, Sound(r), NEW s \in Seq(Cell)
  PROVE  Shows(rb_set(r, s), 0, s)
<1>1. Len(s) \in Nat
  BY LenProperties
<1> DEFINE m == rb_resize(r, Len(s), FALSE)
           g == memcpy(m, 0, s)
<1>2. Sound(m) /\ m.len = Len(s) /\ Len(m.mem) \in Nat /\ Len(s) <= Len(m.mem)
  BY <1>1, Resized
<1> HIDE DEF m
<1>3. Sound(g) /\ g.len = Len(s) /\ \A k \in 1 .. Len(s) : g.mem[0 + k] = s[k]
  <2>1. 0 + Len(s) <= Len(m.mem) /\ 0 \in Nat
    BY <1>1, <1>2
  <2> QED  BY <1>2, <2>1, Copied
<1>4. rb_set(r, s) = g
  BY DEF rb_set, m
<1> HIDE DEF g
<1> QED  BY <1>1, <1>3, <1>4 DEF Shows

LEMMA CallocShows ==
  ASSUME NEW r, NEW from, NEW data, Shows(r, from, data), NEW n \in Nat
  PROVE  Shows(rb_calloc(r, n), from, data \o Fill(NUL, n))
<1> DEFINE s == Fill(NUL, n)
<1>1. s \in Seq(Cell)
  BY Cells, Filled
<1>2. rb_calloc(r, n) = rb_append(r, s)
  BY DEF rb_calloc
<1> HIDE DEF s
<1>3. Shows(rb_append(r, s), from, data \o s)
  BY <1>1, AppendShows
<1> QED  BY <1>2, <1>3 DEF s

LEMMA PutcShows ==
  ASSUME NEW r, NEW from, NEW data, Shows(r, from, data), NEW b \in Byte
  PROVE  Shows(rb_putc(r, b), from, Append(data, b))
<1> DEFINE s == <<b>>
<1>1. s \in Seq(Cell) /\ Len(s) = 1
  BY Cells
<1>2. rb_putc(r, b) = PutBehind(r, 1, s, 1)
  BY DEF rb_putc, PutBehind
<1> HIDE DEF s
<1>3. Shows(PutBehind(r, 1, s, Len(s)), from, data \o s)
  <2>1. Len(s) <= 1 /\ Len(s) <= Len(s) /\ 1 \in Nat
    BY <1>1
  <2> QED  BY <1>1, <2>1, PutShows
<1>4. data \o s = Append(data, b)
  <2>1. data \in Seq(Cell) /\ b \in Cell
    BY ShowsFacts, Cells
  <2> QED  BY <2>1, AppendIsConcat DEF s
<1> QED  BY <1>1, <1>2, <1>3, <1>4

LEMMA PutwcShows ==
  ASSUME NEW r, NEW from, NEW data, Shows(r, from, data),
         NEW s \in Seq(Cell), Len(s) \in 1 .. 4
  PROVE  Shows(rb_putwc(r, s), from, data \o s)
<1>1. Shows(PutBehind(r, 4, s, Len(s)), from, data \o s)
  <2>1. \A i \in 1 .. 4 : i <= 4 /\ i <= i /\ 4 \in Nat
    OBVIOUS
  <2> QED  BY <2>1, PutShows
<1>2. rb_putwc(r, s) = PutBehind(r, 4, s, Len(s))
  BY DEF rb_putwc, PutBehind
<1> QED  BY <1>1, <1>2

LEMMA PrintfShows ==
  ASSUME NEW r, NEW from, NEW data, Shows(r, from, data), NEW s \in Seq(Cell)
  PROVE  Shows(rb_printf(r, s), from, data \o s) /\ Ends(rb_printf(r, s))
<1> DEFINE z == Append(s, NUL)
<1>1. /\ z \in Seq(Cell) /\ Len(z) = Len(s) + 1 /\ z[Len(s) + 1] = NUL
      /\ \A k \in 1 .. Len(s) : z[k] = s[k]
      /\ Len(s) \in Nat
  BY Cells
<1>2. rb_printf(r, s) = PutBehind(r, Len(s) + 1, z, Len(s))
  BY DEF rb_printf, PutBehind
<1> HIDE DEF z
<1> DEFINE g == PutBehind(r, Len(s) + 1, z, Len(s))
<1>3. Shows(g, from, data \o s) /\ (Len(s) < Len(z) /\ z[Len(s) + 1] = NUL => Ends(g))
  <2>1. Len(s) + 1 \in Nat /\ Len(z) <= Len(s) + 1 /\ Len(s) <= Len(z)
    BY <1>1
  <2> QED  BY <1>1, <2>1, PutShows
<1> HIDE DEF g
<1>4. Len(s) < Len(z)
  BY <1>1
<1> QED  BY <1>1, <1>2, <1>3, <1>4 DEF g

LEMMA AppendSame ==
  ASSUME NEW r, NEW from, NEW data, Shows(r, from, data), NEW s \in Seq(Cell)
  PROVE  Shows(rb_append(r, s), from, data \o s)
BY AppendShows

LEMMA StringShows ==
  ASSUME NEW r, NEW from, NEW data, Shows(r, from, data), NEW s \in Seq(Cell)
  PROVE  /\ Shows(rb_strcat(r, s), from, data \o s) /\ Ends(rb_strcat(r, s))
         /\ Shows(rb_strcpy(r, s), 0, s) /\ Ends(rb_strcpy(r, s))
<1>1. Sound(r)
  BY ShowsFacts
<1>2. Shows(rb_append(r, s), from, data \o s)
  BY AppendSame
<1>3. Shows(rb_set(r, s), 0, s)
  BY <1>1, SetShows
<1> QED  BY <1>2, <1>3, StringizeShows DEF rb_strcat, rb_strcpy

LEMMA ReadFileShows ==
  ASSUME NEW r, NEW from, NEW data, Shows(r, from, data),
         NEW s \in Seq(Cell), NEW t \in Seq(Cell)
  PROVE  /\ Shows(rb_read_file(r, s, t), from, data \o s \o t)
         /\ Ends(rb_read_file(r, s, t))
<1>1. Shows(rb_append(r, s), from, data \o s)
  BY AppendSame
<1>2. Shows(rb_append(rb_append(r, s), t), from, (data \o s) \o t)
  BY <1>1, AppendSame
<1>3. Shows(rb_stringize(rb_append(rb_append(r, s), t)), from, (data \o s) \o t)
  BY <1>2, StringizeShows
<1> QED  BY <1>3, StringizeShows DEF rb_read_file

(* What is to be held from a place on is what r2 holds there.              *)
LEMMA ExtractShows ==
  ASSUME NEW r, NEW from, NEW data, Shows(r, from, data),
         NEW r2, NEW data2, Shows(r2, 0, data2),
         NEW loc \in Nat, NEW n \in Nat, loc + n <= Len(data2)
  PROVE  IF r.len < loc THEN rb_extract(r, r2, loc, n) = r
         ELSE Shows(rb_extract(r, r2, loc, n), from, data \o SubSeq(data2, loc + 1, loc + n))
<1>1. /\ Sound(r2) /\ data2 \in Seq(Cell) /\ Len(data2) \in Nat /\ r2.len = 0 + Len(data2)
      /\ Len(r2.mem) \in Nat /\ r2.len <= Len(r2.mem) /\ r2.mem \in Seq(Cell)
      /\ \A k \in 1 .. Len(data2) : data2[k] # Junk => r2.mem[0 + k] = data2[k]
  <2>1. /\ Sound(r2) /\ data2 \in Seq(Cell) /\ Len(data2) \in Nat /\ r2.len = 0 + Len(data2)
        /\ Len(r2.mem) \in Nat /\ r2.len <= Len(r2.mem)
        /\ \A k \in 1 .. Len(data2) : data2[k] # Junk => r2.mem[0 + k] = data2[k]
    BY ShowsFacts
  <2> QED  BY <2>1, SoundFields
<1>2. CASE r.len < loc
  BY <1>2 DEF rb_extract
<1>3. CASE ~(r.len < loc)
  <2> DEFINE s == SubSeq(r2.mem, loc + 1, loc + n)
             t == SubSeq(data2, loc + 1, loc + n)
  <2>1. loc + n <= Len(r2.mem)
    BY <1>1
  <2>2. rb_extract(r, r2, loc, n) = rb_append(r, s)
    <3>1. ~(loc + n > rb_size(r2))
      BY <1>1, <2>1 DEF rb_size
    <3> QED  BY <1>3, <3>1 DEF rb_extract
  <2>3. s \in Seq(Cell) /\ Len(s) = n /\ \A k \in 1 .. n : s[k] = r2.mem[loc + k]
    BY <1>1, <2>1, Part
  <2>4. t \in Seq(Cell) /\ Len(t) = n /\ \A k \in 1 .. n : t[k] = data2[loc + k]
    BY <1>1, Part
  <2> HIDE DEF s, t
  <2>5. ASSUME NEW k \in 1 .. n, t[k] # Junk PROVE s[k] = t[k]
    <3>1. loc + k \in 1 .. Len(data2) /\ 0 + (loc + k) = loc + k
      BY <1>1
    <3> QED  BY <1>1, <2>3, <2>4, <2>5, <3>1
  <2>6. Shows(rb_append(r, s), from, data \o t)
    BY <2>3, <2>4, <2>5, AppendShows
  <2> QED  BY <1>3, <2>2, <2>6 DEF t
<1> QED  BY <1>2, <1>3

-----------------------------------------------------------------------------
(* A buffer that holds one part behind the other.                          *)
LEMMA TwoParts ==
  ASSUME NEW g, NEW a \in Seq(Cell), NEW c \in Seq(Cell),
         \A k \in 1 .. Len(a) : a[k] # Junk => g[k] = a[k],
         \A k \in 1 .. Len(c) : c[k] # Junk => g[Len(a) + k] = c[k]
  PROVE  \A k \in 1 .. Len(a \o c) : (a \o c)[k] # Junk => g[k] = (a \o c)[k]
<1>1. Len(a) \in Nat /\ Len(c) \in Nat
  BY LenProperties
<1> DEFINE x == a \o c
<1>2. /\ Len(x) = Len(a) + Len(c)
      /\ \A k \in 1 .. Len(a) : x[k] = a[k]
      /\ \A k \in 1 .. Len(c) : x[Len(a) + k] = c[k]
  BY Joined
<1> HIDE DEF x
<1>3. ASSUME NEW k \in 1 .. Len(x), x[k] # Junk PROVE g[k] = x[k]
  <2>1. CASE k \in 1 .. Len(a)
    BY <1>2, <1>3, <2>1
  <2>2. CASE ~(k \in 1 .. Len(a))
    <3>1. PICK i \in 1 .. Len(c) : k = Len(a) + i
      <4>1. k - Len(a) \in 1 .. Len(c) /\ k = Len(a) + (k - Len(a))
        BY <1>1, <1>2, <2>2
      <4> QED  BY <4>1
    <3> QED  BY <1>2, <1>3, <3>1
  <2> QED  BY <2>1, <2>2
<1> QED  BY <1>3 DEF x

LEMMA ShowsOne ==
  ASSUME NEW g, Sound(g), NEW a \in Seq(Cell), g.len = Len(a),
         \A k \in 1 .. Len(a) : a[k] # Junk => g.mem[k] = a[k]
  PROVE  Shows(g, 0, a)
<1>1. Len(a) \in Nat
  BY LenProperties
<1> QED  BY <1>1 DEF Shows

LEMMA ShowsTwo ==
  ASSUME NEW g, Sound(g), NEW a \in Seq(Cell), NEW c \in Seq(Cell),
         g.len = Len(a) + Len(c),
         \A k \in 1 .. Len(a) : a[k] # Junk => g.mem[k] = a[k],
         \A k \in 1 .. Len(c) : c[k] # Junk => g.mem[Len(a) + k] = c[k]
  PROVE  Shows(g, 0, a \o c)
<1> DEFINE x == a \o c
<1>1. x \in Seq(Cell) /\ Len(x) = Len(a) + Len(c)
  BY Joined
<1>2. \A k \in 1 .. Len(x) : x[k] # Junk => g.mem[k] = x[k]
  BY TwoParts
<1> HIDE DEF x
<1>3. Shows(g, 0, x)
  BY <1>1, <1>2, ShowsOne
<1> QED  BY <1>3 DEF x

LEMMA ShowsThree ==
  ASSUME NEW g, Sound(g), NEW a \in Seq(Cell), NEW s \in Seq(Cell), NEW c \in Seq(Cell),
         g.len = Len(a) + Len(s) + Len(c),
         \A k \in 1 .. Len(a) : a[k] # Junk => g.mem[k] = a[k],
         \A k \in 1 .. Len(s) : s[k] # Junk => g.mem[Len(a) + k] = s[k],
         \A k \in 1 .. Len(c) : c[k] # Junk => g.mem[Len(a) + Len(s) + k] = c[k]
  PROVE  Shows(g, 0, a \o s \o c)
<1> DEFINE x == a \o s
<1>1. x \in Seq(Cell) /\ Len(x) = Len(a) + Len(s)
  BY Joined
<1>2. \A k \in 1 .. Len(x) : x[k] # Junk => g.mem[k] = x[k]
  BY TwoParts
<1> HIDE DEF x
<1>3. Shows(g, 0, x \o c)
  <2>1. \A k \in 1 .. Len(c) : c[k] # Junk => g.mem[Len(x) + k] = c[k]
    BY <1>1
  <2> QED  BY <1>1, <1>2, <2>1, ShowsTwo
<1> QED  BY <1>3 DEF x

-----------------------------------------------------------------------------
(* The parts of what the first buffer is to hold.                          *)
LEMMA FirstPart ==
  ASSUME Data \in Seq(Cell), NEW n \in Nat
  PROVE  /\ First(n) \in Seq(Cell) /\ Size \in Nat
         /\ n <= Size => Len(First(n)) = n
         /\ n >= Size => Len(First(n)) = Size
         /\ Len(First(n)) \in Nat /\ Len(First(n)) <= n /\ Len(First(n)) <= Size
         /\ \A k \in 1 .. Len(First(n)) : k \in 1 .. Size /\ First(n)[k] = Data[k]
<1> DEFINE m == IF n < Size THEN n ELSE Size
           a == First(n)
<1>1. Size \in Nat
  BY LenProperties DEF Size
<1>2. m \in Nat /\ m <= Size /\ m <= n /\ (n <= Size => m = n) /\ (n >= Size => m = Size)
  BY <1>1
<1>3. a = SubSeq(Data, 1, m)
  BY DEF First
<1> HIDE DEF m
<1>4. a \in Seq(Cell) /\ Len(a) = m /\ \A k \in 1 .. m : a[k] = Data[k]
  BY <1>2, <1>3, Beginning DEF Size
<1> HIDE DEF a
<1>5. \A k \in 1 .. m : k \in 1 .. Size
  BY <1>1, <1>2
<1>6. /\ a \in Seq(Cell)
      /\ n <= Size => Len(a) = n
      /\ n >= Size => Len(a) = Size
      /\ Len(a) \in Nat /\ Len(a) <= n /\ Len(a) <= Size
      /\ \A k \in 1 .. Len(a) : k \in 1 .. Size /\ a[k] = Data[k]
  BY <1>2, <1>4, <1>5
<1> QED  BY <1>1, <1>6 DEF a

LEMMA AfterPart ==
  ASSUME Data \in Seq(Cell), NEW n \in Nat
  PROVE  /\ After(n) \in Seq(Cell) /\ Len(After(n)) \in Nat
         /\ n <= Size => Len(After(n)) = Size - n
         /\ n >= Size => Len(After(n)) = 0
         /\ \A k \in 1 .. Len(After(n)) : n + k \in 1 .. Size /\ After(n)[k] = Data[n + k]
<1>1. Size \in Nat
  BY LenProperties DEF Size
<1> DEFINE c == After(n)
<1>2. CASE n <= Size
  <2>1. c \in Seq(Cell) /\ Len(c) = Size - n /\ \A k \in 1 .. (Size - n) : c[k] = Data[n + k]
    BY <1>1, <1>2, Ending DEF After, Size
  <2> HIDE DEF c
  <2>2. \A k \in 1 .. (Size - n) : n + k \in 1 .. Size
    BY <1>1, <1>2
  <2>3. Size - n \in Nat /\ (n >= Size => Size - n = 0)
    BY <1>1, <1>2
  <2>4. /\ c \in Seq(Cell) /\ Len(c) \in Nat
        /\ n <= Size => Len(c) = Size - n
        /\ n >= Size => Len(c) = 0
        /\ \A k \in 1 .. Len(c) : n + k \in 1 .. Size /\ c[k] = Data[n + k]
    BY <2>1, <2>2, <2>3
  <2> QED  BY <2>4 DEF c
<1>3. CASE ~(n <= Size)
  <2>1. c = << >>
    <3>1. n + 1 \in Int /\ Size \in Int /\ Size < n + 1
      BY <1>1, <1>3
    <3> QED  BY <3>1, SubSeqEmpty DEF After
  <2>2. c \in Seq(Cell) /\ Len(c) = 0
    BY <2>1, EmptySeq
  <2> HIDE DEF c
  <2>3. /\ c \in Seq(Cell) /\ Len(c) \in Nat
        /\ n <= Size => Len(c) = Size - n
        /\ n >= Size => Len(c) = 0
        /\ \A k \in 1 .. Len(c) : n + k \in 1 .. Size /\ c[k] = Data[n + k]
    BY <1>3, <2>2
  <2> QED  BY <2>3 DEF c
<1> QED  BY <1>2, <1>3

LEMMA PaddedPart ==
  ASSUME Data \in Seq(Cell), NEW n \in Nat
  PROVE  /\ Padded(n) \in Seq(Cell) /\ Len(Padded(n)) = n
         /\ \A k \in 1 .. n : Padded(n)[k] # Junk => k \in 1 .. Size /\ Padded(n)[k] = Data[k]
<1> DEFINE a == First(n)
           u == Unwritten(n - Len(a))
           x == a \o u
<1>1. /\ a \in Seq(Cell) /\ Len(a) \in Nat /\ Len(a) <= n
      /\ \A k \in 1 .. Len(a) : k \in 1 .. Size /\ a[k] = Data[k]
  BY FirstPart
<1> HIDE DEF a
<1>2. n - Len(a) \in Nat
  BY <1>1
<1>3. u \in Seq(Cell) /\ Len(u) = n - Len(a) /\ \A k \in 1 .. (n - Len(a)) : u[k] = Junk
  <2> DEFINE m == n - Len(a)
  <2>1. m \in Nat
    BY <1>2
  <2> HIDE DEF m
  <2>2. Unwritten(m) \in Seq(Cell) /\ Len(Unwritten(m)) = m
        /\ \A k \in 1 .. m : Unwritten(m)[k] = Junk
    BY <2>1, Cells, Filled, UnwrittenFilled
  <2> QED  BY <2>2 DEF m
<1> HIDE DEF u
<1>4. /\ x \in Seq(Cell) /\ Len(x) = Len(a) + Len(u)
      /\ \A k \in 1 .. Len(a) : x[k] = a[k]
      /\ \A k \in 1 .. Len(u) : x[Len(a) + k] = u[k]
  BY <1>1, <1>3, Joined
<1>5. Padded(n) = x
  BY DEF Padded, a, u
<1> HIDE DEF x
<1>6. Len(x) = n
  BY <1>1, <1>3, <1>4
<1>7. ASSUME NEW k \in 1 .. n, x[k] # Junk PROVE k \in 1 .. Size /\ x[k] = Data[k]
  <2>1. k \in 1 .. Len(a)
    <3> SUFFICES ASSUME ~(k \in 1 .. Len(a)) PROVE FALSE
      OBVIOUS
    <3>1. k - Len(a) \in 1 .. Len(u) /\ k = Len(a) + (k - Len(a))
      BY <1>1, <1>3
    <3>2. x[k] = u[k - Len(a)]
      BY <1>4, <3>1
    <3> QED  BY <1>3, <1>7, <3>1, <3>2
  <2> QED  BY <1>1, <1>4, <2>1
<1> QED  BY <1>4, <1>5, <1>6, <1>7

-----------------------------------------------------------------------------
(* The functions that move, drop or overwrite, on the first buffer.        *)
LEMMA HeldFacts ==
  ASSUME Shows(rb, 0, Data)
  PROVE  /\ Sound(rb) /\ Data \in Seq(Cell) /\ Size \in Nat /\ rb.len = Size
         /\ Len(rb.mem) \in Nat /\ Size <= Len(rb.mem)
         /\ \A k \in 1 .. Size : k \in 1 .. Len(rb.mem)
         /\ \A k \in 1 .. Size : Data[k] # Junk => rb.mem[k] = Data[k]
<1>1. /\ Sound(rb) /\ Data \in Seq(Cell) /\ Size \in Nat /\ rb.len = 0 + Size
      /\ Len(rb.mem) \in Nat /\ rb.len <= Len(rb.mem)
      /\ \A k \in 1 .. Size : 0 + k \in 1 .. Len(rb.mem)
      /\ \A k \in 1 .. Size : Data[k] # Junk => rb.mem[0 + k] = Data[k]
  BY ShowsFacts DEF Size
<1> HIDE DEF Size, Data, rb
<1> QED  BY <1>1

LEMMA PopShows ==
  ASSUME Shows(rb, 0, Data), NEW n \in 0 .. Size
  PROVE  Shows(rb_pop(rb, n), 0, First(Size - n))
<1>1. /\ Sound(rb) /\ Data \in Seq(Cell) /\ Size \in Nat /\ rb.len = Size
      /\ Len(rb.mem) \in Nat /\ Size <= Len(rb.mem)
      /\ \A k \in 1 .. Size : Data[k] # Junk => rb.mem[k] = Data[k]
  BY HeldFacts
<1> HIDE DEF Size, Data, rb
<1>2. n \in Nat /\ n <= Size /\ Size - n \in Nat /\ Size - n <= Size
      /\ rb.len + (-n) = Size - n /\ Size - n \in 0 .. Len(rb.mem) /\ -n \in Int
  BY <1>1
<1> DEFINE g == Longer(rb, -n)
           a == First(Size - n)
<1>3. rb_pop(rb, n) = g
  BY <1>1, <1>2 DEF rb_pop
<1>4. Sound(g) /\ g.mem = rb.mem /\ g.len = Size - n
  BY <1>1, <1>2, Lengthened
<1>5. /\ a \in Seq(Cell) /\ Len(a) = Size - n
      /\ \A k \in 1 .. Len(a) : k \in 1 .. Size /\ a[k] = Data[k]
  BY <1>1, <1>2, FirstPart
<1> HIDE DEF g, a
<1>6. Shows(g, 0, a)
  BY <1>1, <1>4, <1>5, ShowsOne
<1> QED  BY <1>3, <1>6 DEF a

LEMMA ResizeShows ==
  ASSUME Shows(rb, 0, Data), NEW n \in Nat, NEW preserve \in BOOLEAN
  PROVE  Shows(rb_resize(rb, n, preserve), 0, IF preserve THEN Padded(n) ELSE Unwritten(n))
<1>1. /\ Sound(rb) /\ Data \in Seq(Cell)
      /\ \A k \in 1 .. Size : k \in 1 .. Len(rb.mem)
      /\ \A k \in 1 .. Size : Data[k] # Junk => rb.mem[k] = Data[k]
  BY HeldFacts
<1> DEFINE g == rb_resize(rb, n, preserve)
<1>2. /\ Sound(g) /\ g.len = n
      /\ preserve => \A k \in 1 .. Len(rb.mem) : g.mem[k] = rb.mem[k]
  BY <1>1, Resized
<1> HIDE DEF g, Size, rb
<1>3. CASE preserve
  <2> DEFINE a == Padded(n)
  <2>1. /\ a \in Seq(Cell) /\ Len(a) = n
        /\ \A k \in 1 .. n : a[k] # Junk => k \in 1 .. Size /\ a[k] = Data[k]
    BY <1>1, PaddedPart
  <2> HIDE DEF a, Data
  <2>2. Shows(g, 0, a)
    BY <1>1, <1>2, <1>3, <2>1, ShowsOne
  <2> QED  BY <1>3, <2>2 DEF a, g
<1>4. CASE ~preserve
  <2> DEFINE a == Unwritten(n)
  <2>1. a \in Seq(Cell) /\ Len(a) = n /\ \A k \in 1 .. n : a[k] = Junk
    BY Cells, Filled, UnwrittenFilled
  <2> HIDE DEF a
  <2>2. Shows(g, 0, a)
    BY <1>2, <2>1, ShowsOne
  <2> QED  BY <1>4, <2>2 DEF a, g
<1> QED  BY <1>3, <1>4

LEMMA ResizeFillShows ==
  ASSUME Shows(rb, 0, Data), NEW n \in Nat, NEW b \in Byte
  PROVE  Shows(rb_resize_fill(rb, n, b), 0, First(n) \o Fill(b, n - Len(First(n))))
<1>1. /\ Sound(rb) /\ Data \in Seq(Cell) /\ Size \in Nat /\ rb.len = Size
      /\ \A k \in 1 .. Size : k \in 1 .. Len(rb.mem)
      /\ \A k \in 1 .. Size : Data[k] # Junk => rb.mem[k] = Data[k]
  BY HeldFacts
<1> DEFINE big == rb_makesize(rb, n, TRUE)
           a == First(n)
           f == Fill(b, n - Len(First(n)))
<1>2. /\ Sound(big) /\ big.len = Size /\ Len(big.mem) \in Nat /\ n <= Len(big.mem)
      /\ \A k \in 1 .. Len(rb.mem) : big.mem[k] = rb.mem[k]
  BY <1>1, Sized
<1>3. /\ a \in Seq(Cell) /\ Len(a) \in Nat /\ Len(a) <= n
      /\ n <= Size => Len(a) = n
      /\ n >= Size => Len(a) = Size
      /\ \A k \in 1 .. Len(a) : k \in 1 .. Size /\ a[k] = Data[k]
  BY <1>1, FirstPart
<1>4. f \in Seq(Cell) /\ Len(f) = n - Len(a) /\ \A k \in 1 .. Len(f) : f[k] = b
  <2>1. n - Len(a) \in Nat
    BY <1>3
  <2> HIDE DEF a
  <2> QED  BY <2>1, Cells, Filled DEF a
<1> DEFINE set == IF n > rb.len THEN memcpy(big, rb.len, Fill(b, n - rb.len)) ELSE big
           g == [set EXCEPT !.len = n]
<1>5. rb_resize_fill(rb, n, b) = g
  BY DEF rb_resize_fill
<1>6. /\ Sound(set) /\ n <= Len(set.mem)
      /\ \A k \in 1 .. Len(a) : set.mem[k] = rb.mem[k]
      /\ \A k \in 1 .. Len(f) : set.mem[Len(a) + k] = f[k]
  <2> HIDE DEF a, f, big, Size, Data, rb
  <2>1. CASE n > Size
    <3>1. Len(a) = Size /\ n - rb.len = n - Len(a) /\ n - rb.len \in Nat
      BY <1>1, <1>3, <2>1
    <3>2. set = memcpy(big, Size, f)
      BY <1>1, <2>1, <3>1 DEF f, a
    <3>3. Size + Len(f) = n /\ Size + Len(f) <= Len(big.mem)
      BY <1>1, <1>2, <1>4, <3>1
    <3> HIDE DEF set
    <3> DEFINE c == memcpy(big, Size, f)
    <3>4. /\ Sound(c) /\ Len(c.mem) = Len(big.mem)
          /\ \A k \in 1 .. Len(f) : c.mem[Size + k] = f[k]
          /\ \A k \in 1 .. Len(big.mem) : (k <= Size \/ k > Size + Len(f)) => c.mem[k] = big.mem[k]
      BY <1>1, <1>2, <1>4, <3>3, Copied
    <3> HIDE DEF c
    <3>5. \A k \in 1 .. Len(a) : k \in 1 .. Len(big.mem) /\ k <= Size /\ k \in 1 .. Len(rb.mem)
      BY <1>1, <1>2, <1>3, <2>1
    <3>6. \A k \in 1 .. Len(a) : c.mem[k] = rb.mem[k]
      BY <1>2, <3>4, <3>5
    <3> QED  BY <1>2, <3>1, <3>2, <3>4, <3>6 DEF c
  <2>2. CASE n <= Size
    <3>1. set = big
      BY <1>1, <2>2
    <3>2. \A k \in 1 .. Len(a) : k \in 1 .. Len(rb.mem)
      BY <1>1, <1>3
    <3>3. Len(f) = 0
      BY <1>3, <1>4, <2>2
    <3> HIDE DEF set
    <3> QED  BY <1>2, <3>1, <3>2, <3>3
  <2> QED  BY <1>1, <2>1, <2>2
<1> HIDE DEF a, f, big, set
<1>7. Sound(g) /\ g.mem = set.mem /\ g.len = n
  BY <1>6, WithLen
<1> HIDE DEF g
<1>8. Shows(g, 0, a \o f)
  <2>1. n = Len(a) + Len(f)
    BY <1>3, <1>4
  <2>2. \A k \in 1 .. Len(a) : a[k] # Junk => g.mem[k] = a[k]
    BY <1>1, <1>3, <1>6, <1>7
  <2> QED  BY <1>3, <1>4, <1>6, <1>7, <2>1, <2>2, ShowsTwo
<1> QED  BY <1>5, <1>8 DEF a, f

LEMMA MemsetShows ==
  ASSUME Shows(rb, 0, Data), NEW loc \in Nat, NEW n \in Nat, NEW b \in Byte
  PROVE  /\ Shows(rb_memset(rb, b, loc, n), 0, Padded(loc) \o Fill(b, n) \o After(loc + n))
         /\ Ends(rb) /\ loc + n <= Size => Ends(rb_memset(rb, b, loc, n))
<1>1. /\ Sound(rb) /\ Data \in Seq(Cell) /\ Size \in Nat /\ rb.len = Size
      /\ Len(rb.mem) \in Nat /\ Size <= Len(rb.mem)
      /\ \A k \in 1 .. Size : k \in 1 .. Len(rb.mem)
      /\ \A k \in 1 .. Size : Data[k] # Junk => rb.mem[k] = Data[k]
  BY HeldFacts
<1> DEFINE big == IF loc + n > rb.len THEN rb_resize(rb, loc + n, TRUE) ELSE rb
           a == Padded(loc)
           f == Fill(b, n)
           c == After(loc + n)
           g == memcpy(big, loc, f)
<1>2. /\ Sound(big) /\ Len(big.mem) \in Nat /\ Len(rb.mem) <= Len(big.mem)
      /\ loc + n <= Len(big.mem)
      /\ big.len = IF loc + n > Size THEN loc + n ELSE Size
      /\ \A k \in 1 .. Len(rb.mem) : big.mem[k] = rb.mem[k]
  <2> HIDE DEF rb, Size
  <2>1. CASE loc + n > Size
    <3>1. big = rb_resize(rb, loc + n, TRUE)
      BY <1>1, <2>1
    <3>2. loc + n \in Nat
      OBVIOUS
    <3> HIDE DEF big
    <3> QED  BY <1>1, <2>1, <3>1, <3>2, Resized
  <2>2. CASE ~(loc + n > Size)
    <3>1. big = rb
      BY <1>1, <2>2
    <3> QED  BY <1>1, <2>2, <3>1
  <2> QED  BY <2>1, <2>2
<1>3. /\ a \in Seq(Cell) /\ Len(a) = loc
      /\ \A k \in 1 .. loc : a[k] # Junk => k \in 1 .. Size /\ a[k] = Data[k]
  BY <1>1, PaddedPart
<1>4. f \in Seq(Cell) /\ Len(f) = n /\ \A k \in 1 .. n : f[k] = b
  BY Cells, Filled
<1>5. /\ c \in Seq(Cell) /\ Len(c) \in Nat
      /\ loc + n <= Size => Len(c) = Size - (loc + n)
      /\ loc + n >= Size => Len(c) = 0
      /\ \A k \in 1 .. Len(c) : (loc + n) + k \in 1 .. Size /\ c[k] = Data[(loc + n) + k]
  <2>1. loc + n \in Nat
    OBVIOUS
  <2> QED  BY <1>1, <2>1, AfterPart
<1>6. rb_memset(rb, b, loc, n) = g
  BY DEF rb_memset
<1> HIDE DEF a, f, big, c, Size, Data, rb
<1>7. /\ Sound(g) /\ g.len = big.len /\ Len(g.mem) = Len(big.mem)
      /\ \A k \in 1 .. Len(f) : g.mem[loc + k] = f[k]
      /\ \A k \in 1 .. Len(big.mem) : (k <= loc \/ k > loc + Len(f)) => g.mem[k] = big.mem[k]
  <2>1. loc + Len(f) <= Len(big.mem)
    BY <1>2, <1>4
  <2> QED  BY <1>2, <1>4, <2>1, Copied
<1> HIDE DEF g
<1>8. g.len = Len(a) + Len(f) + Len(c)
  <2>1. g.len = IF loc + n > Size THEN loc + n ELSE Size
    BY <1>2, <1>7
  <2>2. Len(a) = loc /\ Len(f) = n
    BY <1>3, <1>4
  <2>3. Len(c) = IF loc + n > Size THEN 0 ELSE Size - (loc + n)
    BY <1>1, <1>5
  <2>4. (loc + n) + (IF loc + n > Size THEN 0 ELSE Size - (loc + n))
          = IF loc + n > Size THEN loc + n ELSE Size
    BY <1>1
  <2> QED  BY <2>1, <2>2, <2>3, <2>4
<1>9. \A k \in 1 .. Len(rb.mem) : (k <= loc \/ k > loc + n) => g.mem[k] = rb.mem[k]
  <2>1. \A k \in 1 .. Len(rb.mem) : k \in 1 .. Len(big.mem)
    BY <1>1, <1>2
  <2> QED  BY <1>2, <1>4, <1>7, <2>1
<1>10. ASSUME NEW k \in 1 .. Len(a), a[k] # Junk PROVE g.mem[k] = a[k]
  <2>1. k \in 1 .. Size /\ a[k] = Data[k] /\ k <= loc
    BY <1>3, <1>10
  <2> QED  BY <1>1, <1>9, <1>10, <2>1
<1>11. \A k \in 1 .. Len(f) : g.mem[Len(a) + k] = f[k]
  BY <1>3, <1>7
<1>12. ASSUME NEW k \in 1 .. Len(c), c[k] # Junk PROVE g.mem[Len(a) + Len(f) + k] = c[k]
  <2>1. (loc + n) + k \in 1 .. Size /\ c[k] = Data[(loc + n) + k] /\ (loc + n) + k > loc + n
    BY <1>5
  <2>2. Len(a) + Len(f) + k = (loc + n) + k
    BY <1>3, <1>4
  <2> QED  BY <1>1, <1>9, <1>12, <2>1, <2>2
<1>13. Shows(g, 0, a \o f \o c)
  BY <1>3, <1>4, <1>5, <1>7, <1>8, <1>10, <1>11, <1>12, ShowsThree
<1>14. ASSUME Ends(rb), loc + n <= Size PROVE Ends(g)
  <2>1. Size < Len(rb.mem) /\ rb.mem[Size + 1] = NUL
    BY <1>1, <1>14 DEF Ends
  <2>2. g.len = Size /\ Size + 1 \in 1 .. Len(rb.mem) /\ Size + 1 > loc + n
    BY <1>1, <1>2, <1>7, <1>14, <2>1
  <2>3. Size < Len(g.mem)
    BY <1>1, <1>2, <1>7, <2>1
  <2> QED  BY <1>9, <2>1, <2>2, <2>3 DEF Ends
<1> QED  BY <1>6, <1>13, <1>14 DEF a, f, c

(* What rb_insert makes room for: the byte past the end moves as well.     *)
LEMMA InsertInside ==
  ASSUME Shows(rb, 0, Data), NEW loc \in Nat, NEW s \in Seq(Cell), loc + Len(s) <= Size
  PROVE  /\ Shows(rb_insert(rb, loc, s), 0, Inserted(loc, s))
         /\ Ends(rb) => Ends(rb_insert(rb, loc, s))
<1>1. /\ Sound(rb) /\ Data \in Seq(Cell) /\ Size \in Nat /\ rb.len = Size
      /\ Len(rb.mem) \in Nat /\ Size <= Len(rb.mem)
      /\ \A k \in 1 .. Size : k \in 1 .. Len(rb.mem)
      /\ \A k \in 1 .. Size : Data[k] # Junk => rb.mem[k] = Data[k]
      /\ Len(s) \in Nat
  BY HeldFacts, LenProperties
<1> DEFINE n == Len(s)
           a == Padded(loc)
           c == After(loc)
           m == rb_grow(rb, n + 1)
           rest == rb.len - loc + 1
           v == memmove(m, loc + n, loc, rest)
           w == Longer(v, n)
           g == memcpy(w, loc, s)
<1>2. /\ a \in Seq(Cell) /\ Len(a) = loc
      /\ \A k \in 1 .. loc : a[k] # Junk => k \in 1 .. Size /\ a[k] = Data[k]
  BY <1>1, PaddedPart
<1>3. /\ c \in Seq(Cell) /\ Len(c) \in Nat /\ Len(c) = Size - loc
      /\ \A k \in 1 .. Len(c) : loc + k \in 1 .. Size /\ c[k] = Data[loc + k]
  <2>1. loc <= Size
    <3> HIDE DEF Size
    <3> QED  BY <1>1
  <2> QED  BY <1>1, <2>1, AfterPart
<1>4. rb_insert(rb, loc, s) = g
  <2>1. ~(loc + n > rb.len)
    <3> HIDE DEF Size, rb
    <3> QED  BY <1>1
  <2> QED  BY <2>1 DEF rb_insert, rb_insert_space
<1> HIDE DEF a, c, Size, Data, rb
<1>5. /\ Sound(m) /\ m.len = Size /\ Len(m.mem) \in Nat
      /\ Len(rb.mem) <= Len(m.mem) /\ Size + (n + 1) <= Len(m.mem)
      /\ \A k \in 1 .. Len(rb.mem) : m.mem[k] = rb.mem[k]
  <2>1. n + 1 \in Nat
    BY <1>1
  <2> QED  BY <1>1, <2>1, Grown
<1>6. /\ rest \in Nat /\ rest = Size - loc + 1 /\ n \in Nat
      /\ loc + rest = Size + 1 /\ (loc + n) + rest = Size + n + 1 /\ loc <= Size
  BY <1>1
<1> HIDE DEF m, rest, n
<1>7. /\ Sound(v) /\ v.len = Size /\ Len(v.mem) = Len(m.mem)
      /\ \A k \in 1 .. rest : v.mem[(loc + n) + k] = m.mem[loc + k]
      /\ \A k \in 1 .. Len(m.mem) : (k <= loc + n \/ k > (loc + n) + rest) => v.mem[k] = m.mem[k]
  <2>1. loc + rest <= Len(m.mem) /\ (loc + n) + rest <= Len(m.mem) /\ loc + n \in Nat
    BY <1>1, <1>5, <1>6
  <2>2. /\ Sound(m) /\ loc \in Nat /\ rest \in Nat
    BY <1>5, <1>6
  <2>3. MovesTo(v, m, loc + n, loc, rest)
    BY <2>1, <2>2, Moved
  <2> HIDE DEF v
  <2> QED  BY <1>5, <2>3 DEF MovesTo
<1> HIDE DEF v
<1>8. Sound(w) /\ w.mem = v.mem /\ w.len = Size + n
  <2>1. v.len + n \in 0 .. Len(v.mem) /\ n \in Int
    BY <1>1, <1>5, <1>6, <1>7
  <2> QED  BY <1>7, <2>1, Lengthened
<1> HIDE DEF w
<1>9. /\ Sound(g) /\ g.len = Size + n /\ Len(g.mem) = Len(m.mem)
      /\ \A k \in 1 .. n : g.mem[loc + k] = s[k]
      /\ \A k \in 1 .. Len(m.mem) : (k <= loc \/ k > loc + n) => g.mem[k] = v.mem[k]
  <2>1. loc + Len(s) <= Len(w.mem)
    BY <1>1, <1>5, <1>6, <1>7, <1>8 DEF n
  <2>2. /\ Sound(g) /\ g.len = w.len /\ Len(g.mem) = Len(w.mem)
        /\ \A k \in 1 .. Len(s) : g.mem[loc + k] = s[k]
        /\ \A k \in 1 .. Len(w.mem) : (k <= loc \/ k > loc + Len(s)) => g.mem[k] = w.mem[k]
    BY <1>8, <2>1, Copied
  <2> HIDE DEF g
  <2>3. Len(s) = n /\ Len(w.mem) = Len(m.mem)
    BY <1>7, <1>8 DEF n
  <2> QED  BY <1>8, <2>2, <2>3
<1> HIDE DEF g
(* The bytes before the location, and those behind it.                     *)
<1>10. \A k \in 1 .. loc : g.mem[k] = rb.mem[k]
  <2>1. \A k \in 1 .. loc : /\ k \in 1 .. Len(m.mem) /\ k \in 1 .. Len(rb.mem)
                            /\ k <= loc /\ k <= loc + n
    BY <1>1, <1>5, <1>6
  <2> QED  BY <1>5, <1>7, <1>9, <2>1
<1>11. \A k \in 1 .. rest : loc + k \in 1 .. Len(rb.mem) =>
         g.mem[(loc + n) + k] = rb.mem[loc + k]
  <2>1. \A k \in 1 .. rest : (loc + n) + k \in 1 .. Len(m.mem) /\ (loc + n) + k > loc + n
    BY <1>1, <1>5, <1>6
  <2> QED  BY <1>5, <1>7, <1>9, <2>1
<1>12. Shows(g, 0, a \o s \o c)
  <2>1. g.len = Len(a) + Len(s) + Len(c)
    BY <1>1, <1>2, <1>3, <1>6, <1>9 DEF n
  <2>2. ASSUME NEW k \in 1 .. Len(a), a[k] # Junk PROVE g.mem[k] = a[k]
    BY <1>1, <1>2, <1>10, <2>2
  <2>3. \A k \in 1 .. Len(s) : g.mem[Len(a) + k] = s[k]
    BY <1>2, <1>9 DEF n
  <2>4. ASSUME NEW k \in 1 .. Len(c), c[k] # Junk PROVE g.mem[Len(a) + Len(s) + k] = c[k]
    <3>1. k \in 1 .. rest /\ loc + k \in 1 .. Len(rb.mem)
      BY <1>1, <1>3, <1>6
    <3>2. c[k] = Data[loc + k] /\ loc + k \in 1 .. Size
      BY <1>3
    <3>3. g.mem[(loc + n) + k] = rb.mem[loc + k]
      BY <1>11, <3>1
    <3> QED  BY <1>1, <1>2, <2>4, <3>2, <3>3 DEF n
  <2> QED  BY <1>2, <1>3, <1>9, <2>1, <2>2, <2>3, <2>4, ShowsThree
<1>13. ASSUME Ends(rb) PROVE Ends(g)
  <2>1. Size < Len(rb.mem) /\ rb.mem[Size + 1] = NUL
    BY <1>1, <1>13 DEF Ends
  <2>2. rest \in 1 .. rest /\ loc + rest \in 1 .. Len(rb.mem)
    <3>1. Size \in Nat /\ Len(rb.mem) \in Nat
      BY <1>1
    <3>2. rest >= 1 /\ loc + rest = Size + 1
      BY <1>6, <3>1
    <3> QED  BY <1>6, <2>1, <3>1, <3>2
  <2>3. g.mem[(loc + n) + rest] = rb.mem[loc + rest]
    BY <1>11, <2>2
  <2>4. g.mem[g.len + 1] = NUL
    <3>1. g.len + 1 = (loc + n) + rest
      BY <1>1, <1>6, <1>9
    <3> QED  BY <1>6, <2>1, <2>3, <3>1, Zenon
  <2>5. g.len < Len(g.mem)
    BY <1>1, <1>5, <1>6, <1>9
  <2> QED  BY <2>4, <2>5 DEF Ends
<1> QED  BY <1>4, <1>12, <1>13 DEF a, c, Inserted

LEMMA InsertBeyond ==
  ASSUME Shows(rb, 0, Data), NEW loc \in Nat, NEW s \in Seq(Cell), loc + Len(s) > Size
  PROVE  Shows(rb_insert(rb, loc, s), 0, Padded(loc) \o s)
<1>1. /\ Sound(rb) /\ Data \in Seq(Cell) /\ Size \in Nat /\ rb.len = Size
      /\ Len(rb.mem) \in Nat /\ Size <= Len(rb.mem)
      /\ \A k \in 1 .. Size : k \in 1 .. Len(rb.mem)
      /\ \A k \in 1 .. Size : Data[k] # Junk => rb.mem[k] = Data[k]
      /\ Len(s) \in Nat
  BY HeldFacts, LenProperties
<1> DEFINE a == Padded(loc)
           big == rb_resize(rb, loc + Len(s), TRUE)
           g == memcpy(big, loc, s)
<1>2. /\ a \in Seq(Cell) /\ Len(a) = loc
      /\ \A k \in 1 .. loc : a[k] # Junk => k \in 1 .. Size /\ a[k] = Data[k]
  BY <1>1, PaddedPart
<1>3. rb_insert(rb, loc, s) = g
  <2>1. loc + Len(s) > rb.len
    <3> HIDE DEF Size, rb
    <3> QED  BY <1>1
  <2> QED  BY <2>1 DEF rb_insert, rb_insert_space
<1> HIDE DEF a, Size, Data, rb
<1>4. /\ Sound(big) /\ big.len = loc + Len(s) /\ Len(big.mem) \in Nat
      /\ Len(rb.mem) <= Len(big.mem) /\ loc + Len(s) <= Len(big.mem)
      /\ \A k \in 1 .. Len(rb.mem) : big.mem[k] = rb.mem[k]
  <2>1. loc + Len(s) \in Nat
    BY <1>1
  <2> QED  BY <1>1, <2>1, Resized
<1> HIDE DEF big
<1>5. /\ Sound(g) /\ g.len = loc + Len(s)
      /\ \A k \in 1 .. Len(s) : g.mem[loc + k] = s[k]
      /\ \A k \in 1 .. Len(big.mem) : (k <= loc \/ k > loc + Len(s)) => g.mem[k] = big.mem[k]
  BY <1>4, Copied
<1> HIDE DEF g
<1>6. ASSUME NEW k \in 1 .. Len(a), a[k] # Junk PROVE g.mem[k] = a[k]
  <2>1. k \in 1 .. Size /\ a[k] = Data[k] /\ k <= loc
    BY <1>2, <1>6
  <2>2. k \in 1 .. Len(rb.mem) /\ k \in 1 .. Len(big.mem)
    BY <1>1, <1>4, <2>1
  <2> QED  BY <1>1, <1>4, <1>5, <1>6, <2>1, <2>2
<1>7. Shows(g, 0, a \o s)
  BY <1>2, <1>5, <1>6, ShowsTwo
<1> QED  BY <1>3, <1>7 DEF a

(* Behind the end nothing is left to be moved.                             *)
LEMMA NothingBehind ==
  ASSUME Shows(rb, 0, Data), NEW loc \in Nat, NEW s \in Seq(Cell), loc >= Size,
         Shows(rb_insert(rb, loc, s), 0, Padded(loc) \o s)
  PROVE  Shows(rb_insert(rb, loc, s), 0, Inserted(loc, s))
<1> DEFINE w == Padded(loc) \o s
<1>1. Data \in Seq(Cell) /\ Size \in Nat
  BY HeldFacts
<1>2. After(loc) = << >>
  BY <1>1 DEF After
<1>3. w \in Seq(Cell)
  BY ShowsFacts
<1>4. w \o << >> = w
  <2> HIDE DEF w
  <2> QED  BY <1>3
<1> QED  BY <1>2, <1>4 DEF Inserted

LEMMA DeleteShows ==
  ASSUME Shows(rb, 0, Data), NEW loc \in 0 .. Size, NEW n \in Nat
  PROVE  /\ Shows(rb_delete(rb, loc, n), 0, First(loc) \o After(loc + n))
         /\ Ends(rb) /\ loc + n <= Size => Ends(rb_delete(rb, loc, n))
<1>1. /\ Sound(rb) /\ Data \in Seq(Cell) /\ Size \in Nat /\ rb.len = Size
      /\ Len(rb.mem) \in Nat /\ Size <= Len(rb.mem)
      /\ \A k \in 1 .. Size : k \in 1 .. Len(rb.mem)
      /\ \A k \in 1 .. Size : Data[k] # Junk => rb.mem[k] = Data[k]
  BY HeldFacts
<1>2. loc \in Nat /\ loc <= Size /\ loc + n \in Nat
  <2> HIDE DEF Size
  <2> QED  BY <1>1
<1> DEFINE a == First(loc)
           c == After(loc + n)
           short == IF loc < rb.len THEN [rb EXCEPT !.len = loc] ELSE rb
           m == rb_grow(rb, 1)
           rest == rb.len - (loc + n) + 1
           v == memmove(m, loc, loc + n, rest)
           w == Longer(v, -n)
           g == IF loc + n > rb.len THEN short ELSE w
<1>3. /\ a \in Seq(Cell) /\ Len(a) = loc
      /\ \A k \in 1 .. loc : k \in 1 .. Size /\ a[k] = Data[k]
  BY <1>1, <1>2, FirstPart
<1>4. /\ c \in Seq(Cell) /\ Len(c) \in Nat
      /\ loc + n <= Size => Len(c) = Size - (loc + n)
      /\ loc + n >= Size => Len(c) = 0
      /\ \A k \in 1 .. Len(c) : (loc + n) + k \in 1 .. Size /\ c[k] = Data[(loc + n) + k]
  BY <1>1, <1>2, AfterPart
<1>5. rb_delete(rb, loc, n) = Assert(TRUE, g)
  <2>1. loc <= rb.len
    <3> HIDE DEF Size, rb
    <3> QED  BY <1>1, <1>2
  <2> QED  BY <2>1 DEF rb_delete
<1>6. ASSUME NEW r, Sound(r) PROVE Assert(TRUE, r) = r
  <2>1. r \in [mem : Seq(Cell), len : Nat, ok : {TRUE}]
    BY <1>6 DEF Sound
  <2>2. [r EXCEPT !.ok = TRUE] = r
    BY <2>1
  <2>3. (r.ok /\ TRUE) = TRUE
    BY <2>1
  <2> QED  BY <2>2, <2>3 DEF Assert
<1> HIDE DEF a, c, Size, Data, rb
<1>7. CASE loc + n > Size
  <2>1. g = short
    BY <1>1, <1>7
  <2>2. Sound(short) /\ short.mem = rb.mem /\ short.len = loc
    <3>1. CASE loc < rb.len
      <4>1. short = [rb EXCEPT !.len = loc]
        BY <3>1
      <4>2. loc <= Len(rb.mem)
        BY <1>1, <1>2
      <4> HIDE DEF short
      <4> QED  BY <1>1, <1>2, <4>1, <4>2, WithLen
    <3>2. CASE ~(loc < rb.len)
      BY <1>1, <1>2, <3>2
    <3> QED  BY <3>1, <3>2
  <2> HIDE DEF short, g
  <2>3. Len(c) = 0 /\ ~(loc + n <= Size)
    BY <1>1, <1>2, <1>4, <1>7
  <2>4. Shows(g, 0, a \o c)
    <3>1. \A k \in 1 .. Len(a) : a[k] # Junk => g.mem[k] = a[k]
      BY <1>1, <1>3, <2>1, <2>2
    <3>2. \A k \in 1 .. Len(c) : c[k] # Junk => g.mem[Len(a) + k] = c[k]
      BY <2>3
    <3>3. g.len = Len(a) + Len(c)
      BY <1>2, <1>3, <2>1, <2>2, <2>3
    <3> QED  BY <1>3, <1>4, <2>1, <2>2, <3>1, <3>2, <3>3, ShowsTwo
  <2>5. Assert(TRUE, g) = g
    BY <1>6, <2>1, <2>2
  <2> QED  BY <1>5, <2>3, <2>4, <2>5 DEF a, c
<1>8. CASE loc + n <= Size
  <2>1. g = w
    BY <1>1, <1>2, <1>8
  <2>2. /\ Sound(m) /\ m.len = Size /\ Len(m.mem) \in Nat
        /\ Len(rb.mem) <= Len(m.mem) /\ Size + 1 <= Len(m.mem)
        /\ \A k \in 1 .. Len(rb.mem) : m.mem[k] = rb.mem[k]
    BY <1>1, Grown
  <2>3. /\ rest \in Nat /\ rest = Size - (loc + n) + 1
        /\ (loc + n) + rest = Size + 1 /\ loc + rest = Size - n + 1
        /\ Size - n \in Nat /\ Size - n <= Size
    BY <1>1, <1>2, <1>8
  <2> HIDE DEF g, m, rest
  <2>4. /\ Sound(v) /\ v.len = Size /\ Len(v.mem) = Len(m.mem)
        /\ \A k \in 1 .. rest : v.mem[loc + k] = m.mem[(loc + n) + k]
        /\ \A k \in 1 .. Len(m.mem) : (k <= loc \/ k > loc + rest) => v.mem[k] = m.mem[k]
    <3>1. /\ Sound(m) /\ loc \in Nat /\ loc + n \in Nat /\ rest \in Nat
          /\ (loc + n) + rest <= Len(m.mem) /\ loc + rest <= Len(m.mem)
      BY <1>1, <1>2, <2>2, <2>3
    <3>2. MovesTo(v, m, loc, loc + n, rest)
      BY <3>1, Moved
    <3> HIDE DEF v
    <3> QED  BY <2>2, <3>2 DEF MovesTo
  <2> HIDE DEF v
  <2>5. Sound(w) /\ w.mem = v.mem /\ w.len = Size - n
    <3>1. v.len + (-n) = Size - n /\ v.len + (-n) \in 0 .. Len(v.mem) /\ -n \in Int
      BY <1>1, <2>2, <2>3, <2>4
    <3> QED  BY <2>4, <3>1, Lengthened
  <2> HIDE DEF w
  <2>6. \A k \in 1 .. loc : g.mem[k] = rb.mem[k]
    <3>1. \A k \in 1 .. loc : k \in 1 .. Len(m.mem) /\ k \in 1 .. Len(rb.mem) /\ k <= loc
      BY <1>1, <1>2, <2>2
    <3> QED  BY <2>1, <2>2, <2>4, <2>5, <3>1
  <2>7. \A k \in 1 .. rest : (loc + n) + k \in 1 .. Len(rb.mem) =>
          g.mem[loc + k] = rb.mem[(loc + n) + k]
    BY <2>1, <2>2, <2>4, <2>5
  <2>8. Shows(g, 0, a \o c)
    <3>1. ASSUME NEW k \in 1 .. Len(a), a[k] # Junk PROVE g.mem[k] = a[k]
      BY <1>1, <1>3, <2>6, <3>1
    <3>2. ASSUME NEW k \in 1 .. Len(c), c[k] # Junk PROVE g.mem[Len(a) + k] = c[k]
      <4>1. Len(c) = Size - (loc + n)
        BY <1>4, <1>8
      <4>2. k \in 1 .. rest
        BY <1>1, <1>2, <2>3, <4>1
      <4>3. (loc + n) + k \in 1 .. Size /\ c[k] = Data[(loc + n) + k]
        BY <1>4
      <4>4. g.mem[loc + k] = rb.mem[(loc + n) + k]
        BY <1>1, <2>7, <4>2, <4>3
      <4> QED  BY <1>1, <1>3, <3>2, <4>3, <4>4
    <3>3. g.len = Len(a) + Len(c)
      BY <1>1, <1>2, <1>3, <1>4, <1>8, <2>1, <2>5
    <3> QED  BY <1>3, <1>4, <2>1, <2>5, <3>1, <3>2, <3>3, ShowsTwo
  <2>9. ASSUME Ends(rb) PROVE Ends(g)
    <3>1. Size < Len(rb.mem) /\ rb.mem[Size + 1] = NUL
      BY <1>1, <2>9 DEF Ends
    <3>2. rest \in 1 .. rest /\ (loc + n) + rest \in 1 .. Len(rb.mem)
      <4>1. rest >= 1
        BY <1>1, <1>2, <1>8, <2>3
      <4>2. (loc + n) + rest \in 1 .. Len(rb.mem)
        BY <1>1, <2>3, <3>1
      <4> QED  BY <2>3, <4>1, <4>2
    <3>3. g.mem[loc + rest] = rb.mem[(loc + n) + rest]
      BY <2>7, <3>2
    <3>4. g.mem[g.len + 1] = NUL
      BY <2>1, <2>3, <2>5, <3>1, <3>3
    <3>5. g.len < Len(g.mem)
      BY <1>1, <2>1, <2>2, <2>3, <2>4, <2>5
    <3> QED  BY <3>4, <3>5 DEF Ends
  <2>10. Assert(TRUE, g) = g
    BY <1>6, <2>1, <2>5
  <2> QED  BY <1>5, <2>8, <2>9, <2>10 DEF a, c
<1> QED  BY <1>1, <1>2, <1>7, <1>8

-----------------------------------------------------------------------------
(* The fifo.                                                               *)
Pends(f, data) ==
  /\ f = [rb |-> f.rb, offset |-> f.offset]
  /\ Shows(f.rb, f.offset, data)
  /\ f.offset > 0 => f.offset < f.rb.len

LEMMA DiscardPends ==
  ASSUME NEW f, NEW data, Pends(f, data)
  PROVE  Pends(fifo_discard(f), << >>)
<1>1. Shows(f.rb, f.offset, data)
  BY DEF Pends
<1>2. Sound(f.rb) /\ Len(f.rb.mem) \in Nat
  BY <1>1, ShowsFacts
<1> DEFINE g == [f.rb EXCEPT !.len = 0]
<1>3. Sound(g) /\ g.len = 0
  <2>1. 0 <= Len(f.rb.mem) /\ 0 \in Nat
    BY <1>2
  <2> QED  BY <1>2, <2>1, WithLen
<1>4. fifo_discard(f) = [rb |-> g, offset |-> 0]
  BY DEF fifo_discard
<1> HIDE DEF g
<1>5. Shows(g, 0, << >>)
  <2> DEFINE e == << >>
  <2>1. e \in Seq(Cell) /\ Len(e) = 0
    BY EmptySeq
  <2> HIDE DEF e
  <2>2. g.len = Len(e) /\ \A k \in 1 .. Len(e) : e[k] # Junk => g.mem[k] = e[k]
    BY <1>3, <2>1
  <2>3. Shows(g, 0, e)
    BY <1>3, <2>1, <2>2, ShowsOne
  <2> QED  BY <2>3 DEF e
<1> QED  BY <1>4, <1>5 DEF Pends

LEMMA DequeuePends ==
  ASSUME Pends(fifo, Data), NEW n \in Nat
  PROVE  Pends(fifo_dequeue(fifo, n), IF n <= Size THEN After(n) ELSE Data)
<1> DEFINE o == fifo.offset
<1>1. /\ Sound(rb) /\ o \in Nat /\ Data \in Seq(Cell) /\ Size \in Nat /\ rb.len = o + Size
      /\ \A k \in 1 .. Size : Data[k] # Junk => rb.mem[o + k] = Data[k]
  <2>1. Shows(rb, o, Data)
    BY DEF Pends, rb
  <2> HIDE DEF o
  <2> QED  BY <2>1, ShowsFacts DEF Size
<1>2. fifo_len(fifo) = Size
  <2>1. fifo_len(fifo) = rb.len - o
    BY DEF fifo_len, rb
  <2> HIDE DEF o
  <2> QED  BY <1>1, <2>1
<1>3. CASE n > Size
  <2>1. fifo_dequeue(fifo, n) = fifo
    BY <1>2, <1>3 DEF fifo_dequeue
  <2>2. ~(n <= Size)
    <3> HIDE DEF Size
    <3> QED  BY <1>1, <1>3
  <2> QED  BY <2>1, <2>2
<1>4. CASE n = Size
  <2>1. ~(n > Size) /\ n <= Size
    <3> HIDE DEF Size
    <3> QED  BY <1>1, <1>4
  <2>2. fifo_dequeue(fifo, n) = fifo_discard(fifo)
    BY <1>2, <1>4, <2>1 DEF fifo_dequeue
  <2>3. After(n) = << >>
    <3>1. n + 1 \in Int /\ Size \in Int /\ Size < n + 1
      <4> HIDE DEF Size
      <4> QED  BY <1>1, <1>4
    <3> QED  BY <3>1, SubSeqEmpty DEF After
  <2> QED  BY <2>1, <2>2, <2>3, DiscardPends
<1>5. CASE n < Size
  <2>1. ~(n > Size) /\ n <= Size /\ n # Size
    <3> HIDE DEF Size
    <3> QED  BY <1>1, <1>5
  <2> DEFINE f == [fifo EXCEPT !.offset = o + n]
             c == After(n)
  <2>2. fifo_dequeue(fifo, n) = f
    BY <1>2, <2>1 DEF fifo_dequeue
  <2>3. /\ c \in Seq(Cell) /\ Len(c) = Size - n
        /\ \A k \in 1 .. Len(c) : n + k \in 1 .. Size /\ c[k] = Data[n + k]
    BY <1>1, <2>1, AfterPart
  <2>4. f = [rb |-> rb, offset |-> o + n]
    <3>1. fifo = [rb |-> rb, offset |-> o]
      BY DEF Pends, rb
    <3> HIDE DEF o
    <3> QED  BY <3>1
  <2> HIDE DEF f, c, Size, Data, rb, o
  <2>5. o + n \in Nat /\ rb.len = (o + n) + Len(c) /\ o + n < rb.len
    BY <1>1, <1>5, <2>3
  <2>6. ASSUME NEW k \in 1 .. Len(c), c[k] # Junk PROVE rb.mem[(o + n) + k] = c[k]
    <3>1. (o + n) + k = o + (n + k)
      BY <1>1
    <3> QED  BY <1>1, <2>3, <2>6, <3>1
  <2>7. Shows(rb, o + n, c)
    BY <1>1, <2>3, <2>5, <2>6 DEF Shows
  <2>8. f.rb = rb /\ f.offset = o + n
    BY <2>4
  <2>9. Pends(f, c)
    BY <2>4, <2>5, <2>7, <2>8 DEF Pends
  <2> QED  BY <2>1, <2>2, <2>9 DEF c
<1> QED
  <2> HIDE DEF Size
  <2> QED  BY <1>1, <1>3, <1>4, <1>5

(* What is pending is moved to the front.                                  *)
LEMMA CompactedShows ==
  ASSUME NEW f, NEW data, Pends(f, data)
  PROVE  Compacted(f) = [rb |-> Compacted(f).rb, offset |-> 0] /\ Shows(Compacted(f).rb, 0, data)
<1> DEFINE o == f.offset
           r == f.rb
           n == fifo_len(f)
           v == memmove(r, 0, o, n)
           g == Longer(v, -o)
<1>1. /\ Sound(r) /\ o \in Nat /\ data \in Seq(Cell) /\ Len(data) \in Nat
      /\ r.len = o + Len(data) /\ Len(r.mem) \in Nat /\ r.len <= Len(r.mem)
      /\ \A k \in 1 .. Len(data) : data[k] # Junk => r.mem[o + k] = data[k]
  BY ShowsFacts DEF Pends
<1>2. Compacted(f) = [rb |-> g, offset |-> 0]
  BY DEF Compacted
<1>3. n = Len(data)
  <2>1. n = r.len - o
    BY DEF fifo_len
  <2> HIDE DEF n, r, o
  <2> QED  BY <1>1, <2>1
<1> HIDE DEF n, r, o
<1>4. /\ Sound(v) /\ v.len = r.len /\ Len(v.mem) = Len(r.mem)
      /\ \A k \in 1 .. n : v.mem[0 + k] = r.mem[o + k]
  <2>1. o + n <= Len(r.mem) /\ 0 + n <= Len(r.mem) /\ n \in Nat /\ 0 \in Nat
    BY <1>1, <1>3
  <2>2. MovesTo(v, r, 0, o, n)
    BY <1>1, <2>1, Moved
  <2> HIDE DEF v
  <2> QED  BY <2>2 DEF MovesTo
<1> HIDE DEF v
<1>5. Sound(g) /\ g.mem = v.mem /\ g.len = Len(data)
  <2>1. v.len + (-o) = Len(data) /\ v.len + (-o) \in 0 .. Len(v.mem) /\ -o \in Int
    BY <1>1, <1>4
  <2> QED  BY <1>4, <2>1, Lengthened
<1> HIDE DEF g
<1>6. Shows(g, 0, data)
  <2>1. \A k \in 1 .. Len(data) : data[k] # Junk => g.mem[k] = data[k]
    BY <1>1, <1>3, <1>4, <1>5
  <2> QED  BY <1>1, <1>5, <2>1, ShowsOne
<1> QED  BY <1>2, <1>6

LEMMA EnqueuePends ==
  ASSUME NEW f, NEW data, Pends(f, data), NEW s \in Seq(Cell)
  PROVE  Pends(fifo_append(f, s), data \o s)
<1> DEFINE moves == f.offset # 0 /\ Len(s) >= rb_size(f.rb) - f.rb.len
           g == IF moves THEN Compacted(f) ELSE f
           h == [g EXCEPT !.rb = rb_append(g.rb, s)]
<1>1. fifo_append(f, s) = h
  BY DEF fifo_append
<1>2. g = [rb |-> g.rb, offset |-> g.offset] /\ Shows(g.rb, g.offset, data)
      /\ (g.offset > 0 => g.offset < g.rb.len)
  <2>1. CASE moves
    <3>1. g = Compacted(f)
      BY <2>1
    <3> HIDE DEF g, moves
    <3>2. g = [rb |-> g.rb, offset |-> 0] /\ Shows(g.rb, 0, data)
      BY <3>1, CompactedShows
    <3>3. g.offset = 0
      BY <3>2
    <3> QED  BY <3>2, <3>3
  <2>2. CASE ~moves
    <3>1. g = f
      BY <2>2
    <3> HIDE DEF g, moves
    <3> QED  BY <3>1 DEF Pends
  <2> QED  BY <2>1, <2>2
<1> HIDE DEF g
<1>3. h = [rb |-> rb_append(g.rb, s), offset |-> g.offset]
  BY <1>2
<1> HIDE DEF h
<1>4. h.rb = rb_append(g.rb, s) /\ h.offset = g.offset
  BY <1>3
<1>5. Shows(h.rb, h.offset, data \o s)
  BY <1>2, <1>4, AppendSame
<1>6. h.offset > 0 => h.offset < h.rb.len
  <2>1. /\ g.offset \in Nat /\ g.rb.len = g.offset + Len(data) /\ Len(data) \in Nat
    BY <1>2, ShowsFacts
  <2>2. h.rb.len = h.offset + Len(data \o s) /\ data \in Seq(Cell)
    <3>1. data \in Seq(Cell)
      BY <1>2, ShowsFacts
    <3>2. h.rb.len = h.offset + Len(data \o s)
      BY <1>5 DEF Shows
    <3> QED  BY <3>1, <3>2
  <2>3. Len(data \o s) = Len(data) + Len(s) /\ Len(s) \in Nat
    BY <2>2, Joined, LenProperties
  <2> QED  BY <1>2, <1>4, <2>1, <2>2, <2>3
<1> QED  BY <1>1, <1>3, <1>4, <1>5, <1>6 DEF Pends

-----------------------------------------------------------------------------
(* What the two buffers hold is what the calls promised, and there is      *)
(* nothing else that a call relies on.                                     *)
Promise == [data : Seq(Cell), nul : BOOLEAN]

BInv ==
  /\ want \in Promise /\ want2 \in Promise
  /\ Pends(fifo, Data) /\ (want.nul => Ends(rb))
  /\ Shows(rb2, 0, want2.data) /\ (want2.nul => Ends(rb2))
  /\ rb_size(rb) + rb_size(rb2) <= MaxMemory

LEMMA BlankShows == Shows(RB_BLANK, 0, << >>) /\ RB_BLANK.mem = << >>
<1> DEFINE e == << >>
<1>1. e \in Seq(Cell) /\ Len(e) = 0
  BY EmptySeq
<1>2. /\ RB_BLANK \in [mem : Seq(Cell), len : Nat, ok : {TRUE}]
      /\ RB_BLANK.mem = e /\ RB_BLANK.len = 0
  BY <1>1 DEF RB_BLANK
<1> HIDE DEF e
<1>3. Sound(RB_BLANK) /\ RB_BLANK.len = Len(e)
  <2>1. RB_BLANK.len = Len(e) /\ Len(RB_BLANK.mem) = Len(e)
    BY <1>1, <1>2, Zenon
  <2>2. RB_BLANK.len <= Len(RB_BLANK.mem)
    BY <1>1, <2>1
  <2> QED  BY <1>2, <2>1, <2>2, Zenon DEF Sound
<1>4. \A k \in 1 .. Len(e) : e[k] # Junk => RB_BLANK.mem[k] = e[k]
  BY <1>1
<1>5. Shows(RB_BLANK, 0, e)
  BY <1>1, <1>3, <1>4, ShowsOne
<1> QED  BY <1>2, <1>5 DEF e

LEMMA NothingPromised == Nothing \in Promise /\ Nothing.data = << >> /\ Nothing.nul = FALSE
BY EmptySeq DEF Nothing, Promise

LEMMA InitBInv == Init => BInv
<1> SUFFICES ASSUME Init PROVE BInv
  OBVIOUS
<1>1. /\ fifo = [rb |-> RB_BLANK, offset |-> 0] /\ rb2 = RB_BLANK
      /\ want = Nothing /\ want2 = Nothing
  BY DEF Init
<1>2. fifo.rb = RB_BLANK /\ fifo.offset = 0
  BY <1>1
<1>3. Pends(fifo, Data)
  BY <1>1, <1>2, BlankShows, NothingPromised DEF Pends, Data
<1>4. rb_size(rb) + rb_size(rb2) <= MaxMemory
  <2>1. rb_size(RB_BLANK) = 0
    BY BlankShows, EmptySeq DEF rb_size
  <2> QED  BY <1>1, <1>2, <2>1, BuffersAssumption DEF rb
<1> QED  BY <1>1, <1>3, <1>4, BlankShows, NothingPromised DEF BInv

(* A call on the first buffer that keeps its promise.                      *)
LEMMA CallKeeps ==
  ASSUME BInv, NEW r, NEW p, NEW t \in BOOLEAN, Call(r, p, t),
         Shows(r, 0, p), t => Ends(r)
  PROVE  BInv'
<1>1. /\ fifo.offset = 0 /\ fifo' = [fifo EXCEPT !.rb = r]
      /\ want' = [data |-> p, nul |-> t] /\ rb2' = rb2 /\ want2' = want2 /\ Bounded
  BY DEF Call
<1>2. fifo' = [rb |-> r, offset |-> 0]
  <2>1. fifo = [rb |-> fifo.rb, offset |-> fifo.offset]
    BY DEF BInv, Pends
  <2> QED  BY <1>1, <2>1
<1>3. fifo'.rb = r /\ fifo'.offset = 0 /\ rb' = r
  BY <1>2 DEF rb
<1>4. want'.data = p /\ want'.nul = t /\ Data' = p
  BY <1>1 DEF Data
<1>5. want' \in Promise
  <2>1. p \in Seq(Cell)
    BY DEF Shows
  <2> QED  BY <1>1, <2>1 DEF Promise
<1>6. Pends(fifo', Data')
  BY <1>2, <1>3, <1>4 DEF Pends
<1>7. rb_size(rb') + rb_size(rb2') <= MaxMemory
  BY <1>1 DEF Bounded, rb
<1> QED  BY <1>1, <1>3, <1>4, <1>5, <1>6, <1>7 DEF BInv

(* A call that promises nothing.                                           *)
LEMMA UnkeptKeeps ==
  ASSUME BInv, NEW r, Sound(r), Unkept(r)
  PROVE  BInv'
<1> DEFINE u == Unwritten(r.len)
<1>1. Call(r, u, FALSE)
  BY DEF Unkept
<1>2. r.len \in Nat
  BY SoundFields
<1>3. u \in Seq(Cell) /\ Len(u) = r.len /\ \A k \in 1 .. Len(u) : u[k] = Junk
  <2>1. u = Fill(Junk, r.len) /\ Junk \in Cell
    BY <1>2, Cells, UnwrittenFilled
  <2>2. u \in Seq(Cell) /\ Len(u) = r.len /\ \A k \in 1 .. r.len : u[k] = Junk
    BY <1>2, <2>1, Filled
  <2> QED  BY <2>2
<1> HIDE DEF u
<1>4. Shows(r, 0, u)
  BY <1>2, <1>3, ShowsOne
<1> QED  BY <1>1, <1>4, CallKeeps

(* A call that deals with both buffers.                                    *)
LEMMA BothKeeps ==
  ASSUME BInv, NEW r, NEW w \in Promise, NEW r2, NEW w2 \in Promise, Both(r, w, r2, w2),
         Shows(r, 0, w.data), w.nul => Ends(r), Shows(r2, 0, w2.data), w2.nul => Ends(r2)
  PROVE  BInv'
<1>1. /\ fifo.offset = 0 /\ fifo' = [fifo EXCEPT !.rb = r]
      /\ want' = w /\ rb2' = r2 /\ want2' = w2 /\ Bounded
  BY DEF Both
<1>2. fifo' = [rb |-> r, offset |-> 0]
  <2>1. fifo = [rb |-> fifo.rb, offset |-> fifo.offset]
    BY DEF BInv, Pends
  <2> QED  BY <1>1, <2>1
<1>3. fifo'.rb = r /\ fifo'.offset = 0 /\ rb' = r
  BY <1>2 DEF rb
<1>4. Data' = w.data
  BY <1>1 DEF Data
<1>5. Pends(fifo', Data')
  BY <1>2, <1>3, <1>4 DEF Pends
<1>6. rb_size(rb') + rb_size(rb2') <= MaxMemory
  BY <1>1 DEF Bounded, rb
<1> QED  BY <1>1, <1>3, <1>5, <1>6 DEF BInv

(* A call on the fifo.                                                     *)
LEMMA QueueKeeps ==
  ASSUME BInv, NEW f, NEW p, Queue(f, p), Pends(f, p)
  PROVE  BInv'
<1>1. /\ fifo' = f /\ want' = [data |-> p, nul |-> FALSE]
      /\ rb2' = rb2 /\ want2' = want2 /\ Bounded
  BY DEF Queue
<1>2. want'.data = p /\ want'.nul = FALSE /\ Data' = p
  BY <1>1 DEF Data
<1>3. want' \in Promise
  <2>1. p \in Seq(Cell)
    BY DEF Pends, Shows
  <2> QED  BY <1>1, <2>1 DEF Promise
<1>4. rb_size(rb') + rb_size(rb2') <= MaxMemory
  BY <1>1 DEF Bounded, rb
<1> QED  BY <1>1, <1>2, <1>3, <1>4 DEF BInv

(* What calls are made with.                                               *)
LEMMA Arguments ==
  /\ \A s \in Strings : s \in Seq(Cell)
  /\ \A b \in Bytes : b \in Byte
  /\ Lengths \subseteq Nat
<1>1. ASSUME NEW s \in Strings PROVE s \in Seq(Cell)
  <2>1. s \in Seq(Byte)
    BY BuffersAssumption
  <2> QED  BY <2>1, Cells, SeqMonotonic
<1>2. ASSUME NEW b \in Bytes PROVE b \in Byte
  <2>1. PICK s \in Strings \ {<< >>} : b = s[1]
    BY DEF Bytes
  <2>2. s \in Seq(Byte) /\ s # << >>
    BY <2>1, BuffersAssumption
  <2>3. Len(s) \in Nat \ {0}
    BY <2>2, EmptySeq
  <2>4. 1 \in 1 .. Len(s)
    BY <2>3
  <2> QED  BY <2>1, <2>2, <2>4, ElementOfSeq
<1>3. Lengths \subseteq Nat
  BY BuffersAssumption DEF Lengths
<1> QED  BY <1>1, <1>2, <1>3

(* While nothing was taken out of the fifo.                                *)
LEMMA UsedAsBuffer ==
  ASSUME BInv, fifo.offset = 0
  PROVE  /\ Shows(rb, 0, Data) /\ want.nul \in BOOLEAN /\ (want.nul => Ends(rb))
         /\ Size \in Nat
<1>1. Shows(rb, 0, Data)
  BY DEF BInv, Pends, rb
<1>2. want.nul \in BOOLEAN /\ (want.nul => Ends(rb))
  BY DEF BInv, Promise
<1> QED  BY <1>1, <1>2, HeldFacts

-----------------------------------------------------------------------------
LEMMA GrowingSteps ==
  BInv /\ (AppendData \/ Putc \/ Putwc \/ Calloc \/ Push \/ Pop \/ Set) => BInv'
<1> SUFFICES ASSUME BInv, AppendData \/ Putc \/ Putwc \/ Calloc \/ Push \/ Pop \/ Set
             PROVE  BInv'
  OBVIOUS
<1>1. CASE AppendData
  <2>1. PICK s \in Strings : Call(rb_append(rb, s), Data \o s, FALSE)
    BY <1>1 DEF AppendData
  <2>2. Shows(rb, 0, Data)
    BY <2>1, UsedAsBuffer DEF Call
  <2>3. Shows(rb_append(rb, s), 0, Data \o s)
    BY <2>2, Arguments, AppendSame
  <2> QED  BY <2>1, <2>3, CallKeeps
<1>2. CASE Putc
  <2>1. PICK b \in Bytes : Call(rb_putc(rb, b), Append(Data, b), FALSE)
    BY <1>2 DEF Putc
  <2>2. Shows(rb, 0, Data)
    BY <2>1, UsedAsBuffer DEF Call
  <2>3. Shows(rb_putc(rb, b), 0, Append(Data, b))
    BY <2>2, Arguments, PutcShows
  <2> QED  BY <2>1, <2>3, CallKeeps
<1>3. CASE Putwc
  <2>1. PICK s \in Strings : Len(s) \in 1 .. 4 /\ Call(rb_putwc(rb, s), Data \o s, FALSE)
    BY <1>3 DEF Putwc
  <2>2. Shows(rb, 0, Data)
    BY <2>1, UsedAsBuffer DEF Call
  <2>3. Shows(rb_putwc(rb, s), 0, Data \o s)
    BY <2>1, <2>2, Arguments, PutwcShows
  <2> QED  BY <2>1, <2>3, CallKeeps
<1>4. CASE Calloc
  <2>1. PICK n \in Lengths : Call(rb_calloc(rb, n), Data \o Fill(NUL, n), FALSE)
    BY <1>4 DEF Calloc
  <2>2. Shows(rb, 0, Data)
    BY <2>1, UsedAsBuffer DEF Call
  <2>3. Shows(rb_calloc(rb, n), 0, Data \o Fill(NUL, n))
    BY <2>2, Arguments, CallocShows
  <2> QED  BY <2>1, <2>3, CallKeeps
<1>5. CASE Push
  <2>1. PICK n \in Lengths : Call(rb_push(rb, n), Data \o Unwritten(n), FALSE)
    BY <1>5 DEF Push
  <2>2. Shows(rb, 0, Data)
    BY <2>1, UsedAsBuffer DEF Call
  <2>3. Shows(rb_push(rb, n), 0, Data \o Unwritten(n))
    BY <2>2, Arguments, PushShows
  <2> QED  BY <2>1, <2>3, CallKeeps
<1>6. CASE Pop
  <2>1. PICK n \in 0 .. Size : Call(rb_pop(rb, n), First(Size - n), FALSE)
    BY <1>6 DEF Pop
  <2>2. Shows(rb, 0, Data)
    BY <2>1, UsedAsBuffer DEF Call
  <2>3. Shows(rb_pop(rb, n), 0, First(Size - n))
    BY <2>2, PopShows
  <2> QED  BY <2>1, <2>3, CallKeeps
<1>7. CASE Set
  <2>1. PICK s \in Strings : Call(rb_set(rb, s), s, FALSE)
    BY <1>7 DEF Set
  <2>2. Sound(rb)
    BY <2>1, UsedAsBuffer, ShowsFacts DEF Call
  <2>3. Shows(rb_set(rb, s), 0, s)
    BY <2>2, Arguments, SetShows
  <2> QED  BY <2>1, <2>3, CallKeeps
<1> QED  BY <1>1, <1>2, <1>3, <1>4, <1>5, <1>6, <1>7

LEMMA TerminatingSteps ==
  BInv /\ (Stringize \/ Strcpy \/ Strcat \/ Printf \/ ReadFile) => BInv'
<1> SUFFICES ASSUME BInv, Stringize \/ Strcpy \/ Strcat \/ Printf \/ ReadFile
             PROVE  BInv'
  OBVIOUS
<1>1. CASE Stringize
  <2>1. Call(rb_stringize(rb), Data, TRUE)
    BY <1>1 DEF Stringize
  <2>2. Shows(rb, 0, Data)
    BY <2>1, UsedAsBuffer DEF Call
  <2>3. Shows(rb_stringize(rb), 0, Data) /\ Ends(rb_stringize(rb))
    BY <2>2, StringizeShows
  <2> QED  BY <2>1, <2>3, CallKeeps
<1>2. CASE Strcpy
  <2>1. PICK s \in Strings : Call(rb_strcpy(rb, s), s, TRUE)
    BY <1>2 DEF Strcpy
  <2>2. Shows(rb, 0, Data)
    BY <2>1, UsedAsBuffer DEF Call
  <2>3. Shows(rb_strcpy(rb, s), 0, s) /\ Ends(rb_strcpy(rb, s))
    BY <2>2, Arguments, StringShows
  <2> QED  BY <2>1, <2>3, CallKeeps
<1>3. CASE Strcat
  <2>1. PICK s \in Strings : Call(rb_strcat(rb, s), Data \o s, TRUE)
    BY <1>3 DEF Strcat
  <2>2. Shows(rb, 0, Data)
    BY <2>1, UsedAsBuffer DEF Call
  <2>3. Shows(rb_strcat(rb, s), 0, Data \o s) /\ Ends(rb_strcat(rb, s))
    BY <2>2, Arguments, StringShows
  <2> QED  BY <2>1, <2>3, CallKeeps
<1>4. CASE Printf
  <2>1. PICK s \in Strings : Call(rb_printf(rb, s), Data \o s, TRUE)
    BY <1>4 DEF Printf
  <2>2. Shows(rb, 0, Data)
    BY <2>1, UsedAsBuffer DEF Call
  <2>3. Shows(rb_printf(rb, s), 0, Data \o s) /\ Ends(rb_printf(rb, s))
    BY <2>2, Arguments, PrintfShows
  <2> QED  BY <2>1, <2>3, CallKeeps
<1>5. CASE ReadFile
  <2>1. PICK s \in Strings, t \in Strings :
          Call(rb_read_file(rb, s, t), Data \o s \o t, TRUE)
    BY <1>5 DEF ReadFile
  <2>2. Shows(rb, 0, Data)
    BY <2>1, UsedAsBuffer DEF Call
  <2>3. /\ Shows(rb_read_file(rb, s, t), 0, Data \o s \o t)
        /\ Ends(rb_read_file(rb, s, t))
    BY <2>2, Arguments, ReadFileShows
  <2> QED  BY <2>1, <2>3, CallKeeps
<1> QED  BY <1>1, <1>2, <1>3, <1>4, <1>5

LEMMA MovingSteps ==
  BInv /\ (Resize \/ ResizeFill \/ Memset \/ Insert \/ Delete) => BInv'
<1> SUFFICES ASSUME BInv, Resize \/ ResizeFill \/ Memset \/ Insert \/ Delete PROVE BInv'
  OBVIOUS
<1>1. CASE Resize
  <2>1. PICK n \in Lengths, preserve \in BOOLEAN :
          Call(rb_resize(rb, n, preserve), IF preserve THEN Padded(n) ELSE Unwritten(n), FALSE)
    BY <1>1 DEF Resize
  <2>2. Shows(rb, 0, Data) /\ n \in Nat
    BY <2>1, UsedAsBuffer, Arguments DEF Call
  <2>3. Shows(rb_resize(rb, n, preserve), 0, IF preserve THEN Padded(n) ELSE Unwritten(n))
    BY <2>2, ResizeShows
  <2> QED  BY <2>1, <2>3, CallKeeps
<1>2. CASE ResizeFill
  <2>1. PICK n \in Lengths, b \in Bytes :
          Call(rb_resize_fill(rb, n, b), First(n) \o Fill(b, n - Len(First(n))), FALSE)
    BY <1>2 DEF ResizeFill
  <2>2. Shows(rb, 0, Data) /\ n \in Nat /\ b \in Byte
    BY <2>1, UsedAsBuffer, Arguments DEF Call
  <2>3. Shows(rb_resize_fill(rb, n, b), 0, First(n) \o Fill(b, n - Len(First(n))))
    BY <2>2, ResizeFillShows
  <2> QED  BY <2>1, <2>3, CallKeeps
<1>3. CASE Memset
  <2>1. PICK loc \in Lengths, n \in Lengths, b \in Bytes :
          Call(rb_memset(rb, b, loc, n), Padded(loc) \o Fill(b, n) \o After(loc + n),
               want.nul /\ loc + n <= Size)
    BY <1>3 DEF Memset
  <2>2. /\ Shows(rb, 0, Data) /\ loc \in Nat /\ n \in Nat /\ b \in Byte
        /\ want.nul => Ends(rb)
    BY <2>1, UsedAsBuffer, Arguments DEF Call
  <2>3. /\ Shows(rb_memset(rb, b, loc, n), 0, Padded(loc) \o Fill(b, n) \o After(loc + n))
        /\ Ends(rb) /\ loc + n <= Size => Ends(rb_memset(rb, b, loc, n))
    BY <2>2, MemsetShows
  <2> QED  BY <2>1, <2>2, <2>3, CallKeeps
<1>4. CASE Insert
  <2>1. PICK loc \in Lengths, s \in Strings :
          IF Overwrites(loc, s) THEN Unkept(rb_insert(rb, loc, s))
          ELSE Call(rb_insert(rb, loc, s), Inserted(loc, s),
                    want.nul /\ loc + Len(s) <= Size)
    BY <1>4 DEF Insert
  <2>2. /\ Shows(rb, 0, Data) /\ loc \in Nat /\ s \in Seq(Cell)
        /\ want.nul => Ends(rb)
        /\ Size \in Nat /\ Len(s) \in Nat
    BY <2>1, UsedAsBuffer, Arguments, LenProperties DEF Call, Unkept
  <2>3. CASE loc + Len(s) <= Size
    <3>1. /\ Shows(rb_insert(rb, loc, s), 0, Inserted(loc, s))
          /\ Ends(rb) => Ends(rb_insert(rb, loc, s))
      BY <2>2, <2>3, InsertInside
    <3>2. ~Overwrites(loc, s)
      BY <2>2, <2>3 DEF Overwrites
    <3>3. Call(rb_insert(rb, loc, s), Inserted(loc, s), want.nul /\ loc + Len(s) <= Size)
      BY <2>1, <3>2
    <3> QED  BY <2>2, <3>1, <3>3, CallKeeps
  <2>4. CASE ~(loc + Len(s) <= Size)
    <3>1. loc + Len(s) > Size
      BY <2>2, <2>4
    <3>2. Shows(rb_insert(rb, loc, s), 0, Padded(loc) \o s)
      BY <2>2, <3>1, InsertBeyond
    <3>3. CASE Overwrites(loc, s)
      <4>1. Sound(rb_insert(rb, loc, s))
        BY <3>2, ShowsFacts
      <4> QED  BY <2>1, <3>3, <4>1, UnkeptKeeps
    <3>4. CASE ~Overwrites(loc, s)
      <4>1. loc >= Size
        BY <2>2, <3>1, <3>4 DEF Overwrites
      <4>2. Shows(rb_insert(rb, loc, s), 0, Inserted(loc, s))
        BY <2>2, <3>2, <4>1, NothingBehind
      <4>3. Call(rb_insert(rb, loc, s), Inserted(loc, s), want.nul /\ loc + Len(s) <= Size)
        BY <2>1, <3>4
      <4> QED  BY <2>4, <4>2, <4>3, CallKeeps
    <3> QED  BY <3>3, <3>4
  <2> QED  BY <2>3, <2>4
<1>5. CASE Delete
  <2>1. PICK loc \in 0 .. Size, n \in Lengths :
          Call(rb_delete(rb, loc, n), First(loc) \o After(loc + n),
               want.nul /\ loc + n <= Size)
    BY <1>5 DEF Delete
  <2>2. Shows(rb, 0, Data) /\ n \in Nat /\ (want.nul => Ends(rb))
    BY <2>1, UsedAsBuffer, Arguments DEF Call
  <2>3. /\ Shows(rb_delete(rb, loc, n), 0, First(loc) \o After(loc + n))
        /\ Ends(rb) /\ loc + n <= Size => Ends(rb_delete(rb, loc, n))
    BY <2>2, DeleteShows
  <2> QED  BY <2>1, <2>2, <2>3, CallKeeps
<1> QED  BY <1>1, <1>2, <1>3, <1>4, <1>5

LEMMA TwoBufferSteps ==
  BInv /\ (Extract \/ Swap \/ Assign \/ Free) => BInv'
<1> SUFFICES ASSUME BInv, Extract \/ Swap \/ Assign \/ Free PROVE BInv'
  OBVIOUS
<1>1. /\ Shows(rb2, 0, want2.data) /\ (want2.nul => Ends(rb2))
      /\ want \in Promise /\ want2 \in Promise
  BY DEF BInv
<1>2. CASE Extract
  <2>0. PICK loc \in 0 .. Len(want2.data) :
          \E m \in 0 .. (Len(want2.data) - loc) :
            IF loc <= Size
            THEN Call(rb_extract(rb, rb2, loc, m),
                      Data \o SubSeq(want2.data, loc + 1, loc + m), FALSE)
            ELSE Unkept(rb_extract(rb, rb2, loc, m))
    BY <1>2 DEF Extract
  <2>1. PICK n \in 0 .. (Len(want2.data) - loc) :
          IF loc <= Size
          THEN Call(rb_extract(rb, rb2, loc, n),
                    Data \o SubSeq(want2.data, loc + 1, loc + n), FALSE)
          ELSE Unkept(rb_extract(rb, rb2, loc, n))
    BY <2>0
  <2>2. Shows(rb, 0, Data) /\ Sound(rb) /\ rb.len = Size /\ Size \in Nat
    BY <2>1, UsedAsBuffer, HeldFacts DEF Call, Unkept
  <2>3. Len(want2.data) \in Nat
    BY <1>1, ShowsFacts
  <2>4. loc \in Nat /\ n \in Nat /\ loc + n <= Len(want2.data)
    BY <2>3
  <2>5. IF rb.len < loc THEN rb_extract(rb, rb2, loc, n) = rb
        ELSE Shows(rb_extract(rb, rb2, loc, n), 0,
                   Data \o SubSeq(want2.data, loc + 1, loc + n))
    BY <1>1, <2>2, <2>4, ExtractShows
  <2>6. CASE loc <= Size
    <3>1. Shows(rb_extract(rb, rb2, loc, n), 0, Data \o SubSeq(want2.data, loc + 1, loc + n))
      BY <2>2, <2>4, <2>5, <2>6
    <3> QED  BY <2>1, <2>6, <3>1, CallKeeps
  <2>7. CASE ~(loc <= Size)
    <3>1. Sound(rb_extract(rb, rb2, loc, n))
      BY <2>2, <2>4, <2>5, <2>7
    <3> QED  BY <2>1, <2>7, <3>1, UnkeptKeeps
  <2> QED  BY <2>6, <2>7
<1>3. CASE Swap
  <2>1. Both(rb2, want2, rb, want)
    BY <1>3 DEF Swap
  <2>2. Shows(rb, 0, want.data) /\ (want.nul => Ends(rb))
    BY <2>1, UsedAsBuffer DEF Both, Data
  <2> QED  BY <1>1, <2>1, <2>2, BothKeeps
<1>4. CASE Assign
  <2>1. Both(rb2, want2, RB_BLANK, Nothing)
    BY <1>4 DEF Assign
  <2> QED  BY <1>1, <2>1, BothKeeps, BlankShows, NothingPromised
<1>5. CASE Free
  <2>1. Both(RB_BLANK, Nothing, rb2, want2)
    BY <1>5 DEF Free
  <2> QED  BY <1>1, <2>1, BothKeeps, BlankShows, NothingPromised
<1> QED  BY <1>2, <1>3, <1>4, <1>5

LEMMA FifoSteps ==
  BInv /\ (Enqueue \/ Dequeue \/ Discard) => BInv'
<1> SUFFICES ASSUME BInv, Enqueue \/ Dequeue \/ Discard PROVE BInv'
  OBVIOUS
<1>1. Pends(fifo, Data)
  BY DEF BInv
<1>2. CASE Enqueue
  <2>1. PICK s \in Strings : Queue(fifo_append(fifo, s), Data \o s)
    BY <1>2 DEF Enqueue
  <2>2. Pends(fifo_append(fifo, s), Data \o s)
    BY <1>1, Arguments, EnqueuePends
  <2> QED  BY <2>1, <2>2, QueueKeeps
<1>3. CASE Dequeue
  <2>1. PICK n \in Lengths :
          Queue(fifo_dequeue(fifo, n), IF n <= Size THEN After(n) ELSE Data)
    BY <1>3 DEF Dequeue
  <2>2. Pends(fifo_dequeue(fifo, n), IF n <= Size THEN After(n) ELSE Data)
    BY <1>1, Arguments, DequeuePends
  <2> QED  BY <2>1, <2>2, QueueKeeps
<1>4. CASE Discard
  <2>1. Queue(fifo_discard(fifo), << >>)
    BY <1>4 DEF Discard
  <2> QED  BY <1>1, <2>1, QueueKeeps, DiscardPends
<1> QED  BY <1>2, <1>3, <1>4

LEMMA StepBInv == BInv /\ [Next]_vars => BInv'
<1> SUFFICES ASSUME BInv, [Next]_vars PROVE BInv'
  OBVIOUS
<1>1. CASE UNCHANGED vars
  <2>1. fifo' = fifo /\ rb2' = rb2 /\ want' = want /\ want2' = want2
    BY <1>1 DEF vars
  <2>2. rb' = rb /\ Data' = Data
    BY <2>1 DEF rb, Data
  <2> QED  BY <2>1, <2>2 DEF BInv
<1>2. CASE Next
  BY <1>2, GrowingSteps, TerminatingSteps, MovingSteps, TwoBufferSteps, FifoSteps DEF Next
<1> QED  BY <1>1, <1>2

(* Every call, on one buffer, on both or on the fifo, leaves the buffers   *)
(* sound and holding what was promised (resizable_buf.c as a whole).       *)
THEOREM BuffersInvariance == Spec => []BInv
BY InitBInv, StepBInv, PTL DEF Spec

-----------------------------------------------------------------------------
LEMMA BothSound ==
  ASSUME BInv
  PROVE  /\ Sound(rb) /\ Sound(rb2) /\ rb_size(rb) + rb_size(rb2) <= MaxMemory
         /\ Shows(rb, fifo.offset, Data) /\ Shows(rb2, 0, want2.data)
<1>1. Shows(rb, fifo.offset, Data) /\ Shows(rb2, 0, want2.data)
  BY DEF BInv, Pends, rb
<1> QED  BY <1>1, ShowsFacts DEF BInv

(* The length of a buffer is at most its size, and a fifo's offset is in   *)
(* what it holds (the assertions of resizable_buf.c:37 and :47).           *)
THEOREM BuffersTypeCorrect == Spec => []TypeOK
<1>1. BInv => TypeOK
  <2> SUFFICES ASSUME BInv PROVE TypeOK
    OBVIOUS
  <2>1. /\ Sound(rb) /\ Sound(rb2) /\ rb_size(rb) + rb_size(rb2) <= MaxMemory
        /\ Shows(rb, fifo.offset, Data)
    BY BothSound
  <2>2. /\ Len(rb.mem) \in Nat /\ rb.len \in Nat /\ rb.len <= Len(rb.mem)
        /\ Len(rb2.mem) \in Nat /\ rb2.len \in Nat /\ rb2.len <= Len(rb2.mem)
        /\ MaxMemory \in Nat
    BY <2>1, SoundFields, BuffersAssumption
  <2>3. rb.len \in 0 .. MaxMemory /\ rb2.len \in 0 .. MaxMemory
    <3>1. Len(rb.mem) + Len(rb2.mem) <= MaxMemory
      BY <2>1 DEF rb_size
    <3>2. \A a, b, c, d, m \in Nat :
             a <= b /\ c <= d /\ b + d <= m => a \in 0 .. m /\ c \in 0 .. m
      OBVIOUS
    <3> QED  BY <2>2, <3>1, <3>2, Zenon
  <2>4. ASSUME NEW r, Sound(r), r.len \in 0 .. MaxMemory PROVE r \in Buffer
    <3>1. r \in [mem : Seq(Byte \cup {Junk}), len : Nat, ok : {TRUE}]
      BY <2>4 DEF Sound, Cell
    <3> QED  BY <2>4, <3>1 DEF Buffer
  <2>5. fifo.offset \in Nat /\ rb.len = fifo.offset + Len(Data) /\ Len(Data) \in Nat
    BY <2>1, ShowsFacts
  <2>6. fifo.offset \in 0 .. rb.len /\ (fifo.offset > 0 => fifo.offset < rb.len)
    BY <2>2, <2>5 DEF BInv, Pends, rb
  <2> QED  BY <2>1, <2>2, <2>3, <2>4, <2>6 DEF TypeOK, rb_size, rb
<1> QED  BY BuffersInvariance, <1>1, PTL

(* Whatever calls are made in whatever order, none touches memory the      *)
(* buffers do not own and no assertion of resizable_buf.c fails.           *)
THEOREM CallsAlwaysSafe == Spec => []CallsAreSafe
<1>1. BInv => CallsAreSafe
  <2> SUFFICES ASSUME BInv PROVE CallsAreSafe
    OBVIOUS
  <2>1. Sound(rb) /\ Sound(rb2)
    BY BothSound
  <2> QED  BY <2>1, SoundFields DEF CallsAreSafe, rb
<1> QED  BY BuffersInvariance, <1>1, PTL

(* After any sequence of calls the buffers hold what resizable_buf.h and   *)
(* the comments of resizable_buf.c say the calls put there, and the fifo   *)
(* hands out its bytes in order (resizable_buf.c:300-343); of a buffer on  *)
(* which a call broke its promise nothing is said until it is set anew.    *)
THEOREM AlwaysHoldsWhatWasPut == Spec => []HoldsWhatWasPut
<1>1. BInv => HoldsWhatWasPut
  <2> SUFFICES ASSUME BInv PROVE HoldsWhatWasPut
    OBVIOUS
  <2>1. Shows(fifo.rb, fifo.offset, want.data) /\ Shows(rb2, 0, want2.data)
    BY BothSound DEF rb, Data
  <2>2. ASSUME NEW r, NEW from, NEW data, Shows(r, from, data) PROVE Holds(r, from, data)
    <3>1. /\ data \in Seq(Cell) /\ from \in Nat /\ Len(data) \in Nat
          /\ r.len = from + Len(data)
          /\ \A k \in 1 .. Len(data) : data[k] # Junk => r.mem[from + k] = data[k]
      BY <2>2, ShowsFacts
    <3>2. DOMAIN data = 1 .. Len(data)
      BY <3>1, LenProperties
    <3>3. r.len - from = Len(data)
      BY <3>1
    <3> QED  BY <3>1, <3>2, <3>3 DEF Holds
  <2> QED  BY <2>1, <2>2 DEF HoldsWhatWasPut
<1> QED  BY BuffersInvariance, <1>1, PTL

(* The NUL behind the data moves with it (resizable_buf.c:192, 238).       *)
THEOREM TerminatorAlwaysFollows == Spec => []TerminatorFollows
<1>1. BInv => TerminatorFollows
  BY DEF BInv, Ends, TerminatorFollows, rb_size
<1> QED  BY BuffersInvariance, <1>1, PTL

=============================================================================
