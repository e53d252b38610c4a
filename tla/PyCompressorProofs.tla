------------------------- MODULE PyCompressorProofs -------------------------
(***************************************************************************)
(* The Python encoder, for every list of records and every combination of  *)
(* options: the items are the records (sorting them finds an order), their *)
(* bytes are joined, the list of nodes is walked by the encoder of         *)
(* CompressorProofs that is free to choose its matches, no node crosses    *)
(* the start of a record, and every record has a place in the output from  *)
(* which it decodes.  On one plain record the steps are those of the C     *)
(* encoder.  The last part is about every encoder that implements          *)
(* Encoding.                                                               *)
(***************************************************************************)
EXTENDS PyCompressor, LZFormatProofs, FiniteSetTheorems

(***************************************************************************)
(* Joining sequences.                                                      *)
(***************************************************************************)
LEMMA Concatenation ==
  ASSUME NEW T, NEW s \in Seq(T), NEW t \in Seq(T)
  PROVE  /\ s \o t \in Seq(T) /\ Len(s \o t) = Len(s) + Len(t)
         /\ \A k \in 1 .. Len(s) : (s \o t)[k] = s[k]
         /\ \A k \in 1 .. Len(t) : (s \o t)[Len(s) + k] = t[k]
<1>1. s \o t \in Seq(T) /\ Len(s \o t) = Len(s) + Len(t)
      /\ \A k \in 1 .. Len(s) : (s \o t)[k] = s[k]
  OBVIOUS
<1>2. ASSUME NEW k \in 1 .. Len(t) PROVE (s \o t)[Len(s) + k] = t[k]
  OBVIOUS
<1> QED  BY <1>1, <1>2

(* The sequences joined so far.                                            *)
Joins(f, ss, n) == f = [k \in 1 .. n |-> IF k = 1 THEN ss[1] ELSE f[k - 1] \o ss[k]]

LEMMA JoinsExist ==
  ASSUME NEW T, NEW ss \in Seq(Seq(T))
  PROVE  \A n \in Nat : n <= Len(ss) => \E f \in [1 .. n -> Seq(T)] : Joins(f, ss, n)
<1> DEFINE S == {n \in Nat : n <= Len(ss) => \E f \in [1 .. n -> Seq(T)] : Joins(f, ss, n)}
<1>1. 0 \in S
  <2> DEFINE f == [k \in 1 .. 0 |-> << >>]
  <2>1. f \in [1 .. 0 -> Seq(T)]
    OBVIOUS
  <2>2. Joins(f, ss, 0)
    BY DEF Joins
  <2> HIDE DEF f
  <2> QED  BY <2>1, <2>2
<1>2. ASSUME NEW n \in Nat, n \in S PROVE n + 1 \in S
  <2> SUFFICES ASSUME n + 1 <= Len(ss)
               PROVE  \E f \in [1 .. (n + 1) -> Seq(T)] : Joins(f, ss, n + 1)
    OBVIOUS
  <2>1. PICK f \in [1 .. n -> Seq(T)] : Joins(f, ss, n)
    BY <1>2
  <2> DEFINE last == IF n = 0 THEN ss[1] ELSE f[n] \o ss[n + 1]
             g == [k \in 1 .. (n + 1) |-> IF k = n + 1 THEN last ELSE f[k]]
  <2>2. ss[n + 1] \in Seq(T) /\ (n = 0 => ss[1] \in Seq(T)) /\ (n # 0 => f[n] \in Seq(T))
    OBVIOUS
  <2>3. last \in Seq(T)
    BY <2>2, Concatenation
  <2> HIDE DEF last
  <2>4. g \in [1 .. (n + 1) -> Seq(T)]
    BY <2>3
  <2>5. ASSUME NEW k \in 1 .. (n + 1)
        PROVE  g[k] = IF k = 1 THEN ss[1] ELSE g[k - 1] \o ss[k]
    <3>1. CASE k = n + 1 /\ n = 0
      BY <3>1 DEF last
    <3>2. CASE k = n + 1 /\ n # 0
      <4>1. k # 1 /\ k - 1 = n /\ n \in 1 .. (n + 1) /\ n # n + 1
        BY <3>2
      <4>2. g[k] = f[n] \o ss[n + 1] /\ g[n] = f[n]
        BY <3>2, <4>1 DEF last
      <4> HIDE DEF g
      <4> QED  BY <3>2, <4>1, <4>2
    <3>3. CASE k # n + 1
      <4>1. k \in 1 .. n
        BY <3>3
      <4>2. f[k] = IF k = 1 THEN ss[1] ELSE f[k - 1] \o ss[k]
        BY <2>1, <4>1 DEF Joins
      <4>3. k # 1 => k - 1 \in 1 .. (n + 1) /\ k - 1 # n + 1
        BY <4>1
      <4>4. g[k] = f[k] /\ (k # 1 => g[k - 1] = f[k - 1])
        BY <3>3, <4>3
      <4> HIDE DEF g
      <4> QED  BY <4>2, <4>4
    <3> QED  BY <3>1, <3>2, <3>3
  <2>6. Joins(g, ss, n + 1)
    <3>1. g = [k \in 1 .. (n + 1) |-> g[k]]
      OBVIOUS
    <3> HIDE DEF g
    <3> QED  BY <2>5, <3>1, Zenon DEF Joins
  <2> HIDE DEF g
  <2> QED  BY <2>4, <2>6
<1>3. \A n \in Nat : n \in S
  <2> HIDE DEF S
  <2> QED  BY <1>1, <1>2, SetInduction
<1> QED  BY <1>3

LEMMA JoinsUnique ==
  ASSUME NEW T, NEW u \in Seq(Seq(T)), NEW n \in 1 .. Len(u), NEW f, NEW g,
         Joins(f, SubSeq(u, 1, n), n), Joins(g, u, Len(u))
  PROVE  \A k \in 1 .. n : f[k] = g[k]
<1> DEFINE ss == SubSeq(u, 1, n)
           tt == u
           l == Len(u)
<1>0. /\ n \in Nat /\ l \in Nat /\ n <= l
      /\ \A k \in 1 .. n : ss[k] = tt[k]
      /\ Joins(f, ss, n) /\ Joins(g, tt, l)
  OBVIOUS
<1> HIDE DEF ss, tt, l
<1>1. \A k \in 1 .. n : /\ f[k] = IF k = 1 THEN ss[1] ELSE f[k - 1] \o ss[k]
                        /\ g[k] = IF k = 1 THEN tt[1] ELSE g[k - 1] \o tt[k]
  <2> SUFFICES ASSUME NEW k \in 1 .. n
               PROVE  /\ f[k] = IF k = 1 THEN ss[1] ELSE f[k - 1] \o ss[k]
                      /\ g[k] = IF k = 1 THEN tt[1] ELSE g[k - 1] \o tt[k]
    OBVIOUS
  <2>1. k \in 1 .. l
    BY <1>0
  <2> QED  BY <1>0, <2>1, Zenon DEF Joins
<1> DEFINE S == {k \in Nat : k \in 1 .. n => f[k] = g[k]}
<1>2. 0 \in S
  OBVIOUS
<1>3. ASSUME NEW k \in Nat, k \in S PROVE k + 1 \in S
  <2> SUFFICES ASSUME k + 1 \in 1 .. n PROVE f[k + 1] = g[k + 1]
    OBVIOUS
  <2>1. CASE k = 0
    BY <1>0, <1>1, <2>1
  <2>2. CASE k # 0
    <3>1. k \in 1 .. n /\ (k + 1) - 1 = k /\ k + 1 # 1
      BY <2>2
    <3>2. f[k] = g[k] /\ ss[k + 1] = tt[k + 1]
      BY <1>0, <1>3, <3>1
    <3>3. f[k + 1] = f[k] \o ss[k + 1] /\ g[k + 1] = g[k] \o tt[k + 1]
      BY <1>1, <3>1
    <3> QED  BY <3>2, <3>3
  <2> QED  BY <2>1, <2>2
<1>4. \A k \in Nat : k \in S
  <2> HIDE DEF S
  <2> QED  BY <1>2, <1>3, SetInduction
<1> QED  BY <1>4

(* What is joined of the first k sequences, for every k.                   *)
LEMMA FlattenPrefix ==
  ASSUME NEW T, NEW ss \in Seq(Seq(T)), NEW f \in [1 .. Len(ss) -> Seq(T)],
         Joins(f, ss, Len(ss)), NEW k \in 1 .. Len(ss)
  PROVE  FlattenSeq(SubSeq(ss, 1, k)) = f[k]
<1> DEFINE tt == SubSeq(ss, 1, k)
           c == CHOOSE h : Joins(h, tt, k)
<1>1. tt \in Seq(Seq(T)) /\ Len(tt) = k /\ \A l \in 1 .. k : tt[l] = ss[l]
  OBVIOUS
<1> HIDE DEF tt
<1>2. \E g : Joins(g, tt, k)
  <2>1. \A n \in Nat : n <= Len(tt) => \E g \in [1 .. n -> Seq(T)] : Joins(g, tt, n)
    BY <1>1, JoinsExist
  <2>2. k \in Nat /\ k <= Len(tt)
    BY <1>1
  <2> QED  BY <2>1, <2>2
<1>3. Joins(c, tt, k)
  BY <1>2
<1>4. c = CHOOSE h : h = [l \in 1 .. Len(tt) |-> IF l = 1 THEN tt[1] ELSE h[l - 1] \o tt[l]]
  BY <1>1 DEF Joins
<1>5. FlattenSeq(tt) = c[Len(tt)]
  <2>1. Len(tt) # 0
    BY <1>1
  <2> HIDE DEF c
  <2> QED  BY <1>4, <2>1, Zenon DEF FlattenSeq
<1> HIDE DEF c
<1>6. c[k] = f[k]
  <2>1. Joins(c, SubSeq(ss, 1, k), k) /\ k \in 1 .. k
    BY <1>3 DEF tt
  <2>2. \A l \in 1 .. k : c[l] = f[l]
    BY <2>1, JoinsUnique
  <2> QED  BY <2>1, <2>2
<1> QED  BY <1>1, <1>5, <1>6 DEF tt

LEMMA FlattenFacts ==
  ASSUME NEW T, NEW ss \in Seq(Seq(T))
  PROVE  /\ FlattenSeq(ss) \in Seq(T)
         /\ \A k \in 0 .. Len(ss) : FlattenSeq(SubSeq(ss, 1, k)) \in Seq(T)
         /\ \A k \in 1 .. Len(ss) :
              FlattenSeq(SubSeq(ss, 1, k)) = FlattenSeq(SubSeq(ss, 1, k - 1)) \o ss[k]
<1>1. PICK f \in [1 .. Len(ss) -> Seq(T)] : Joins(f, ss, Len(ss))
  <2>1. Len(ss) \in Nat /\ Len(ss) <= Len(ss)
    OBVIOUS
  <2> QED  BY <2>1, JoinsExist
<1>2. \A k \in 1 .. Len(ss) : FlattenSeq(SubSeq(ss, 1, k)) = f[k]
  BY <1>1, FlattenPrefix
<1>3. FlattenSeq(SubSeq(ss, 1, 0)) = << >>
  <2>1. SubSeq(ss, 1, 0) = << >> /\ Len(SubSeq(ss, 1, 0)) = 0
    OBVIOUS
  <2> QED  BY <2>1, Zenon DEF FlattenSeq
<1>4. \A k \in 0 .. Len(ss) : FlattenSeq(SubSeq(ss, 1, k)) \in Seq(T)
  <2> SUFFICES ASSUME NEW k \in 0 .. Len(ss) PROVE FlattenSeq(SubSeq(ss, 1, k)) \in Seq(T)
    OBVIOUS
  <2>1. CASE k = 0
    <3>1. << >> \in Seq(T)
      OBVIOUS
    <3> QED  BY <1>3, <2>1, <3>1
  <2>2. CASE k # 0
    <3>1. k \in 1 .. Len(ss)
      BY <2>2
    <3> QED  BY <1>2, <3>1
  <2> QED  BY <2>1, <2>2
<1>5. ASSUME NEW k \in 1 .. Len(ss)
      PROVE  FlattenSeq(SubSeq(ss, 1, k)) = FlattenSeq(SubSeq(ss, 1, k - 1)) \o ss[k]
  <2>1. f[k] = IF k = 1 THEN ss[1] ELSE f[k - 1] \o ss[k]
    BY <1>1, Zenon DEF Joins
  <2>2. CASE k = 1
    <3>1. \A s \in Seq(T) : << >> \o s = s
      OBVIOUS
    <3>2. ss[1] \in Seq(T) /\ k - 1 = 0
      BY <2>2
    <3> QED  BY <1>2, <1>3, <2>1, <2>2, <3>1, <3>2
  <2>3. CASE k # 1
    <3>1. k - 1 \in 1 .. Len(ss)
      BY <2>3
    <3> QED  BY <1>2, <2>1, <2>3, <3>1
  <2> QED  BY <2>2, <2>3
<1>6. SubSeq(ss, 1, Len(ss)) = ss /\ Len(ss) \in 0 .. Len(ss)
  OBVIOUS
<1>7. FlattenSeq(ss) \in Seq(T)
  BY <1>4, <1>6
<1> QED  BY <1>4, <1>5, <1>7

(* What is joined later does not change what was joined before.            *)
LEMMA FlattenGrows ==
  ASSUME NEW T, NEW ss \in Seq(Seq(T))
  PROVE  \A n \in Nat : \A a \in 0 .. Len(ss) : a + n <= Len(ss) =>
           /\ Len(FlattenSeq(SubSeq(ss, 1, a))) <= Len(FlattenSeq(SubSeq(ss, 1, a + n)))
           /\ \A q \in 1 .. Len(FlattenSeq(SubSeq(ss, 1, a))) :
                FlattenSeq(SubSeq(ss, 1, a + n))[q] = FlattenSeq(SubSeq(ss, 1, a))[q]
<1> DEFINE F(k) == FlattenSeq(SubSeq(ss, 1, k))
           P(n) == \A a \in 0 .. Len(ss) : a + n <= Len(ss) =>
                     /\ Len(F(a)) <= Len(F(a + n))
                     /\ \A q \in 1 .. Len(F(a)) : F(a + n)[q] = F(a)[q]
           S == {n \in Nat : P(n)}
<1>1. /\ \A k \in 0 .. Len(ss) : F(k) \in Seq(T)
      /\ \A k \in 1 .. Len(ss) : F(k) = F(k - 1) \o ss[k]
  BY FlattenFacts
<1> HIDE DEF F
<1>2. 0 \in S
  <2> SUFFICES ASSUME NEW a \in 0 .. Len(ss)
               PROVE  Len(F(a)) <= Len(F(a + 0)) /\ \A q \in 1 .. Len(F(a)) : F(a + 0)[q] = F(a)[q]
    OBVIOUS
  <2>1. a + 0 = a /\ Len(F(a)) \in Nat
    BY <1>1
  <2> QED  BY <2>1
<1>3. ASSUME NEW n \in Nat, n \in S PROVE n + 1 \in S
  <2> SUFFICES ASSUME NEW a \in 0 .. Len(ss), a + (n + 1) <= Len(ss)
               PROVE  /\ Len(F(a)) <= Len(F(a + (n + 1)))
                      /\ \A q \in 1 .. Len(F(a)) : F(a + (n + 1))[q] = F(a)[q]
    OBVIOUS
  <2> DEFINE b == a + n
             c == a + (n + 1)
  <2>1. /\ b <= Len(ss) /\ b \in 0 .. Len(ss) /\ c \in 1 .. Len(ss) /\ c \in 0 .. Len(ss)
        /\ c - 1 = b
    OBVIOUS
  <2>2. /\ Len(F(a)) <= Len(F(b))
        /\ \A q \in 1 .. Len(F(a)) : F(b)[q] = F(a)[q]
    BY <1>3, <2>1
  <2> HIDE DEF b, c
  <2>3. F(c) = F(c - 1) \o ss[c]
    BY <1>1, <2>1
  <2>4. F(b) \in Seq(T) /\ ss[c] \in Seq(T) /\ F(a) \in Seq(T) /\ F(c) = F(b) \o ss[c]
    BY <1>1, <2>1, <2>3
  <2>5. /\ Len(F(b) \o ss[c]) = Len(F(b)) + Len(ss[c])
        /\ \A q \in 1 .. Len(F(b)) : (F(b) \o ss[c])[q] = F(b)[q]
    BY <2>4, Concatenation
  <2>6. /\ \A q \in 1 .. Len(F(a)) : q \in 1 .. Len(F(b))
        /\ Len(F(a)) \in Nat /\ Len(F(b)) \in Nat /\ Len(ss[c]) \in Nat
    BY <2>2, <2>4
  <2>7. Len(F(a)) <= Len(F(c)) /\ \A q \in 1 .. Len(F(a)) : F(c)[q] = F(a)[q]
    BY <2>2, <2>4, <2>5, <2>6
  <2> QED  BY <2>7 DEF c
<1>4. \A n \in Nat : n \in S
  <2> HIDE DEF S
  <2> QED  BY <1>2, <1>3, SetInduction
<1> QED  BY <1>4 DEF F

-----------------------------------------------------------------------------
(***************************************************************************)
(* The bytes of the items, joined.                                         *)
(***************************************************************************)
Terminator == IF job.terminate THEN <<NUL>> ELSE << >>
Padded(its) == [k \in DOMAIN its |-> its[k] \o Terminator]

(* How many bytes the first k items have.                                  *)
At(its, k) == Len(Joined(SubSeq(its, 1, k)))

LEMMA TerminatorType == Terminator \in Seq(Literal) /\ Len(Terminator) \in 0 .. 1
<1>1. NUL \in Literal
  BY FormatBounds DEF NUL, Literal
<1>2. \A T : << >> \in Seq(T) /\ Len(<< >>) = 0
  OBVIOUS
<1>3. \A T, x : x \in T => <<x>> \in Seq(T) /\ Len(<<x>>) = 1
  OBVIOUS
<1> QED  BY <1>1, <1>2, <1>3 DEF Terminator

LEMMA JoinedPrefix ==
  ASSUME NEW its \in Seq(Seq(Literal))
  PROVE  /\ Padded(its) \in Seq(Seq(Literal)) /\ Len(Padded(its)) = Len(its)
         /\ Joined(its) = FlattenSeq(Padded(its))
         /\ \A k \in 0 .. Len(its) :
              Joined(SubSeq(its, 1, k)) = FlattenSeq(SubSeq(Padded(its), 1, k))
<1>1. Terminator \in Seq(Literal)
  BY TerminatorType
<1>2. \A k \in DOMAIN its : its[k] \o Terminator \in Seq(Literal)
  <2> SUFFICES ASSUME NEW k \in DOMAIN its PROVE its[k] \o Terminator \in Seq(Literal)
    OBVIOUS
  <2>1. its[k] \in Seq(Literal)
    OBVIOUS
  <2> QED  BY <1>1, <2>1, Concatenation
<1>3. DOMAIN its = 1 .. Len(its) /\ Len(its) \in Nat
  OBVIOUS
<1>4. Padded(its) \in Seq(Seq(Literal)) /\ Len(Padded(its)) = Len(its)
  BY <1>2, <1>3 DEF Padded
<1>5. \A s : Joined(s) = FlattenSeq(Padded(s))
  BY DEF Joined, Padded, Terminator
<1>6. ASSUME NEW k \in 0 .. Len(its)
      PROVE  Padded(SubSeq(its, 1, k)) = SubSeq(Padded(its), 1, k)
  <2>1. SubSeq(its, 1, k) = [l \in 1 .. k |-> its[l]]
    OBVIOUS
  <2>2. SubSeq(Padded(its), 1, k) = [l \in 1 .. k |-> Padded(its)[l]]
    BY <1>4
  <2>3. \A l \in 1 .. k : Padded(its)[l] = its[l] \o Terminator
    BY <1>3 DEF Padded
  <2> QED  BY <2>1, <2>2, <2>3 DEF Padded
<1> QED  BY <1>4, <1>5, <1>6

(* Where an item starts and ends, and that it is there.                    *)
LEMMA JoinedFacts ==
  ASSUME NEW its \in Seq(Seq(Literal))
  PROVE  /\ Joined(its) \in Seq(Literal)
         /\ \A k \in 0 .. Len(its) : At(its, k) \in 0 .. Len(Joined(its))
         /\ \A k \in 1 .. Len(its) : /\ At(its, k - 1) + Len(its[k]) <= At(its, k)
                                     /\ At(its, k) <= At(its, k - 1) + Len(its[k]) + 1
         /\ \A k, l \in 0 .. Len(its) : k <= l => At(its, k) <= At(its, l)
         /\ \A k \in 1 .. Len(its) : \A q \in 1 .. Len(its[k]) :
              Joined(its)[At(its, k - 1) + q] = its[k][q]
<1> DEFINE ss == Padded(its)
           n == Len(its)
           F(k) == FlattenSeq(SubSeq(ss, 1, k))
<1>1. /\ ss \in Seq(Seq(Literal)) /\ Len(ss) = n /\ n \in Nat
      /\ Joined(its) = FlattenSeq(ss)
      /\ \A k \in 0 .. n : Joined(SubSeq(its, 1, k)) = F(k)
  BY JoinedPrefix
<1>2. \A k \in 1 .. n : ss[k] = its[k] \o Terminator /\ its[k] \in Seq(Literal)
  BY DEF Padded
<1>3. Terminator \in Seq(Literal) /\ Len(Terminator) \in 0 .. 1
  BY TerminatorType
<1> HIDE DEF ss
<1>4. /\ FlattenSeq(ss) \in Seq(Literal)
      /\ \A k \in 0 .. n : F(k) \in Seq(Literal)
      /\ \A k \in 1 .. n : F(k) = F(k - 1) \o ss[k]
  BY <1>1, FlattenFacts
<1>5. \A b \in Nat : \A a \in 0 .. n : a + b <= n =>
        /\ Len(F(a)) <= Len(F(a + b))
        /\ \A q \in 1 .. Len(F(a)) : F(a + b)[q] = F(a)[q]
  <2>1. \A b \in Nat : \A a \in 0 .. Len(ss) : a + b <= Len(ss) =>
          /\ Len(FlattenSeq(SubSeq(ss, 1, a))) <= Len(FlattenSeq(SubSeq(ss, 1, a + b)))
          /\ \A q \in 1 .. Len(FlattenSeq(SubSeq(ss, 1, a))) :
               FlattenSeq(SubSeq(ss, 1, a + b))[q] = FlattenSeq(SubSeq(ss, 1, a))[q]
    BY <1>1, FlattenGrows
  <2> QED  BY <1>1, <2>1
<1>6. F(n) = Joined(its)
  <2>1. SubSeq(ss, 1, n) = ss
    BY <1>1
  <2> QED  BY <1>1, <2>1
<1> HIDE DEF F
<1>7. \A k \in 0 .. n : At(its, k) = Len(F(k)) /\ Len(F(k)) \in Nat
  BY <1>1, <1>4 DEF At
<1>8. \A k, l \in 0 .. n : k <= l => /\ Len(F(k)) <= Len(F(l))
                                     /\ \A q \in 1 .. Len(F(k)) : F(l)[q] = F(k)[q]
  <2> SUFFICES ASSUME NEW k \in 0 .. n, NEW l \in 0 .. n, k <= l
               PROVE  /\ Len(F(k)) <= Len(F(l))
                      /\ \A q \in 1 .. Len(F(k)) : F(l)[q] = F(k)[q]
    OBVIOUS
  <2>1. l - k \in Nat /\ k + (l - k) = l /\ k + (l - k) <= n
    BY <1>1
  <2> QED  BY <1>5, <2>1
<1>9. ASSUME NEW k \in 1 .. n
      PROVE  /\ Len(F(k)) = Len(F(k - 1)) + Len(its[k]) + Len(Terminator)
             /\ \A q \in 1 .. Len(its[k]) : F(k)[Len(F(k - 1)) + q] = its[k][q]
  <2>1. k - 1 \in 0 .. n /\ k \in 0 .. n
    OBVIOUS
  <2>2. /\ F(k - 1) \in Seq(Literal) /\ its[k] \in Seq(Literal)
        /\ F(k) = F(k - 1) \o ss[k] /\ ss[k] = its[k] \o Terminator
    BY <1>2, <1>4, <2>1
  <2>3. /\ ss[k] \in Seq(Literal) /\ Len(ss[k]) = Len(its[k]) + Len(Terminator)
        /\ \A q \in 1 .. Len(its[k]) : ss[k][q] = its[k][q]
    BY <1>3, <2>2, Concatenation
  <2>4. /\ Len(F(k)) = Len(F(k - 1)) + Len(ss[k])
        /\ \A q \in 1 .. Len(ss[k]) : F(k)[Len(F(k - 1)) + q] = ss[k][q]
    BY <2>2, <2>3, Concatenation
  <2>5. Len(F(k - 1)) \in Nat /\ Len(its[k]) \in Nat /\ Len(Terminator) \in Nat
    BY <1>3, <2>2
  <2>6. \A q \in 1 .. Len(its[k]) : q \in 1 .. Len(ss[k])
    BY <2>3, <2>5
  <2>7. \A q \in 1 .. Len(its[k]) : F(k)[Len(F(k - 1)) + q] = its[k][q]
    BY <2>3, <2>4, <2>6
  <2>8. Len(F(k)) = Len(F(k - 1)) + Len(its[k]) + Len(Terminator)
    <3> DEFINE x == Len(F(k - 1))
               y == Len(its[k])
               z == Len(Terminator)
    <3>1. Len(F(k)) = x + (y + z) /\ x \in Nat /\ y \in Nat /\ z \in Nat
      BY <2>3, <2>4, <2>5
    <3> HIDE DEF x, y, z
    <3>2. Len(F(k)) = x + y + z
      BY <3>1
    <3> QED  BY <3>2 DEF x, y, z
  <2> QED  BY <2>7, <2>8
<1>10. \A k \in 0 .. n : At(its, k) \in 0 .. Len(Joined(its))
  <2> SUFFICES ASSUME NEW k \in 0 .. n PROVE At(its, k) \in 0 .. Len(Joined(its))
    OBVIOUS
  <2>1. n \in 0 .. n /\ k <= n
    BY <1>1
  <2>2. Len(F(k)) <= Len(F(n)) /\ Len(F(k)) \in Nat /\ Len(F(n)) \in Nat
    BY <1>7, <1>8, <2>1
  <2> QED  BY <1>6, <1>7, <2>2
<1>11. ASSUME NEW k \in 1 .. n
       PROVE  /\ At(its, k - 1) + Len(its[k]) <= At(its, k)
              /\ At(its, k) <= At(its, k - 1) + Len(its[k]) + 1
  <2>1. k - 1 \in 0 .. n /\ k \in 0 .. n
    OBVIOUS
  <2>2. /\ At(its, k) = At(its, k - 1) + Len(its[k]) + Len(Terminator)
        /\ At(its, k - 1) \in Nat
    BY <1>7, <1>9, <2>1
  <2>3. Len(its[k]) \in Nat /\ Len(Terminator) \in 0 .. 1
    BY <1>2, <1>3
  <2> DEFINE x == At(its, k - 1)
             y == Len(its[k])
             z == Len(Terminator)
  <2>4. At(its, k) = x + y + z /\ x \in Nat /\ y \in Nat /\ z \in 0 .. 1
    BY <2>2, <2>3
  <2> HIDE DEF x, y, z
  <2>5. x + y <= At(its, k) /\ At(its, k) <= x + y + 1
    BY <2>4
  <2> QED  BY <2>5 DEF x, y
<1>12. ASSUME NEW k \in 1 .. n, NEW q \in 1 .. Len(its[k])
       PROVE  Joined(its)[At(its, k - 1) + q] = its[k][q]
  <2>1. k - 1 \in 0 .. n /\ k \in 0 .. n /\ n \in 0 .. n /\ k <= n
    BY <1>1
  <2>2. At(its, k - 1) = Len(F(k - 1)) /\ Len(F(k - 1)) \in Nat
    BY <1>7, <2>1
  <2>3. Len(its[k]) \in Nat
    BY <1>2
  <2>4. Len(F(k)) = Len(F(k - 1)) + Len(its[k]) + Len(Terminator)
        /\ F(k)[Len(F(k - 1)) + q] = its[k][q]
    BY <1>9
  <2>5. Len(F(k - 1)) + q \in 1 .. Len(F(k))
    <3> DEFINE x == Len(F(k - 1))
               y == Len(its[k])
               z == Len(Terminator)
    <3>1. Len(F(k)) = x + y + z /\ x \in Nat /\ y \in Nat /\ z \in 0 .. 1 /\ q \in 1 .. y
      BY <1>3, <2>2, <2>3, <2>4
    <3> HIDE DEF x, y, z
    <3>2. x + q \in 1 .. Len(F(k))
      BY <3>1
    <3> QED  BY <3>2 DEF x
  <2>6. F(n)[Len(F(k - 1)) + q] = F(k)[Len(F(k - 1)) + q]
    BY <1>8, <2>1, <2>5
  <2> QED  BY <1>6, <2>2, <2>4, <2>6
<1>13. \A k, l \in 0 .. n : k <= l => At(its, k) <= At(its, l)
  BY <1>7, <1>8
<1> QED  BY <1>1, <1>4, <1>10, <1>11, <1>12, <1>13

-----------------------------------------------------------------------------
(***************************************************************************)
(* -s: the order of bytes objects is total, so a finite set of records can *)
(* be sorted, and nothing is lost.                                         *)
(***************************************************************************)
LEMMA BeforeMeans ==
  ASSUME NEW a \in Seq(Literal), NEW b \in Seq(Literal)
  PROVE  Before(a, b) <=>
           \E k \in 0 .. Len(a) :
             /\ k < Len(b)
             /\ \A q \in 1 .. k : a[q] = b[q]
             /\ k = Len(a) \/ a[k + 1] < b[k + 1]
<1>1. ASSUME NEW k \in 0 .. Len(a), k < Len(b)
      PROVE  SubSeq(a, 1, k) = SubSeq(b, 1, k) <=> \A q \in 1 .. k : a[q] = b[q]
  <2>1. /\ SubSeq(a, 1, k) = [q \in 1 .. k |-> a[q]]
        /\ SubSeq(b, 1, k) = [q \in 1 .. k |-> b[q]]
    OBVIOUS
  <2>2. ASSUME SubSeq(a, 1, k) = SubSeq(b, 1, k), NEW q \in 1 .. k
        PROVE  a[q] = b[q]
    <3>1. SubSeq(a, 1, k)[q] = a[q] /\ SubSeq(b, 1, k)[q] = b[q]
      BY <2>1
    <3> QED  BY <2>2, <3>1
  <2>3. ASSUME \A q \in 1 .. k : a[q] = b[q]
        PROVE  SubSeq(a, 1, k) = SubSeq(b, 1, k)
    BY <2>1, <2>3
  <2> QED  BY <2>2, <2>3
<1> QED  BY <1>1 DEF Before

LEMMA BeforeTotal ==
  ASSUME NEW a \in Seq(Literal), NEW b \in Seq(Literal), a # b
  PROVE  Before(a, b) \/ Before(b, a)
<1> DEFINE Differ == {k \in Nat : k < Len(a) /\ k < Len(b) /\ a[k + 1] # b[k + 1]}
<1>1. Len(a) \in Nat /\ Len(b) \in Nat
  OBVIOUS
<1>2. \A q \in 1 .. Len(a) : a[q] \in Int
  BY FormatBounds DEF Literal
<1>3. \A q \in 1 .. Len(b) : b[q] \in Int
  BY FormatBounds DEF Literal
<1>4. CASE Differ # {}
  <2>1. PICK k \in Differ : \A l \in Differ : ~(<<l, k>> \in OpToRel(<, Nat))
    <3>1. IsWellFoundedOn(OpToRel(<, Nat), Nat)
      BY NatLessThanWellFounded
    <3>2. Differ \subseteq Nat
      OBVIOUS
    <3> QED  BY <1>4, <3>1, <3>2, WFMin
  <2>2. /\ k \in Nat /\ k < Len(a) /\ k < Len(b) /\ a[k + 1] # b[k + 1]
        /\ k \in 0 .. Len(a) /\ k \in 0 .. Len(b)
    BY <1>1
  <2>3. ASSUME NEW q \in 1 .. k PROVE a[q] = b[q]
    <3>1. q - 1 \in Nat /\ q - 1 < k /\ q - 1 < Len(a) /\ q - 1 < Len(b) /\ (q - 1) + 1 = q
      BY <1>1, <2>2
    <3>2. q - 1 \notin Differ
      BY <2>1, <2>2, <3>1 DEF OpToRel
    <3> QED  BY <3>1, <3>2
  <2>4. a[k + 1] < b[k + 1] \/ b[k + 1] < a[k + 1]
    <3>1. k + 1 \in 1 .. Len(a) /\ k + 1 \in 1 .. Len(b)
      BY <1>1, <2>2
    <3> QED  BY <1>2, <1>3, <2>2, <3>1
  <2>5. CASE a[k + 1] < b[k + 1]
    BY <2>2, <2>3, <2>5, BeforeMeans
  <2>6. CASE b[k + 1] < a[k + 1]
    <3>1. \A q \in 1 .. k : b[q] = a[q]
      BY <2>3
    <3> QED  BY <2>2, <2>6, <3>1, BeforeMeans
  <2> QED  BY <2>4, <2>5, <2>6
<1>5. CASE Differ = {}
  <2>1. ASSUME NEW q \in 1 .. Len(a), q <= Len(b) PROVE a[q] = b[q]
    <3>1. q - 1 \in Nat /\ q - 1 < Len(a) /\ q - 1 < Len(b) /\ (q - 1) + 1 = q
      BY <1>1, <2>1
    <3>2. q - 1 \notin Differ
      BY <1>5
    <3> QED  BY <3>1, <3>2
  <2>2. CASE Len(a) < Len(b)
    <3>1. Len(a) \in 0 .. Len(a) /\ \A q \in 1 .. Len(a) : a[q] = b[q]
      BY <1>1, <2>1, <2>2
    <3> QED  BY <2>2, <3>1, BeforeMeans
  <2>3. CASE Len(b) < Len(a)
    <3>1. Len(b) \in 0 .. Len(b) /\ \A q \in 1 .. Len(b) : b[q] = a[q]
      BY <1>1, <2>1, <2>3
    <3> QED  BY <2>3, <3>1, BeforeMeans
  <2>4. CASE Len(a) = Len(b)
    <3>1. \A q \in 1 .. Len(a) : a[q] = b[q]
      BY <1>1, <2>1, <2>4
    <3>2. a = [q \in 1 .. Len(a) |-> a[q]] /\ b = [q \in 1 .. Len(b) |-> b[q]]
      OBVIOUS
    <3> QED  BY <2>4, <3>1, <3>2
  <2> QED  BY <1>1, <2>2, <2>3, <2>4
<1> QED  BY <1>4, <1>5

LEMMA BeforeIrreflexive == \A a \in Seq(Literal) : ~Before(a, a)
<1> SUFFICES ASSUME NEW a \in Seq(Literal), Before(a, a) PROVE FALSE
  OBVIOUS
<1>1. PICK k \in 0 .. Len(a) : k < Len(a) /\ (k = Len(a) \/ a[k + 1] < a[k + 1])
  BY BeforeMeans
<1>2. k + 1 \in 1 .. Len(a)
  BY <1>1
<1>3. a[k + 1] \in Int
  BY <1>2, FormatBounds DEF Literal
<1> QED  BY <1>1, <1>3

LEMMA BeforeTransitive ==
  ASSUME NEW a \in Seq(Literal), NEW b \in Seq(Literal), NEW c \in Seq(Literal),
         Before(a, b), Before(b, c)
  PROVE  Before(a, c)
<1>1. PICK k \in 0 .. Len(a) : /\ k < Len(b)
                               /\ \A q \in 1 .. k : a[q] = b[q]
                               /\ k = Len(a) \/ a[k + 1] < b[k + 1]
  BY BeforeMeans
<1>2. PICK l \in 0 .. Len(b) : /\ l < Len(c)
                               /\ \A q \in 1 .. l : b[q] = c[q]
                               /\ l = Len(b) \/ b[l + 1] < c[l + 1]
  BY BeforeMeans
<1>3. /\ Len(a) \in Nat /\ Len(b) \in Nat /\ Len(c) \in Nat /\ k \in Nat /\ l \in Nat
      /\ k <= Len(a) /\ l <= Len(b)
  OBVIOUS
<1>4. /\ \A q \in 1 .. Len(a) : a[q] \in Int
      /\ \A q \in 1 .. Len(b) : b[q] \in Int
      /\ \A q \in 1 .. Len(c) : c[q] \in Int
  BY FormatBounds DEF Literal
<1> HIDE DEF Literal
<1>5. CASE k < l
  <2>1. k < Len(c) /\ \A q \in 1 .. k : a[q] = c[q]
    BY <1>1, <1>2, <1>3, <1>5
  <2>2. b[k + 1] = c[k + 1]
    <3>1. k + 1 \in 1 .. l
      BY <1>3, <1>5
    <3> QED  BY <1>2, <3>1
  <2> QED  BY <1>1, <2>1, <2>2, BeforeMeans
<1>6. CASE l < k
  <2>1. l \in 0 .. Len(a) /\ \A q \in 1 .. l : a[q] = c[q]
    BY <1>1, <1>2, <1>3, <1>6
  <2>2. a[l + 1] = b[l + 1] /\ b[l + 1] < c[l + 1]
    <3>1. l + 1 \in 1 .. k /\ l # Len(b)
      BY <1>1, <1>3, <1>6
    <3> QED  BY <1>1, <1>2, <3>1
  <2> QED  BY <1>2, <2>1, <2>2, BeforeMeans
<1>7. CASE k = l
  <2>1. b[k + 1] < c[k + 1] /\ k < Len(c) /\ \A q \in 1 .. k : a[q] = c[q]
    BY <1>1, <1>2, <1>3, <1>7
  <2>2. k # Len(a) => a[k + 1] < c[k + 1]
    <3>1. k # Len(a) => /\ k + 1 \in 1 .. Len(a) /\ k + 1 \in 1 .. Len(b)
                        /\ k + 1 \in 1 .. Len(c)
      BY <1>1, <1>3, <2>1
    <3> QED  BY <1>1, <1>4, <2>1, <3>1
  <2> QED  BY <2>1, <2>2, BeforeMeans
<1> QED  BY <1>3, <1>5, <1>6, <1>7

Ordered(s) == \A k, l \in DOMAIN s : k < l => Before(s[k], s[l])

(* One record more in a sorted list.                                       *)
LEMMA Insertion ==
  ASSUME NEW T \in SUBSET Seq(Literal), NEW x \in Seq(Literal), x \notin T,
         NEW n \in Nat, NEW s \in [1 .. n -> T], Ordered(s)
  PROVE  \E g \in [1 .. (n + 1) -> T \cup {x}] : Ordered(g)
<1> DEFINE Q == {q \in Nat : (q \in 1 .. n /\ Before(x, s[q])) \/ q = n + 1}
<1>1. PICK p \in Q : \A l \in Q : ~(<<l, p>> \in OpToRel(<, Nat))
  <2>1. IsWellFoundedOn(OpToRel(<, Nat), Nat)
    BY NatLessThanWellFounded
  <2>2. Q \subseteq Nat /\ n + 1 \in Q
    OBVIOUS
  <2> QED  BY <2>1, <2>2, WFMin
<1>2. p \in Nat /\ p \in 1 .. (n + 1)
  OBVIOUS
<1>3. \A q \in 1 .. n : s[q] \in Seq(Literal) /\ s[q] # x
  OBVIOUS
<1>4. ASSUME NEW q \in 1 .. n, q < p PROVE Before(s[q], x)
  <2>1. q \notin Q
    BY <1>1, <1>2, <1>4 DEF OpToRel
  <2>2. ~Before(x, s[q])
    BY <2>1
  <2> QED  BY <1>3, <2>2, BeforeTotal
<1>5. ASSUME NEW q \in 1 .. n, p <= q PROVE Before(x, s[q])
  <2>1. p \in 1 .. n /\ Before(x, s[p])
    BY <1>2, <1>5
  <2>2. CASE p = q
    BY <2>1, <2>2
  <2>3. CASE p # q
    <3>1. p < q /\ p \in DOMAIN s /\ q \in DOMAIN s
      BY <1>2, <1>5, <2>1, <2>3
    <3>2. Before(s[p], s[q])
      BY <3>1 DEF Ordered
    <3>3. s[p] \in Seq(Literal) /\ s[q] \in Seq(Literal)
      BY <1>3, <2>1
    <3> QED  BY <2>1, <3>2, <3>3, BeforeTransitive
  <2> QED  BY <2>2, <2>3
<1>6. \A k, l \in 1 .. n : k < l => Before(s[k], s[l])
  BY DEF Ordered
<1> HIDE DEF Q
<1> DEFINE g == [k \in 1 .. (n + 1) |-> IF k < p THEN s[k] ELSE IF k = p THEN x ELSE s[k - 1]]
<1>7. ASSUME NEW k \in 1 .. (n + 1)
      PROVE  /\ k < p => k \in 1 .. n
             /\ k > p => k - 1 \in 1 .. n /\ p <= k - 1
  BY <1>2
<1>8. g \in [1 .. (n + 1) -> T \cup {x}]
  <2> SUFFICES ASSUME NEW k \in 1 .. (n + 1)
               PROVE  (IF k < p THEN s[k] ELSE IF k = p THEN x ELSE s[k - 1]) \in T \cup {x}
    OBVIOUS
  <2>1. k < p \/ k = p \/ k > p
    BY <1>2
  <2> QED  BY <1>2, <1>7, <2>1
<1>9. \A k \in 1 .. (n + 1) :
        /\ k < p => g[k] = s[k]
        /\ k = p => g[k] = x
        /\ k > p => g[k] = s[k - 1]
  BY <1>2
<1> HIDE DEF g
<1>10. ASSUME NEW k \in 1 .. (n + 1), NEW l \in 1 .. (n + 1), k < l
       PROVE  Before(g[k], g[l])
  <2>1. CASE l < p
    <3>1. k < p
      BY <1>2, <1>10, <2>1
    <3> QED  BY <1>6, <1>7, <1>9, <1>10, <2>1, <3>1
  <2>2. CASE l = p
    <3>1. k < p
      BY <1>10, <2>2
    <3> QED  BY <1>4, <1>7, <1>9, <2>2, <3>1
  <2>3. CASE l > p /\ k < p
    <3>1. k < l - 1 /\ k \in 1 .. n /\ l - 1 \in 1 .. n
      BY <1>2, <1>7, <2>3
    <3> QED  BY <1>6, <1>9, <2>3, <3>1
  <2>4. CASE l > p /\ k = p
    BY <1>5, <1>7, <1>9, <2>4
  <2>5. CASE l > p /\ k > p
    <3>1. k - 1 < l - 1 /\ k - 1 \in 1 .. n /\ l - 1 \in 1 .. n
      BY <1>7, <1>10, <2>5
    <3> QED  BY <1>6, <1>9, <2>5, <3>1
  <2> QED  BY <1>2, <2>1, <2>2, <2>3, <2>4, <2>5
<1>11. Ordered(g)
  BY <1>8, <1>10 DEF Ordered
<1> QED  BY <1>8, <1>11

LEMMA SortedExist ==
  \A n \in Nat : \A S \in SUBSET Seq(Literal) :
    IsFiniteSet(S) /\ Cardinality(S) = n => \E s \in [1 .. n -> S] : Ordered(s)
<1> DEFINE P(n) == \A S \in SUBSET Seq(Literal) :
                     IsFiniteSet(S) /\ Cardinality(S) = n => \E s \in [1 .. n -> S] : Ordered(s)
           N == {n \in Nat : P(n)}
<1>1. 0 \in N
  <2> SUFFICES ASSUME NEW S \in SUBSET Seq(Literal)
               PROVE  \E s \in [1 .. 0 -> S] : Ordered(s)
    OBVIOUS
  <2> DEFINE s == [k \in 1 .. 0 |-> << >>]
  <2>1. s \in [1 .. 0 -> S]
    OBVIOUS
  <2>2. Ordered(s)
    BY DEF Ordered
  <2> HIDE DEF s
  <2> QED  BY <2>1, <2>2
<1>2. ASSUME NEW n \in Nat, n \in N PROVE n + 1 \in N
  <2> SUFFICES ASSUME NEW S \in SUBSET Seq(Literal), IsFiniteSet(S), Cardinality(S) = n + 1
               PROVE  \E s \in [1 .. (n + 1) -> S] : Ordered(s)
    OBVIOUS
  <2>1. PICK x \in S : TRUE
    <3>1. n + 1 # 0
      OBVIOUS
    <3> QED  BY <3>1, FS_EmptySet
  <2> DEFINE T == S \ {x}
  <2>2. IsFiniteSet(T) /\ Cardinality(T) = Cardinality(S) - 1
    BY <2>1, FS_RemoveElement
  <2>3. Cardinality(T) = n /\ T \in SUBSET Seq(Literal) /\ x \notin T /\ T \cup {x} = S
    BY <2>1, <2>2
  <2> HIDE DEF T
  <2>4. PICK s \in [1 .. n -> T] : Ordered(s)
    BY <1>2, <2>2, <2>3
  <2>5. \E g \in [1 .. (n + 1) -> T \cup {x}] : Ordered(g)
    BY <2>1, <2>3, <2>4, Insertion
  <2> QED  BY <2>3, <2>5
<1>3. \A n \in Nat : n \in N
  <2> HIDE DEF N
  <2> QED  BY <1>1, <1>2, SetInduction
<1> QED  BY <1>3

LEMMA SortedSequence ==
  ASSUME NEW S \in SUBSET Seq(Literal), IsFiniteSet(S)
  PROVE  Sorted(S) \in Seq(S) /\ ToSet(Sorted(S)) = S /\ Len(Sorted(S)) = Cardinality(S)
<1> DEFINE n == Cardinality(S)
<1>1. n \in Nat
  BY FS_CardinalityType
<1>2. PICK s \in [1 .. n -> S] : Ordered(s)
  BY <1>1, SortedExist
<1>3. \A k, l \in 1 .. n : k # l => s[k] # s[l]
  <2> SUFFICES ASSUME NEW k \in 1 .. n, NEW l \in 1 .. n, k # l PROVE s[k] # s[l]
    OBVIOUS
  <2>1. s[k] \in Seq(Literal) /\ s[l] \in Seq(Literal)
    OBVIOUS
  <2>2. k < l \/ l < k
    BY <1>1
  <2>3. Before(s[k], s[l]) \/ Before(s[l], s[k])
    BY <1>2, <2>2 DEF Ordered
  <2> QED  BY <2>1, <2>3, BeforeIrreflexive
<1>4. s \in SetToSeqs(S)
  BY <1>3 DEF SetToSeqs
<1> DEFINE r == Sorted(S)
<1>5. r \in SetToSeqs(S)
  BY <1>2, <1>4 DEF Sorted, Ordered
<1>6. r \in [1 .. n -> S] /\ \A k, l \in 1 .. n : k # l => r[k] # r[l]
  BY <1>5 DEF SetToSeqs
<1> HIDE DEF n, r
<1>7. r \in Injection(1 .. n, S)
  BY <1>6 DEF Injection, IsInjective
<1>8. r \in Surjection(1 .. n, S)
  <2>1. Cardinality(1 .. n) = n
    BY <1>1, FS_Interval
  <2>2. Cardinality(1 .. n) = Cardinality(S) <=> r \in Surjection(1 .. n, S)
    BY <1>7, FS_Injection
  <2> QED  BY <2>1, <2>2 DEF n
<1>9. ToSet(r) = S
  BY <1>6, <1>8 DEF ToSet, Surjection
<1>10. r \in Seq(S) /\ Len(r) = n
  BY <1>1, <1>6
<1> QED  BY <1>9, <1>10 DEF r, n

LEMMA JobFacts ==
  ASSUME job \in Jobs
  PROVE  /\ job.data \in Seq(Seq(Literal))
         /\ job.unify \in BOOLEAN /\ job.terminate \in BOOLEAN /\ job.keepNul \in BOOLEAN
BY JobsAssumption

(* The items are the records, each of them once with -s.                   *)
LEMMA UnifiedFacts ==
  ASSUME job \in Jobs
  PROVE  /\ Unified \in Seq(Seq(Literal))
         /\ items = Unified =>
              \A r \in DOMAIN job.data :
                ItemOf(r) \in DOMAIN items /\ items[ItemOf(r)] = job.data[r]
<1> DEFINE ds == job.data
           D == ToSet(ds)
           n == Len(ds)
<1>1. ds \in Seq(Seq(Literal)) /\ n \in Nat /\ DOMAIN ds = 1 .. n
  BY JobFacts
<1>2. D \in SUBSET Seq(Literal) /\ \A r \in DOMAIN ds : ds[r] \in D
  BY <1>1 DEF ToSet
<1>3. IsFiniteSet(D)
  <2>1. ds \in Surjection(1 .. n, D)
    BY <1>1 DEF ToSet, Surjection
  <2>2. IsFiniteSet(1 .. n)
    BY <1>1, FS_Interval
  <2> QED  BY <2>1, <2>2, FS_Surjection
<1>4. Sorted(D) \in Seq(D) /\ ToSet(Sorted(D)) = D
  BY <1>2, <1>3, SortedSequence
<1> HIDE DEF D
<1>5. Unified = IF job.unify THEN Sorted(D) ELSE ds
  BY DEF Unified, D
<1>6. Sorted(D) \in Seq(Seq(Literal))
  BY <1>2, <1>4
<1>7. Unified \in Seq(Seq(Literal))
  BY <1>1, <1>5, <1>6
<1>8. ASSUME items = Unified, NEW r \in DOMAIN ds
      PROVE  ItemOf(r) \in DOMAIN items /\ items[ItemOf(r)] = ds[r]
  <2>1. \E k \in DOMAIN items : IF job.unify THEN items[k] = ds[r] ELSE k = r
    <3>1. CASE job.unify
      <4>1. ds[r] \in ToSet(Sorted(D))
        BY <1>2, <1>4, <1>8
      <4> QED  BY <1>5, <1>8, <3>1, <4>1 DEF ToSet
    <3>2. CASE ~job.unify
      BY <1>5, <1>8, <3>2
    <3> QED  BY <3>1, <3>2
  <2>2. /\ ItemOf(r) \in DOMAIN items
        /\ IF job.unify THEN items[ItemOf(r)] = ds[r] ELSE ItemOf(r) = r
    BY <2>1 DEF ItemOf
  <2> QED  BY <1>5, <1>8, <2>2
<1> QED  BY <1>7, <1>8

-----------------------------------------------------------------------------
(***************************************************************************)
(* The Python encoder walks the list of Compressor: it is the encoder of   *)
(* CompressorProofs that is free to take shorter matches and to stop       *)
(* before a record, on the joined records.  Its own list has the place in  *)
(* the output beside the place in the input; as of the C encoder has one   *)
(* field for both.                                                         *)
(***************************************************************************)
Text == Joined(IF pc = "unify" THEN Unified ELSE items)

L == INSTANCE CompressorProofs WITH
       Inputs <- Seq(Literal),
       in <- Text,
       pc <- CASE pc \in {"unify", "prepare"} -> "prepare"
               [] pc \in {"collect", "done"} -> "done"
               [] OTHER -> pc,
       as <- [x \in DOMAIN nodes |->
                [next |-> nodes[x].next, from |-> from_field(x), count |-> nodes[x].count]],
       cur <- head

Started == pc \notin {"unify", "prepare"}

Starting == ~Started => dptr = 0 /\ cl = 0 /\ head = 0 /\ out = << >>

(* What the first two steps compute.                                       *)
Built ==
  /\ pc # "unify" => items = Unified
  /\ Started => /\ mv = Text
                /\ aux = [x \in Positions |->
                            Max({k \in DOMAIN items : Position(k) = x} \cup {None})]

(* No node crosses the start of a record, and the nodes about to be        *)
(* swallowed hold none.                                                    *)
Apart ==
  Started =>
    /\ \A x \in Positions : aux[x] # None => L!Boundary(x)
    /\ pc = "prune" => \A x \in cl .. (cl + j - 1) : aux[x] = None

(* The nodes that have a counter are those the output walk has visited.    *)
Counters ==
  /\ pc \in {"scan", "prune"} => \A x \in Positions : nodes[x].counter = None
  /\ pc = "emit" => \A x \in Positions :
                      IF x >= head THEN nodes[x].counter = None
                      ELSE x \in L!Linked => nodes[x].counter # None

Origins ==
  Started => \A x \in Positions : nodes[x].count >= 2 => nodes[x].offset # None

(* The items that have a place are those the output walk has passed, and   *)
(* the byte at that place stands for the item's first character.           *)
Places ==
  /\ Started => \A k \in DOMAIN items : place[k] \in 0 .. Len(out) \cup {None}
  /\ Started /\ pc \notin {"scan", "prune"} =>
       \A x \in Positions :
         aux[x] # None /\ (pc = "emit" => x < head) =>
           place[aux[x]] # None /\ Starts(out)[place[aux[x]]] = x

Nothing ==
  Text = << >> => pc \in {"unify", "prepare", "collect", "done"} /\ out = << >>

Reported ==
  pc = "done" =>
    offsets = [r \in DOMAIN job.data |->
                 IF place[ItemOf(r)] = None /\ items[ItemOf(r)] = << >>
                 THEN 0 ELSE place[ItemOf(r)]]

PInv ==
  /\ job \in Jobs
  /\ TypeOK
  /\ d <= j
  /\ Starting /\ Built /\ Apart /\ Counters /\ Origins /\ Places /\ Nothing /\ Reported
  /\ Text # << >> => L!WInv

-----------------------------------------------------------------------------
(* The operators of the format, instantiated, are those of this module.    *)
LEMMA FormatOperators ==
  /\ L!Byte = Byte /\ L!Literal = Literal /\ L!FLAG = FLAG
  /\ L!LOOKBACK = LOOKBACK
  /\ L!MAX_MATCH = MAX_MATCH /\ L!MAX_ZERO_MATCH = MAX_ZERO_MATCH
  /\ \A x : L!uint8(x) = uint8(x)
  /\ \A x : L!IsPointer(x) <=> IsPointer(x)
  /\ \A x, y : L!mk_ptr(x, y) = mk_ptr(x, y)
  /\ \A s : L!Starts(s) = Starts(s)
  /\ \A s, t : L!Spells(s, t) <=> Spells(s, t)
BY DEF L!Byte, L!Literal, L!FLAG, L!LOOKBACK, L!MAX_MATCH, L!MAX_ZERO_MATCH, L!uint8,
       L!IsPointer, L!mk_ptr, L!ZeroPage, L!ZeroShift, L!Starts, L!count, L!IsZeroOffset,
       L!Spells, L!Source, L!get_offset,
       Byte, Literal, FLAG, LOOKBACK, MAX_MATCH, MAX_ZERO_MATCH, uint8,
       IsPointer, mk_ptr, ZeroPage, ZeroShift, Starts, count, IsZeroOffset,
       Spells, Source, get_offset

LEMMA Inputs7 == Seq(Literal) \subseteq Seq(L!Byte)
<1>1. Literal \subseteq Byte
  BY FormatBounds DEF Literal, Byte
<1> QED  BY <1>1, FormatOperators

LEMMA NoLongMatch == MAX_ZERO_MATCH = MAX_MATCH
BY NoZeroPage, FormatAssumption DEF MAX_ZERO_MATCH, MAX_MATCH

(* The loop of the C encoder that corresponds.                             *)
Loop == CASE pc \in {"unify", "prepare"} -> "prepare"
          [] pc \in {"collect", "done"} -> "done"
          [] OTHER -> pc

LEMMA Loops ==
  /\ pc \in {"unify", "prepare"} => Loop = "prepare"
  /\ pc \in {"collect", "done"} => Loop = "done"
  /\ pc \in {"scan", "prune", "emit", "raised"} => Loop = pc
BY DEF Loop

LEMMA TextFacts ==
  ASSUME job \in Jobs, items \in Seq(Seq(Literal))
  PROVE  /\ Text \in Seq(Literal) /\ Len(Text) \in Nat
         /\ L!isize = Len(Text) /\ L!Nodes = 0 .. (Len(Text) - 1)
         /\ Text # << >> <=> L!isize > 0
<1>1. (IF pc = "unify" THEN Unified ELSE items) \in Seq(Seq(Literal))
  BY UnifiedFacts
<1>2. Text \in Seq(Literal)
  BY <1>1, JoinedFacts DEF Text
<1>3. L!isize = Len(Text)
  BY DEF L!isize
<1>4. Len(Text) \in Nat /\ (Text # << >> <=> Len(Text) > 0)
  BY <1>2
<1> QED  BY <1>2, <1>3, <1>4 DEF L!Nodes

(* The list, seen from both sides.                                         *)
LEMMA Walking ==
  ASSUME PInv, pc \in {"scan", "prune", "emit"}
  PROVE  /\ Text # << >> /\ L!WInv /\ L!OInv /\ L!IInv /\ L!Listed /\ Loop = pc
         /\ mv = Text /\ mv \in Seq(Literal) /\ L!isize = Len(mv) /\ Len(mv) \in Nat
         /\ Len(mv) > 0
         /\ Positions = L!Nodes /\ Positions = 0 .. (Len(mv) - 1)
         /\ nodes \in [Positions -> Node] /\ DOMAIN nodes = Positions
         /\ {dptr, cl, head} \subseteq Positions
         /\ \A x \in Positions : /\ L!Size(x) = nodes[x].count
                                 /\ L!Succ(x) = nodes[x].next
                                 /\ L!From(x) = from_field(x)
<1>1. /\ job \in Jobs /\ items \in Seq(Seq(Literal)) /\ Started /\ TypeOK
      /\ mv = Text
  BY DEF PInv, TypeOK, Started, Built
<1>2. Text # << >> /\ L!WInv
  BY DEF PInv, Nothing
<1>3. L!OInv /\ L!IInv
  BY <1>2 DEF L!WInv, L!OInv
<1>4. Loop = pc
  BY Loops
<1>5. L!Listed
  BY <1>4 DEF Loop, L!Listed
<1>6. /\ Text \in Seq(Literal) /\ Len(Text) \in Nat /\ Len(Text) > 0
      /\ L!isize = Len(Text) /\ L!Nodes = 0 .. (Len(Text) - 1)
  BY <1>1, <1>2, TextFacts
<1>7. Positions = 0 .. (Len(mv) - 1)
  BY DEF Positions
<1>8. /\ nodes \in [Positions -> Node] /\ {dptr, cl, head} \subseteq Positions
  BY <1>1 DEF TypeOK, Started
<1>9. ASSUME NEW x \in Positions
      PROVE  /\ L!Size(x) = nodes[x].count
             /\ L!Succ(x) = nodes[x].next
             /\ L!From(x) = from_field(x)
  BY <1>8 DEF L!Size, L!Succ, L!From
<1> QED  BY <1>1, <1>2, <1>3, <1>4, <1>5, <1>6, <1>7, <1>8, <1>9

LEMMA Extremes ==
  ASSUME NEW x \in Int, NEW y \in Int
  PROVE  /\ Max({x, y}) = (IF x >= y THEN x ELSE y)
         /\ Min({x, y}) = (IF x <= y THEN x ELSE y)
<1>1. /\ \A z \in {x, y} : (IF x >= y THEN x ELSE y) >= z
      /\ \A z \in {x, y} : (IF x <= y THEN x ELSE y) <= z
  OBVIOUS
<1>2. ASSUME NEW z \in {x, y}, \A w \in {x, y} : z >= w
      PROVE  z = (IF x >= y THEN x ELSE y)
  BY <1>2
<1>3. ASSUME NEW z \in {x, y}, \A w \in {x, y} : z <= w
      PROVE  z = (IF x <= y THEN x ELSE y)
  BY <1>3
<1>4. Max({x, y}) \in {x, y} /\ \A w \in {x, y} : Max({x, y}) >= w
  BY <1>1 DEF Max
<1>5. Min({x, y}) \in {x, y} /\ \A w \in {x, y} : Min({x, y}) <= w
  BY <1>1 DEF Min
<1> QED  BY <1>2, <1>3, <1>4, <1>5

(* Node.match: a match is within the limits and copies the same text.      *)
LEMMA MatchSpec ==
  ASSUME mv \in Seq(Literal), NEW x \in Positions, NEW y \in Positions, NEW longest \in Nat
  PROVE  /\ match(x, y, longest) \in 0 .. longest
         /\ y + match(x, y, longest) <= Len(mv)
         /\ \A k \in 1 .. match(x, y, longest) : mv[x + k] = mv[y + k]
         /\ LET n == match(x, y, longest) IN
            \/ n = longest \/ x + n = Len(mv) \/ y + n = Len(mv)
            \/ ~Agree(x + n, y + n) \/ ~Compressible(x + n)
<1> DEFINE room == Len(mv) - Max({x, y})
           limit == Min({longest, room})
           Stop(n) == n = limit \/ ~Agree(x + n, y + n) \/ ~Compressible(x + n)
           S == {n \in 0 .. limit : Stop(n)}
<1>1. Len(mv) \in Nat /\ x \in 0 .. (Len(mv) - 1) /\ y \in 0 .. (Len(mv) - 1)
  BY DEF Positions
<1>2. /\ limit \in 0 .. longest /\ y + limit <= Len(mv)
      /\ limit = longest \/ x + limit = Len(mv) \/ y + limit = Len(mv)
  <2>1. Max({x, y}) = (IF x >= y THEN x ELSE y)
    BY <1>1, Extremes
  <2>2. /\ room \in Nat /\ y + room <= Len(mv)
        /\ x + room = Len(mv) \/ y + room = Len(mv)
    BY <1>1, <2>1
  <2> HIDE DEF room
  <2>3. room \in Int /\ longest \in Int
    BY <2>2
  <2>4. Min({longest, room}) = (IF longest <= room THEN longest ELSE room)
    BY <2>3, Extremes
  <2>5. limit = (IF longest <= room THEN longest ELSE room)
    BY <2>4
  <2> HIDE DEF limit
  <2> QED  BY <1>1, <2>2, <2>5
<1> HIDE DEF limit
<1>3. PICK n \in S : \A k \in S : ~(<<k, n>> \in OpToRel(<, Nat))
  <2>1. IsWellFoundedOn(OpToRel(<, Nat), Nat)
    BY NatLessThanWellFounded
  <2>2. S \subseteq Nat /\ limit \in S
    BY <1>2
  <2> QED  BY <2>1, <2>2, WFMin
<1>4. n \in 0 .. limit /\ n \in Nat
  BY <1>2
<1>5. ASSUME NEW k \in 0 .. (n - 1) PROVE Agree(x + k, y + k) /\ Compressible(x + k)
  <2>1. k \in 0 .. limit /\ k < n /\ k \in Nat
    BY <1>4, <1>2
  <2>2. k \notin S
    BY <1>3, <1>4, <2>1 DEF OpToRel
  <2> QED  BY <2>1, <2>2
<1>6. \E r \in 0 .. limit :
        /\ \A k \in 0 .. (r - 1) : Agree(x + k, y + k) /\ Compressible(x + k)
        /\ r = limit \/ ~Agree(x + r, y + r) \/ ~Compressible(x + r)
  BY <1>3, <1>4, <1>5
<1>7. match(x, y, longest) = CHOOSE r \in 0 .. limit :
        /\ \A k \in 0 .. (r - 1) : Agree(x + k, y + k) /\ Compressible(x + k)
        /\ r = limit \/ ~Agree(x + r, y + r) \/ ~Compressible(x + r)
  BY Zenon DEF match, limit
<1>8. /\ match(x, y, longest) \in 0 .. limit
      /\ \A k \in 0 .. (match(x, y, longest) - 1) : Agree(x + k, y + k)
      /\ Stop(match(x, y, longest))
  BY <1>6, <1>7, Zenon
<1> DEFINE l == match(x, y, longest)
<1>11. \/ l = longest \/ x + l = Len(mv) \/ y + l = Len(mv)
       \/ ~Agree(x + l, y + l) \/ ~Compressible(x + l)
  BY <1>2, <1>8
<1> HIDE DEF l
<1>9. ASSUME NEW k \in 1 .. l PROVE mv[x + k] = mv[y + k]
  <2>0. l \in 0 .. limit
    BY <1>8 DEF l
  <2>1. l \in Nat
    BY <1>2, <2>0
  <2>2. k - 1 \in 0 .. (l - 1) /\ x + (k - 1) + 1 = x + k /\ y + (k - 1) + 1 = y + k
    BY <1>1, <2>1
  <2>3. Agree(x + (k - 1), y + (k - 1))
    BY <1>8, <2>2 DEF l
  <2>4. mv[x + (k - 1) + 1] = mv[y + (k - 1) + 1]
    BY <2>3 DEF Agree
  <2> QED  BY <2>2, <2>4
<1>10. l \in 0 .. longest /\ y + l <= Len(mv)
  <2>1. l \in 0 .. limit
    BY <1>8 DEF l
  <2> QED  BY <1>1, <1>2, <2>1
<1> QED  BY <1>9, <1>10, <1>11 DEF l

(* Without zero_bits the byte of Python is that of mk_ptr.                 *)
LEMMA SameByte ==
  ASSUME NEW o \in 0 .. (LOOKBACK - 1), NEW n \in 2 .. MAX_MATCH
  PROVE  /\ o * (2 ^ COUNT_BITS) \in Byte
         /\ FLAG + ((o * (2 ^ COUNT_BITS)) % FLAG) + ((n - 2) % (2 ^ COUNT_BITS))
              = mk_ptr(n, uint8(o))
<1> DEFINE F == 2 ^ COUNT_BITS
           W == 2 ^ (PAYLOAD_BITS - COUNT_BITS)
           k == n - 2
<1>1. /\ COUNT_BITS \in 0 .. 7 /\ PAYLOAD_BITS - COUNT_BITS \in 0 .. 7 /\ PAYLOAD_BITS \in 0 .. 7
      /\ (PAYLOAD_BITS - COUNT_BITS) + COUNT_BITS = PAYLOAD_BITS
  BY FormatAssumption
<1>2. /\ F \in Nat /\ F >= 1 /\ W \in Nat /\ W >= 1 /\ FLAG \in Nat /\ FLAG >= 2
      /\ LOOKBACK \in Nat
  BY <1>1, Powers, FormatBounds
<1>3. FLAG = W * F
  <2>1. 2 ^ PAYLOAD_BITS = W * F
    BY <1>1, PowerSums
  <2> HIDE DEF F, W
  <2> QED  BY <2>1 DEF FLAG
<1>4. LOOKBACK = W
  BY <1>2, NoZeroPage DEF LOOKBACK
<1>5. k \in 0 .. (F - 1) /\ n - 2 = k
  BY <1>2 DEF MAX_MATCH
<1>6. mk_ptr(n, uint8(o)) = (FLAG + ((uint8(o) - 0) * F) + (n - 2)) % (2 * FLAG)
  BY NoZeroPage DEF mk_ptr, uint8, ZeroShift
<1> HIDE DEF F, W, k
<1>7. o \in Nat /\ o + 1 <= W
  BY <1>2, <1>4
<1>8. o * F + F <= W * F
  BY <1>2, <1>7, ProductBound
<1>9. uint8(o) = o
  <2>1. LOOKBACK <= FLAG
    BY FormatBounds
  <2>2. o < 2 * FLAG
    BY <1>2, <2>1
  <2> QED  BY <1>2, <1>7, <2>2 DEF uint8
<1> DEFINE p == o * F
<1>10. p \in Nat
  BY <1>2, <1>7
<1>11. p + F <= FLAG
  BY <1>3, <1>8
<1>12. mk_ptr(n, uint8(o)) = (FLAG + p + k) % (2 * FLAG)
  <2>1. (o - 0) * F = o * F
    BY <1>2, <1>7
  <2> QED  BY <1>5, <1>6, <1>9, <2>1
<1> HIDE DEF p
<1>13. p \in 0 .. (FLAG - 1) /\ FLAG + p + k \in 0 .. (2 * FLAG - 1)
  BY <1>2, <1>5, <1>10, <1>11
<1>14. p % FLAG = p /\ k % F = k /\ (FLAG + p + k) % (2 * FLAG) = FLAG + p + k
  BY <1>2, <1>5, <1>10, <1>13
<1>15. p \in Byte
  BY <1>2, <1>13 DEF Byte
<1>16. FLAG + (p % FLAG) + (k % F) = mk_ptr(n, uint8(o))
  BY <1>12, <1>14
<1> QED  BY <1>5, <1>15, <1>16 DEF p, F

-----------------------------------------------------------------------------
(***************************************************************************)
(* Every step is one of the free encoder, or leaves it alone.              *)
(***************************************************************************)
LEMMA TextStays == PInv /\ [Next]_vars => Text' = Text /\ job' = job
<1> SUFFICES ASSUME PInv, [Next]_vars PROVE Text' = Text /\ job' = job
  OBVIOUS
<1>1. CASE Unify
  <2>1. items' = Unified /\ pc = "unify" /\ pc' = "prepare" /\ job' = job
    BY <1>1 DEF Unify
  <2>2. \A s : Joined(s)' = Joined(s)
    BY <2>1 DEF Joined
  <2> QED  BY <2>1 DEF Text, Joined
<1>2. CASE ~Unify
  <2>1. items' = items /\ job' = job /\ (pc = "unify" <=> pc' = "unify")
    BY <1>2 DEF Next, vars, Prepare, Compare, Visit, Advance, Swallow, Replace, Chop,
                Emit, Collect, text_vars
  <2> QED  BY <2>1 DEF Text, Joined, Unified
<1> QED  BY <1>1, <1>2

LEMMA PrepareStep ==
  ASSUME PInv, Prepare, Text # << >>
  PROVE  L!Prepare
<1>1. /\ pc = "prepare" /\ Text' = Text /\ job \in Jobs /\ items \in Seq(Seq(Literal))
      /\ pc' = "scan" /\ mv' = Text /\ nodes' = Linked(Len(mv'))
      /\ UNCHANGED <<dptr, cl, i, m, nn, d, j, head, out>>
  BY TextStays DEF PInv, TypeOK, Prepare, Text, scan_vars, Next
<1>2. Loop = "prepare" /\ Loop' = "scan"
  BY <1>1 DEF Loop
<1>3. /\ Text \in Seq(Literal) /\ L!isize = Len(Text) /\ L!Nodes = 0 .. (Len(Text) - 1)
      /\ L!isize > 0 /\ Len(Text) \in Nat
  BY <1>1, TextFacts
<1>4. \A x \in L!Nodes : ~L!IsPointer(Text[x + 1])
  <2> SUFFICES ASSUME NEW x \in L!Nodes PROVE ~L!IsPointer(Text[x + 1])
    OBVIOUS
  <2>1. x + 1 \in 1 .. Len(Text)
    BY <1>3
  <2>2. Text[x + 1] \in Literal
    BY <1>3, <2>1
  <2>3. ~IsPointer(Text[x + 1])
    BY <2>2, FormatBounds DEF Literal, IsPointer
  <2> QED  BY <2>3, FormatOperators
<1> DEFINE n == Len(Text)
<1>5. nodes' = [x \in 0 .. (n - 1) |->
                  [next |-> IF x + 1 < n THEN x + 1 ELSE None, offset |-> None,
                   count |-> 1, counter |-> None]]
  BY <1>1 DEF Linked, Chain
<1>6. [x \in DOMAIN nodes' |->
         [next |-> nodes'[x].next, from |-> from_field(x)', count |-> nodes'[x].count]]
      = [x \in L!Nodes |-> [next |-> IF x = L!isize - 1 THEN -1 ELSE x + 1,
                            from |-> 0, count |-> 1]]
  <2>1. DOMAIN nodes' = L!Nodes
    BY <1>3, <1>5
  <2>2. ASSUME NEW x \in L!Nodes
        PROVE  /\ nodes'[x].next = IF x = L!isize - 1 THEN -1 ELSE x + 1
               /\ from_field(x)' = 0
               /\ nodes'[x].count = 1
    <3>1. x \in 0 .. (n - 1)
      BY <1>3
    <3>2. nodes'[x] = [next |-> IF x + 1 < n THEN x + 1 ELSE None, offset |-> None,
                       count |-> 1, counter |-> None]
      BY <1>5, <3>1
    <3>3. /\ nodes'[x].next = (IF x + 1 < n THEN x + 1 ELSE None)
          /\ nodes'[x].offset = None /\ nodes'[x].count = 1 /\ nodes'[x].counter = None
      BY <3>2
    <3>4. from_field(x)' = 0
      BY <3>3 DEF from_field
    <3> QED  BY <1>3, <3>1, <3>3, <3>4 DEF None
  <2> QED  BY <2>1, <2>2
<1> QED  BY <1>1, <1>2, <1>3, <1>4, <1>6 DEF L!Prepare, Loop

(* The list of the C encoder stays when the nodes do.                      *)
List == [x \in DOMAIN nodes |->
           [next |-> nodes[x].next, from |-> from_field(x), count |-> nodes[x].count]]

LEMMA ListStays == nodes' = nodes => List' = List
BY DEF List, from_field

LEMMA NoneIsNotANode ==
  ASSUME PInv, pc \in {"scan", "prune", "emit"}
  PROVE  \A x \in Positions : /\ nodes[x].next # None <=> nodes[x].next >= 0
                              /\ nodes[x].next # None => nodes[x].next \in Positions
<1> SUFFICES ASSUME NEW x \in Positions
             PROVE  /\ nodes[x].next # None <=> nodes[x].next >= 0
                    /\ nodes[x].next # None => nodes[x].next \in Positions
  OBVIOUS
<1>1. nodes[x].next \in Positions \cup {None} /\ Positions = 0 .. (Len(mv) - 1)
      /\ Len(mv) \in Nat
  BY Walking DEF Node
<1> QED  BY <1>1 DEF None

LEMMA CompareStep ==
  ASSUME PInv, Compare
  PROVE  L!FreeCompare
<1>1. /\ pc = "scan" /\ i < LOOKBACK /\ nodes[cl].next # None /\ cl' = nodes[cl].next
      /\ nodes' = nodes /\ Text' = Text
      /\ UNCHANGED <<dptr, head, out>>
  BY TextStays DEF Compare, Visit, Next, out_vars
<1>2. /\ mv = Text /\ mv \in Seq(Literal) /\ L!isize = Len(mv) /\ Loop = pc
      /\ dptr \in Positions /\ cl \in Positions
      /\ L!Succ(cl) = nodes[cl].next
  BY <1>1, Walking
<1>3. cl' \in Positions /\ nodes[cl].next >= 0
  BY <1>1, <1>2, NoneIsNotANode
<1> DEFINE longest == IF i = 0 THEN MAX_ZERO_MATCH ELSE MAX_MATCH
           n == match(dptr, cl', longest)
<1>4. longest \in Nat
  BY FormatBounds
<1>5. /\ n \in 0 .. longest
      /\ cl' + n <= Len(mv)
      /\ \A k \in 1 .. n : mv[dptr + k] = mv[cl' + k]
  BY <1>2, <1>3, <1>4, MatchSpec
<1>6. IF n >= 2
      THEN pc' = "prune" /\ m' = n /\ nn' = cl' /\ d' = 0 /\ j' = 0 /\ i' = i
      ELSE i' = i + 1 /\ UNCHANGED <<pc, m, nn, d, j>>
  BY DEF Compare, Visit
<1>7. Loop' = IF n >= 2 THEN "prune" ELSE Loop
  BY <1>1, <1>2, <1>6 DEF Loop
<1> HIDE DEF n
<1>8. n \in 0 .. (IF i = 0 THEN L!MAX_ZERO_MATCH ELSE L!MAX_MATCH)
  BY <1>5, FormatOperators
<1>9. L!SameText(dptr, cl', n)
  BY <1>2, <1>5 DEF L!SameText
<1>10. IF n >= 2
       THEN Loop' = "prune" /\ m' = n /\ nn' = cl' /\ d' = 0 /\ j' = 0 /\ i' = i
       ELSE i' = i + 1 /\ UNCHANGED <<Loop, m, nn, d, j>>
  BY <1>6, <1>7
<1>11. /\ Loop = "scan" /\ i < L!LOOKBACK /\ L!Succ(cl) >= 0 /\ cl' = L!Succ(cl)
       /\ cl' + n <= L!isize /\ List' = List
  BY <1>1, <1>2, <1>3, <1>5, ListStays, FormatOperators
<1> HIDE DEF longest
<1> QED  BY <1>1, <1>8, <1>9, <1>10, <1>11 DEF L!FreeCompare, Loop, List

LEMMA AdvanceStep ==
  ASSUME PInv, Advance
  PROVE  L!Advance
<1>1. /\ pc = "scan" /\ nodes' = nodes /\ Text' = Text
      /\ i >= LOOKBACK \/ nodes[cl].next = None
      /\ IF nodes[dptr].next = None
         THEN pc' = "emit" /\ UNCHANGED <<dptr, cl, i>>
         ELSE dptr' = nodes[dptr].next /\ cl' = dptr' /\ i' = 0 /\ UNCHANGED pc
      /\ UNCHANGED <<m, nn, d, j, head, out>>
  BY TextStays DEF Advance, Next, out_vars
<1>2. /\ Loop = pc /\ dptr \in Positions /\ cl \in Positions
      /\ L!Succ(cl) = nodes[cl].next /\ L!Succ(dptr) = nodes[dptr].next
      /\ nodes \in [Positions -> Node] /\ DOMAIN nodes = Positions
  BY <1>1, Walking
<1>3. nodes[cl].next = None <=> List[cl].next < 0
  <2>1. List[cl].next = nodes[cl].next
    BY <1>2 DEF List
  <2> DEFINE v == nodes[cl].next
  <2>2. v \in Positions \cup {None} /\ Positions \subseteq Int /\ None = -1
    BY <1>2 DEF Node, Positions, None
  <2>3. v # None <=> v >= 0
    BY <1>1, <1>2, NoneIsNotANode
  <2> HIDE DEF v
  <2>4. v \in Int
    BY <2>2
  <2>5. v = None <=> v < 0
    BY <2>2, <2>3, <2>4
  <2> QED  BY <2>1, <2>5 DEF v
<1>4. List[dptr].next = nodes[dptr].next
  BY <1>2 DEF List
<1>5. Loop' = pc'
  BY <1>1, Loops DEF Loop
<1>6. List' = List
  BY <1>1, ListStays
<1>7. i >= L!LOOKBACK \/ List[cl].next < 0
  BY <1>1, <1>3, FormatOperators
<1>8. IF List[dptr].next = -1
      THEN Loop' = "emit" /\ UNCHANGED <<dptr, cl, i>>
      ELSE dptr' = List[dptr].next /\ cl' = dptr' /\ i' = 0 /\ UNCHANGED Loop
  BY <1>1, <1>2, <1>4, <1>5 DEF None
<1> QED  BY <1>1, <1>2, <1>6, <1>7, <1>8 DEF L!Advance, Loop, List

LEMMA SwallowStep ==
  ASSUME PInv, Swallow
  PROVE  L!Swallow
<1>1. /\ pc = "prune" /\ nodes' = nodes /\ Text' = Text /\ pc' = pc
      /\ nn # None /\ j + nodes[nn].count <= m
      /\ j' = j + nodes[nn].count /\ nn' = nodes[nn].next /\ d' = d + 1
      /\ UNCHANGED <<dptr, cl, i, m, head, out>>
  BY TextStays DEF Swallow, Fits, Next, out_vars
<1>2. /\ Loop = pc /\ nodes \in [Positions -> Node] /\ DOMAIN nodes = Positions
  BY <1>1, Walking
<1>3. nn \in Positions
  BY <1>1 DEF PInv, TypeOK
<1>4. List[nn].next = nodes[nn].next /\ List[nn].count = nodes[nn].count
  BY <1>2, <1>3 DEF List
<1>5. Loop' = Loop /\ List' = List
  BY <1>1, ListStays DEF Loop
<1>6. nn # -1 /\ j + List[nn].count <= m
  BY <1>1, <1>4 DEF None
<1>7. j' = j + List[nn].count /\ nn' = List[nn].next
  BY <1>1, <1>4
<1> QED  BY <1>1, <1>2, <1>5, <1>6, <1>7 DEF L!Swallow, L!Fits, Loop, List

(* The fields of the node a match replaces.                                *)
LEMMA ReplacedNode ==
  ASSUME PInv, Replace
  PROVE  /\ nodes' \in [Positions -> [next : Int, offset : Int, count : Int, counter : Int]]
         /\ d < 2 => nodes' = nodes
         /\ d >= 2 =>
              \A x \in Positions :
                /\ nodes'[x].next = (IF x = cl THEN nn ELSE nodes[x].next)
                /\ nodes'[x].count = (IF x = cl THEN j ELSE nodes[x].count)
                /\ nodes'[x].offset = (IF x = cl THEN dptr ELSE nodes[x].offset)
                /\ nodes'[x].counter = nodes[x].counter
<1>1. /\ pc = "prune"
      /\ nodes' = IF d >= 2
                  THEN [nodes EXCEPT ![cl].next = nn, ![cl].count = j, ![cl].offset = dptr]
                  ELSE nodes
  BY DEF Replace, Chop
<1>2. /\ nodes \in [Positions -> Node] /\ cl \in Positions /\ dptr \in Positions
      /\ Positions \subseteq Int
  BY <1>1, Walking DEF Positions
<1>3. nn \in Int /\ j \in Int /\ d \in Int
  BY <1>1, <1>2, FormatBounds DEF PInv, TypeOK, None
<1> DEFINE R == [next : Int, offset : Int, count : Int, counter : Int]
<1>4. \A x \in Positions : nodes[x] \in R
  <2>1. Positions \cup {None} \subseteq Int /\ 1 .. MAX_MATCH \subseteq Int
        /\ Nat \cup {None} \subseteq Int
    BY <1>2, FormatBounds DEF None
  <2>2. \A x \in Positions : nodes[x] \in Node
    BY <1>2
  <2>3. Node \subseteq R
    BY <2>1 DEF Node
  <2> QED  BY <2>2, <2>3
<1>5. \A r \in R, v \in Int :
        /\ [r EXCEPT !.next = v]
             = [next |-> v, offset |-> r.offset, count |-> r.count, counter |-> r.counter]
        /\ [r EXCEPT !.count = v]
             = [next |-> r.next, offset |-> r.offset, count |-> v, counter |-> r.counter]
        /\ [r EXCEPT !.offset = v]
             = [next |-> r.next, offset |-> v, count |-> r.count, counter |-> r.counter]
        /\ [r EXCEPT !.next = v] \in R /\ [r EXCEPT !.count = v] \in R
  OBVIOUS
<1> HIDE DEF R
<1>6. ASSUME d >= 2, NEW x \in Positions
      PROVE  nodes'[x] = IF x = cl
                         THEN [next |-> nn, offset |-> dptr, count |-> j,
                               counter |-> nodes[x].counter]
                         ELSE nodes[x]
  <2> DEFINE r == nodes[cl]
             r1 == [r EXCEPT !.next = nn]
             r2 == [r1 EXCEPT !.count = j]
             r3 == [r2 EXCEPT !.offset = dptr]
  <2>1. nodes'[x] = IF x = cl THEN r3 ELSE nodes[x]
    BY <1>1, <1>2, <1>6
  <2>2. r \in R /\ r1 \in R
    BY <1>2, <1>3, <1>4, <1>5
  <2>3. r1.offset = r.offset /\ r1.count = r.count /\ r1.counter = r.counter /\ r1.next = nn
    BY <1>3, <1>5, <2>2
  <2> HIDE DEF r, r1
  <2>4. r2 \in R /\ r2.next = nn /\ r2.count = j /\ r2.counter = r.counter
    <3>1. /\ r2 = [next |-> r1.next, offset |-> r1.offset, count |-> j, counter |-> r1.counter]
          /\ r2 \in R
      BY <1>3, <1>5, <2>2
    <3> HIDE DEF r2
    <3> QED  BY <2>3, <3>1
  <2> HIDE DEF r2
  <2>5. r3 = [next |-> r2.next, offset |-> dptr, count |-> r2.count, counter |-> r2.counter]
    BY <1>2, <1>5, <2>4
  <2> HIDE DEF r3
  <2> QED  BY <2>1, <2>4, <2>5 DEF r
<1>7. nodes' \in [Positions -> R]
  <2>1. DOMAIN nodes' = Positions /\ nodes' = [x \in Positions |-> nodes'[x]]
    BY <1>1, <1>2
  <2>2. \A x \in Positions : nodes'[x] \in R
    <3>1. CASE d >= 2
      <4>1. [next |-> nn, offset |-> dptr, count |-> j, counter |-> nodes[cl].counter] \in R
        BY <1>2, <1>3, <1>4 DEF R
      <4> QED  BY <1>4, <1>6, <3>1, <4>1
    <3>2. CASE ~(d >= 2)
      BY <1>1, <1>4, <3>2
    <3> QED  BY <3>1, <3>2
  <2> QED  BY <2>1, <2>2
<1>8. d < 2 => nodes' = nodes
  BY <1>1, <1>3
<1> QED  BY <1>6, <1>7, <1>8 DEF R

LEMMA ReplaceStep ==
  ASSUME PInv, Replace
  PROVE  L!FreeReplace
<1>1. /\ pc = "prune" /\ pc' = "scan" /\ Text' = Text /\ i' = i + 1
      /\ UNCHANGED <<dptr, cl, m, nn, d, j, head, out>>
  BY TextStays DEF Replace, Chop, Next, out_vars
<1>2. /\ Loop = pc /\ nodes \in [Positions -> Node] /\ DOMAIN nodes = Positions
      /\ cl \in Positions /\ dptr \in Positions /\ Positions \subseteq Nat
  BY <1>1, Walking DEF Positions
<1>3. Loop' = "scan"
  BY <1>1 DEF Loop
<1>4. uint8(j) = j
  <2>1. j \in Nat /\ j <= MAX_MATCH
    BY FormatBounds DEF PInv, TypeOK
  <2>2. j < 2 * FLAG /\ FLAG \in Nat
    BY <2>1, FormatBounds
  <2> QED  BY <2>1, <2>2 DEF uint8
<1>5. List' = IF d >= 2
              THEN [List EXCEPT ![cl] = [next |-> nn, from |-> dptr, count |-> uint8(j)]]
              ELSE List
  <2>1. CASE d >= 2
    <3>1. \A x \in Positions :
            /\ nodes'[x].next = (IF x = cl THEN nn ELSE nodes[x].next)
            /\ nodes'[x].count = (IF x = cl THEN j ELSE nodes[x].count)
            /\ nodes'[x].offset = (IF x = cl THEN dptr ELSE nodes[x].offset)
            /\ nodes'[x].counter = nodes[x].counter
      BY <2>1, ReplacedNode
    <3>2. \A x \in Positions : nodes[x].counter = None
      BY <1>1 DEF PInv, Counters
    <3>3. \A x \in Positions : from_field(x)' = (IF x = cl THEN dptr ELSE from_field(x))
      <4> SUFFICES ASSUME NEW x \in Positions
                   PROVE  from_field(x)' = (IF x = cl THEN dptr ELSE from_field(x))
        OBVIOUS
      <4>1. nodes[x].counter = None /\ nodes'[x].counter = None /\ dptr # None
        BY <1>2, <3>1, <3>2 DEF None
      <4>2. from_field(x)' = IF nodes'[x].offset # None THEN nodes'[x].offset ELSE 0
        BY <4>1 DEF from_field
      <4>3. from_field(x) = IF nodes[x].offset # None THEN nodes[x].offset ELSE 0
        BY <4>1 DEF from_field
      <4> QED  BY <3>1, <4>1, <4>2, <4>3
    <3>4. DOMAIN nodes' = Positions
      BY ReplacedNode
    <3>5. List' = [x \in Positions |->
                     [next |-> nodes'[x].next, from |-> from_field(x)', count |-> nodes'[x].count]]
      BY <3>4 DEF List
    <3>6. List = [x \in Positions |->
                     [next |-> nodes[x].next, from |-> from_field(x), count |-> nodes[x].count]]
      BY <1>2 DEF List
    <3>7. ASSUME NEW x \in Positions
          PROVE  [next |-> nodes'[x].next, from |-> from_field(x)', count |-> nodes'[x].count]
                   = IF x = cl THEN [next |-> nn, from |-> dptr, count |-> j] ELSE List[x]
      BY <3>1, <3>3, <3>6
    <3> QED  BY <1>2, <1>4, <2>1, <3>5, <3>6, <3>7
  <2>2. CASE ~(d >= 2)
    <3>1. nodes' = nodes
      BY <2>2 DEF Replace, Chop
    <3> QED  BY <2>2, <3>1, ListStays
  <2> QED  BY <2>1, <2>2
<1>6. L!uint8(j) = uint8(j)
  BY FormatOperators
<1> QED  BY <1>1, <1>2, <1>3, <1>5, <1>6 DEF L!FreeReplace, Loop, List

(* No byte is out of range, and it is the byte the C encoder writes.       *)
LEMMA EmittedByte ==
  ASSUME PInv, pc = "emit"
  PROVE  /\ Encodable(head)
         /\ head \in Positions
         /\ (IF nodes[head].count > 1 THEN the_byte(head) ELSE mv[head + 1])
              = (IF List[head].count < 2 THEN Text[head + 1] % FLAG
                 ELSE mk_ptr(List[head].count, uint8(L!Offset(head))))
<1>1. /\ L!OInv /\ Loop = pc /\ mv = Text /\ mv \in Seq(Literal) /\ Len(mv) \in Nat
      /\ Positions = 0 .. (Len(mv) - 1) /\ L!Nodes = Positions
      /\ nodes \in [Positions -> Node] /\ DOMAIN nodes = Positions /\ head \in Positions
      /\ \A x \in Positions : L!Size(x) = nodes[x].count /\ L!From(x) = from_field(x)
  BY Walking
<1> DEFINE n == nodes[head].count
<1>2. n \in 1 .. MAX_MATCH /\ MAX_MATCH \in Nat /\ n \in Nat /\ counter = Len(out)
  <2>1. nodes[head] \in Node
    BY <1>1
  <2> QED  BY <2>1, FormatBounds DEF Node, PInv, TypeOK
<1>3. /\ List[head].count = n /\ List[head].from = from_field(head)
      /\ \A x \in Positions : List[x].from = from_field(x)
  BY <1>1 DEF List
<1>4. CASE n >= 2
  <2>1. L!Size(head) >= 2
    BY <1>1, <1>4
  <2>2. /\ L!Offset(head) \in 0 .. (L!LOOKBACK - 1)
        /\ L!From(head) \in L!Linked /\ L!From(head) < head
    <3>1. Loop = "emit"
      BY <1>1
    <3> QED  BY <1>1, <2>1, <3>1, Inputs7, FormatAssumption, L!OffsetIsDistance
             DEF L!FormatAssumption, Loop
  <2> DEFINE f == nodes[head].offset
             o == counter - nodes[f].counter - 1
  <2>3. nodes[head].counter = None /\ f # None
    <3>1. head >= head
      BY <1>1
    <3> QED  BY <1>1, <1>4, <3>1 DEF PInv, Counters, Origins, Started
  <2>4. L!From(head) = f /\ List[head].from = f
    BY <1>1, <1>3, <2>3 DEF from_field
  <2>5. f \in Positions /\ f \in L!Linked /\ ~(f >= head)
    <3>1. f \in L!Linked /\ f < head
      BY <2>2, <2>4
    <3>2. f \in Positions
      BY <1>1, <3>1 DEF L!Linked
    <3>3. f \in Int /\ head \in Int
      BY <1>1, <3>2
    <3> QED  BY <3>1, <3>2, <3>3
  <2>6. nodes[f].counter # None
    BY <2>5 DEF PInv, Counters
  <2>7. List[f].from = nodes[f].counter
    BY <1>3, <2>5, <2>6 DEF from_field
  <2>8. L!Offset(head) = o
    <3>1. L!Offset(head) = Len(out) - List[List[head].from].from - 1
      BY DEF L!Offset, List
    <3> QED  BY <1>2, <2>4, <2>7, <3>1
  <2>9. o \in 0 .. (LOOKBACK - 1)
    BY <2>2, <2>8, FormatOperators
  <2>10. Shifted(head) = o * (2 ^ COUNT_BITS)
    BY DEF Shifted
  <2> HIDE DEF o
  <2>11. n \in 2 .. MAX_MATCH
    BY <1>2, <1>4
  <2>12. /\ o * (2 ^ COUNT_BITS) \in Byte
         /\ FLAG + ((o * (2 ^ COUNT_BITS)) % FLAG) + ((n - 2) % (2 ^ COUNT_BITS))
              = mk_ptr(n, uint8(o))
    BY <2>9, <2>11, SameByte
  <2>13. Encodable(head)
    BY <1>2, <2>10, <2>12 DEF Encodable
  <2>14. the_byte(head) = mk_ptr(n, uint8(o))
    BY <2>10, <2>12 DEF the_byte
  <2>15. n > 1 /\ ~(n < 2)
    BY <1>2, <1>4
  <2> QED  BY <1>1, <1>3, <2>8, <2>13, <2>14, <2>15
<1>5. CASE ~(n >= 2)
  <2>1. n < 2 /\ ~(n > 1)
    BY <1>2, <1>5
  <2>2. Encodable(head)
    BY <2>1 DEF Encodable
  <2>3. Text[head + 1] % FLAG = mv[head + 1]
    <3>1. head + 1 \in 1 .. Len(mv)
      BY <1>1
    <3>2. mv[head + 1] \in Literal
      BY <1>1, <3>1
    <3>3. \A v \in Literal : v % FLAG = v
      BY FormatBounds DEF Literal
    <3> QED  BY <1>1, <3>2, <3>3
  <2> QED  BY <1>1, <1>3, <2>1, <2>2, <2>3
<1> QED  BY <1>4, <1>5

LEMMA EmittedNode ==
  ASSUME PInv, Emit
  PROVE  /\ nodes' \in [Positions -> Node] /\ DOMAIN nodes' = Positions
         /\ counter = Len(out) /\ Len(out) \in Nat
         /\ \A x \in Positions :
              /\ nodes'[x].next = nodes[x].next
              /\ nodes'[x].count = nodes[x].count
              /\ nodes'[x].offset = nodes[x].offset
              /\ nodes'[x].counter = IF x = head THEN Len(out) ELSE nodes[x].counter
<1>1. /\ nodes' = [nodes EXCEPT ![head].counter = counter]
      /\ counter = Len(out) /\ Len(out) \in Nat /\ pc = "emit"
  BY EmittedByte DEF Emit, PInv, TypeOK
<1>2. nodes \in [Positions -> Node] /\ DOMAIN nodes = Positions /\ head \in Positions
  BY <1>1, Walking
<1>3. \A r \in Node : \A v \in Nat :
        /\ [r EXCEPT !.counter = v] \in Node
        /\ [r EXCEPT !.counter = v].next = r.next
        /\ [r EXCEPT !.counter = v].count = r.count
        /\ [r EXCEPT !.counter = v].offset = r.offset
        /\ [r EXCEPT !.counter = v].counter = v
  BY DEF Node
<1>4. \A x \in Positions :
        nodes'[x] = IF x = head THEN [nodes[head] EXCEPT !.counter = counter] ELSE nodes[x]
  BY <1>1, <1>2
<1>5. nodes' = [x \in Positions |-> nodes'[x]] /\ DOMAIN nodes' = Positions
  BY <1>1, <1>2
<1>6. \A x \in Positions : nodes[x] \in Node
  BY <1>2
<1> HIDE DEF Node
<1> QED  BY <1>1, <1>2, <1>3, <1>4, <1>5, <1>6

LEMMA EmitStep ==
  ASSUME PInv, Emit
  PROVE  L!Emit
<1>1. /\ pc = "emit" /\ Text' = Text /\ UNCHANGED <<dptr, cl, i, m, nn, d, j>>
      /\ head' = nodes[head].next /\ pc' = IF head' = None THEN "collect" ELSE "emit"
      /\ out' = Append(out, IF nodes[head].count > 1 THEN the_byte(head) ELSE mv[head + 1])
  BY EmittedByte, TextStays DEF Emit, Next, scan_vars
<1>2. /\ Loop = pc /\ nodes \in [Positions -> Node] /\ DOMAIN nodes = Positions
      /\ head \in Positions
  BY <1>1, Walking
<1>3. head' = List[head].next
  BY <1>1, <1>2 DEF List
<1>4. Loop' = IF head' = -1 THEN "done" ELSE "emit"
  BY <1>1 DEF Loop, None
<1>5. out' = Append(out, IF List[head].count < 2 THEN Text[head + 1] % L!FLAG
                         ELSE L!mk_ptr(List[head].count, L!uint8(L!Offset(head))))
  BY <1>1, EmittedByte, FormatOperators
<1>6. List' = [List EXCEPT ![head].from = Len(out)]
  <2>1. \A x \in Positions :
          /\ nodes'[x].next = nodes[x].next
          /\ nodes'[x].count = nodes[x].count
          /\ from_field(x)' = IF x = head THEN Len(out) ELSE from_field(x)
    <3> SUFFICES ASSUME NEW x \in Positions
                 PROVE  /\ nodes'[x].next = nodes[x].next
                        /\ nodes'[x].count = nodes[x].count
                        /\ from_field(x)' = IF x = head THEN Len(out) ELSE from_field(x)
      OBVIOUS
    <3>1. /\ nodes'[x].next = nodes[x].next
          /\ nodes'[x].count = nodes[x].count
          /\ nodes'[x].offset = nodes[x].offset
          /\ nodes'[x].counter = IF x = head THEN Len(out) ELSE nodes[x].counter
          /\ Len(out) # None
      BY EmittedNode DEF None
    <3>2. CASE x = head
      BY <3>1, <3>2 DEF from_field
    <3>3. CASE x # head
      BY <3>1, <3>3 DEF from_field
    <3> QED  BY <3>1, <3>2, <3>3
  <2>2. DOMAIN nodes' = Positions
    BY EmittedNode
  <2>3. List' = [x \in Positions |->
                   [next |-> nodes'[x].next, from |-> from_field(x)', count |-> nodes'[x].count]]
    BY <2>2 DEF List
  <2>4. List = [x \in Positions |->
                  [next |-> nodes[x].next, from |-> from_field(x), count |-> nodes[x].count]]
    BY <1>2 DEF List
  <2>5. [List EXCEPT ![head].from = Len(out)]
          = [x \in Positions |-> IF x = head THEN [List[head] EXCEPT !.from = Len(out)]
                                 ELSE List[x]]
    BY <2>4
  <2>6. [List[head] EXCEPT !.from = Len(out)]
          = [next |-> nodes[head].next, from |-> Len(out), count |-> nodes[head].count]
    <3>1. List[head] = [next |-> nodes[head].next, from |-> from_field(head),
                        count |-> nodes[head].count]
      BY <1>2, <2>4
    <3> QED  BY <3>1
  <2>7. \A x \in Positions :
          [next |-> nodes'[x].next, from |-> from_field(x)', count |-> nodes'[x].count]
            = IF x = head THEN [List[head] EXCEPT !.from = Len(out)] ELSE List[x]
    BY <2>1, <2>4, <2>6
  <2> QED  BY <2>3, <2>5, <2>7
<1> QED  BY <1>1, <1>2, <1>3, <1>4, <1>5, <1>6 DEF L!Emit, Loop, List

-----------------------------------------------------------------------------
(***************************************************************************)
(* Where the records start.                                                *)
(***************************************************************************)
LEMMA BoundedMax ==
  ASSUME NEW S \in SUBSET Int, S # {}, NEW n \in Int, \A z \in S : z <= n
  PROVE  Max(S) \in S /\ \A z \in S : Max(S) >= z
<1> DEFINE T == {t \in Nat : n - t \in S}
<1>1. T # {}
  <2>1. PICK z \in S : TRUE
    OBVIOUS
  <2>2. n - z \in Nat /\ n - (n - z) = z
    BY <2>1
  <2>3. n - z \in T
    BY <2>1, <2>2
  <2> QED  BY <2>3
<1>2. PICK t \in T : \A u \in T : ~(<<u, t>> \in OpToRel(<, Nat))
  <2>1. IsWellFoundedOn(OpToRel(<, Nat), Nat)
    BY NatLessThanWellFounded
  <2>2. T \subseteq Nat
    OBVIOUS
  <2> QED  BY <1>1, <2>1, <2>2, WFMin
<1>3. n - t \in S /\ t \in Nat
  OBVIOUS
<1>4. ASSUME NEW z \in S PROVE n - t >= z
  <2>1. n - z \in Nat /\ n - (n - z) = z
    OBVIOUS
  <2>2. n - z \in T
    BY <2>1
  <2>3. ~(n - z < t)
    BY <1>2, <1>3, <2>1, <2>2 DEF OpToRel
  <2> QED  BY <1>3, <2>1, <2>3
<1>5. \E y \in S : \A z \in S : y >= z
  BY <1>3, <1>4
<1> QED  BY <1>5 DEF Max

LEMMA RecordStarts ==
  ASSUME PInv, Started
  PROVE  /\ mv = Joined(items) /\ mv \in Seq(Literal) /\ items \in Seq(Seq(Literal))
         /\ \A k \in DOMAIN items : Position(k) \in 0 .. Len(mv)
         /\ \A x \in Positions :
              aux[x] # None => aux[x] \in DOMAIN items /\ Position(aux[x]) = x
         /\ \A k \in DOMAIN items :
              items[k] # << >> => Position(k) \in Positions /\ aux[Position(k)] = k
<1>1. /\ items \in Seq(Seq(Literal)) /\ mv = Joined(items) /\ Len(items) \in Nat
      /\ DOMAIN items = 1 .. Len(items)
      /\ aux = [x \in Positions |->
                  Max({k \in DOMAIN items : Position(k) = x} \cup {None})]
  BY DEF PInv, TypeOK, Built, Started, Text
<1>2. /\ mv \in Seq(Literal)
      /\ \A k \in 0 .. Len(items) : At(items, k) \in 0 .. Len(mv)
      /\ \A k \in 1 .. Len(items) : At(items, k - 1) + Len(items[k]) <= At(items, k)
      /\ \A k, l \in 0 .. Len(items) : k <= l => At(items, k) <= At(items, l)
  BY <1>1, JoinedFacts
<1>3. \A k : Position(k) = At(items, k - 1)
  BY DEF Position, At
<1>4. \A k \in DOMAIN items : Position(k) \in 0 .. Len(mv)
  <2> SUFFICES ASSUME NEW k \in DOMAIN items PROVE Position(k) \in 0 .. Len(mv)
    OBVIOUS
  <2>1. k - 1 \in 0 .. Len(items)
    BY <1>1
  <2> QED  BY <1>2, <1>3, <2>1
<1>5. ASSUME NEW x \in Positions
      PROVE  LET S == {k \in DOMAIN items : Position(k) = x} \cup {None} IN
             aux[x] \in S /\ \A z \in S : aux[x] >= z
  <2> DEFINE S == {k \in DOMAIN items : Position(k) = x} \cup {None}
             n == Len(items)
  <2>1. S \in SUBSET Int /\ S # {} /\ n \in Int /\ \A z \in S : z <= n
    BY <1>1 DEF None
  <2> HIDE DEF S, n
  <2>2. Max(S) \in S /\ \A z \in S : Max(S) >= z
    BY <2>1, BoundedMax
  <2>3. aux[x] = Max(S)
    BY <1>1 DEF S
  <2> QED  BY <2>2, <2>3 DEF S
<1>6. \A x \in Positions : aux[x] # None => aux[x] \in DOMAIN items /\ Position(aux[x]) = x
  BY <1>5
<1>7. ASSUME NEW k \in DOMAIN items, items[k] # << >>
      PROVE  Position(k) \in Positions /\ aux[Position(k)] = k
  <2>1. k \in 1 .. Len(items) /\ items[k] \in Seq(Literal) /\ k - 1 \in 0 .. Len(items)
        /\ k \in 0 .. Len(items)
    BY <1>1
  <2>2. Len(items[k]) \in Nat /\ Len(items[k]) > 0
    BY <1>7, <2>1
  <2>3. /\ At(items, k - 1) + Len(items[k]) <= At(items, k)
        /\ At(items, k - 1) \in 0 .. Len(mv) /\ At(items, k) \in 0 .. Len(mv)
        /\ Len(mv) \in Nat
    BY <1>2, <2>1
  <2>4. At(items, k - 1) < At(items, k)
    BY <2>2, <2>3
  <2>5. Position(k) \in Positions
    BY <1>3, <2>3, <2>4 DEF Positions
  <2> DEFINE x == Position(k)
             a == aux[x]
  <2>6. a >= k /\ a \in DOMAIN items \cup {None}
    BY <1>5, <2>5
  <2>7. a \in DOMAIN items /\ Position(a) = x
    <3>1. a # None
      BY <1>1, <2>1, <2>6 DEF None
    <3> QED  BY <1>6, <2>5, <3>1
  <2>8. ASSUME a # k PROVE FALSE
    <3>1. a \in Nat /\ a - 1 \in 0 .. Len(items) /\ k <= a - 1
      BY <1>1, <2>1, <2>6, <2>7, <2>8
    <3> HIDE DEF a, x
    <3>2. At(items, k) <= At(items, a - 1)
      BY <1>2, <2>1, <3>1
    <3>3. At(items, a - 1) = At(items, k - 1)
      BY <1>3, <2>7 DEF x
    <3> QED  BY <2>3, <2>4, <3>2, <3>3
  <2> QED  BY <2>5, <2>8
<1> QED  BY <1>1, <1>2, <1>4, <1>6, <1>7

(* What main reports for a record is a place in the output, and a record   *)
(* that holds data starts there.                                           *)
PlaceOf(r) ==
  IF place[ItemOf(r)] = None /\ items[ItemOf(r)] = << >> THEN 0 ELSE place[ItemOf(r)]

LEMMA RecordPlaces ==
  ASSUME PInv, pc \in {"collect", "done"}, NEW r \in DOMAIN job.data
  PROVE  /\ ItemOf(r) \in DOMAIN items /\ items[ItemOf(r)] = job.data[r]
         /\ PlaceOf(r) \in 0 .. Len(out) /\ PlaceOf(r) # None
         /\ job.data[r] # << >> => Starts(out)[PlaceOf(r)] = Position(ItemOf(r))
<1>1. /\ Started /\ items = Unified /\ job \in Jobs /\ Places /\ out \in Seq(Byte)
      /\ pc \notin {"scan", "prune", "emit"}
  BY DEF PInv, Started, Built, TypeOK
<1> DEFINE k == ItemOf(r)
<1>2. k \in DOMAIN items /\ items[k] = job.data[r]
  BY <1>1, UnifiedFacts
<1>3. place[k] \in 0 .. Len(out) \cup {None}
  BY <1>1, <1>2 DEF Places
<1>4. CASE job.data[r] # << >>
  <2>1. Position(k) \in Positions /\ aux[Position(k)] = k
    BY <1>1, <1>2, <1>4, RecordStarts
  <2>2. k \in Int
    BY <1>2 DEF PInv, TypeOK
  <2>3. aux[Position(k)] # None
    <3>1. k \in 1 .. Len(items)
      BY <1>2 DEF PInv, TypeOK
    <3> QED  BY <2>1, <3>1 DEF None
  <2>4. place[aux[Position(k)]] # None /\ Starts(out)[place[aux[Position(k)]]] = Position(k)
    BY <1>1, <2>1, <2>3 DEF Places
  <2>5. place[k] # None /\ Starts(out)[place[k]] = Position(k)
    BY <2>1, <2>4
  <2>6. PlaceOf(r) = place[k]
    BY <1>2, <1>4 DEF PlaceOf
  <2> QED  BY <1>2, <1>3, <2>5, <2>6
<1>5. CASE job.data[r] = << >>
  <2>1. 0 \in 0 .. Len(out) /\ 0 # None
    BY <1>1 DEF None
  <2> QED  BY <1>2, <1>3, <1>5, <2>1 DEF PlaceOf
<1> QED  BY <1>4, <1>5

LEMMA CollectStep ==
  ASSUME PInv, Collect
  PROVE  /\ pc' = "done"
         /\ offsets' = [r \in DOMAIN job.data |-> PlaceOf(r)]
<1>1. /\ offsets' = [r \in DOMAIN job.data |-> PlaceOf(r)] /\ pc = "collect"
      /\ pc' = IF None \in ToSet(offsets') THEN "raised" ELSE "done"
  BY DEF Collect, PlaceOf
<1>2. \A r \in DOMAIN job.data : PlaceOf(r) # None
  BY <1>1, RecordPlaces
<1>3. None \notin ToSet(offsets')
  BY <1>1, <1>2 DEF ToSet
<1> QED  BY <1>1, <1>3

(* Every step is one of the free encoder, or none.                         *)
LEMMA FreeStep ==
  ASSUME PInv, [Next]_vars, Text # << >>
  PROVE  [L!FreeNext]_(L!vars)
<1>1. Text' = Text
  BY TextStays
<1>2. CASE Unify
  <2>1. Loop' = Loop /\ List' = List /\ UNCHANGED <<dptr, cl, i, m, nn, d, j, head, out>>
    BY <1>2, ListStays DEF Unify, Loop, scan_vars, out_vars
  <2> QED  BY <1>1, <2>1 DEF L!vars, Loop, List
<1>3. CASE Prepare
  BY <1>3, PrepareStep DEF L!FreeNext
<1>4. CASE Compare
  BY <1>4, CompareStep DEF L!FreeNext
<1>5. CASE Advance
  BY <1>5, AdvanceStep DEF L!FreeNext
<1>6. CASE Swallow
  BY <1>6, SwallowStep DEF L!FreeNext
<1>7. CASE Replace
  BY <1>7, ReplaceStep DEF L!FreeNext
<1>8. CASE Emit
  BY <1>8, EmitStep DEF L!FreeNext
<1>9. CASE Collect
  <2>1. pc = "collect" /\ pc' = "done" /\ nodes' = nodes
        /\ UNCHANGED <<dptr, cl, i, m, nn, d, j, head, out>>
    BY <1>9, CollectStep DEF Collect, scan_vars
  <2>2. Loop' = Loop /\ List' = List
    BY <2>1, ListStays DEF Loop
  <2> QED  BY <1>1, <2>1, <2>2 DEF L!vars, Loop, List
<1>10. CASE UNCHANGED vars
  <2>1. Loop' = Loop /\ List' = List /\ UNCHANGED <<dptr, cl, i, m, nn, d, j, head, out>>
    BY <1>10, ListStays DEF vars, Loop
  <2> QED  BY <1>1, <2>1 DEF L!vars, Loop, List
<1> QED  BY <1>2, <1>3, <1>4, <1>5, <1>6, <1>7, <1>8, <1>9, <1>10 DEF Next

LEMMA WInvStep ==
  ASSUME PInv, [Next]_vars, Text # << >>
  PROVE  L!WInv' /\ Text' # << >>
<1>1. L!WInv /\ Text' = Text
  BY TextStays DEF PInv
<1>2. [L!FreeNext]_(L!vars)
  BY FreeStep
<1>3. L!WInv'
  BY <1>1, <1>2, Inputs7, FormatAssumption, L!StepWInv DEF L!FormatAssumption
<1> QED  BY <1>1, <1>3

-----------------------------------------------------------------------------
(***************************************************************************)
(* The invariant, action by action.                                        *)
(***************************************************************************)
Clear(x) == \A y \in 0 .. (x - 1) : y + nodes[y].count <= x

LEMMA Boundaries ==
  mv \in Seq(Literal) /\ DOMAIN nodes = Positions =>
    \A x \in Positions : L!Boundary(x) <=> Clear(x)
<1> SUFFICES ASSUME mv \in Seq(Literal), DOMAIN nodes = Positions, NEW x \in Positions
             PROVE  L!Boundary(x) <=> Clear(x)
  OBVIOUS
<1>1. Len(mv) \in Nat /\ Positions = 0 .. (Len(mv) - 1)
  BY DEF Positions
<1>2. \A y \in 0 .. (x - 1) : y \in Positions
  BY <1>1
<1>3. \A y \in Positions : L!Size(y) = nodes[y].count
  BY DEF L!Size
<1> QED  BY <1>2, <1>3 DEF L!Boundary, Clear

LEMMA BoundariesNext ==
  (mv \in Seq(Literal) /\ DOMAIN nodes = Positions =>
     \A x \in Positions : L!Boundary(x) <=> Clear(x))'
BY Boundaries, PTL

(* What the invariant of the list says of the types.                       *)
LEMMA WalkTypes ==
  L!WInv /\ pc \in {"scan", "prune", "emit"} /\ mv = Text =>
    /\ {dptr, cl, head} \subseteq Positions
    /\ nn \in Positions \cup {None}
    /\ i \in 0 .. LOOKBACK
    /\ m \in 0 .. MAX_MATCH
    /\ out \in Seq(Byte)
    /\ pc # "emit" => head = 0
<1> SUFFICES ASSUME L!WInv, pc \in {"scan", "prune", "emit"}, mv = Text
             PROVE  /\ {dptr, cl, head} \subseteq Positions
                    /\ nn \in Positions \cup {None}
                    /\ i \in 0 .. LOOKBACK
                    /\ m \in 0 .. MAX_MATCH
                    /\ out \in Seq(Byte)
                    /\ pc # "emit" => head = 0
  OBVIOUS
<1>1. L!TypeOK /\ L!Scanning
  BY DEF L!WInv, L!OInv, L!IInv
<1>2. Loop = pc
  BY Loops
<1>3. L!Listed
  BY <1>2 DEF L!Listed, Loop
<1>4. /\ L!isize > 0 /\ dptr \in L!Nodes /\ cl \in L!Nodes
      /\ i \in 0 .. L!LOOKBACK /\ m \in 0 .. L!MAX_ZERO_MATCH
      /\ nn \in -1 .. (L!isize - 1) \cup {0}
      /\ head \in -1 .. (L!isize - 1) \cup {0}
      /\ out \in Seq(L!Byte)
      /\ pc = "emit" => head >= 0
      /\ Text \in Seq(L!Byte)
  BY <1>1, <1>2, <1>3 DEF L!TypeOK, Loop
<1>5. pc # "emit" => head = 0
  BY <1>1, <1>2 DEF L!Scanning, Loop
<1>6. L!isize \in Nat /\ L!Nodes = Positions /\ Positions = 0 .. (L!isize - 1)
  BY <1>4 DEF L!isize, L!Nodes, Positions
<1>7. head \in Positions
  BY <1>4, <1>5, <1>6
<1>8. nn \in Positions \cup {None}
  BY <1>4, <1>6 DEF None
<1> QED  BY <1>4, <1>5, <1>6, <1>7, <1>8, FormatOperators, NoLongMatch

LEMMA WalkTypesNext ==
  (L!WInv /\ pc \in {"scan", "prune", "emit"} /\ mv = Text =>
    /\ {dptr, cl, head} \subseteq Positions
    /\ nn \in Positions \cup {None}
    /\ i \in 0 .. LOOKBACK
    /\ m \in 0 .. MAX_MATCH
    /\ out \in Seq(Byte)
    /\ pc # "emit" => head = 0)'
BY WalkTypes, PTL

LEMMA UnifyInv ==
  ASSUME PInv, Unify
  PROVE  PInv'
<1>1. /\ pc = "unify" /\ pc' = "prepare" /\ items' = Unified /\ job' = job
      /\ UNCHANGED <<mv, aux, nodes, dptr, cl, i, m, nn, d, j, head, counter, place,
                     offsets, out>>
  BY DEF Unify, scan_vars, out_vars
<1>2. Text' = Text /\ job' = job
  BY TextStays DEF Next
<1>3. Unified \in Seq(Seq(Literal)) /\ Unified' = Unified
  BY <1>1, UnifiedFacts DEF PInv, Unified
<1>4. TypeOK'
  BY <1>1, <1>3 DEF PInv, TypeOK
<1>5. Text # << >> => L!WInv'
  BY WInvStep DEF Next
<1> QED  BY <1>1, <1>2, <1>3, <1>4, <1>5
         DEF PInv, Starting, Started, Built, Apart, Counters, Origins, Places, Nothing, Reported

LEMMA PreparedNodes ==
  ASSUME PInv, Prepare
  PROVE  /\ mv' = Text /\ mv' \in Seq(Literal) /\ Text' = Text /\ items' = items
         /\ DOMAIN nodes' = Positions' /\ Positions' = 0 .. (Len(Text) - 1)
         /\ nodes' \in [Positions' -> Node']
         /\ \A x \in Positions' : /\ nodes'[x].count = 1 /\ nodes'[x].counter = None
                                  /\ nodes'[x].offset = None
<1>1. /\ mv' = Text /\ Text' = Text /\ items' = items /\ nodes' = Linked(Len(mv'))
  BY TextStays DEF Prepare, Next, Text
<1>2. Text \in Seq(Literal) /\ Len(Text) \in Nat
  BY TextFacts DEF PInv, TypeOK
<1>3. Positions' = 0 .. (Len(Text) - 1)
  BY <1>1 DEF Positions
<1> DEFINE n == Len(Text)
<1>4. nodes' = [x \in 0 .. (n - 1) |->
                  [next |-> IF x + 1 < n THEN x + 1 ELSE None, offset |-> None,
                   count |-> 1, counter |-> None]]
  BY <1>1 DEF Linked, Chain
<1>5. DOMAIN nodes' = Positions'
  BY <1>3, <1>4
<1>6. ASSUME NEW x \in Positions'
      PROVE  /\ nodes'[x] = [next |-> IF x + 1 < n THEN x + 1 ELSE None, offset |-> None,
                             count |-> 1, counter |-> None]
             /\ (IF x + 1 < n THEN x + 1 ELSE None) \in Positions' \cup {None}
  BY <1>2, <1>3, <1>4
<1>7. 1 \in 1 .. MAX_MATCH
  BY FormatBounds
<1>8. Node' = [next : Positions' \cup {None}, offset : Positions' \cup {None},
               count : 1 .. MAX_MATCH, counter : Nat \cup {None}]
  BY DEF Node
<1>9. ASSUME NEW x \in Positions' PROVE nodes'[x] \in Node'
  <2> DEFINE v == IF x + 1 < n THEN x + 1 ELSE None
             K == 1 .. MAX_MATCH
  <2>1. v \in Positions' \cup {None} /\ 1 \in K
        /\ nodes'[x] = [next |-> v, offset |-> None, count |-> 1, counter |-> None]
    BY <1>6, <1>7
  <2>2. Node' = [next : Positions' \cup {None}, offset : Positions' \cup {None},
                 count : K, counter : Nat \cup {None}]
    BY <1>8
  <2> HIDE DEF v, K
  <2> QED  BY <2>1, <2>2
<1>10. nodes' = [x \in Positions' |-> nodes'[x]]
  BY <1>3, <1>4
<1> HIDE DEF n
<1>11. nodes' \in [Positions' -> Node']
  BY <1>9, <1>10
<1> QED  BY <1>1, <1>2, <1>3, <1>5, <1>6, <1>11

LEMMA PrepareInv ==
  ASSUME PInv, Prepare
  PROVE  PInv'
<1>1. /\ pc = "prepare" /\ job' = job /\ items' = items
      /\ pc' = IF mv' = << >> THEN "collect" ELSE "scan"
      /\ aux' = [x \in 0 .. (Len(mv') - 1) |->
                   Max({k \in DOMAIN items : Position(k) = x} \cup {None})]
      /\ place' = [k \in DOMAIN items |-> None]
      /\ UNCHANGED <<dptr, cl, i, m, nn, d, j, head, counter, offsets, out>>
  BY DEF Prepare, scan_vars
<1>2. /\ mv' = Text /\ mv' \in Seq(Literal) /\ Text' = Text /\ Len(Text) \in Nat
      /\ DOMAIN nodes' = Positions' /\ Positions' = 0 .. (Len(Text) - 1)
      /\ nodes' \in [Positions' -> Node']
      /\ \A x \in Positions' : /\ nodes'[x].count = 1 /\ nodes'[x].counter = None
                               /\ nodes'[x].offset = None
  BY PreparedNodes
<1>3. /\ job \in Jobs /\ TypeOK /\ d <= j /\ items = Unified /\ Unified' = Unified
      /\ items \in Seq(Seq(Literal)) /\ out = << >>
  BY <1>1 DEF PInv, Built, TypeOK, Unified, Starting, Started
<1>4. \A k : Position(k)' = Position(k)
  BY <1>1 DEF Position, Joined
<1>5. aux' = [x \in Positions' |->
                Max({k \in DOMAIN items' : Position(k)' = x} \cup {None})]
  BY <1>1, <1>2, <1>4
<1>6. aux' \in [Positions' -> DOMAIN items \cup {None}]
  <2> SUFFICES ASSUME NEW x \in Positions'
               PROVE  Max({k \in DOMAIN items : Position(k) = x} \cup {None})
                        \in DOMAIN items \cup {None}
    BY <1>1, <1>2
  <2> DEFINE S == {k \in DOMAIN items : Position(k) = x} \cup {None}
             n == Len(items)
  <2>1. S \in SUBSET Int /\ S # {} /\ n \in Int /\ \A z \in S : z <= n
    <3>1. DOMAIN items = 1 .. n /\ n \in Nat
      BY <1>3
    <3> QED  BY <3>1 DEF None
  <2> HIDE DEF n
  <2>2. Max(S) \in S
    <3> HIDE DEF S
    <3> QED  BY <2>1, BoundedMax
  <2> QED  BY <2>2
<1>7. Text # << >> => L!WInv'
  BY WInvStep DEF Next
<1>8. place' \in [DOMAIN items -> Nat \cup {None}]
  BY <1>1
<1>9. ASSUME Text # << >>
      PROVE  /\ {dptr, cl, head}' \subseteq Positions'
             /\ nn' \in Positions' \cup {None}
  <2>1. L!WInv' /\ pc' = "scan" /\ mv' = Text'
    BY <1>1, <1>2, <1>7, <1>9
  <2> QED  BY <2>1, WalkTypesNext
<1>10. pc' # "collect" => pc' = "scan" /\ Text # << >>
  BY <1>1, <1>2
<1>11. TypeOK'
  <2>1. /\ pc' \in {"scan", "collect"}
        /\ items' \in Seq(Seq(Literal)) /\ mv' \in Seq(Literal)
        /\ i' \in 0 .. LOOKBACK /\ m' \in 0 .. MAX_MATCH /\ j' \in 0 .. m' /\ d' \in 0 .. m'
        /\ counter' = Len(out') /\ out' \in Seq(Byte)
    BY <1>1, <1>2, <1>3 DEF TypeOK
  <2>2. /\ aux' \in [Positions' -> DOMAIN items' \cup {None}]
        /\ place' \in [DOMAIN items' -> Nat \cup {None}]
    BY <1>1, <1>6, <1>8
  <2> QED  BY <1>2, <1>9, <1>10, <2>1, <2>2 DEF TypeOK
<1>12. Apart'
  <2>1. \A x \in Positions' : L!Boundary(x)' <=> Clear(x)'
    BY <1>2, BoundariesNext
  <2>2. ASSUME NEW x \in Positions' PROVE Clear(x)'
    <3>1. \A y \in 0 .. (x - 1) : y \in Positions' /\ y + 1 <= x
      BY <1>2
    <3> QED  BY <1>2, <3>1 DEF Clear
  <2> QED  BY <1>10, <2>1, <2>2 DEF Apart
<1>13. Counters' /\ Origins'
  BY <1>2, <1>10 DEF Counters, Origins
<1>14. Places'
  <2>1. \A k \in DOMAIN items' : place'[k] \in 0 .. Len(out') \cup {None}
    BY <1>1
  <2>2. pc' = "collect" => Positions' = {}
    BY <1>1, <1>2
  <2> QED  BY <1>10, <2>1, <2>2 DEF Places
<1>15. Nothing' /\ Starting' /\ Reported'
  BY <1>1, <1>2, <1>3, <1>10 DEF Nothing, Starting, Started, Reported
<1>16. Built'
  BY <1>1, <1>2, <1>3, <1>5 DEF Built
<1> QED  BY <1>1, <1>2, <1>3, <1>7, <1>11, <1>12, <1>13, <1>14, <1>15, <1>16 DEF PInv

(* A step of the scan that leaves the nodes alone.                         *)
LEMMA WalkInv ==
  ASSUME PInv, [Next]_vars,
         pc \in {"scan", "prune"}, pc' \in {"scan", "prune", "emit"},
         UNCHANGED <<job, items, mv, aux, nodes, head, counter, place, offsets, out>>,
         j' \in 0 .. m', d' \in 0 .. m', d' <= j',
         pc' = "prune" => \A x \in cl' .. (cl' + j' - 1) : aux[x] = None
  PROVE  PInv'
<1>1. /\ Text # << >> /\ L!WInv /\ mv = Text /\ mv \in Seq(Literal) /\ TypeOK /\ Started
      /\ Positions = 0 .. (Len(mv) - 1) /\ DOMAIN nodes = Positions
      /\ pc # "emit" /\ head \in Positions
  BY Walking DEF Started, PInv
<1>2. Text' = Text /\ L!WInv' /\ Text' # << >> /\ Positions' = Positions
  BY <1>1, TextStays, WInvStep DEF Positions
<1>3. /\ {dptr, cl, head}' \subseteq Positions'
      /\ nn' \in Positions' \cup {None}
      /\ i' \in 0 .. LOOKBACK /\ m' \in 0 .. MAX_MATCH
  BY <1>1, <1>2, WalkTypesNext
<1>4. head = 0
  BY <1>1, WalkTypes
<1>5. Node' = Node
  BY <1>2 DEF Node
<1>6. TypeOK'
  BY <1>1, <1>2, <1>3, <1>5 DEF TypeOK, Started
<1>7. \A x \in Positions : L!Boundary(x)' <=> L!Boundary(x)
  <2>1. \A x \in Positions : Clear(x)' <=> Clear(x)
    BY DEF Clear
  <2>2. \A x \in Positions : L!Boundary(x)' <=> Clear(x)'
    BY <1>1, <1>2, BoundariesNext
  <2>3. \A x \in Positions : L!Boundary(x) <=> Clear(x)
    BY <1>1, Boundaries
  <2> QED  BY <2>1, <2>2, <2>3
<1>8. Apart'
  BY <1>1, <1>2, <1>7 DEF Apart, PInv
<1>9. Counters'
  <2>1. \A x \in Positions : nodes[x].counter = None
    BY DEF PInv, Counters
  <2>2. \A x \in Positions' : x >= head'
    BY <1>1, <1>2, <1>4
  <2> QED  BY <1>2, <2>1, <2>2 DEF Counters
<1>10. Origins'
  BY <1>1, <1>2 DEF Origins, PInv, Started
<1>11. Places'
  <2>1. \A x \in Positions' : ~(x < head')
    BY <1>1, <1>2, <1>4
  <2>2. \A k \in DOMAIN items' : place'[k] \in 0 .. Len(out') \cup {None}
    BY <1>1 DEF PInv, Places
  <2>3. pc' \notin {"scan", "prune"} => pc' = "emit"
    OBVIOUS
  <2> QED  BY <2>1, <2>2, <2>3 DEF Places
<1>12. Built'
  <2>1. \A k : Position(k)' = Position(k)
    BY DEF Position, Joined
  <2>2. items = Unified /\ Unified' = Unified
    BY <1>1 DEF PInv, Built, Unified, Started
  <2>3. aux' = [x \in Positions' |->
                  Max({k \in DOMAIN items' : Position(k)' = x} \cup {None})]
    BY <1>1, <1>2, <2>1 DEF PInv, Built
  <2> QED  BY <1>1, <1>2, <2>2, <2>3 DEF Built
<1>13. Nothing' /\ Starting' /\ Reported'
  BY <1>2 DEF Nothing, Starting, Started, Reported
<1> QED  BY <1>1, <1>2, <1>6, <1>8, <1>9, <1>10, <1>11, <1>12, <1>13 DEF PInv

LEMMA CompareInv ==
  ASSUME PInv, Compare
  PROVE  PInv'
<1>1. /\ pc = "scan" /\ UNCHANGED <<job, items, mv, aux, nodes, dptr, head, counter, place,
                                    offsets, out>>
  BY DEF Compare, Visit, text_vars, out_vars
<1>2. /\ m \in 0 .. MAX_MATCH /\ j \in 0 .. m /\ d \in 0 .. m /\ d <= j
  BY DEF PInv, TypeOK
<1>3. \/ pc' = "prune" /\ m' >= 2 /\ d' = 0 /\ j' = 0
      \/ pc' = "scan" /\ UNCHANGED <<m, d, j>>
  BY <1>1 DEF Compare, Visit
<1>4. L!WInv' /\ Text' # << >> /\ mv' = Text'
  <2>1. Text # << >> /\ mv = Text
    BY <1>1, Walking
  <2> QED  BY <1>1, <2>1, WInvStep, TextStays DEF Next
<1>5. m' \in 0 .. MAX_MATCH /\ cl' \in Int
  <2>1. m' \in 0 .. MAX_MATCH /\ {dptr, cl, head}' \subseteq Positions'
    BY <1>3, <1>4, WalkTypesNext
  <2>2. Positions' \subseteq Int
    BY DEF Positions
  <2> QED  BY <2>1, <2>2
<1>6. j' \in 0 .. m' /\ d' \in 0 .. m' /\ d' <= j'
  BY <1>2, <1>3, <1>5
<1>7. ASSUME pc' = "prune", NEW x \in cl' .. (cl' + j' - 1) PROVE aux[x] = None
  <2>1. j' = 0
    BY <1>3, <1>7
  <2> DEFINE a == cl'
  <2>2. a \in Int
    BY <1>5
  <2>3. x \in a .. (a + 0 - 1)
    BY <2>1
  <2> HIDE DEF a
  <2>4. FALSE
    BY <2>2, <2>3
  <2> QED  BY <2>4
<1> QED  BY <1>1, <1>3, <1>6, <1>7, WalkInv DEF Next

LEMMA AdvanceInv ==
  ASSUME PInv, Advance
  PROVE  PInv'
<1>1. /\ pc = "scan" /\ pc' \in {"scan", "emit"}
      /\ UNCHANGED <<job, items, mv, aux, nodes, m, d, j, head, counter, place, offsets, out>>
  BY DEF Advance, text_vars, out_vars
<1>2. j \in 0 .. m /\ d \in 0 .. m /\ d <= j
  BY DEF PInv, TypeOK
<1> QED  BY <1>1, <1>2, WalkInv DEF Next

LEMMA SwallowInv ==
  ASSUME PInv, Swallow
  PROVE  PInv'
<1>1. /\ pc = "prune" /\ pc' = "prune" /\ cl' = cl /\ m' = m /\ d' = d + 1
      /\ j' = j + nodes[nn].count /\ nn # None /\ aux[nn] = None
      /\ j + nodes[nn].count <= m
      /\ UNCHANGED <<job, items, mv, aux, nodes, head, counter, place, offsets, out>>
  BY DEF Swallow, Fits, text_vars, out_vars
<1>2. /\ L!IInv /\ L!Listed /\ Loop = pc /\ nodes \in [Positions -> Node]
      /\ L!isize = Len(mv) /\ Len(mv) \in Nat /\ L!Nodes = Positions
      /\ Positions = 0 .. (Len(mv) - 1) /\ mv \in Seq(Literal) /\ DOMAIN nodes = Positions
      /\ \A x \in Positions : L!Size(x) = nodes[x].count
  BY <1>1, Walking
<1>3. /\ m \in 0 .. MAX_MATCH /\ j \in 0 .. m /\ d \in 0 .. m /\ d <= j
      /\ nn \in Positions /\ cl \in Positions /\ MAX_MATCH \in Nat
  BY <1>1, FormatBounds DEF PInv, TypeOK
<1> DEFINE n == nodes[nn].count
<1>4. n \in Nat /\ n >= 1 /\ nn + n <= Len(mv)
  <2>1. L!Tiles
    BY <1>2 DEF L!IInv
  <2>2. L!Size(nn) >= 1 /\ nn + L!Size(nn) <= L!isize
    BY <1>2, <1>3, <2>1 DEF L!Tiles
  <2>3. nodes[nn] \in Node
    BY <1>2, <1>3
  <2> QED  BY <1>2, <1>3, <2>2, <2>3 DEF Node
<1>5. nn = cl + j
  <2>1. nn = L!Link(cl + j)
    BY <1>1, <1>2 DEF L!IInv, L!Pruning, Loop
  <2> QED  BY <1>1, <2>1 DEF L!Link, None
<1> HIDE DEF n
<1>6. j' \in 0 .. m' /\ d' \in 0 .. m' /\ d' <= j'
  <2>1. j' = j + n /\ j + n <= m
    BY <1>1 DEF n
  <2> QED  BY <1>1, <1>3, <1>4, <2>1
<1>7. ASSUME NEW x \in cl .. (cl + (j + n) - 1) PROVE aux[x] = None
  <2>1. x \in Int /\ cl \in Int /\ j \in Int
    BY <1>2, <1>3
  <2>2. CASE x < cl + j
    <3>1. x \in cl .. (cl + j - 1)
      BY <2>1, <2>2
    <3> QED  BY <1>1, <3>1 DEF PInv, Apart, Started
  <2>3. CASE x = nn
    BY <1>1, <2>3
  <2>4. CASE x > nn
    <3>1. x \in Positions /\ nn \in 0 .. (x - 1) /\ x < nn + n
      BY <1>2, <1>3, <1>4, <1>5, <2>1, <2>4
    <3>2. SUFFICES ASSUME aux[x] # None PROVE FALSE
      OBVIOUS
    <3>3. L!Boundary(x)
      BY <1>1, <3>1, <3>2 DEF PInv, Apart, Started
    <3>4. Clear(x)
      BY <1>2, <3>1, <3>3, Boundaries
    <3>5. nn + n <= x
      BY <3>1, <3>4 DEF Clear, n
    <3> QED  BY <1>2, <1>3, <1>4, <2>1, <3>1, <3>5
  <2> QED  BY <1>3, <1>5, <2>1, <2>2, <2>3, <2>4
<1>8. \A x \in cl' .. (cl' + j' - 1) : aux[x] = None
  BY <1>1, <1>7 DEF n
<1> QED  BY <1>1, <1>6, <1>8, WalkInv DEF Next

LEMMA NodeOf ==
  ASSUME NEW r \in [next : Int, offset : Int, count : Int, counter : Int],
         NEW A, NEW K, NEW D, r.next \in A, r.offset \in A, r.count \in K, r.counter \in D
  PROVE  r \in [next : A, offset : A, count : K, counter : D]
OBVIOUS

LEMMA ReplaceInv ==
  ASSUME PInv, Replace
  PROVE  PInv'
<1>1. /\ pc = "prune" /\ pc' = "scan" /\ i' = i + 1
      /\ UNCHANGED <<job, items, mv, aux, dptr, cl, m, nn, d, j, head, counter, place,
                     offsets, out>>
  BY DEF Replace, Chop, text_vars, out_vars
<1>2. /\ m \in 0 .. MAX_MATCH /\ j \in 0 .. m /\ d \in 0 .. m /\ d <= j /\ MAX_MATCH \in Nat
      /\ TypeOK /\ Started
  BY <1>1, FormatBounds DEF PInv, TypeOK, Started
<1>3. CASE ~(d >= 2)
  <2>1. nodes' = nodes
    BY <1>3 DEF Replace, Chop
  <2> QED  BY <1>1, <1>2, <2>1, WalkInv DEF Next
<1>4. CASE d >= 2
  <2>1. /\ Text # << >> /\ mv = Text /\ mv \in Seq(Literal) /\ Len(mv) \in Nat
        /\ Positions = 0 .. (Len(mv) - 1) /\ DOMAIN nodes = Positions
        /\ nodes \in [Positions -> Node] /\ {dptr, cl, head} \subseteq Positions
    BY <1>1, Walking
  <2>2. /\ nodes' \in [Positions -> [next : Int, offset : Int, count : Int, counter : Int]]
        /\ \A x \in Positions :
             /\ nodes'[x].next = (IF x = cl THEN nn ELSE nodes[x].next)
             /\ nodes'[x].count = (IF x = cl THEN j ELSE nodes[x].count)
             /\ nodes'[x].offset = (IF x = cl THEN dptr ELSE nodes[x].offset)
             /\ nodes'[x].counter = nodes[x].counter
    BY <1>4, ReplacedNode
  <2>3. Text' = Text /\ L!WInv' /\ Text' # << >> /\ Positions' = Positions
    BY <1>1, <2>1, TextStays, WInvStep DEF Positions, Next
  <2>4. /\ {dptr, cl, head}' \subseteq Positions'
        /\ nn' \in Positions' \cup {None}
        /\ i' \in 0 .. LOOKBACK /\ m' \in 0 .. MAX_MATCH
        /\ head' = 0
    BY <1>1, <2>1, <2>3, WalkTypesNext
  <2>5. nodes' \in [Positions' -> Node']
    <3>1. Node' = [next : Positions \cup {None}, offset : Positions \cup {None},
                   count : 1 .. MAX_MATCH, counter : Nat \cup {None}]
      BY <2>3 DEF Node
    <3>2. ASSUME NEW x \in Positions PROVE nodes'[x] \in Node'
      <4>1. /\ nodes[x].next \in Positions \cup {None} /\ nodes[x].offset \in Positions \cup {None}
            /\ nodes[x].count \in 1 .. MAX_MATCH /\ nodes[x].counter \in Nat \cup {None}
        BY <2>1 DEF Node
      <4>2. nn \in Positions \cup {None} /\ dptr \in Positions \cup {None} /\ j \in 1 .. MAX_MATCH
        BY <1>1, <1>2, <1>4, <2>1, <2>3, <2>4
      <4>3. /\ nodes'[x].next \in Positions \cup {None} /\ nodes'[x].offset \in Positions \cup {None}
            /\ nodes'[x].count \in 1 .. MAX_MATCH /\ nodes'[x].counter \in Nat \cup {None}
        BY <2>2, <4>1, <4>2
      <4>4. nodes'[x] \in [next : Int, offset : Int, count : Int, counter : Int]
        BY <2>2
      <4> QED  BY <3>1, <4>3, <4>4, NodeOf
    <3>3. nodes' = [x \in Positions |-> nodes'[x]]
      BY <2>2
    <3> QED  BY <2>3, <3>2, <3>3
  <2>6. TypeOK'
    <3>1. mv' \in Seq(Literal) /\ items' \in Seq(Seq(Literal)) /\ counter' = Len(out')
          /\ out' \in Seq(Byte) /\ j' \in 0 .. m' /\ d' \in 0 .. m'
          /\ aux' \in [Positions' -> DOMAIN items' \cup {None}]
          /\ place' \in [DOMAIN items' -> Nat \cup {None}]
      BY <1>1, <1>2, <2>3 DEF TypeOK, Started
    <3> QED  BY <1>1, <2>4, <2>5, <3>1 DEF TypeOK
  <2>7. Apart'
    <3>1. ASSUME NEW x \in Positions, aux[x] # None PROVE L!Boundary(x)'
      <4>1. Clear(x)
        <5>1. L!Boundary(x)
          BY <1>2, <3>1 DEF PInv, Apart
        <5> QED  BY <2>1, <5>1, Boundaries
      <4>2. ASSUME NEW y \in 0 .. (x - 1) PROVE y + nodes'[y].count <= x
        <5>1. y \in Positions
          BY <2>1
        <5>2. CASE y # cl
          BY <2>2, <4>1, <5>1, <5>2 DEF Clear
        <5>3. CASE y = cl
          <6>1. ~(x \in cl .. (cl + j - 1))
            BY <1>1, <1>2, <3>1 DEF PInv, Apart
          <6>2. x \in Int /\ cl \in Int /\ cl < x /\ j \in Int
            BY <1>2, <2>1, <5>3
          <6>3. cl + j <= x
            BY <6>1, <6>2
          <6> QED  BY <2>2, <5>1, <5>3, <6>3
        <5> QED  BY <5>2, <5>3
      <4>3. Clear(x)'
        BY <4>2 DEF Clear
      <4>4. DOMAIN nodes' = Positions' /\ mv' \in Seq(Literal) /\ x \in Positions'
        BY <2>5, <2>6, <2>3 DEF TypeOK
      <4> QED  BY <4>3, <4>4, BoundariesNext
    <3> QED  BY <1>1, <2>3, <3>1 DEF Apart
  <2>8. Counters'
    <3>1. \A x \in Positions : nodes[x].counter = None
      BY <1>1 DEF PInv, Counters
    <3> QED  BY <1>1, <2>2, <2>3, <3>1 DEF Counters
  <2>9. Origins'
    <3>1. \A x \in Positions : nodes[x].count >= 2 => nodes[x].offset # None
      BY <1>2 DEF PInv, Origins
    <3>2. dptr # None
      BY <2>1 DEF None
    <3> QED  BY <2>2, <2>3, <3>1, <3>2 DEF Origins
  <2>10. Places'
    BY <1>1, <1>2 DEF PInv, Places
  <2>11. Built'
    <3>1. \A k : Position(k)' = Position(k)
      BY <1>1 DEF Position, Joined
    <3>2. items = Unified /\ Unified' = Unified
      BY <1>1, <1>2 DEF PInv, Built, Unified, Started
    <3>3. aux' = [x \in Positions' |->
                    Max({k \in DOMAIN items' : Position(k)' = x} \cup {None})]
      BY <1>1, <1>2, <2>3, <3>1 DEF PInv, Built
    <3> QED  BY <1>1, <2>1, <2>3, <3>2, <3>3 DEF Built
  <2>12. Nothing' /\ Starting' /\ Reported'
    BY <1>1, <2>3 DEF Nothing, Starting, Started, Reported
  <2> QED  BY <1>1, <1>2, <2>3, <2>6, <2>7, <2>8, <2>9, <2>10, <2>11, <2>12 DEF PInv
<1> QED  BY <1>3, <1>4

(* The output walk goes from a node to the one where it ends.              *)
LEMMA WalkOn ==
  ASSUME PInv, Emit
  PROVE  /\ L!Linked' = L!Linked /\ head \in L!Linked
         /\ \/ pc' = "collect" /\ head + nodes[head].count = Len(mv)
            \/ /\ pc' = "emit" /\ head' = head + nodes[head].count
               /\ head' \in Positions
<1>1. /\ pc = "emit" /\ Loop = pc /\ L!IInv /\ L!isize = Len(mv) /\ head \in Positions
      /\ Positions = 0 .. (Len(mv) - 1)
      /\ \A x \in Positions : L!Size(x) = nodes[x].count
  BY Walking DEF Emit
<1>2. /\ L!Linked' = L!Linked /\ head \in L!Linked
      /\ \/ Loop' = "done" /\ head + L!Size(head) = L!isize
         \/ /\ Loop' = "emit" /\ head' = head + L!Size(head)
            /\ head' \in 0 .. (L!isize - 1)
  BY <1>1, EmitStep, Inputs7, FormatAssumption, L!EmitFacts DEF L!FormatAssumption, Loop
<1>3. pc' \in {"collect", "emit"}
  BY EmittedByte, <1>1 DEF Emit
<1>4. (Loop' = "done" <=> pc' = "collect") /\ (Loop' = "emit" <=> pc' = "emit")
  BY <1>3 DEF Loop
<1> QED  BY <1>1, <1>2, <1>4

LEMMA EmitInv ==
  ASSUME PInv, Emit
  PROVE  PInv'
<1>1. /\ pc = "emit" /\ pc' \in {"emit", "collect"}
      /\ place' = IF aux[head] = None THEN place ELSE [place EXCEPT ![aux[head]] = counter]
      /\ out' = Append(out, IF nodes[head].count > 1 THEN the_byte(head) ELSE mv[head + 1])
      /\ counter' = counter + 1
      /\ UNCHANGED <<job, items, mv, aux, dptr, cl, i, m, nn, d, j, offsets>>
  BY EmittedByte DEF Emit, text_vars, scan_vars
<1>2. /\ Text # << >> /\ mv = Text /\ mv \in Seq(Literal) /\ Len(mv) \in Nat
      /\ Positions = 0 .. (Len(mv) - 1) /\ DOMAIN nodes = Positions
      /\ nodes \in [Positions -> Node] /\ {dptr, cl, head} \subseteq Positions
      /\ L!WInv
  BY <1>1, Walking
<1>3. /\ TypeOK /\ Started /\ counter = Len(out) /\ out \in Seq(Byte) /\ Len(out) \in Nat
      /\ place \in [DOMAIN items -> Nat \cup {None}]
      /\ m \in 0 .. MAX_MATCH /\ j \in 0 .. m /\ d \in 0 .. m /\ d <= j
  BY <1>1 DEF PInv, TypeOK, Started
<1>4. /\ nodes' \in [Positions -> Node] /\ DOMAIN nodes' = Positions
      /\ \A x \in Positions :
           /\ nodes'[x].next = nodes[x].next
           /\ nodes'[x].count = nodes[x].count
           /\ nodes'[x].offset = nodes[x].offset
           /\ nodes'[x].counter = IF x = head THEN Len(out) ELSE nodes[x].counter
  BY EmittedNode
<1>5. Text' = Text /\ L!WInv' /\ Text' # << >> /\ Positions' = Positions /\ Node' = Node
  BY <1>1, <1>2, TextStays, WInvStep DEF Positions, Next, Node
<1>6. /\ L!Linked' = L!Linked /\ head \in L!Linked
      /\ \/ pc' = "collect" /\ head + nodes[head].count = Len(mv)
         \/ /\ pc' = "emit" /\ head' = head + nodes[head].count
            /\ head' \in Positions
  BY WalkOn
<1> DEFINE n == nodes[head].count
           c == IF nodes[head].count > 1 THEN the_byte(head) ELSE mv[head + 1]
<1>7. n \in Nat /\ n >= 1
  <2>1. nodes[head] \in Node
    BY <1>2
  <2> QED  BY <2>1, FormatBounds DEF Node
<1>8. c \in Byte
  <2>1. c = (IF List[head].count < 2 THEN Text[head + 1] % FLAG
             ELSE mk_ptr(List[head].count, uint8(L!Offset(head))))
    BY <1>1, EmittedByte
  <2>2. \A v \in Int : v % FLAG \in Byte
    BY FormatBounds DEF Byte
  <2>3. Text[head + 1] \in Int
    <3>1. head + 1 \in 1 .. Len(Text)
      BY <1>2
    <3>2. Text[head + 1] \in Literal
      BY <1>2, <3>1
    <3> QED  BY <3>2, FormatBounds DEF Literal
  <2>4. \A v \in Int : v % (2 * FLAG) \in Byte
    BY FormatBounds DEF Byte
  <2>5. List[head].count = n
    BY <1>2 DEF List
  <2>6. n >= 2 => mk_ptr(n, uint8(L!Offset(head))) \in Byte
    <3> SUFFICES ASSUME n >= 2 PROVE mk_ptr(n, uint8(L!Offset(head))) \in Byte
      OBVIOUS
    <3>1. uint8(L!Offset(head)) \in Int
      <4>1. L!OInv /\ L!Size(head) >= 2 /\ Loop = "emit"
        BY <1>1, <1>2, Walking
      <4>2. L!Offset(head) \in 0 .. (L!LOOKBACK - 1)
        BY <4>1, Inputs7, FormatAssumption, L!OffsetIsDistance DEF L!FormatAssumption, Loop
      <4>3. L!Offset(head) \in Int
        BY <4>2
      <4> QED  BY <2>4, <4>3, FormatBounds DEF uint8, Byte
    <3> QED  BY <1>7, <3>1, PointerIsByte
  <2> HIDE DEF n, c
  <2> QED  BY <1>7, <2>1, <2>2, <2>3, <2>5, <2>6
<1>9. out' \in Seq(Byte) /\ Len(out') = Len(out) + 1 /\ counter' = Len(out')
  <2> HIDE DEF c
  <2>1. out' = Append(out, c)
    BY <1>1 DEF c
  <2> QED  BY <1>1, <1>3, <1>8, <2>1
<1>10. /\ \A p \in 0 .. Len(out) : Starts(out')[p] = Starts(out)[p]
       /\ Starts(out)[Len(out)] = head
  <2>1. out' = Append(out, c)
    BY <1>1
  <2> HIDE DEF c
  <2>2. \A p \in 0 .. Len(out) : Starts(out')[p] = Starts(out)[p]
    BY <1>3, <1>8, <2>1, StartsAppend
  <2>3. L!Starts(out)[Len(out)] = head
    <3>1. Loop = "emit"
      BY <1>1 DEF Loop
    <3> QED  BY <1>2, <3>1 DEF L!WInv, L!Written, Loop
  <2> QED  BY <2>2, <2>3, FormatOperators
<1> HIDE DEF c
<1>11. \A x \in Positions : aux[x] # None => aux[x] \in DOMAIN items /\ Position(aux[x]) = x
  BY <1>3, RecordStarts
<1>12. ASSUME NEW k \in DOMAIN items
       PROVE  place'[k] = IF aux[head] # None /\ k = aux[head] THEN Len(out) ELSE place[k]
  BY <1>1, <1>3, <1>12
<1>13. TypeOK'
  <2>1. place' \in [DOMAIN items' -> Nat \cup {None}]
    BY <1>1, <1>3
  <2>2. aux' \in [Positions' -> DOMAIN items' \cup {None}]
    BY <1>1, <1>3, <1>5 DEF TypeOK, Started
  <2>3. mv' \in Seq(Literal) /\ items' \in Seq(Seq(Literal)) /\ j' \in 0 .. m'
        /\ d' \in 0 .. m' /\ i' \in 0 .. LOOKBACK /\ m' \in 0 .. MAX_MATCH
    BY <1>1, <1>3 DEF TypeOK
  <2>4. pc' = "emit" => /\ {dptr, cl, head}' \subseteq Positions'
                        /\ nn' \in Positions' \cup {None}
    BY <1>1, <1>5, <1>2, WalkTypesNext
  <2> QED  BY <1>1, <1>4, <1>5, <1>9, <2>1, <2>2, <2>3, <2>4 DEF TypeOK
(* No record starts, and no node of the list lies, inside a node.          *)
<1>14. ASSUME NEW x \in Positions, Clear(x), x > head PROVE head + n <= x
  <2>1. head \in 0 .. (x - 1)
    BY <1>2, <1>14
  <2> QED  BY <1>14, <2>1 DEF Clear
<1>15. \A x \in Positions : L!Boundary(x) <=> Clear(x)
  BY <1>2, Boundaries
<1>16. Apart'
  <2>1. \A x \in Positions : L!Boundary(x)' <=> Clear(x)'
    BY <1>1, <1>2, <1>4, <1>5, BoundariesNext
  <2>2. \A x \in Positions : Clear(x)' <=> Clear(x)
    <3>1. \A x \in Positions : \A y \in 0 .. (x - 1) : y \in Positions
      BY <1>2
    <3> QED  BY <1>4, <3>1 DEF Clear
  <2> QED  BY <1>1, <1>3, <1>5, <1>15, <2>1, <2>2 DEF Apart, PInv
<1>17. Counters'
  <2>1. \A x \in Positions : IF x >= head THEN nodes[x].counter = None
                             ELSE x \in L!Linked => nodes[x].counter # None
    BY <1>1 DEF PInv, Counters
  <2>2. Len(out) # None
    BY <1>3 DEF None
  <2>3. SUFFICES ASSUME pc' = "emit", NEW x \in Positions
                 PROVE  IF x >= head' THEN nodes'[x].counter = None
                        ELSE x \in L!Linked => nodes'[x].counter # None
    BY <1>1, <1>5, <1>6 DEF Counters
  <2>4. head' = head + n /\ head \in Int /\ x \in Int
    BY <1>2, <1>6, <2>3
  <2>5. CASE x >= head'
    <3>1. x >= head /\ x # head
      BY <1>7, <2>4, <2>5
    <3> QED  BY <1>4, <2>1, <2>5, <3>1
  <2>6. CASE ~(x >= head') /\ x > head
    <3>1. x \notin L!Linked
      <4>1. SUFFICES ASSUME x \in L!Linked PROVE FALSE
        OBVIOUS
      <4>2. L!Boundary(x)
        <5>1. L!Linked = {y \in L!Nodes : L!Boundary(y)}
          BY L!OnList, Inputs7, FormatAssumption DEF L!FormatAssumption
        <5> QED  BY <4>1, <5>1
      <4>3. head + n <= x
        BY <1>14, <1>15, <2>6, <4>2
      <4> QED  BY <1>7, <2>4, <2>6, <4>3
    <3> QED  BY <2>6, <3>1
  <2>7. CASE x = head
    BY <1>4, <1>7, <2>2, <2>4, <2>7
  <2>8. CASE x < head
    <3>1. ~(x >= head) /\ x # head /\ ~(x >= head')
      BY <1>7, <2>4, <2>8
    <3> QED  BY <1>4, <2>1, <3>1
  <2> QED  BY <2>4, <2>5, <2>6, <2>7, <2>8
<1>18. Origins'
  BY <1>3, <1>4, <1>5 DEF PInv, Origins
<1>19. Places'
  <2>1. \A k \in DOMAIN items : place[k] \in 0 .. Len(out) \cup {None}
    BY <1>3 DEF PInv, Places
  <2>2. ASSUME NEW k \in DOMAIN items PROVE place'[k] \in 0 .. Len(out') \cup {None}
    BY <1>3, <1>9, <1>12, <2>1
  <2>3. ASSUME NEW x \in Positions, aux[x] # None, pc' = "emit" => x < head'
        PROVE  place'[aux[x]] # None /\ Starts(out')[place'[aux[x]]] = x
    <3>1. aux[x] \in DOMAIN items /\ Position(aux[x]) = x
      BY <1>11, <2>3
    <3>2. CASE x = head
      <4>1. place'[aux[x]] = Len(out)
        BY <1>12, <2>3, <3>1, <3>2
      <4>2. Len(out) # None /\ Len(out) \in 0 .. Len(out)
        BY <1>3 DEF None
      <4> QED  BY <1>10, <3>2, <4>1, <4>2
    <3>3. CASE x < head
      <4>1. place[aux[x]] # None /\ Starts(out)[place[aux[x]]] = x
        BY <1>1, <1>3, <2>3, <3>3 DEF PInv, Places
      <4>2. place'[aux[x]] = place[aux[x]]
        <5>1. ~(aux[head] # None /\ aux[x] = aux[head])
          <6>1. aux[head] # None => Position(aux[head]) = head
            BY <1>2, <1>11
          <6>2. x # head
            BY <1>2, <3>3
          <6> QED  BY <3>1, <6>1, <6>2
        <5> QED  BY <1>12, <3>1, <5>1
      <4>3. place[aux[x]] \in 0 .. Len(out)
        BY <2>1, <3>1, <4>1
      <4> QED  BY <1>10, <4>1, <4>2, <4>3
    <3>4. CASE x > head
      <4>1. Clear(x)
        BY <1>3, <1>15, <2>3 DEF PInv, Apart
      <4>2. head + n <= x
        BY <1>14, <3>4, <4>1
      <4>3. CASE pc' = "collect"
        BY <1>2, <1>6, <4>2, <4>3
      <4>4. CASE pc' = "emit"
        <5>1. x < head' /\ head' = head + n
          BY <1>6, <2>3, <4>4
        <5> QED  BY <1>2, <1>7, <4>2, <5>1
      <4> QED  BY <1>1, <4>3, <4>4
    <3>5. x \in Int /\ head \in Int
      BY <1>2
    <3> QED  BY <3>2, <3>3, <3>4, <3>5
  <2> QED  BY <1>1, <1>5, <2>2, <2>3 DEF Places
<1>20. Built'
  <2>1. \A k : Position(k)' = Position(k)
    BY <1>1 DEF Position, Joined
  <2>2. items = Unified /\ Unified' = Unified
    BY <1>1, <1>3 DEF PInv, Built, Unified, Started
  <2>3. aux' = [x \in Positions' |->
                  Max({k \in DOMAIN items' : Position(k)' = x} \cup {None})]
    BY <1>1, <1>3, <1>5, <2>1 DEF PInv, Built
  <2> QED  BY <1>1, <1>2, <1>5, <2>2, <2>3 DEF Built
<1>21. Nothing' /\ Starting' /\ Reported'
  BY <1>1, <1>5 DEF Nothing, Starting, Started, Reported
<1>22. job \in Jobs
  BY DEF PInv
<1> QED  BY <1>1, <1>3, <1>5, <1>13, <1>16, <1>17, <1>18, <1>19, <1>20, <1>21, <1>22 DEF PInv

LEMMA CollectInv ==
  ASSUME PInv, Collect
  PROVE  PInv'
<1>1. /\ pc = "collect" /\ pc' = "done"
      /\ offsets' = [r \in DOMAIN job.data |-> PlaceOf(r)]
      /\ UNCHANGED <<job, items, mv, aux, nodes, dptr, cl, i, m, nn, d, j, head, counter,
                     place, out>>
  BY CollectStep DEF Collect, text_vars, scan_vars
<1>2. Text' = Text /\ Positions' = Positions /\ Node' = Node
  BY <1>1, TextStays DEF Positions, Node, Next
<1>3. Text # << >> => L!WInv'
  BY WInvStep DEF Next
<1>4. TypeOK'
  BY <1>1, <1>2 DEF PInv, TypeOK
<1>5. Apart'
  <2>1. mv \in Seq(Literal) /\ DOMAIN nodes = Positions /\ Started
    BY <1>1 DEF PInv, TypeOK, Started
  <2>2. \A x \in Positions : L!Boundary(x) <=> Clear(x)
    BY <2>1, Boundaries
  <2>3. \A x \in Positions : L!Boundary(x)' <=> Clear(x)'
    BY <1>1, <1>2, <2>1, BoundariesNext
  <2>4. \A x \in Positions : Clear(x)' <=> Clear(x)
    BY <1>1 DEF Clear
  <2> QED  BY <1>1, <1>2, <2>1, <2>2, <2>3, <2>4 DEF PInv, Apart
<1>6. Counters' /\ Origins' /\ Places'
  BY <1>1, <1>2 DEF PInv, Counters, Origins, Places, Started
<1>7. Built'
  <2>1. \A k : Position(k)' = Position(k)
    BY <1>1 DEF Position, Joined
  <2>2. items = Unified /\ Unified' = Unified /\ Started
    BY <1>1 DEF PInv, Built, Unified, Started
  <2>3. aux' = [x \in Positions' |->
                  Max({k \in DOMAIN items' : Position(k)' = x} \cup {None})]
    BY <1>1, <1>2, <2>1, <2>2 DEF PInv, Built
  <2> QED  BY <1>1, <1>2, <2>2, <2>3 DEF PInv, Built
<1>8. Nothing' /\ Starting'
  BY <1>1, <1>2 DEF PInv, Nothing, Starting, Started
<1>9. Reported'
  <2>1. \A r : ItemOf(r)' = ItemOf(r)
    BY <1>1 DEF ItemOf
  <2> QED  BY <1>1, <2>1 DEF Reported, PlaceOf
<1> QED  BY <1>1, <1>2, <1>3, <1>4, <1>5, <1>6, <1>7, <1>8, <1>9 DEF PInv

LEMMA InitPInv == Init => PInv
<1> SUFFICES ASSUME Init PROVE PInv
  OBVIOUS
<1>1. /\ job \in Jobs /\ pc = "unify" /\ items = << >> /\ mv = << >> /\ nodes = << >>
      /\ dptr = 0 /\ cl = 0 /\ i = 0 /\ m = 0 /\ nn = 0 /\ d = 0 /\ j = 0 /\ head = 0
      /\ counter = 0 /\ out = << >>
  BY DEF Init
<1>2. TypeOK
  <2>1. 0 \in 0 .. LOOKBACK /\ 0 \in 0 .. MAX_MATCH
    BY FormatBounds
  <2>2. << >> \in Seq(Byte) /\ Len(<< >>) = 0 /\ << >> \in Seq(Literal)
        /\ << >> \in Seq(Seq(Literal))
    OBVIOUS
  <2> QED  BY <1>1, <2>1, <2>2 DEF TypeOK
<1>3. Loop = "prepare" /\ List = << >>
  BY <1>1 DEF Loop, List
<1>4. Text \in Seq(Literal)
  BY <1>1, TextFacts
<1>5. L!Init
  BY <1>1, <1>3, <1>4 DEF L!Init, Loop, List
<1>6. L!WInv
  BY <1>5, Inputs7, FormatAssumption, L!InitWInv DEF L!FormatAssumption
<1>7. ~Started
  BY <1>1 DEF Started
<1>8. /\ Starting /\ Built /\ Apart /\ Counters /\ Origins /\ Places /\ Nothing /\ Reported
  BY <1>1, <1>7 DEF Starting, Built, Apart, Counters, Origins, Places, Nothing, Reported
<1> QED  BY <1>1, <1>2, <1>6, <1>8 DEF PInv

LEMMA StayInv ==
  ASSUME PInv, UNCHANGED vars
  PROVE  PInv'
<1>1. /\ pc' = pc /\ offsets' = offsets
      /\ UNCHANGED <<job, items, mv, aux, nodes, dptr, cl, i, m, nn, d, j, head, counter,
                     place, out>>
  BY DEF vars
<1>2. Text' = Text /\ Positions' = Positions /\ Node' = Node
  BY <1>1, TextStays DEF Positions, Node
<1>3. Text # << >> => L!WInv'
  BY WInvStep
<1>4. TypeOK'
  BY <1>1, <1>2 DEF PInv, TypeOK
<1>5. Apart'
  <2>1. ASSUME Started
        PROVE  /\ \A x \in Positions : L!Boundary(x) <=> Clear(x)
               /\ \A x \in Positions : L!Boundary(x)' <=> Clear(x)'
               /\ \A x \in Positions : Clear(x)' <=> Clear(x)
    <3>1. mv \in Seq(Literal) /\ DOMAIN nodes = Positions
      BY <2>1 DEF PInv, TypeOK, Started
    <3>2. \A x \in Positions : L!Boundary(x) <=> Clear(x)
      BY <3>1, Boundaries
    <3>3. \A x \in Positions : L!Boundary(x)' <=> Clear(x)'
      BY <1>1, <1>2, <3>1, BoundariesNext
    <3>4. \A x \in Positions : Clear(x)' <=> Clear(x)
      BY <1>1 DEF Clear
    <3> QED  BY <3>2, <3>3, <3>4
  <2>2. Started' = Started
    BY <1>1 DEF Started
  <2> QED  BY <1>1, <1>2, <2>1, <2>2 DEF PInv, Apart
<1>6. Counters' /\ Origins' /\ Places'
  <2>1. L!Linked' = L!Linked
    <3>1. List' = List
      BY <1>1, ListStays
    <3> QED  BY <1>2, <3>1 DEF L!Linked, L!Nodes, L!isize, List
  <2> QED  BY <1>1, <1>2, <2>1 DEF PInv, Counters, Origins, Places, Started
<1>7. Built'
  <2>1. \A k : Position(k)' = Position(k)
    BY <1>1 DEF Position, Joined
  <2>2. Unified' = Unified
    BY <1>1 DEF Unified
  <2>3. Started' = Started
    BY <1>1 DEF Started
  <2>4. Started => aux' = [x \in Positions' |->
                             Max({k \in DOMAIN items' : Position(k)' = x} \cup {None})]
    BY <1>1, <1>2, <2>1 DEF PInv, Built
  <2> QED  BY <1>1, <1>2, <2>2, <2>3, <2>4 DEF PInv, Built
<1>8. Nothing' /\ Starting'
  BY <1>1, <1>2 DEF PInv, Nothing, Starting, Started
<1>9. Reported'
  <2>1. \A r : ItemOf(r)' = ItemOf(r)
    BY <1>1 DEF ItemOf
  <2> QED  BY <1>1, <2>1 DEF PInv, Reported
<1> QED  BY <1>1, <1>2, <1>3, <1>4, <1>5, <1>6, <1>7, <1>8, <1>9 DEF PInv

LEMMA StepPInv == PInv /\ [Next]_vars => PInv'
BY UnifyInv, PrepareInv, CompareInv, AdvanceInv, SwallowInv, ReplaceInv, EmitInv,
   CollectInv, StayInv DEF Next

(* The invariant of the program, for every list of records and every       *)
(* combination of options (lzjwm.py:130-166, 289-331).                     *)
THEOREM ProgramInvariance == Spec => []PInv
BY InitPInv, StepPInv, PTL DEF Spec

(* Every index is one of the list, every counter is within its limit, and  *)
(* the counter of the output walk is the length of what it wrote.          *)
THEOREM PyTypeCorrect == Spec => []TypeOK
<1>1. PInv => TypeOK
  BY DEF PInv
<1> QED  BY <1>1, ProgramInvariance, PTL

(* The assertion, the ValueError of bytes() and the KeyError of the        *)
(* compressed offsets never come (lzjwm.py:149-166, 320-331).              *)
THEOREM NeverRaises == Spec => [](pc # "raised")
<1>1. PInv => pc # "raised"
  <2> SUFFICES ASSUME PInv, pc = "raised" PROVE FALSE
    OBVIOUS
  <2>1. CASE Text = << >>
    BY <2>1 DEF PInv, Nothing
  <2>2. CASE Text # << >>
    <3>1. Loop = "raised"
      BY Loops
    <3>2. L!TypeOK
      BY <2>2 DEF PInv, L!WInv, L!OInv, L!IInv
    <3> QED  BY <3>1, <3>2 DEF L!TypeOK, Loop
  <2> QED  BY <2>1, <2>2
<1> QED  BY <1>1, ProgramInvariance, PTL

(* A record is where main says it is.                                      *)
LEMMA RecordDecodes ==
  ASSUME PInv, pc = "done", NEW r \in DOMAIN job.data
  PROVE  LET first == Starts(out)[offsets[r]] IN
         SubSeq(Decode(out), first + 1, first + Len(job.data[r])) = job.data[r]
<1> DEFINE a == offsets[r]
           first == Starts(out)[a]
           data == job.data[r]
           k == ItemOf(r)
<1>1. /\ Started /\ items = Unified /\ job \in Jobs /\ out \in Seq(Byte) /\ Loop = "done"
      /\ job.data \in Seq(Seq(Literal))
  BY JobFacts, Loops DEF PInv, Started, Built, TypeOK
<1>2. a = PlaceOf(r)
  BY DEF PInv, Reported, PlaceOf
<1>3. /\ k \in DOMAIN items /\ items[k] = data
      /\ a \in 0 .. Len(out)
      /\ data # << >> => first = Position(k)
  BY <1>2, RecordPlaces
<1>4. first \in Nat
  BY <1>1, <1>3, StartsValue
<1>5. data \in Seq(Literal) /\ Len(data) \in Nat
  BY <1>1
<1> HIDE DEF a, data, k
<1>6. CASE data = << >>
  <2> HIDE DEF first
  <2>1. Len(data) = 0 /\ first + 1 > first + Len(data)
    BY <1>4, <1>6
  <2>2. SubSeq(Decode(out), first + 1, first + Len(data)) = << >>
    BY <1>4, <2>1
  <2> QED  BY <1>6, <2>2 DEF a, data, first
<1>7. CASE data # << >>
  <2>1. /\ mv = Joined(items) /\ mv \in Seq(Literal) /\ items \in Seq(Seq(Literal))
        /\ Position(k) \in Positions
    BY <1>1, <1>3, <1>7, RecordStarts
  <2>2. Len(mv) \in Nat /\ Len(mv) > 0 /\ Text = mv /\ Text # << >>
    BY <2>1 DEF Positions, PInv, Built, Started
  <2>3. Decode(out) = mv
    <3>1. L!WInv
      BY <2>2 DEF PInv
    <3>2. Spells(out, mv) /\ Starts(out)[Len(out)] = Len(mv)
      <4>1. L!isize = Len(mv)
        BY <2>2 DEF L!isize
      <4>2. Loop = "done" => L!Spells(out, Text) /\ L!Starts(out)[Len(out)] = L!isize
        BY <3>1 DEF L!WInv, L!Written, Loop
      <4> QED  BY <1>1, <2>2, <4>1, <4>2, FormatOperators
    <3>3. mv \in Seq(Byte)
      BY <2>1, FormatBounds DEF Literal, Byte
    <3>4. DecodesVia(out, mv, Starts(out))
      BY <1>1, <3>2, <3>3, SpellsAll
    <3> QED  BY <1>1, <3>3, <3>4, DecodeIsText
  <2>4. /\ k \in 1 .. Len(items) /\ At(items, k - 1) = Position(k)
        /\ At(items, k) \in 0 .. Len(mv)
        /\ At(items, k - 1) + Len(items[k]) <= At(items, k)
        /\ \A q \in 1 .. Len(items[k]) : mv[At(items, k - 1) + q] = items[k][q]
    <3>1. k \in 1 .. Len(items) /\ k \in 0 .. Len(items)
      BY <1>3, <2>1
    <3>2. At(items, k - 1) = Position(k)
      BY DEF At, Position
    <3> QED  BY <2>1, <3>1, <3>2, JoinedFacts
  <2>5. /\ first + Len(data) <= Len(mv)
        /\ \A q \in 1 .. Len(data) : mv[first + q] = data[q]
    <3>1. first = At(items, k - 1) /\ items[k] = data
      BY <1>3, <1>7, <2>4
    <3> HIDE DEF first
    <3>2. first + Len(data) <= At(items, k) /\ At(items, k) <= Len(mv) /\ At(items, k) \in Nat
      BY <2>2, <2>4, <3>1
    <3>3. first + Len(data) <= Len(mv)
      BY <1>4, <1>5, <2>2, <3>2
    <3> QED  BY <2>4, <3>1, <3>3
  <2> HIDE DEF first
  <2>6. SubSeq(mv, first + 1, first + Len(data)) = data
    <3> DEFINE cut == SubSeq(mv, first + 1, first + Len(data))
    <3>1. cut \in Seq(Literal) /\ Len(cut) = Len(data)
      BY <1>4, <1>5, <2>1, <2>2, <2>5
    <3>2. ASSUME NEW q \in 1 .. Len(data) PROVE cut[q] = data[q]
      <4>1. cut[q] = mv[first + q]
        BY <1>4, <1>5, <2>1, <2>2, <2>5
      <4> QED  BY <2>5, <4>1
    <3> HIDE DEF cut
    <3>3. cut = data
      BY <1>5, <3>1, <3>2
    <3> QED  BY <3>3 DEF cut
  <2> QED  BY <2>3, <2>6 DEF a, data, first
<1> QED  BY <1>6, <1>7

(* Each record can be decoded on its own: what the bytes from its offset   *)
(* on stand for begins with it (lzjwm.py:134-137, 149-153, 303-331).       *)
THEOREM RecordsAlwaysAddressable == Spec => []RecordsAddressable
<1>1. PInv => RecordsAddressable
  BY RecordDecodes DEF RecordsAddressable
<1> QED  BY <1>1, ProgramInvariance, PTL

-----------------------------------------------------------------------------
(***************************************************************************)
(* The encoder implements Encoding.                                        *)
(***************************************************************************)
LEMMA EndsTogether ==
  pc \in {"unify", "prepare", "scan", "prune", "emit", "collect", "raised", "done"} =>
    (Loop \in {"done", "rejected"}) = (pc \in {"collect", "done"})
BY DEF Loop

LEMMA EncodingOperators ==
  /\ L!E!Covered = E!Covered
  /\ L!E!Byte = E!Byte
  /\ \A c : L!E!IsPointer(c) = E!IsPointer(c)
  /\ \A c : L!E!count(c) = E!count(c)
  /\ \A c : L!E!StandsForNext(c) = E!StandsForNext(c)
BY DEF L!E!Covered, L!E!Byte, L!E!IsPointer, L!E!count, L!E!StandsForNext, L!E!Starts,
       L!E!Source, L!E!IsZeroOffset, L!E!ZeroPage, L!E!ZeroShift, L!E!FLAG, L!E!get_offset,
       E!Covered, E!Byte, E!IsPointer, E!count, E!StandsForNext, E!Starts,
       E!Source, E!IsZeroOffset, E!ZeroPage, E!ZeroShift, E!FLAG, E!get_offset,
       Text

LEMMA EncodingSteps ==
  ASSUME PInv, PInv', [L!E!Next]_(L!E!vars)
  PROVE  [E!Next]_(E!vars)
<1>1. /\ (Loop \in {"done", "rejected"}) = (pc \in {"collect", "done"})
      /\ (Loop' \in {"done", "rejected"}) = (pc' \in {"collect", "done"})
  <2>1. (Loop \in {"done", "rejected"}) = (pc \in {"collect", "done"})
    BY EndsTogether DEF PInv, TypeOK
  <2>2. (pc \in {"unify", "prepare", "scan", "prune", "emit", "collect", "raised", "done"} =>
           (Loop \in {"done", "rejected"}) = (pc \in {"collect", "done"}))'
    BY EndsTogether, PTL
  <2>3. pc' \in {"unify", "prepare", "scan", "prune", "emit", "collect", "raised", "done"}
    BY DEF PInv, TypeOK
  <2> QED  BY <2>1, <2>2, <2>3
<1>2. CASE L!E!Encode
  <2>1. E!Encode
    BY <1>1, <1>2, EncodingOperators DEF L!E!Encode, E!Encode, Loop, Text
  <2> QED  BY <2>1 DEF E!Next
<1>3. CASE L!E!Refuse
  <2>1. E!Refuse
    BY <1>1, <1>3, EncodingOperators DEF L!E!Refuse, E!Refuse, Loop, Text
  <2> QED  BY <2>1 DEF E!Next
<1>4. CASE L!E!Skip
  <2>1. E!Skip
    BY <1>1, <1>4 DEF L!E!Skip, E!Skip, Loop, Text
  <2> QED  BY <2>1 DEF E!Next
<1>5. CASE UNCHANGED L!E!vars
  <2>1. UNCHANGED E!vars
    BY <1>1, <1>5 DEF L!E!vars, E!vars, Loop, Text
  <2> QED  BY <2>1
<1> QED  BY <1>2, <1>3, <1>4, <1>5 DEF L!E!Next

(* With nothing to encode the program goes from one preparation to the     *)
(* next and to the end.                                                    *)
LEMMA NothingEncodes ==
  ASSUME PInv, [Next]_vars, Text = << >>
  PROVE  [E!Next]_(E!vars)
<1>1. pc \in {"unify", "prepare", "collect", "done"} /\ out = << >> /\ Text' = Text
  BY TextStays DEF PInv, Nothing
<1>2. CASE Unify
  <2>1. out' = out /\ pc = "unify" /\ pc' = "prepare"
    BY <1>2 DEF Unify, out_vars
  <2> QED  BY <1>1, <2>1 DEF E!vars, Text
<1>3. CASE Prepare
  <2>1. out' = out /\ pc = "prepare" /\ items' = items /\ mv' = Joined(items)
        /\ pc' = IF mv' = << >> THEN "collect" ELSE "scan"
    BY <1>3 DEF Prepare
  <2>2. pc' = "collect"
    BY <2>1 DEF Text
  <2>3. E!Skip
    BY <1>1, <2>1, <2>2 DEF E!Skip, Text
  <2> QED  BY <2>3 DEF E!Next
<1>4. CASE Collect
  <2>1. out' = out /\ pc = "collect" /\ pc' = "done"
    BY <1>4, CollectStep DEF Collect
  <2> QED  BY <1>1, <2>1 DEF E!vars, Text
<1>5. CASE UNCHANGED vars
  <2>1. out' = out /\ pc' = pc
    BY <1>5 DEF vars
  <2> QED  BY <1>1, <2>1 DEF E!vars, Text
<1>6. CASE Compare \/ Advance \/ Swallow \/ Replace \/ Emit
  BY <1>1, <1>6 DEF Compare, Visit, Advance, Swallow, Replace, Chop, Emit
<1> QED  BY <1>2, <1>3, <1>4, <1>5, <1>6 DEF Next

LEMMA StepEncodes == PInv /\ [Next]_vars => [E!Next]_(E!vars)
<1> SUFFICES ASSUME PInv, [Next]_vars PROVE [E!Next]_(E!vars)
  OBVIOUS
<1>1. CASE Text # << >>
  <2>1. L!WInv /\ [L!FreeNext]_(L!vars) /\ PInv'
    BY <1>1, FreeStep, StepPInv DEF PInv
  <2>2. L!isize > 0
    BY <1>1, TextFacts DEF PInv, TypeOK
  <2>3. L!WInv /\ [L!FreeNext]_(L!vars) => (L!isize > 0 => [L!E!Next]_(L!E!vars))
    BY Inputs7, FormatAssumption, L!StepEncodes DEF L!FormatAssumption
  <2> QED  BY <2>1, <2>2, <2>3, EncodingSteps
<1>2. CASE Text = << >>
  BY <1>2, NothingEncodes
<1> QED  BY <1>1, <1>2

(* The Python encoder is an encoder in the sense of Encoding, step by step:*)
(* every byte it writes stands for the next characters of the joined       *)
(* records, and it ends with the last one (lzjwm.py:149-166).  The rest of *)
(* Encodes, that it goes on until it has ended, is a liveness property.    *)
THEOREM PyCompressorEncodes == Spec => E!Init /\ [][E!Next]_(E!vars)
<1>1. Init => E!Init
  <2> SUFFICES ASSUME Init PROVE E!Init
    OBVIOUS
  <2>1. Text \in Seq(Literal) /\ pc = "unify" /\ out = << >>
    <3>1. job \in Jobs /\ items \in Seq(Seq(Literal))
      BY DEF Init
    <3> QED  BY <3>1, TextFacts DEF Init
  <2>2. (pc \in {"collect", "done"}) = FALSE
    BY <2>1
  <2> QED  BY <2>1, <2>2 DEF E!Init, Text
<1> QED  BY <1>1, StepEncodes, ProgramInvariance, PTL DEF Spec

-----------------------------------------------------------------------------
(***************************************************************************)
(* The two encoders agree.                                                 *)
(***************************************************************************)
LEMMA FlattenOne ==
  ASSUME NEW s \in Seq(Literal)
  PROVE  FlattenSeq(<<s>>) = s
<1> DEFINE ss == <<s>>
           f == [k \in 1 .. 1 |-> s]
<1>1. /\ ss \in Seq(Seq(Literal)) /\ Len(ss) = 1 /\ ss[1] = s /\ SubSeq(ss, 1, 1) = ss
      /\ f \in [1 .. 1 -> Seq(Literal)] /\ f[1] = s
  <2>1. ss \in Seq(Seq(Literal)) /\ Len(ss) = 1 /\ ss[1] = s
    OBVIOUS
  <2>2. f \in [1 .. 1 -> Seq(Literal)] /\ f[1] = s
    OBVIOUS
  <2> HIDE DEF ss
  <2>3. SubSeq(ss, 1, 1) = ss
    BY <2>1
  <2> QED  BY <2>1, <2>2, <2>3
<1>2. Joins(f, ss, 1)
  BY <1>1 DEF Joins
<1> HIDE DEF f, ss
<1>3. f \in [1 .. Len(ss) -> Seq(Literal)] /\ Joins(f, ss, Len(ss)) /\ 1 \in 1 .. Len(ss)
  BY <1>1, <1>2
<1>4. FlattenSeq(SubSeq(ss, 1, 1)) = f[1]
  BY <1>1, <1>3, FlattenPrefix
<1> QED  BY <1>1, <1>4 DEF ss

(* One record that the options leave alone is the whole text.              *)
LEMMA PlainText ==
  ASSUME job \in Jobs, Plain, pc # "unify" => items = Unified
  PROVE  /\ FlattenSeq(job.data) = Text /\ Text = job.data[1] /\ Text # << >>
         /\ Unified = <<Text>>
<1> DEFINE s == job.data[1]
<1>1. job.data \in Seq(Seq(Literal)) /\ Len(job.data) = 1 /\ s # << >> /\ ~job.terminate
  BY JobFacts DEF Plain
<1>2. s \in Seq(Literal) /\ job.data = <<s>>
  BY <1>1
<1> HIDE DEF s
<1>3. Unified = <<s>>
  <2>1. CASE ~job.unify
    BY <1>2, <2>1 DEF Unified
  <2>2. CASE job.unify
    <3>1. ToSet(job.data) = {s}
      BY <1>2 DEF ToSet
    <3>2. {s} \in SUBSET Seq(Literal) /\ IsFiniteSet({s}) /\ Cardinality({s}) = 1
      BY <1>2, FS_Singleton
    <3> DEFINE r == Sorted({s})
    <3>3. r \in Seq({s}) /\ Len(r) = 1
      BY <3>2, SortedSequence
    <3> HIDE DEF r
    <3>4. r = <<s>>
      BY <3>3
    <3> QED  BY <2>2, <3>1, <3>4 DEF r, Unified
  <2> QED  BY <2>1, <2>2
<1>4. Text = Joined(<<s>>)
  BY <1>3 DEF Text
<1>5. Joined(<<s>>) = FlattenSeq(<<s>>)
  <2>1. DOMAIN <<s>> = 1 .. 1 /\ <<s>>[1] = s /\ s \o << >> = s
    BY <1>2
  <2>2. [k \in DOMAIN <<s>> |-> <<s>>[k] \o << >>] = <<s>>
    BY <2>1
  <2> QED  BY <1>1, <2>2, Zenon DEF Joined
<1>6. FlattenSeq(<<s>>) = s
  BY <1>2, FlattenOne
<1> QED  BY <1>1, <1>2, <1>3, <1>4, <1>5, <1>6 DEF s

(* On the same text the steps of the C encoder are those of the free one   *)
(* that take the longest match and swallow what fits.                      *)
LEMMA SameSteps ==
  ASSUME FlattenSeq(job.data) = Text, FlattenSeq(job.data)' = Text'
  PROVE  /\ L!Prepare => C!Prepare
         /\ L!Advance => C!Advance
         /\ L!Swallow => C!Swallow
         /\ L!Emit => C!Emit
         /\ UNCHANGED L!vars => UNCHANGED C!vars
<1>1. C!isize = L!isize /\ C!Nodes = L!Nodes /\ C!LOOKBACK = L!LOOKBACK /\ C!FLAG = L!FLAG
      /\ (C!Fits <=> L!Fits)
  BY DEF C!isize, L!isize, C!Nodes, L!Nodes, C!LOOKBACK, L!LOOKBACK, C!FLAG, L!FLAG,
         C!Fits, L!Fits
<1>2. /\ \A x : C!IsPointer(x) <=> L!IsPointer(x)
      /\ \A x : C!uint8(x) = L!uint8(x)
      /\ \A x, y : C!mk_ptr(x, y) = L!mk_ptr(x, y)
      /\ \A x : C!Offset(x) = L!Offset(x)
  BY DEF C!IsPointer, L!IsPointer, C!uint8, L!uint8, C!mk_ptr, L!mk_ptr, C!Offset, L!Offset,
         C!FLAG, L!FLAG, C!ZeroPage, L!ZeroPage, C!ZeroShift, L!ZeroShift
<1>3. L!Prepare => C!Prepare
  BY <1>1, <1>2 DEF L!Prepare, C!Prepare
<1>4. L!Advance => C!Advance
  BY <1>1 DEF L!Advance, C!Advance
<1>5. L!Swallow => C!Swallow
  BY <1>1 DEF L!Swallow, C!Swallow
<1>6. L!Emit => C!Emit
  BY <1>1, <1>2 DEF L!Emit, C!Emit
<1>7. UNCHANGED L!vars => UNCHANGED C!vars
  BY DEF L!vars, C!vars
<1> QED  BY <1>3, <1>4, <1>5, <1>6, <1>7

LEMMA PlainFacts ==
  ASSUME PInv, Plain, pc \in {"scan", "prune", "emit"}
  PROVE  /\ FlattenSeq(job.data) = Text
         /\ \A x \in Positions : Compressible(x)
         /\ \A x \in Positions : x # 0 => aux[x] = None
<1>1. /\ Text = mv /\ mv \in Seq(Literal) /\ items = Unified /\ job \in Jobs
      /\ Positions = 0 .. (Len(mv) - 1) /\ Len(mv) \in Nat
  BY Walking DEF PInv, Built
<1>2. FlattenSeq(job.data) = Text /\ Text = job.data[1] /\ Unified = <<Text>>
  BY <1>1, PlainText
<1>3. \A x \in Positions : Compressible(x)
  <2> SUFFICES ASSUME NEW x \in Positions, job.keepNul PROVE mv[x + 1] # NUL
    BY DEF Compressible
  <2>1. x + 1 \in DOMAIN mv
    BY <1>1
  <2>2. NUL \notin ToSet(mv)
    BY <1>1, <1>2 DEF Plain
  <2> QED  BY <2>1, <2>2 DEF ToSet
<1>4. \A x \in Positions : x # 0 => aux[x] = None
  <2> SUFFICES ASSUME NEW x \in Positions, aux[x] # None PROVE x = 0
    OBVIOUS
  <2>1. aux[x] \in DOMAIN items /\ Position(aux[x]) = x
    <3>1. Started
      BY DEF Started
    <3> QED  BY <3>1, RecordStarts
  <2>2. DOMAIN items = 1 .. 1
    BY <1>1, <1>2
  <2>3. Position(1) = 0
    <3>1. SubSeq(items, 1, 1 - 1) = << >>
      BY <1>1, <1>2
    <3>2. Joined(<< >>) = << >>
      <4>1. [k \in DOMAIN << >> |-> << >>[k] \o (IF job.terminate THEN <<NUL>> ELSE << >>)]
              = << >>
        OBVIOUS
      <4>2. FlattenSeq(<< >>) = << >>
        BY DEF FlattenSeq
      <4> QED  BY <4>1, <4>2 DEF Joined
    <3>3. Position(1) = Len(Joined(SubSeq(items, 1, 1 - 1)))
      BY DEF Position
    <3>4. Joined(SubSeq(items, 1, 1 - 1)) = Joined(<< >>)
      BY <3>1
    <3> QED  BY <3>2, <3>3, <3>4
  <2> QED  BY <2>1, <2>2, <2>3
<1> QED  BY <1>2, <1>3, <1>4

LEMMA CompareAgrees ==
  ASSUME PInv, Plain, Compare, FlattenSeq(job.data)' = Text'
  PROVE  C!Compare
<1>1. /\ pc = "scan" /\ i < LOOKBACK /\ nodes[cl].next # None /\ cl' = nodes[cl].next
      /\ nodes' = nodes /\ Text' = Text
      /\ UNCHANGED <<dptr, head, out>>
  BY TextStays DEF Compare, Visit, Next, out_vars
<1>2. /\ mv = Text /\ mv \in Seq(Literal) /\ L!isize = Len(mv) /\ Loop = pc
      /\ Positions = L!Nodes /\ Len(mv) \in Nat
      /\ dptr \in Positions /\ cl \in Positions /\ Positions = 0 .. (Len(mv) - 1)
      /\ DOMAIN nodes = Positions /\ L!Succ(cl) = nodes[cl].next
  BY <1>1, Walking
<1>3. cl' \in Positions /\ nodes[cl].next >= 0
  BY <1>1, <1>2, NoneIsNotANode
<1>4. /\ FlattenSeq(job.data) = Text
      /\ \A x \in Positions : Compressible(x)
  BY <1>1, PlainFacts
<1>5. dptr < cl'
  <2>1. L!IInv
    BY <1>1, Walking
  <2> QED  BY <1>1, <1>2, <1>3, <2>1 DEF L!IInv, L!Scanning, Loop
<1> DEFINE longest == IF i = 0 THEN MAX_ZERO_MATCH ELSE MAX_MATCH
           y == cl'
           n == match(dptr, y, longest)
<1>6. longest \in Nat
  BY FormatBounds
<1> HIDE DEF longest
<1>7. /\ n \in 0 .. longest
      /\ y + n <= Len(mv)
      /\ \A k \in 1 .. n : mv[dptr + k] = mv[y + k]
      /\ \/ n = longest \/ dptr + n = Len(mv) \/ y + n = Len(mv)
         \/ ~Agree(dptr + n, y + n) \/ ~Compressible(dptr + n)
  BY <1>2, <1>3, <1>6, MatchSpec
<1>8. IF n >= 2
      THEN pc' = "prune" /\ m' = n /\ nn' = cl' /\ d' = 0 /\ j' = 0 /\ i' = i
      ELSE i' = i + 1 /\ UNCHANGED <<pc, m, nn, d, j>>
  BY DEF Compare, Visit, longest
<1>9. L!match(dptr, y, longest) = n
  <2> HIDE DEF n
  <2>1. n \in Nat /\ dptr + n <= Len(mv) /\ y \in Positions
    BY <1>2, <1>3, <1>5, <1>6, <1>7
  <2>2. dptr + n = Len(mv) \/ dptr + n \in Positions
    BY <1>2, <2>1
  <2>3. \/ n = longest \/ dptr + n = L!isize \/ y + n = L!isize
        \/ Text[dptr + n + 1] # Text[y + n + 1]
    BY <1>2, <1>4, <1>7, <2>2 DEF Agree
  <2>4. L!SameText(dptr, y, n)
    BY <1>2, <1>7 DEF L!SameText
  <2>5. Text \in Seq(L!Byte) /\ dptr \in L!Nodes /\ y \in L!Nodes /\ longest \in Nat
        /\ n \in 0 .. longest /\ dptr + n <= L!isize /\ y + n <= L!isize
    BY <1>2, <1>6, <1>7, <2>1, Inputs7
  <2> HIDE DEF y
  <2> QED  BY <2>3, <2>4, <2>5, Inputs7, FormatAssumption, L!MatchIsUnique
           DEF L!FormatAssumption
<1>10. C!match(dptr, y, longest) = L!match(dptr, y, longest)
  BY <1>4 DEF C!match, L!match, C!isize, L!isize, C!SameText, L!SameText
<1> HIDE DEF n
<1>11. Loop' = IF n >= 2 THEN "prune" ELSE Loop
  BY <1>1, <1>2, <1>8 DEF Loop
<1>12. longest = (IF i = 0 THEN C!MAX_ZERO_MATCH ELSE C!MAX_MATCH) /\ C!LOOKBACK = LOOKBACK
  BY DEF longest, C!MAX_ZERO_MATCH, C!MAX_MATCH, MAX_ZERO_MATCH, MAX_MATCH, C!LOOKBACK,
         LOOKBACK
<1>13. IF n >= 2
       THEN Loop' = "prune" /\ m' = n /\ nn' = cl' /\ d' = 0 /\ j' = 0 /\ i' = i
       ELSE i' = i + 1 /\ UNCHANGED <<Loop, m, nn, d, j>>
  BY <1>8, <1>11
<1>14. /\ Loop = "scan" /\ List[cl].next >= 0 /\ cl' = List[cl].next /\ List' = List
       /\ UNCHANGED <<FlattenSeq(job.data), dptr, head, out>>
  <2>1. List[cl].next = nodes[cl].next
    BY <1>2 DEF List
  <2> QED  BY <1>1, <1>2, <1>3, <1>4, <2>1, ListStays
<1>15. C!match(dptr, cl', longest) = n
  BY <1>9, <1>10
<1> HIDE DEF y
<1> QED  BY <1>1, <1>12, <1>13, <1>14, <1>15 DEF C!Compare, C!Visit, Loop, List

LEMMA ReplaceAgrees ==
  ASSUME PInv, Plain, Replace, FlattenSeq(job.data)' = Text'
  PROVE  C!Replace
<1>1. pc = "prune" /\ ~Fits /\ L!FreeReplace
  BY ReplaceStep DEF Replace, Chop
<1>2. FlattenSeq(job.data) = Text /\ \A x \in Positions : x # 0 => aux[x] = None
  BY <1>1, PlainFacts
<1>3. /\ L!IInv /\ Loop = pc /\ DOMAIN nodes = Positions /\ Positions = 0 .. (Len(mv) - 1)
      /\ cl \in Positions /\ dptr \in Positions /\ mv \in Seq(Literal) /\ L!isize = Len(mv)
      /\ Len(mv) \in Nat
  BY <1>1, Walking
<1>4. nn # None => nn \in Positions /\ nn # 0
  <2>1. nn \in Positions \cup {None}
    BY <1>1 DEF PInv, TypeOK
  <2>2. dptr < cl /\ nn = L!Link(cl + j) /\ j \in Nat
    <3>1. dptr < cl /\ nn = L!Link(cl + j)
      BY <1>1, <1>3 DEF L!IInv, L!Pruning, Loop
    <3>2. j \in Nat
      BY FormatBounds DEF PInv, TypeOK
    <3> QED  BY <3>1, <3>2
  <2> QED  BY <1>3, <2>1, <2>2 DEF L!Link, None
<1>5. ~(nn # -1 /\ j + List[nn].count <= m)
  <2>1. nn # None => List[nn].count = nodes[nn].count /\ aux[nn] = None
    BY <1>2, <1>3, <1>4 DEF List
  <2> QED  BY <1>1, <2>1 DEF Fits, None
<1>6. ~C!Fits
  BY <1>5 DEF C!Fits, List
<1>7. \A x : C!uint8(x) = L!uint8(x)
  BY DEF C!uint8, L!uint8, C!FLAG, L!FLAG
<1> QED  BY <1>1, <1>2, <1>6, <1>7 DEF L!FreeReplace, C!Replace, C!Chop

LEMMA StepAgrees == PInv /\ [Next]_vars => (Plain => [C!Next]_(C!vars))
<1> SUFFICES ASSUME PInv, [Next]_vars, Plain PROVE [C!Next]_(C!vars)
  OBVIOUS
<1>1. Text' = Text /\ job' = job
  BY TextStays
<1>2. FlattenSeq(job.data) = Text /\ FlattenSeq(job.data)' = Text' /\ Text # << >>
  <2>1. FlattenSeq(job.data) = Text /\ Text # << >>
    BY PlainText DEF PInv, Built
  <2> QED  BY <1>1, <2>1
<1>3. CASE Unify
  <2>1. Loop' = Loop /\ List' = List /\ UNCHANGED <<dptr, cl, i, m, nn, d, j, head, out>>
    BY <1>3, ListStays DEF Unify, Loop, scan_vars, out_vars
  <2> QED  BY <1>1, <1>2, <2>1 DEF C!vars, Loop, List
<1>4. CASE Prepare
  BY <1>2, <1>4, PrepareStep, SameSteps DEF C!Next
<1>5. CASE Compare
  BY <1>2, <1>5, CompareAgrees DEF C!Next
<1>6. CASE Advance
  BY <1>2, <1>6, AdvanceStep, SameSteps DEF C!Next
<1>7. CASE Swallow
  BY <1>2, <1>7, SwallowStep, SameSteps DEF C!Next
<1>8. CASE Replace
  BY <1>2, <1>8, ReplaceAgrees DEF C!Next
<1>9. CASE Emit
  BY <1>2, <1>9, EmitStep, SameSteps DEF C!Next
<1>10. CASE Collect
  <2>1. pc = "collect" /\ pc' = "done" /\ nodes' = nodes
        /\ UNCHANGED <<dptr, cl, i, m, nn, d, j, head, out>>
    BY <1>10, CollectStep DEF Collect, scan_vars
  <2>2. Loop' = Loop /\ List' = List
    BY <2>1, ListStays DEF Loop
  <2> QED  BY <1>1, <1>2, <2>1, <2>2 DEF C!vars, Loop, List
<1>11. CASE UNCHANGED vars
  <2>1. Loop' = Loop /\ List' = List /\ UNCHANGED <<dptr, cl, i, m, nn, d, j, head, out>>
    BY <1>11, ListStays DEF vars, Loop
  <2> QED  BY <1>1, <1>2, <2>1 DEF C!vars, Loop, List
<1> QED  BY <1>3, <1>4, <1>5, <1>6, <1>7, <1>8, <1>9, <1>10, <1>11 DEF Next

(* Whatever the record, lzjwm.py -c and lzjwm -c write the same bytes: every*)
(* step of the one is a step of the other or none (lzjwm.py:106-166,       *)
(* lzjwm_compress.c:41-90).                                                *)
THEOREM EncodersAlwaysAgree == Spec => AgreesWithC
<1>1. Init => (Plain => C!Init)
  <2> SUFFICES ASSUME Init, Plain PROVE C!Init
    OBVIOUS
  <2>1. job \in Jobs /\ pc = "unify" /\ items \in Seq(Seq(Literal))
    BY DEF Init
  <2>2. FlattenSeq(job.data) = Text /\ Text \in Seq(Literal)
    BY <2>1, PlainText, TextFacts
  <2>3. Loop = "prepare" /\ List = << >>
    BY <2>1 DEF Init, Loop, List
  <2> QED  BY <2>2, <2>3 DEF Init, C!Init, Loop, List
<1>2. PInv /\ [Next]_vars => [Plain => [C!Next]_(C!vars)]_vars
  BY StepAgrees
<1> QED  BY <1>1, <1>2, ProgramInvariance, PTL DEF Spec, AgreesWithC

-----------------------------------------------------------------------------
(***************************************************************************)
(* What follows for an encoder from implementing Encoding, whichever       *)
(* matches it chooses.                                                     *)
(***************************************************************************)
CONSTANT Texts
VARIABLES text, enc, ended

A == INSTANCE Encoding

(* At every moment the stream stands for a prefix of the text.             *)
AInv ==
  /\ text \in Seq(Byte) /\ enc \in Seq(Byte)
  /\ Spells(enc, text)
  /\ ended /\ enc # << >> => A!Covered = Len(text)

(* What an encoder returns, if it returns anything, decodes to the text and*)
(* is not longer.                                                          *)
ReturnsStreamOfText ==
  ended /\ enc # << >> => Decode(enc) = text /\ Len(enc) <= Len(text)

LEMMA AbstractOperators ==
  /\ A!Byte = Byte
  /\ \A s : A!Starts(s) = Starts(s)
  /\ A!Covered = Starts(enc)[Len(enc)]
  /\ \A c : A!IsPointer(c) <=> IsPointer(c)
  /\ \A c : A!count(c) = count(c)
  /\ \A s, p : A!Source(s, p) = Source(s, p)
BY DEF A!Byte, A!Starts, A!Covered, A!IsPointer, A!count, A!Source, A!get_offset,
       A!IsZeroOffset, A!ZeroPage, A!ZeroShift, A!FLAG,
       Byte, Starts, IsPointer, count, Source, get_offset, IsZeroOffset, ZeroPage,
       ZeroShift, FLAG

LEMMA EncodeStep == AInv /\ A!Encode => AInv'
<1> SUFFICES ASSUME AInv, A!Encode PROVE AInv'
  OBVIOUS
<1>1. text \in Seq(Byte) /\ enc \in Seq(Byte) /\ Spells(enc, text) /\ text' = text
  BY DEF AInv, A!Encode
<1>2. PICK c \in Byte : /\ enc' = Append(enc, c)
                        /\ A!StandsForNext(c)
                        /\ ended' = (A!Covered + count(c) = Len(text))
  BY AbstractOperators DEF A!Encode
<1>3. Spells(Append(enc, c), text)
  BY <1>1, <1>2, AbstractOperators, SpellsAppend DEF A!StandsForNext
<1>4. Append(enc, c) \in Seq(Byte) /\ Len(Append(enc, c)) = Len(enc) + 1
  BY <1>1
<1>5. A!Covered' = A!Covered + count(c)
  <2>1. Starts(Append(enc, c))[Len(enc) + 1] = Starts(enc)[Len(enc)] + count(c)
    BY <1>1, <1>2, StartsAppend
  <2>2. (A!Covered = Starts(enc)[Len(enc)])'
    BY AbstractOperators, PTL
  <2> QED  BY <1>2, <1>4, <2>1, <2>2, AbstractOperators
<1> QED  BY <1>1, <1>2, <1>3, <1>4, <1>5 DEF AInv

LEMMA AbstractStep == AInv /\ [A!Next]_(A!vars) => AInv'
<1> SUFFICES ASSUME AInv, [A!Next]_(A!vars) PROVE AInv'
  OBVIOUS
<1>1. CASE A!Encode
  BY <1>1, EncodeStep
<1>2. CASE A!Refuse
  BY <1>2 DEF A!Refuse, AInv
<1>3. CASE A!Skip
  <2>1. text = << >> /\ UNCHANGED <<text, enc>>
    BY <1>3 DEF A!Skip
  <2>2. A!Covered <= 0 /\ A!Covered \in Nat
    <3>1. Starts(enc) \in [0 .. Len(enc) -> Nat] /\ Len(enc) \in Nat
      BY StartsValue DEF AInv
    <3> QED  BY <2>1, <3>1, AbstractOperators DEF AInv, Spells
  <2>3. A!Covered = Len(text) /\ A!Covered' = A!Covered
    BY <2>1, <2>2 DEF A!Covered, A!Starts
  <2> QED  BY <2>1, <2>3 DEF AInv
<1>4. CASE UNCHANGED A!vars
  BY <1>4 DEF A!vars, AInv, A!Covered, A!Starts
<1> QED  BY <1>1, <1>2, <1>3, <1>4 DEF A!Next

(* Every encoder that implements Encoding returns, when it returns a       *)
(* stream at all, one that decodes to the text and is not longer           *)
(* (lzjwm.h:11).                                                           *)
THEOREM EncodersAreCorrect ==
  ASSUME Texts \in SUBSET Seq(Byte)
  PROVE  A!Spec => []ReturnsStreamOfText
<1>1. A!Init => AInv
  BY SpellsNothing DEF A!Init, AInv
<1>2. AInv => ReturnsStreamOfText
  <2> SUFFICES ASSUME AInv, ended, enc # << >>
               PROVE  Decode(enc) = text /\ Len(enc) <= Len(text)
    BY DEF ReturnsStreamOfText
  <2>1. /\ text \in Seq(Byte) /\ enc \in Seq(Byte) /\ Spells(enc, text)
        /\ Starts(enc)[Len(enc)] = Len(text)
    BY AbstractOperators DEF AInv
  <2>2. DecodesVia(enc, text, Starts(enc)) /\ Len(enc) <= Len(text)
    BY <2>1, SpellsAll
  <2> QED  BY <2>1, <2>2, DecodeIsText
<1> QED  BY <1>1, <1>2, AbstractStep, PTL DEF A!Spec
=============================================================================
