-------------------------- MODULE RandomAccessProofs --------------------------
(***************************************************************************)
(* The minimal decoder and the decoder of the Python program deliver the   *)
(* characters asked for from wherever they are started, at a bounded       *)
(* depth, and never leave their data.  The minimal one trusts its inner    *)
(* calls to put out len characters; the Python one takes off what they     *)
(* report.  The argument is made once, about a stack of frames.            *)
(***************************************************************************)
EXTENDS RandomAccess, LZFormatProofs, SequenceTheorems

Frame == [location : Int, count : Nat, len : Nat]

-----------------------------------------------------------------------------
(***************************************************************************)
(* The inductive invariant.  The call that frame k - 1 made was for its len*)
(* characters: at least two, and fewer than it needs itself.               *)
(***************************************************************************)
Chain(s) ==
  \A k \in 2 .. Len(s) :
    /\ s[k - 1].len >= 2
    /\ s[k - 1].len <= MAX_ZERO_MATCH - (k - 2)
    /\ s[k - 1].len < s[k - 1].count
    /\ s[k].count <= s[k - 1].len

Good(s) == s \in Seq(Frame) /\ s # << >> /\ Chain(s)

(* What a call has still to put out itself, after the call it made.        *)
Rest(s, k) == s[k].count - (IF k = Len(s) THEN 0 ELSE s[k].len)

(* A call stands at a byte from which the stream yields what it has still  *)
(* to put out.  The outermost one, which may have been asked for more than *)
(* there is, stands where the next character starts or, when its last      *)
(* characters are a copy, in that copy's source.                           *)
Stands(st, loc, k, rest, p) ==
  \/ Yields(st, loc, rest, p)
  \/ k = 1 /\ loc \in 0 .. Len(st.enc) /\ st.start[loc] = p

(* W[k] is the position in the text when the call that frame k made has    *)
(* returned; the innermost one is at n, and the caller wants up to b.      *)
Tracks(st, s, W, n, b) ==
  /\ W \in [0 .. Len(s) -> Nat]
  /\ W[0] = b /\ W[Len(s)] = n
  /\ \A k \in 0 .. Len(s) : W[k] <= b
  /\ \A k \in 1 .. Len(s) :
       /\ Stands(st, s[k].location, k, Rest(s, k), W[k])
       /\ W[k - 1] = W[k] + Rest(s, k)

(* The calls s of a decoder of the stream st, asked for what lies between  *)
(* the positions first and b of the text, when the characters o are out.   *)
Delivering(st, first, b, s, o) ==
  /\ IsStream(st) /\ first \in 0 .. Len(st.text)
  /\ Good(s) /\ o \in Seq(Byte)
  /\ \E W : Tracks(st, s, W, first + Len(o), b)
  /\ first + Len(o) <= Len(st.text)
  /\ \A k \in 1 .. Len(o) : o[k] = st.text[first + k]

Inner(s) == s[Len(s)]

-----------------------------------------------------------------------------
LEMMA FrameTypes ==
  /\ \A f \in Frame : f.location \in Int /\ f.count \in Nat /\ f.len \in Nat
  /\ \A p \in Int, c \in Nat, l \in Nat :
       [location |-> p, count |-> c, len |-> l] \in Frame
BY DEF Frame

(* The call that is running.                                               *)
LEMMA TopFacts ==
  ASSUME NEW st, NEW s, Good(s), NEW W, NEW n, NEW b, Tracks(st, s, W, n, b)
  PROVE  LET d == Len(s) IN
         /\ s \in Seq(Frame) /\ d \in Nat /\ d >= 1 /\ d \in 1 .. d
         /\ s[d] \in Frame /\ s[d].count \in Nat /\ Rest(s, d) = s[d].count
         /\ n \in Nat /\ b \in Nat /\ n = W[d]
         /\ Stands(st, s[d].location, d, s[d].count, n)
         /\ W[d - 1] = n + s[d].count /\ n + s[d].count <= b
<1> DEFINE d == Len(s)
<1>1. s \in Seq(Frame) /\ d \in Nat /\ d >= 1 /\ d \in 1 .. d
  BY DEF Good
<1>2. s[d] \in Frame /\ s[d].count \in Nat
  BY <1>1, FrameTypes
<1>3. Rest(s, d) = s[d].count
  <2>1. Rest(s, d) = s[d].count - 0
    BY DEF Rest
  <2> QED  BY <1>2, <2>1
<1>4. W \in [0 .. d -> Nat] /\ W[0] = b /\ W[d] = n
  BY DEF Tracks
<1>5. n \in Nat /\ b \in Nat
  <2>1. 0 \in 0 .. d /\ d \in 0 .. d
    BY <1>1
  <2> QED  BY <1>4, <2>1
<1>6. /\ Stands(st, s[d].location, d, s[d].count, n)
      /\ W[d - 1] = n + s[d].count
  BY <1>1, <1>3, <1>4 DEF Tracks
<1>7. W[d - 1] <= b
  <2>1. d - 1 \in 0 .. d
    BY <1>1
  <2> QED  BY <2>1 DEF Tracks
<1> QED  BY <1>1, <1>2, <1>3, <1>4, <1>5, <1>6, <1>7

LEMMA FrameFacts ==
  ASSUME NEW st, NEW s, Good(s), NEW W, NEW n, NEW b, Tracks(st, s, W, n, b)
  PROVE  /\ W \in [0 .. Len(s) -> Nat] /\ W[0] = b /\ W[Len(s)] = n
         /\ \A k \in 0 .. Len(s) : W[k] \in Nat /\ W[k] <= b
         /\ \A k \in 1 .. Len(s) : /\ s[k] \in Frame /\ s[k].count \in Nat
                                   /\ s[k].len \in Nat /\ s[k].location \in Int
                                   /\ Stands(st, s[k].location, k, Rest(s, k), W[k])
                                   /\ W[k - 1] = W[k] + Rest(s, k)
<1>1. s \in Seq(Frame)
  BY DEF Good
<1>2. \A k \in 1 .. Len(s) : /\ s[k] \in Frame /\ s[k].count \in Nat
                             /\ s[k].len \in Nat /\ s[k].location \in Int
  BY <1>1, FrameTypes
<1> QED  BY <1>2 DEF Tracks

(* The call that is running moves on, having put m - n characters out.     *)
LEMMA MoveTop ==
  ASSUME NEW st, NEW s, Good(s), NEW W, NEW n, NEW b, Tracks(st, s, W, n, b),
         NEW f \in Frame, NEW m \in Nat,
         f.count <= s[Len(s)].count,
         m + f.count = n + s[Len(s)].count,
         Stands(st, f.location, Len(s), f.count, m)
  PROVE  /\ Good([s EXCEPT ![Len(s)] = f])
         /\ \E Q : Tracks(st, [s EXCEPT ![Len(s)] = f], Q, m, b)
<1> DEFINE d == Len(s)
           t == [s EXCEPT ![d] = f]
           Q == [W EXCEPT ![d] = m]
<1>1. s \in Seq(Frame) /\ d \in Nat /\ d >= 1 /\ d \in 1 .. d
  BY DEF Good
<1>2. /\ n \in Nat /\ b \in Nat /\ s[d].count \in Nat
      /\ W[d - 1] = n + s[d].count /\ n + s[d].count <= b
  BY TopFacts
<1>3. W \in [0 .. d -> Nat] /\ W[0] = b /\ \A k \in 0 .. d : W[k] \in Nat /\ W[k] <= b
  BY FrameFacts, ZenonT(40)
<1>4. \A k \in 1 .. d : /\ Stands(st, s[k].location, k, Rest(s, k), W[k])
                        /\ W[k - 1] = W[k] + Rest(s, k)
  BY DEF Tracks
<1>5. /\ t \in Seq(Frame) /\ Len(t) = d /\ t # << >> /\ t[d] = f
      /\ \A k \in 1 .. d : k # d => t[k] = s[k]
  BY <1>1
<1>6. /\ Q \in [0 .. d -> Nat] /\ Q[d] = m
      /\ \A k \in 0 .. d : k # d => Q[k] = W[k]
  BY <1>1, <1>3
<1>7. f.count \in Nat /\ f.count <= s[d].count /\ m + f.count = n + s[d].count
      /\ Stands(st, f.location, d, f.count, m)
  BY FrameTypes
<1> HIDE DEF d, t, Q
<1>8. Chain(t)
  <2> SUFFICES ASSUME NEW k \in 2 .. d
               PROVE  /\ t[k - 1].len >= 2
                      /\ t[k - 1].len <= MAX_ZERO_MATCH - (k - 2)
                      /\ t[k - 1].len < t[k - 1].count
                      /\ t[k].count <= t[k - 1].len
    BY <1>5 DEF Chain
  <2>1. /\ s[k - 1].len >= 2
        /\ s[k - 1].len <= MAX_ZERO_MATCH - (k - 2)
        /\ s[k - 1].len < s[k - 1].count
        /\ s[k].count <= s[k - 1].len
    BY DEF Good, Chain, d
  <2>2. t[k - 1] = s[k - 1]
    BY <1>1, <1>5
  <2>3. t[k].count <= t[k - 1].len
    <3>1. CASE k = d
      <4>1. s[d - 1].len \in Nat
        <5>1. d - 1 \in 1 .. d
          BY <1>1, <3>1
        <5> QED  BY <1>1, <5>1, FrameTypes DEF d
      <4> QED  BY <1>2, <1>5, <1>7, <2>1, <2>2, <3>1, <4>1
    <3>2. CASE k # d
      <4>1. t[k] = s[k]
        BY <1>1, <1>5, <3>2
      <4> QED  BY <2>1, <2>2, <4>1
    <3> QED  BY <3>1, <3>2
  <2> QED  BY <2>1, <2>2, <2>3
<1>9. Rest(t, d) = f.count /\ \A k \in 1 .. d : k # d => Rest(t, k) = Rest(s, k)
  <2>1. Rest(t, d) = f.count - 0
    BY <1>5 DEF Rest
  <2>2. \A k \in 1 .. d : k # d => Rest(t, k) = Rest(s, k)
    BY <1>5 DEF Rest, d
  <2> QED  BY <1>7, <2>1, <2>2
<1>10. ASSUME NEW k \in 1 .. d
       PROVE  /\ Stands(st, t[k].location, k, Rest(t, k), Q[k])
              /\ Q[k - 1] = Q[k] + Rest(t, k)
  <2>1. k - 1 \in 0 .. d /\ k - 1 # d /\ k \in 0 .. d
    BY <1>1
  <2>2. Q[k - 1] = W[k - 1]
    BY <1>6, <2>1
  <2>3. CASE k = d
    BY <1>2, <1>5, <1>6, <1>7, <1>9, <2>2, <2>3
  <2>4. CASE k # d
    <3>1. t[k] = s[k] /\ Q[k] = W[k] /\ Rest(t, k) = Rest(s, k)
      BY <1>5, <1>6, <1>9, <2>1, <2>4
    <3> QED  BY <1>4, <2>2, <3>1
  <2> QED  BY <2>3, <2>4
<1>11. Q[0] = b /\ \A k \in 0 .. d : Q[k] <= b
  <2>1. 0 \in 0 .. d /\ 0 # d
    BY <1>1
  <2>2. m <= b
    BY <1>2, <1>7
  <2> QED  BY <1>3, <1>6, <2>1, <2>2
<1>12. Tracks(st, t, Q, m, b)
  BY <1>5, <1>6, <1>10, <1>11 DEF Tracks
<1> QED  BY <1>5, <1>8, <1>12 DEF Good, t, d

(* The call that is running calls for the next l characters.               *)
LEMMA PushTop ==
  ASSUME NEW st, NEW s, Good(s), NEW W, NEW n, NEW b, Tracks(st, s, W, n, b),
         NEW g \in Frame, NEW f \in Frame, NEW l \in Nat,
         l >= 2, l <= MAX_ZERO_MATCH, l < s[Len(s)].count,
         g.count = s[Len(s)].count, g.len = l, f.count = l,
         Stands(st, g.location, Len(s), g.count - l, n + l),
         Yields(st, f.location, l, n)
  PROVE  /\ Good(Append([s EXCEPT ![Len(s)] = g], f))
         /\ \E Q : Tracks(st, Append([s EXCEPT ![Len(s)] = g], f), Q, n, b)
<1> DEFINE d == Len(s)
           u == [s EXCEPT ![d] = g]
           t == Append(u, f)
           Q == [k \in 0 .. (d + 1) |-> IF k = d + 1 THEN n
                                        ELSE IF k = d THEN n + l ELSE W[k]]
<1>1. s \in Seq(Frame) /\ d \in Nat /\ d >= 1 /\ d \in 1 .. d
  BY DEF Good
<1>2. /\ n \in Nat /\ b \in Nat /\ s[d].count \in Nat
      /\ W[d - 1] = n + s[d].count /\ n + s[d].count <= b
  BY TopFacts
<1>3. W \in [0 .. d -> Nat] /\ W[0] = b /\ \A k \in 0 .. d : W[k] \in Nat /\ W[k] <= b
  <2>1. W \in [0 .. d -> Nat] /\ W[0] = b /\ \A k \in 0 .. d : W[k] <= b
    BY DEF Tracks
  <2> HIDE DEF d
  <2> QED  BY <2>1
<1>4. \A k \in 1 .. d : /\ Stands(st, s[k].location, k, Rest(s, k), W[k])
                        /\ W[k - 1] = W[k] + Rest(s, k)
  BY DEF Tracks
<1>5. /\ u \in Seq(Frame) /\ Len(u) = d /\ u[d] = g
      /\ \A k \in 1 .. d : k # d => u[k] = s[k]
  BY <1>1
<1>6. g.count = s[d].count /\ Stands(st, g.location, d, g.count - l, n + l) /\ l < s[d].count
  OBVIOUS
<1> HIDE DEF u
<1>7. /\ t \in Seq(Frame) /\ Len(t) = d + 1 /\ t # << >> /\ t[d + 1] = f /\ t[d] = g
      /\ \A k \in 1 .. d : t[k] = u[k]
  BY <1>1, <1>5
<1>8. Chain(s)
  BY DEF Good
<1> HIDE DEF d, t
<1>9. Chain(t)
  <2> SUFFICES ASSUME NEW k \in 2 .. (d + 1)
               PROVE  /\ t[k - 1].len >= 2
                      /\ t[k - 1].len <= MAX_ZERO_MATCH - (k - 2)
                      /\ t[k - 1].len < t[k - 1].count
                      /\ t[k].count <= t[k - 1].len
    BY <1>7 DEF Chain
  <2>1. CASE k = d + 1
    <3>1. k - 1 = d
      BY <1>1, <2>1
    <3>2. l <= MAX_ZERO_MATCH - (k - 2)
      <4>1. CASE d = 1
        BY <2>1, <4>1, FormatBounds
      <4>2. CASE d >= 2
        <5>1. s[d - 1].len <= MAX_ZERO_MATCH - (d - 2) /\ s[d].count <= s[d - 1].len
          BY <1>1, <1>8, <4>2 DEF Chain, d
        <5>2. s[d - 1].len \in Nat
          <6>1. d - 1 \in 1 .. d
            BY <1>1, <4>2
          <6> QED  BY <1>1, <6>1, FrameTypes DEF d
        <5>3. \A x \in Nat, y \in Nat, M \in Nat :
                x <= M - (d - 2) /\ y <= x /\ l < y => l <= M - ((d + 1) - 2)
          BY <1>1
        <5>4. l <= MAX_ZERO_MATCH - ((d + 1) - 2)
          BY <1>2, <1>6, <5>1, <5>2, <5>3, FormatBounds
        <5> QED  BY <2>1, <5>4
      <4> QED  BY <1>1, <4>1, <4>2
    <3>3. t[k - 1] = g /\ t[k] = f
      BY <1>7, <2>1, <3>1
    <3>4. l < g.count /\ l <= l
      BY <1>6
    <3>5. g.len = l /\ f.count = l /\ l >= 2
      OBVIOUS
    <3> QED  BY <3>2, <3>3, <3>4, <3>5
  <2>2. CASE k # d + 1
    <3>1. k \in 2 .. d /\ k - 1 \in 1 .. d /\ k - 1 # d /\ k \in 1 .. d
      BY <1>1, <2>2
    <3>2. t[k - 1] = s[k - 1] /\ t[k].count = s[k].count
      BY <1>5, <1>6, <1>7, <3>1
    <3> QED  BY <1>8, <3>1, <3>2 DEF Chain, d
  <2> QED  BY <2>1, <2>2
<1>10. /\ Q \in [0 .. (d + 1) -> Nat] /\ Q[d + 1] = n /\ Q[d] = n + l
       /\ \A k \in 0 .. (d - 1) : Q[k] = W[k]
  BY <1>1, <1>2, <1>3
<1> HIDE DEF Q
<1>11. /\ Rest(t, d + 1) = l /\ Rest(t, d) = g.count - l
       /\ \A k \in 1 .. d : k # d => Rest(t, k) = Rest(s, k)
  <2>1. Rest(t, d + 1) = l - 0
    BY <1>7 DEF Rest
  <2>2. Rest(t, d) = g.count - l
    BY <1>1, <1>7 DEF Rest
  <2>3. ASSUME NEW k \in 1 .. d, k # d PROVE Rest(t, k) = Rest(s, k)
    <3>1. k # d + 1 /\ t[k] = s[k]
      BY <1>1, <1>5, <1>7, <2>3
    <3> QED  BY <1>7, <2>3, <3>1 DEF Rest, d
  <2> QED  BY <2>1, <2>2, <2>3
<1>12. ASSUME NEW k \in 1 .. (d + 1)
       PROVE  /\ Stands(st, t[k].location, k, Rest(t, k), Q[k])
              /\ Q[k - 1] = Q[k] + Rest(t, k)
  <2>1. CASE k = d + 1
    <3>1. k - 1 = d
      BY <1>1, <2>1
    <3>2. Stands(st, f.location, k, l, n)
      BY DEF Stands
    <3> QED  BY <1>7, <1>10, <1>11, <2>1, <3>1, <3>2
  <2>2. CASE k = d
    <3>1. Q[k - 1] = n + s[d].count
      BY <1>1, <1>2, <1>10, <2>2, SMTT(30)
    <3>2. \A x \in Nat, y \in Nat, z \in Nat : x + y = (x + z) + (y - z)
      OBVIOUS
    <3>3. n + s[d].count = (n + l) + (s[d].count - l)
      BY <1>2, <3>2
    <3> QED  BY <1>6, <1>7, <1>10, <1>11, <2>2, <3>1, <3>3
  <2>3. CASE k # d + 1 /\ k # d
    <3>1. k \in 1 .. d /\ k \in 0 .. (d - 1) /\ k - 1 \in 0 .. (d - 1)
      BY <1>1, <2>3
    <3>2. t[k] = s[k] /\ Q[k] = W[k] /\ Q[k - 1] = W[k - 1] /\ Rest(t, k) = Rest(s, k)
      BY <1>5, <1>7, <1>10, <1>11, <2>3, <3>1
    <3> QED  BY <1>4, <3>1, <3>2
  <2> QED  BY <2>1, <2>2, <2>3
<1>13. Q[0] = b /\ \A k \in 0 .. (d + 1) : Q[k] <= b
  <2>1. 0 \in 0 .. (d - 1)
    BY <1>1
  <2>2. n <= b /\ n + l <= b
    BY <1>2, <1>6
  <2>3. \A k \in 0 .. (d + 1) : k = d + 1 \/ k = d \/ k \in 0 .. (d - 1)
    BY <1>1
  <2>4. \A k \in 0 .. (d - 1) : k \in 0 .. d
    BY <1>1
  <2> QED  BY <1>3, <1>10, <2>1, <2>2, <2>3, <2>4
<1>14. Tracks(st, t, Q, n, b)
  BY <1>7, <1>10, <1>12, <1>13 DEF Tracks
<1> QED  BY <1>7, <1>9, <1>14 DEF Good, t, u, d

(* An inner call that has put all its characters out returns.              *)
LEMMA PopTop ==
  ASSUME NEW st, NEW s, Good(s), NEW W, NEW n, NEW b, Tracks(st, s, W, n, b),
         Len(s) >= 2, s[Len(s)].count = 0
  PROVE  LET t == [SubSeq(s, 1, Len(s) - 1) EXCEPT
                     ![Len(s) - 1].count = @ - s[Len(s) - 1].len]
         IN  Good(t) /\ \E Q : Tracks(st, t, Q, n, b)
<1> DEFINE d == Len(s) - 1
           u == SubSeq(s, 1, d)
           r == s[d].len
           f == [s[d] EXCEPT !.count = @ - r]
           t == [u EXCEPT ![d].count = @ - r]
           Q == [k \in 0 .. d |-> W[k]]
<1>1. s \in Seq(Frame) /\ Len(s) = d + 1 /\ d \in Nat /\ d >= 1 /\ Chain(s)
  <2>1. s \in Seq(Frame) /\ Len(s) \in Nat /\ Chain(s)
    BY DEF Good
  <2> QED  BY <2>1
<1>2. /\ n \in Nat /\ b \in Nat /\ s[d + 1].count = 0 /\ W[d] = n + s[d + 1].count
  <2>1. /\ n \in Nat /\ b \in Nat
        /\ W[Len(s) - 1] = n + s[Len(s)].count
    BY TopFacts
  <2> QED  BY <1>1, <2>1
<1>3. /\ W \in [0 .. (d + 1) -> Nat] /\ W[0] = b
      /\ \A k \in 0 .. (d + 1) : W[k] \in Nat /\ W[k] <= b
  <2>1. /\ W \in [0 .. (d + 1) -> Nat] /\ W[0] = b
        /\ \A k \in 0 .. (d + 1) : W[k] <= b
    BY <1>1 DEF Tracks
  <2> HIDE DEF d
  <2> QED  BY <2>1
<1>4. \A k \in 1 .. (d + 1) : /\ Stands(st, s[k].location, k, Rest(s, k), W[k])
                              /\ W[k - 1] = W[k] + Rest(s, k)
  BY <1>1 DEF Tracks
<1> HIDE DEF d
<1>5. /\ u \in Seq(Frame) /\ Len(u) = d /\ \A k \in 1 .. d : u[k] = s[k]
  <2>1. \A k \in 1 .. d : s[k] \in Frame
    BY <1>1
  <2>2. /\ u \in Seq(Frame)
        /\ Len(u) = IF 1 <= d THEN (d - 1) + 1 ELSE 0
        /\ \A k \in 1 .. ((d - 1) + 1) : u[k] = s[(1 + k) - 1]
    BY <1>1, <2>1, SubSeqProperties
  <2> HIDE DEF u
  <2>3. Len(u) = d
    BY <1>1, <2>2
  <2>4. \A k \in 1 .. d : k \in 1 .. ((d - 1) + 1) /\ (1 + k) - 1 = k
    BY <1>1
  <2> QED  BY <2>2, <2>3, <2>4
<1>6. d \in 1 .. d /\ s[d] \in Frame /\ s[d].count \in Nat /\ r \in Nat /\ r < s[d].count
  <2>1. d \in 1 .. (d + 1) /\ d + 1 \in 2 .. (d + 1) /\ (d + 1) - 1 = d
    BY <1>1
  <2>2. s[d] \in Frame /\ r < s[d].count
    BY <1>1, <2>1 DEF Chain
  <2> QED  BY <1>1, <2>2, FrameTypes
<1>7. f \in Frame /\ f.location = s[d].location /\ f.count = s[d].count - r /\ f.len = r
  <2>1. \A h \in Frame, c \in Nat : /\ [h EXCEPT !.count = c] \in Frame
                                    /\ [h EXCEPT !.count = c].location = h.location
                                    /\ [h EXCEPT !.count = c].count = c
                                    /\ [h EXCEPT !.count = c].len = h.len
    BY DEF Frame
  <2>2. s[d].count - r \in Nat
    BY <1>6
  <2> QED  BY <1>6, <2>1, <2>2
<1>8. /\ t \in Seq(Frame) /\ Len(t) = d /\ t # << >> /\ t[d] = f
      /\ \A k \in 1 .. d : k # d => t[k] = s[k]
  <2> HIDE DEF u, r
  <2>1. t = [u EXCEPT ![d] = [u[d] EXCEPT !.count = @ - r]]
    OBVIOUS
  <2>2. [u[d] EXCEPT !.count = @ - r] = f
    BY <1>5, <1>6
  <2>3. t = [u EXCEPT ![d] = f]
    BY <2>1, <2>2
  <2> HIDE DEF f, t
  <2>4. /\ t \in Seq(Frame) /\ Len(t) = d /\ t[d] = f
        /\ \A k \in 1 .. d : k # d => t[k] = u[k]
    BY <1>5, <1>6, <1>7, <2>3
  <2>5. t # << >>
    BY <1>1, <2>4
  <2> QED  BY <1>5, <2>4, <2>5
<1>9. Q \in [0 .. d -> Nat] /\ \A k \in 0 .. d : Q[k] = W[k]
  BY <1>1, <1>3
<1> HIDE DEF u, r, f, t, Q
<1>10. Chain(t)
  <2> SUFFICES ASSUME NEW k \in 2 .. d
               PROVE  /\ t[k - 1].len >= 2
                      /\ t[k - 1].len <= MAX_ZERO_MATCH - (k - 2)
                      /\ t[k - 1].len < t[k - 1].count
                      /\ t[k].count <= t[k - 1].len
    BY <1>8 DEF Chain
  <2>1. /\ s[k - 1].len >= 2
        /\ s[k - 1].len <= MAX_ZERO_MATCH - (k - 2)
        /\ s[k - 1].len < s[k - 1].count
        /\ s[k].count <= s[k - 1].len
    <3>1. k \in 2 .. Len(s)
      BY <1>1
    <3> QED  BY <1>1, <3>1 DEF Chain
  <2>2. t[k - 1] = s[k - 1] /\ k - 1 \in 1 .. d /\ s[k - 1].len \in Nat
    <3>1. k - 1 \in 1 .. d /\ k - 1 # d
      BY <1>1
    <3>2. s[k - 1] \in Frame
      BY <1>1, <3>1
    <3> QED  BY <1>8, <3>1, <3>2, FrameTypes
  <2>3. t[k].count <= s[k - 1].len
    <3>1. CASE k = d
      BY <1>6, <1>7, <1>8, <2>1, <2>2, <3>1
    <3>2. CASE k # d
      BY <1>8, <2>1, <3>2
    <3> QED  BY <3>1, <3>2
  <2> QED  BY <2>1, <2>2, <2>3
<1>11. \A k \in 1 .. d : Rest(t, k) = Rest(s, k)
  <2>1. \A k \in 1 .. d : k # Len(s)
    BY <1>1
  <2>2. Rest(t, d) = f.count - 0
    BY <1>8 DEF Rest
  <2>3. Rest(s, d) = s[d].count - r
    BY <1>6, <2>1 DEF Rest, r
  <2>4. f.count - 0 = f.count
    BY <1>7, FrameTypes
  <2>5. \A k \in 1 .. d : k # d => Rest(t, k) = Rest(s, k)
    BY <1>8, <2>1 DEF Rest
  <2> QED  BY <1>7, <2>2, <2>3, <2>4, <2>5
<1>12. ASSUME NEW k \in 1 .. d
       PROVE  /\ Stands(st, t[k].location, k, Rest(t, k), Q[k])
              /\ Q[k - 1] = Q[k] + Rest(t, k)
  <2>1. k \in 1 .. (d + 1) /\ k \in 0 .. d /\ k - 1 \in 0 .. d
    BY <1>1
  <2>2. t[k].location = s[k].location
    BY <1>7, <1>8
  <2>3. Q[k] = W[k] /\ Q[k - 1] = W[k - 1] /\ Rest(t, k) = Rest(s, k)
    BY <1>9, <1>11, <2>1
  <2> QED  BY <1>4, <2>1, <2>2, <2>3
<1>13. Q[0] = b /\ Q[d] = n /\ \A k \in 0 .. d : Q[k] <= b
  <2>1. 0 \in 0 .. d /\ d \in 0 .. d /\ \A k \in 0 .. d : k \in 0 .. (d + 1)
    BY <1>1
  <2> QED  BY <1>2, <1>3, <1>9, <2>1
<1>14. Tracks(st, t, Q, n, b)
  BY <1>8, <1>9, <1>12, <1>13 DEF Tracks
<1> QED  BY <1>8, <1>10, <1>14 DEF Good, t, u, r, d

-----------------------------------------------------------------------------
LEMMA Known ==
  ASSUME NEW st, NEW first, NEW b, NEW s, NEW o, Delivering(st, first, b, s, o)
  PROVE  /\ IsStream(st) /\ st.enc \in Seq(Byte) /\ st.text \in Seq(Byte)
         /\ Len(st.enc) \in Nat /\ Len(st.text) \in Nat
         /\ st.start[Len(st.enc)] = Len(st.text)
         /\ \A p \in 0 .. Len(st.enc) : st.start[p] \in 0 .. Len(st.text)
         /\ Good(s) /\ Len(s) \in Nat /\ Len(s) >= 1
         /\ Inner(s) \in Frame /\ Inner(s) = s[Len(s)] /\ Inner(s).location \in Int
         /\ Inner(s).count \in Nat /\ Inner(s).len \in Nat
         /\ o \in Seq(Byte) /\ Len(o) \in Nat /\ first \in Nat
         /\ first + Len(o) \in Nat /\ b \in Nat
<1>1. IsStream(st) /\ first \in 0 .. Len(st.text) /\ Good(s) /\ o \in Seq(Byte)
  BY DEF Delivering
<1>2. /\ st.enc \in Seq(Byte) /\ st.text \in Seq(Byte)
      /\ Len(st.enc) \in Nat /\ Len(st.text) \in Nat
      /\ st.start[Len(st.enc)] = Len(st.text)
      /\ \A p \in 0 .. Len(st.enc) : st.start[p] \in 0 .. Len(st.text)
  BY <1>1, StreamFacts DEF IsStream
<1>3. Len(s) \in Nat /\ Len(s) >= 1 /\ Inner(s) \in Frame /\ Inner(s) = s[Len(s)]
  BY <1>1 DEF Good, Inner
<1>4. Inner(s).location \in Int /\ Inner(s).count \in Nat /\ Inner(s).len \in Nat
  BY <1>3, FrameTypes
<1>5. Len(o) \in Nat /\ first \in Nat /\ first + Len(o) \in Nat
  BY <1>1, <1>2
<1>6. b \in Nat
  <2>1. PICK W : Tracks(st, s, W, first + Len(o), b)
    BY DEF Delivering
  <2> QED  BY <1>1, <2>1, TopFacts
<1> QED  BY <1>1, <1>2, <1>3, <1>4, <1>5, <1>6

(* The byte of the stream at location p.                                   *)
LEMMA ByteAt ==
  ASSUME NEW st, IsStream(st), NEW p \in 0 .. (Len(st.enc) - 1)
  PROVE  LET c == st.enc[p + 1] IN
         /\ p + 1 \in 0 .. Len(st.enc)
         /\ c \in Byte /\ count(c) \in Nat /\ count(c) <= MAX_ZERO_MATCH
         /\ st.start[p + 1] = st.start[p] + count(c)
         /\ st.start[p + 1] <= Len(st.text)
         /\ ~IsPointer(c) => count(c) = 1 /\ st.text[st.start[p] + 1] = c
         /\ IsPointer(c) => /\ count(c) >= 2
                            /\ p + 1 - get_offset(c) - 2 = Source(st.enc, p)
                            /\ Source(st.enc, p) \in Int
<1> DEFINE c == st.enc[p + 1]
<1>1. /\ Len(st.enc) \in Nat /\ Len(st.text) \in Nat
      /\ \A q \in 0 .. Len(st.enc) : st.start[q] \in 0 .. Len(st.text)
  BY StreamFacts
<1>2. p + 1 \in 0 .. Len(st.enc) /\ p \in Nat
  BY <1>1
<1>3. /\ c \in Byte /\ count(c) \in Nat /\ count(c) \in 1 .. MAX_ZERO_MATCH
      /\ st.start[p + 1] = st.start[p] + count(c)
      /\ ~IsPointer(c) => count(c) = 1 /\ st.text[st.start[p] + 1] = c
      /\ IsPointer(c) => count(c) >= 2
  BY StreamByte
<1>4. get_offset(c) \in Nat
  BY <1>3, OffsetRange
<1>5. Source(st.enc, p) = p - get_offset(c) - 1
  BY DEF Source
<1> HIDE DEF c
<1>6. p + 1 - get_offset(c) - 2 = p - get_offset(c) - 1 /\ p - get_offset(c) - 1 \in Int
  BY <1>2, <1>4
<1>7. st.start[p + 1] <= Len(st.text) /\ count(c) <= MAX_ZERO_MATCH
  BY <1>1, <1>2, <1>3, FormatBounds
<1> QED  BY <1>2, <1>3, <1>5, <1>6, <1>7 DEF c

(* The running call, with what is still to come.                           *)
LEMMA Running ==
  ASSUME NEW st, NEW first, NEW b, NEW s, NEW o, Delivering(st, first, b, s, o),
         NEW W, Tracks(st, s, W, first + Len(o), b)
  PROVE  /\ \/ Yields(st, Inner(s).location, Inner(s).count, first + Len(o))
            \/ /\ Len(s) = 1 /\ Inner(s).location \in 0 .. Len(st.enc)
               /\ st.start[Inner(s).location] = first + Len(o)
         /\ W[Len(s) - 1] = first + Len(o) + Inner(s).count
         /\ first + Len(o) + Inner(s).count <= b /\ first + Len(o) <= b
<1> DEFINE n == first + Len(o)
<1>1. Good(s) /\ Inner(s) = s[Len(s)] /\ Inner(s).count \in Nat /\ n \in Nat /\ b \in Nat
  BY Known
<1> HIDE DEF n
<1>2. Tracks(st, s, W, n, b)
  BY DEF n
<1>3. /\ Stands(st, Inner(s).location, Len(s), Inner(s).count, n)
      /\ W[Len(s) - 1] = n + Inner(s).count /\ n + Inner(s).count <= b
  BY <1>1, <1>2, TopFacts
<1>4. n <= b
  BY <1>1, <1>3
<1> QED  BY <1>3, <1>4 DEF Stands, n

(* When no more is needed than there is, what is needed comes from there.  *)
LEMMA YieldsNeeded ==
  ASSUME NEW st, NEW first, NEW b, NEW s, NEW o, Delivering(st, first, b, s, o),
         Inner(s).location \in 0 .. (Len(st.enc) - 1),
         NEW n \in Nat, n <= Inner(s).count, n <= count(st.enc[Inner(s).location + 1])
  PROVE  Yields(st, Inner(s).location, n, first + Len(o))
<1> DEFINE p == Inner(s).location
           q == first + Len(o)
<1> SUFFICES Yields(st, p, n, q)
  OBVIOUS
<1>1. /\ IsStream(st) /\ Len(st.text) \in Nat /\ q \in Nat
      /\ Inner(s).count \in Nat /\ Len(st.enc) \in Nat
      /\ p \in 0 .. (Len(st.enc) - 1) /\ n <= count(st.enc[p + 1])
      /\ \A x \in 0 .. Len(st.enc) : st.start[x] \in 0 .. Len(st.text)
  BY Known
<1> HIDE DEF p, q
<1>2. /\ count(st.enc[p + 1]) \in Nat
      /\ st.start[p + 1] = st.start[p] + count(st.enc[p + 1])
      /\ st.start[p + 1] <= Len(st.text)
  BY <1>1, ByteAt
<1>3. p \in 0 .. Len(st.enc)
  BY <1>1
<1>4. st.start[p] \in Nat
  BY <1>1, <1>3
<1>5. CASE Yields(st, p, Inner(s).count, q)
  <2>1. /\ st.start[p] + Inner(s).count <= Len(st.text)
        /\ q + Inner(s).count <= Len(st.text)
        /\ \A k \in 1 .. Inner(s).count : st.text[q + k] = st.text[st.start[p] + k]
    BY <1>5 DEF Yields
  <2>2. \A a \in Nat : a + Inner(s).count <= Len(st.text) => a + n <= Len(st.text)
    BY <1>1
  <2>3. \A k \in 1 .. n : k \in 1 .. Inner(s).count
    BY <1>1
  <2> QED  BY <1>1, <1>3, <1>4, <2>1, <2>2, <2>3 DEF Yields
<1>6. CASE st.start[p] = q
  <2>1. n \in 0 .. (Len(st.text) - st.start[p])
    BY <1>1, <1>2, <1>4
  <2> QED  BY <1>1, <1>3, <1>6, <2>1, YieldsRest
<1>7. PICK W : Tracks(st, s, W, q, b)
  BY DEF Delivering, q
<1>8. Yields(st, p, Inner(s).count, q) \/ st.start[p] = q
  BY <1>7, Running DEF p, q
<1> QED  BY <1>5, <1>6, <1>8

-----------------------------------------------------------------------------
(* The four things a decoder does with its calls: a literal comes out, the *)
(* running call jumps, it calls, or it returns.                            *)
LEMMA LiteralComes ==
  ASSUME NEW st, NEW first, NEW b, NEW s, NEW o, Delivering(st, first, b, s, o),
         Inner(s).location \in 0 .. (Len(st.enc) - 1), Inner(s).count > 0,
         NEW c, c = st.enc[Inner(s).location + 1], ~IsPointer(c),
         NEW f \in Frame, f.location = Inner(s).location + 1, f.count = Inner(s).count - 1
  PROVE  /\ Delivering(st, first, b, [s EXCEPT ![Len(s)] = f], Append(o, c))
         /\ first + Len(o) < Len(st.text) /\ first + Len(o) < b
         /\ c = st.text[first + Len(o) + 1]
<1> DEFINE p == first + Len(o)
           e == Append(o, c)
           t == [s EXCEPT ![Len(s)] = f]
<1>1. PICK W : Tracks(st, s, W, p, b)
  BY DEF Delivering
<1>2. /\ IsStream(st) /\ Len(st.enc) \in Nat /\ Len(st.text) \in Nat
      /\ Good(s) /\ Inner(s) = s[Len(s)] /\ Inner(s).count \in Nat
      /\ o \in Seq(Byte) /\ Len(o) \in Nat /\ first \in Nat /\ p \in Nat /\ b \in Nat
  BY Known
<1>3. /\ Inner(s).location + 1 \in 0 .. Len(st.enc) /\ c \in Byte /\ count(c) = 1
      /\ st.start[Inner(s).location + 1] = st.start[Inner(s).location] + 1
      /\ st.start[Inner(s).location + 1] <= Len(st.text)
      /\ st.text[st.start[Inner(s).location] + 1] = c
  BY <1>2, ByteAt
<1>4. e \in Seq(Byte) /\ Len(e) = Len(o) + 1 /\ e[Len(o) + 1] = c
      /\ \A k \in 1 .. Len(o) : e[k] = o[k]
  BY <1>2, <1>3
<1>5. first + Len(e) = p + 1 /\ p + 1 \in Nat
  BY <1>2, <1>4
<1>6. \/ Yields(st, Inner(s).location, Inner(s).count, p)
      \/ Len(s) = 1 /\ st.start[Inner(s).location] = p
  BY <1>1, Running
<1>7. p + Inner(s).count <= b
  BY <1>1, Running
<1> HIDE DEF p, e
<1>8. p < b
  BY <1>2, <1>7
<1>9. /\ Stands(st, f.location, Len(s), f.count, p + 1)
      /\ p + 1 <= Len(st.text) /\ c = st.text[p + 1]
  <2>1. CASE Yields(st, Inner(s).location, Inner(s).count, p)
    <3>1. ~IsPointer(st.enc[Inner(s).location + 1])
      OBVIOUS
    <3>2. /\ st.enc[Inner(s).location + 1] = st.text[p + 1]
          /\ Yields(st, Inner(s).location + 1, Inner(s).count - 1, p + 1)
      BY <1>2, <2>1, <3>1, YieldsLiteral, Zenon
    <3>3. p + Inner(s).count <= Len(st.text)
      BY <2>1 DEF Yields
    <3>4. p + 1 <= Len(st.text)
      BY <1>2, <3>3
    <3> QED  BY <3>2, <3>4 DEF Stands
  <2>2. CASE Len(s) = 1 /\ st.start[Inner(s).location] = p
    BY <1>3, <2>2 DEF Stands
  <2> QED  BY <1>6, <2>1, <2>2
<1>10. Good(t) /\ \E Q : Tracks(st, t, Q, p + 1, b)
  <2>1. \A a \in Nat, x \in Nat : x > 0 => x - 1 <= x /\ (a + 1) + (x - 1) = a + x
    OBVIOUS
  <2>2. f.count <= s[Len(s)].count /\ (p + 1) + f.count = p + s[Len(s)].count
    BY <1>2, <2>1
  <2> QED  BY <1>1, <1>2, <1>5, <1>9, <2>2, MoveTop DEF p
<1>11. \A k \in 1 .. Len(e) : e[k] = st.text[first + k]
  <2> SUFFICES ASSUME NEW k \in 1 .. (Len(o) + 1) PROVE e[k] = st.text[first + k]
    BY <1>4
  <2>1. CASE k = Len(o) + 1
    <3>1. first + k = p + 1
      BY <1>2, <2>1 DEF p
    <3> QED  BY <1>4, <1>9, <2>1, <3>1
  <2>2. CASE k \in 1 .. Len(o)
    BY <1>4, <2>2 DEF Delivering
  <2> QED  BY <1>2, <2>1, <2>2
<1> HIDE DEF t
<1>12. first \in 0 .. Len(st.text)
  BY DEF Delivering
<1>13. Delivering(st, first, b, t, e)
  BY <1>2, <1>4, <1>5, <1>9, <1>10, <1>11, <1>12 DEF Delivering
<1>14. p < Len(st.text)
  BY <1>2, <1>9
<1> QED  BY <1>8, <1>9, <1>13, <1>14 DEF p, e, t

(* What does not put anything out only has to find its place again.        *)
LEMMA Silently ==
  ASSUME NEW st, NEW first, NEW b, NEW s, NEW o, Delivering(st, first, b, s, o),
         NEW t, Good(t), \E Q : Tracks(st, t, Q, first + Len(o), b)
  PROVE  Delivering(st, first, b, t, o)
BY DEF Delivering

LEMMA CallJumps ==
  ASSUME NEW st, NEW first, NEW b, NEW s, NEW o, Delivering(st, first, b, s, o),
         Inner(s).location \in 0 .. (Len(st.enc) - 1), Inner(s).count > 0,
         IsPointer(st.enc[Inner(s).location + 1]),
         Inner(s).count <= count(st.enc[Inner(s).location + 1]),
         NEW f \in Frame, f.count = Inner(s).count,
         f.location = Source(st.enc, Inner(s).location)
  PROVE  Delivering(st, first, b, [s EXCEPT ![Len(s)] = f], o)
<1> DEFINE p == first + Len(o)
           t == [s EXCEPT ![Len(s)] = f]
<1>1. PICK W : Tracks(st, s, W, p, b)
  BY DEF Delivering
<1>2. /\ IsStream(st) /\ Good(s) /\ Inner(s) = s[Len(s)] /\ Inner(s).count \in Nat
      /\ p \in Nat /\ b \in Nat
  BY Known
<1>3. Inner(s).count <= Inner(s).count
  BY <1>2
<1>4. Yields(st, Inner(s).location, Inner(s).count, p)
  BY <1>2, <1>3, YieldsNeeded
<1> HIDE DEF p
<1>5. Yields(st, f.location, Inner(s).count, p)
  BY <1>2, <1>4, YieldsPointer
<1>6. Stands(st, f.location, Len(s), f.count, p)
  BY <1>5 DEF Stands
<1>7. f.count <= s[Len(s)].count /\ p + f.count = p + s[Len(s)].count
  BY <1>2
<1>8. Good(t) /\ \E Q : Tracks(st, t, Q, p, b)
  BY <1>1, <1>2, <1>6, <1>7, MoveTop
<1> HIDE DEF t
<1> QED  BY <1>8, Silently DEF p, t

LEMMA CallCalls ==
  ASSUME NEW st, NEW first, NEW b, NEW s, NEW o, Delivering(st, first, b, s, o),
         Inner(s).location \in 0 .. (Len(st.enc) - 1),
         NEW l, l = count(st.enc[Inner(s).location + 1]),
         IsPointer(st.enc[Inner(s).location + 1]), Inner(s).count > l,
         NEW g \in Frame, g.location = Inner(s).location + 1,
         g.count = Inner(s).count, g.len = l,
         NEW f \in Frame, f.location = Source(st.enc, Inner(s).location), f.count = l
  PROVE  Delivering(st, first, b, Append([s EXCEPT ![Len(s)] = g], f), o)
<1> DEFINE p == first + Len(o)
           t == Append([s EXCEPT ![Len(s)] = g], f)
<1>1. PICK W : Tracks(st, s, W, p, b)
  BY DEF Delivering
<1>2. /\ IsStream(st) /\ Good(s) /\ Inner(s) = s[Len(s)] /\ Inner(s).count \in Nat
      /\ p \in Nat /\ b \in Nat
  BY Known
<1>3. /\ l \in Nat /\ l >= 2 /\ l <= MAX_ZERO_MATCH
      /\ Inner(s).location + 1 \in 0 .. Len(st.enc)
      /\ st.start[Inner(s).location + 1] = st.start[Inner(s).location] + l
  <2> DEFINE loc == Inner(s).location
  <2>1. loc \in 0 .. (Len(st.enc) - 1) /\ IsPointer(st.enc[loc + 1]) /\ l = count(st.enc[loc + 1])
    OBVIOUS
  <2> HIDE DEF loc
  <2>2. /\ l \in Nat /\ l >= 2 /\ l <= MAX_ZERO_MATCH
        /\ loc + 1 \in 0 .. Len(st.enc) /\ st.start[loc + 1] = st.start[loc] + l
    BY <1>2, <2>1, ByteAt
  <2> QED  BY <2>2 DEF loc
<1>4. l <= l /\ l <= Inner(s).count /\ l > 0 /\ Inner(s).count > 0
  BY <1>2, <1>3
<1>5. Yields(st, Inner(s).location, l, p)
  BY <1>3, <1>4, YieldsNeeded
<1>6. \/ Yields(st, Inner(s).location, Inner(s).count, p)
      \/ Len(s) = 1 /\ st.start[Inner(s).location] = p
  BY <1>1, Running
<1> HIDE DEF p
<1>7. Yields(st, f.location, l, p)
  BY <1>2, <1>3, <1>4, <1>5, YieldsPointer
<1>8. Stands(st, g.location, Len(s), g.count - l, p + l)
  <2>1. CASE Yields(st, Inner(s).location, Inner(s).count, p)
    <3>1. Yields(st, Inner(s).location + 1, Inner(s).count - l, p + l)
      BY <1>2, <1>3, <1>4, <2>1, YieldsPointer
    <3> QED  BY <3>1 DEF Stands
  <2>2. CASE Len(s) = 1 /\ st.start[Inner(s).location] = p
    BY <1>3, <2>2 DEF Stands
  <2> QED  BY <1>6, <2>1, <2>2
<1>9. l < s[Len(s)].count /\ g.count = s[Len(s)].count
  BY <1>2, <1>3
<1>10. Good(t) /\ \E Q : Tracks(st, t, Q, p, b)
  BY <1>1, <1>2, <1>3, <1>7, <1>8, <1>9, PushTop
<1> HIDE DEF t
<1> QED  BY <1>10, Silently DEF p, t

(* A call that finds no more bytes has put out all it was asked for,       *)
(* unless it is the outermost one and the text is at its end.              *)
LEMMA CallEnds ==
  ASSUME NEW st, NEW first, NEW b, NEW s, NEW o, Delivering(st, first, b, s, o),
         Inner(s).count = 0 \/ Inner(s).location \notin 0 .. (Len(st.enc) - 1)
  PROVE  /\ Len(s) # 1 => Inner(s).count = 0
         /\ Len(s) = 1 => first + Len(o) = b \/ first + Len(o) = Len(st.text)
<1> DEFINE p == first + Len(o)
<1>1. /\ IsStream(st) /\ Len(st.enc) \in Nat /\ Inner(s).count \in Nat
      /\ p \in Nat /\ b \in Nat /\ st.start[Len(st.enc)] = Len(st.text)
  BY Known
<1>2. PICK W : Tracks(st, s, W, p, b)
  BY DEF Delivering
<1>3. /\ \/ Yields(st, Inner(s).location, Inner(s).count, p)
         \/ /\ Len(s) = 1 /\ Inner(s).location \in 0 .. Len(st.enc)
            /\ st.start[Inner(s).location] = p
      /\ W[Len(s) - 1] = p + Inner(s).count
  BY <1>2, Running
<1> HIDE DEF p
<1>4. ASSUME Inner(s).count # 0 PROVE Len(s) = 1 /\ p = Len(st.text)
  <2>1. Inner(s).count > 0 /\ Inner(s).location \notin 0 .. (Len(st.enc) - 1)
    BY <1>1, <1>4
  <2>2. ~Yields(st, Inner(s).location, Inner(s).count, p)
    BY <1>1, <2>1, YieldsMore
  <2>3. Len(s) = 1 /\ Inner(s).location \in 0 .. Len(st.enc)
        /\ st.start[Inner(s).location] = p
    BY <1>3, <2>2
  <2>4. Inner(s).location = Len(st.enc)
    BY <1>1, <2>1, <2>3
  <2> QED  BY <1>1, <2>3, <2>4
<1>5. ASSUME Inner(s).count = 0, Len(s) = 1 PROVE p = b
  <2>1. W[0] = b
    BY <1>2 DEF Tracks
  <2>2. Len(s) - 1 = 0
    BY <1>5
  <2> QED  BY <1>1, <1>3, <1>5, <2>1, <2>2
<1> QED  BY <1>4, <1>5 DEF p

LEMMA CallReturns ==
  ASSUME NEW st, NEW first, NEW b, NEW s, NEW o, Delivering(st, first, b, s, o),
         Len(s) # 1, Inner(s).count = 0
  PROVE  Delivering(st, first, b,
                    [SubSeq(s, 1, Len(s) - 1) EXCEPT
                       ![Len(s) - 1].count = @ - s[Len(s) - 1].len], o)
<1>1. PICK W : Tracks(st, s, W, first + Len(o), b)
  BY DEF Delivering
<1>2. Good(s) /\ Len(s) \in Nat /\ Len(s) >= 1 /\ s[Len(s)].count = 0
  BY Known
<1>3. Len(s) >= 2
  <2>1. \A n \in Nat : n >= 1 => n = 1 \/ n >= 2
    OBVIOUS
  <2> QED  BY <1>2, <2>1
<1> QED  BY <1>1, <1>2, <1>3, PopTop, Silently

(* The first call.                                                         *)
LEMMA CallBegins ==
  ASSUME NEW st, IsStream(st), NEW loc \in 0 .. Len(st.enc), NEW n \in Nat,
         NEW f \in Frame, f.location = loc, f.count = n
  PROVE  Delivering(st, st.start[loc], st.start[loc] + n, << f >>, << >>)
<1> DEFINE q == st.start[loc]
           s == << f >>
           W == [k \in 0 .. 1 |-> IF k = 0 THEN q + n ELSE q]
<1>1. q \in 0 .. Len(st.text) /\ Len(st.text) \in Nat /\ q \in Nat
  BY StreamFacts
<1>2. s \in Seq(Frame) /\ s # << >> /\ Len(s) = 1 /\ s[1] = f
  OBVIOUS
<1>3. << >> \in Seq(Byte) /\ Len(<< >>) = 0
  OBVIOUS
<1>4. W \in [0 .. 1 -> Nat] /\ W[0] = q + n /\ W[1] = q
  BY <1>1
<1> HIDE DEF q, s, W
<1>5. Good(s)
  BY <1>2 DEF Good, Chain
<1>6. Rest(s, 1) = n
  <2>1. Rest(s, 1) = n - 0
    BY <1>2 DEF Rest
  <2> QED  BY <2>1
<1>7. Tracks(st, s, W, q, q + n)
  <2>1. Stands(st, s[1].location, 1, Rest(s, 1), q)
    BY <1>2 DEF Stands, q
  <2>2. \A k \in 1 .. Len(s) : k = 1 /\ k - 1 = 0
    BY <1>2
  <2>3. \A k \in 0 .. Len(s) : (k = 0 \/ k = 1) /\ W[k] <= q + n
    BY <1>1, <1>2, <1>4
  <2> QED  BY <1>2, <1>4, <1>6, <2>1, <2>2, <2>3 DEF Tracks
<1>8. q + 0 = q
  BY <1>1
<1>9. \A k \in 1 .. Len(<< >>) : <<>>[k] = st.text[q + k]
  BY <1>3
<1> QED  BY <1>1, <1>3, <1>5, <1>7, <1>8, <1>9 DEF Delivering, q, s

(* The longest match bounds the calls below the outermost one.             *)
LEMMA DepthOfCalls ==
  ASSUME NEW s, Good(s)
  PROVE  Len(s) - 1 <= MAX_ZERO_MATCH - 1
<1>1. Len(s) \in Nat /\ Len(s) >= 1 /\ s \in Seq(Frame) /\ Chain(s)
  BY DEF Good
<1>2. MAX_ZERO_MATCH \in Nat /\ MAX_ZERO_MATCH >= 2
  BY FormatBounds
<1>3. CASE Len(s) = 1
  BY <1>2, <1>3
<1>4. CASE Len(s) >= 2
  <2>1. /\ s[Len(s) - 1].len >= 2
        /\ s[Len(s) - 1].len <= MAX_ZERO_MATCH - (Len(s) - 2)
    <3>1. Len(s) \in 2 .. Len(s)
      BY <1>1, <1>4
    <3> QED  BY <1>1, <3>1 DEF Chain
  <2>2. s[Len(s) - 1].len \in Nat
    <3>1. Len(s) - 1 \in 1 .. Len(s)
      BY <1>1, <1>4
    <3> QED  BY <1>1, <3>1, FrameTypes
  <2>3. \A h \in Nat, l \in Nat, M \in Nat :
          h >= 2 /\ h <= M - (l - 2) => l - 1 <= M - 1
    OBVIOUS
  <2> QED  BY <1>1, <1>2, <2>1, <2>2, <2>3
<1>5. Len(s) = 1 \/ Len(s) >= 2
  <2>1. \A n \in Nat : n >= 1 => n = 1 \/ n >= 2
    OBVIOUS
  <2> QED  BY <1>1, <2>1
<1> QED  BY <1>3, <1>4, <1>5

-----------------------------------------------------------------------------
(* Updates of a frame, field by field.                                     *)
LEMMA Replaced ==
  ASSUME NEW V, NEW s \in Seq(V), NEW d \in 1 .. Len(s), NEW a, NEW b
  PROVE  /\ [[s EXCEPT ![d] = a] EXCEPT ![d] = b] = [s EXCEPT ![d] = b]
         /\ [s EXCEPT ![d] = a][d] = a
<1>1. DOMAIN s = 1 .. Len(s) /\ s = [i \in 1 .. Len(s) |-> s[i]]
  OBVIOUS
<1>2. [s EXCEPT ![d] = a][d] = a
  BY <1>1
<1>3. [[s EXCEPT ![d] = a] EXCEPT ![d] = b] = [s EXCEPT ![d] = b]
  BY <1>1
<1> QED  BY <1>2, <1>3

-----------------------------------------------------------------------------
(***************************************************************************)
(* The minimal decoder.                                                    *)
(***************************************************************************)
First == stream.start[from]
Position == First + Len(out)
Bound == First + limit

TInv ==
  /\ from \in 0 .. Len(stream.enc) /\ limit \in Nat /\ pc \in {"run", "done"}
  /\ \A p \in 1 .. Len(stream.enc) : stream.enc[p] # 0
  /\ Delivering(stream, First, Bound, stack, out)
  /\ pc = "done" => Position = Bound \/ Position = Len(stream.text)

LEMMA TinyKnown ==
  ASSUME TInv
  PROVE  /\ IsStream(stream) /\ Len(stream.enc) \in Nat
         /\ stack \in Seq(Frame) /\ Depth = Len(stack) /\ Depth \in 1 .. Len(stack)
         /\ Top = stack[Depth] /\ Top = Inner(stack) /\ Top \in Frame
         /\ Top.location \in Int /\ Top.count \in Nat /\ Top.len \in Nat
<1>1. Delivering(stream, First, Bound, stack, out)
  BY DEF TInv
<1>2. /\ IsStream(stream) /\ Len(stream.enc) \in Nat
      /\ Good(stack) /\ Len(stack) \in Nat /\ Len(stack) >= 1
      /\ Inner(stack) \in Frame /\ Inner(stack) = stack[Len(stack)]
  BY <1>1, Known
<1>3. Depth = Len(stack) /\ Top = stack[Depth] /\ Top = Inner(stack)
  BY <1>2 DEF Depth, Top
<1> QED  BY <1>2, <1>3, FrameTypes DEF Good

(* Updates of the running call, field by field.                            *)
LEMMA Located ==
  ASSUME TInv, NEW p \in Int
  PROVE  [stack EXCEPT ![Depth].location = p] =
           [stack EXCEPT ![Depth] =
              [location |-> p, count |-> Top.count, len |-> Top.len]]
<1>1. stack \in Seq(Frame) /\ Depth \in 1 .. Len(stack) /\ Top \in Frame /\ stack[Depth] = Top
  BY TinyKnown
<1>2. \A r \in Frame :
        [r EXCEPT !.location = p] = [location |-> p, count |-> r.count, len |-> r.len]
  BY DEF Frame
<1> QED  BY <1>1, <1>2

LEMMA LocatedCounted ==
  ASSUME TInv, NEW p \in Int, NEW c \in Nat
  PROVE  [stack EXCEPT ![Depth].location = p, ![Depth].count = c] =
           [stack EXCEPT ![Depth] = [location |-> p, count |-> c, len |-> Top.len]]
<1> DEFINE r == [location |-> p, count |-> Top.count, len |-> Top.len]
           t == [stack EXCEPT ![Depth].location = p]
<1>1. stack \in Seq(Frame) /\ Depth \in 1 .. Len(stack)
  BY TinyKnown
<1>2. t = [stack EXCEPT ![Depth] = r]
  BY Located
<1>3. [r EXCEPT !.count = c] = [location |-> p, count |-> c, len |-> Top.len]
  OBVIOUS
<1>4. [stack EXCEPT ![Depth].location = p, ![Depth].count = c]
        = [t EXCEPT ![Depth] = [t[Depth] EXCEPT !.count = c]]
  BY Zenon
<1> HIDE DEF t, r
<1>5. t[Depth] = r
  BY <1>1, <1>2, Replaced
<1>6. [t EXCEPT ![Depth] = [t[Depth] EXCEPT !.count = c]]
        = [[stack EXCEPT ![Depth] = r] EXCEPT ![Depth] = [r EXCEPT !.count = c]]
  BY <1>2, <1>5, Zenon
<1>7. [[stack EXCEPT ![Depth] = r] EXCEPT ![Depth] = [r EXCEPT !.count = c]]
        = [stack EXCEPT ![Depth] = [r EXCEPT !.count = c]]
  BY <1>1, Replaced, Zenon
<1> QED  BY <1>3, <1>4, <1>6, <1>7, Zenon

LEMMA LocatedLength ==
  ASSUME TInv, NEW p \in Int, NEW l \in Nat
  PROVE  [stack EXCEPT ![Depth].location = p, ![Depth].len = l] =
           [stack EXCEPT ![Depth] = [location |-> p, count |-> Top.count, len |-> l]]
<1> DEFINE r == [location |-> p, count |-> Top.count, len |-> Top.len]
           t == [stack EXCEPT ![Depth].location = p]
<1>1. stack \in Seq(Frame) /\ Depth \in 1 .. Len(stack)
  BY TinyKnown
<1>2. t = [stack EXCEPT ![Depth] = r]
  BY Located
<1>3. [r EXCEPT !.len = l] = [location |-> p, count |-> Top.count, len |-> l]
  OBVIOUS
<1>4. [stack EXCEPT ![Depth].location = p, ![Depth].len = l]
        = [t EXCEPT ![Depth] = [t[Depth] EXCEPT !.len = l]]
  BY Zenon
<1> HIDE DEF t, r
<1>5. t[Depth] = r
  BY <1>1, <1>2, Replaced
<1>6. [t EXCEPT ![Depth] = [t[Depth] EXCEPT !.len = l]]
        = [[stack EXCEPT ![Depth] = r] EXCEPT ![Depth] = [r EXCEPT !.len = l]]
  BY <1>2, <1>5, Zenon
<1>7. [[stack EXCEPT ![Depth] = r] EXCEPT ![Depth] = [r EXCEPT !.len = l]]
        = [stack EXCEPT ![Depth] = [r EXCEPT !.len = l]]
  BY <1>1, Replaced, Zenon
<1> QED  BY <1>3, <1>4, <1>6, <1>7, Zenon

(* The NUL of the data is the one that ends it.                            *)
LEMMA DataBytes ==
  ASSUME TInv, NEW p \in 0 .. Len(stream.enc)
  PROVE  /\ data[p + 1] = 0 <=> p = Len(stream.enc)
         /\ p # Len(stream.enc) => /\ p \in 0 .. (Len(stream.enc) - 1)
                                   /\ data[p + 1] = stream.enc[p + 1]
<1>1. stream.enc \in Seq(Byte) /\ Len(stream.enc) \in Nat
  BY TinyKnown DEF IsStream
<1>2. \A k \in 1 .. Len(stream.enc) : stream.enc[k] # 0
  BY DEF TInv
<1>3. CASE p = Len(stream.enc)
  BY <1>1, <1>3 DEF data
<1>4. CASE p # Len(stream.enc)
  <2>1. p + 1 \in 1 .. Len(stream.enc) /\ p \in 0 .. (Len(stream.enc) - 1)
    BY <1>1, <1>4
  <2>2. data[p + 1] = stream.enc[p + 1]
    BY <1>1, <2>1 DEF data
  <2> QED  BY <1>2, <1>4, <2>1, <2>2
<1> QED  BY <1>3, <1>4

(* The byte that the running call reads.                                   *)
LEMMA TinyByte ==
  ASSUME TInv, Looping
  PROVE  /\ Top.location \in 0 .. (Len(stream.enc) - 1) /\ Top.count > 0
         /\ ch = stream.enc[Top.location + 1] /\ ch \in Byte /\ count(ch) \in Nat
         /\ IsPointer(ch) => nloc = Source(stream.enc, Top.location) /\ nloc \in Int
<1> DEFINE p == Top.location
<1>1. p \in 0 .. Len(stream.enc) /\ Top.count > 0 /\ ch # 0 /\ ch = data[p + 1]
  BY DEF Looping, ch
<1>2. p \in 0 .. (Len(stream.enc) - 1) /\ ch = stream.enc[p + 1]
  BY <1>1, DataBytes
<1>3. IsStream(stream)
  BY TinyKnown
<1>4. nloc = p + 1 - get_offset(stream.enc[p + 1]) - 2
  BY <1>2 DEF nloc
<1> HIDE DEF p
<1>5. /\ stream.enc[p + 1] \in Byte /\ count(stream.enc[p + 1]) \in Nat
      /\ IsPointer(stream.enc[p + 1]) =>
           /\ p + 1 - get_offset(stream.enc[p + 1]) - 2 = Source(stream.enc, p)
           /\ Source(stream.enc, p) \in Int
  BY <1>2, <1>3, ByteAt
<1> QED  BY <1>1, <1>2, <1>4, <1>5 DEF p

LEMMA TinyBegins ==
  ASSUME IsStream(stream), \A p \in 1 .. Len(stream.enc) : stream.enc[p] # 0,
         from \in 0 .. Len(stream.enc), limit \in Nat,
         pc = "run", out = << >>, stack = << Call(from, limit) >>
  PROVE  TInv
<1>1. from \in Int
  BY StreamFacts
<1>2. /\ Call(from, limit) \in Frame /\ Call(from, limit).location = from
      /\ Call(from, limit).count = limit
  BY <1>1 DEF Call, Frame
<1>3. Delivering(stream, First, Bound, stack, out)
  BY <1>2, CallBegins DEF First, Bound
<1> QED  BY <1>3 DEF TInv

LEMMA InitTInv == Init => TInv
BY TinyBegins, LimitsAssumption, StreamsAssumption DEF Init

(* The running call stands in the stream or at its end.                    *)
LEMMA TinyInside == ASSUME TInv PROVE Top.location \in 0 .. Len(stream.enc)
<1>1. Delivering(stream, First, Bound, stack, out) /\ Top = Inner(stack)
  BY TinyKnown DEF TInv
<1>2. PICK Q : Tracks(stream, stack, Q, First + Len(out), Bound)
  BY <1>1 DEF Delivering
<1> QED  BY <1>1, <1>2, Running DEF Yields

LEMMA TinyLiterally ==
  ASSUME TInv, Literally
  PROVE  /\ TInv'
         /\ Position < Len(stream.text) /\ Position < Bound
         /\ ch = stream.text[Position + 1]
<1> DEFINE f == [location |-> Top.location + 1, count |-> Top.count - 1, len |-> Top.len]
<1>1. /\ Looping /\ pc = "run" /\ ~IsPointer(ch) /\ out' = Append(out, ch)
      /\ UNCHANGED <<stream, from, limit, pc>>
      /\ stack' = [stack EXCEPT ![Depth].location = Top.location + 1,
                                ![Depth].count = Top.count - 1]
  BY DEF Literally, Looping, Top
<1>2. /\ stack \in Seq(Frame) /\ Depth = Len(stack) /\ Depth \in 1 .. Len(stack)
      /\ Top = stack[Depth] /\ Top = Inner(stack)
      /\ Top.location \in Int /\ Top.count \in Nat /\ Top.len \in Nat
  BY TinyKnown
<1>3. /\ Top.location \in 0 .. (Len(stream.enc) - 1) /\ Top.count > 0
      /\ ch = stream.enc[Top.location + 1]
  BY <1>1, TinyByte
<1>4. f \in Frame /\ f.location = Top.location + 1 /\ f.count = Top.count - 1
  <2>1. Top.location + 1 \in Int /\ Top.count - 1 \in Nat
    BY <1>2, <1>3
  <2> QED  BY <1>2, <2>1, FrameTypes
<1>5. stack' = [stack EXCEPT ![Len(stack)] = f]
  <2>1. Top.location + 1 \in Int
    BY <1>2
  <2>2. [stack EXCEPT ![Depth].location = Top.location + 1, ![Depth].count = Top.count - 1]
          = [stack EXCEPT ![Depth] = [location |-> Top.location + 1,
                                      count |-> Top.count - 1, len |-> Top.len]]
    <3>1. Top.count - 1 \in Nat
      BY <1>2, <1>3
    <3> HIDE DEF f
    <3> QED  BY <2>1, <3>1, LocatedCounted
  <2> QED  BY <1>1, <1>2, <2>2, Zenon
<1> HIDE DEF f
<1>6. /\ Delivering(stream, First, Bound, [stack EXCEPT ![Len(stack)] = f], Append(out, ch))
      /\ First + Len(out) < Len(stream.text) /\ First + Len(out) < Bound
      /\ ch = stream.text[First + Len(out) + 1]
  <2>1. Delivering(stream, First, Bound, stack, out)
    BY DEF TInv
  <2>2. /\ Inner(stack).location \in 0 .. (Len(stream.enc) - 1) /\ Inner(stack).count > 0
        /\ ch = stream.enc[Inner(stack).location + 1] /\ ~IsPointer(ch)
        /\ f.location = Inner(stack).location + 1 /\ f.count = Inner(stack).count - 1
    BY <1>1, <1>2, <1>3, <1>4
  <2> QED  BY <1>4, <2>1, <2>2, LiteralComes
<1>7. First' = First /\ Bound' = Bound
  BY <1>1 DEF First, Bound
<1>8. /\ Position < Len(stream.text) /\ Position < Bound
      /\ ch = stream.text[Position + 1]
  BY <1>6 DEF Position
<1> QED  BY <1>1, <1>5, <1>6, <1>7, <1>8 DEF TInv

LEMMA TinySilently ==
  ASSUME TInv, UNCHANGED <<stream, from, limit, out, pc>>,
         Delivering(stream, First, Bound, stack', out)
  PROVE  TInv'
<1>1. First' = First /\ Bound' = Bound /\ Position' = Position
  BY DEF First, Bound, Position
<1> QED  BY <1>1 DEF TInv

LEMMA TinyJump == TInv /\ Jump => TInv'
<1> SUFFICES ASSUME TInv, Jump PROVE TInv'
  OBVIOUS
<1> DEFINE f == [location |-> nloc, count |-> Top.count, len |-> Top.len]
<1>1. /\ Looping /\ IsPointer(ch) /\ Top.count <= count(ch)
      /\ UNCHANGED <<stream, from, limit, out, pc>>
      /\ stack' = [stack EXCEPT ![Depth].location = nloc]
  BY DEF Jump, GoTo
<1>2. /\ stack \in Seq(Frame) /\ Depth = Len(stack) /\ Depth \in 1 .. Len(stack)
      /\ Top = stack[Depth] /\ Top = Inner(stack) /\ Top.count \in Nat /\ Top.len \in Nat
  BY TinyKnown
<1>3. /\ Top.location \in 0 .. (Len(stream.enc) - 1) /\ Top.count > 0
      /\ ch = stream.enc[Top.location + 1]
      /\ nloc = Source(stream.enc, Top.location) /\ nloc \in Int
  BY <1>1, TinyByte
<1>4. f \in Frame /\ f.location = nloc /\ f.count = Top.count
  BY <1>2, <1>3, FrameTypes
<1>5. stack' = [stack EXCEPT ![Len(stack)] = f]
  <2>1. [stack EXCEPT ![Depth].location = nloc]
          = [stack EXCEPT ![Depth] = [location |-> nloc, count |-> Top.count,
                                      len |-> Top.len]]
    <3> HIDE DEF f
    <3> QED  BY <1>3, Located
  <2> QED  BY <1>1, <1>2, <2>1, Zenon
<1> HIDE DEF f
<1>6. Delivering(stream, First, Bound, [stack EXCEPT ![Len(stack)] = f], out)
  <2>1. Delivering(stream, First, Bound, stack, out)
    BY DEF TInv
  <2>2. /\ Inner(stack).location \in 0 .. (Len(stream.enc) - 1) /\ Inner(stack).count > 0
        /\ IsPointer(stream.enc[Inner(stack).location + 1])
        /\ Inner(stack).count <= count(stream.enc[Inner(stack).location + 1])
        /\ f.count = Inner(stack).count
        /\ f.location = Source(stream.enc, Inner(stack).location)
    BY <1>1, <1>2, <1>3, <1>4
  <2> QED  BY <1>4, <2>1, <2>2, CallJumps, Zenon
<1> QED  BY <1>1, <1>5, <1>6, TinySilently

LEMMA TinyRecurse == TInv /\ Recurse => TInv'
<1> SUFFICES ASSUME TInv, Recurse PROVE TInv'
  OBVIOUS
<1> DEFINE l == count(ch)
           g == [location |-> Top.location + 1, count |-> Top.count, len |-> l]
           f == Call(nloc, l)
<1>1. /\ Looping /\ IsPointer(ch) /\ Top.count > l
      /\ UNCHANGED <<stream, from, limit, out, pc>>
      /\ stack' = Append([stack EXCEPT ![Depth].location = Top.location + 1,
                                       ![Depth].len = l], f)
  BY DEF Recurse, Enter, Top
<1>2. /\ stack \in Seq(Frame) /\ Depth = Len(stack) /\ Depth \in 1 .. Len(stack)
      /\ Top = stack[Depth] /\ Top = Inner(stack)
      /\ Top.location \in Int /\ Top.count \in Nat
  BY TinyKnown
<1>3. /\ Top.location \in 0 .. (Len(stream.enc) - 1)
      /\ ch = stream.enc[Top.location + 1] /\ l \in Nat
      /\ nloc = Source(stream.enc, Top.location) /\ nloc \in Int
  BY <1>1, TinyByte
<1>4. g \in Frame /\ f \in Frame
  BY <1>2, <1>3, FrameTypes DEF Call
<1>5. stack' = Append([stack EXCEPT ![Len(stack)] = g], f)
  <2>1. Top.location + 1 \in Int
    BY <1>2
  <2> HIDE DEF f, l
  <2>2. [stack EXCEPT ![Depth].location = Top.location + 1, ![Depth].len = l]
          = [stack EXCEPT ![Depth] = [location |-> Top.location + 1,
                                      count |-> Top.count, len |-> l]]
    <3> QED  BY <1>3, <2>1, LocatedLength
  <2> QED  BY <1>1, <1>2, <2>2, Zenon
<1>6. /\ g.location = Top.location + 1 /\ g.count = Top.count /\ g.len = l
      /\ f.location = nloc /\ f.count = l
  BY DEF Call
<1> HIDE DEF f, g
<1>7. Delivering(stream, First, Bound, Append([stack EXCEPT ![Len(stack)] = g], f), out)
  <2>1. Delivering(stream, First, Bound, stack, out)
    BY DEF TInv
  <2>2. /\ Inner(stack).location \in 0 .. (Len(stream.enc) - 1)
        /\ l = count(stream.enc[Inner(stack).location + 1])
        /\ IsPointer(stream.enc[Inner(stack).location + 1]) /\ Inner(stack).count > l
        /\ g.location = Inner(stack).location + 1 /\ g.count = Inner(stack).count
        /\ g.len = l /\ f.count = l /\ f.location = Source(stream.enc, Inner(stack).location)
    BY <1>1, <1>2, <1>3, <1>6
  <2> HIDE DEF l
  <2> QED  BY <1>4, <2>1, <2>2, CallCalls, Zenon
<1> QED  BY <1>1, <1>5, <1>7, TinySilently

LEMMA TinyEnds ==
  ASSUME TInv, Return
  PROVE  /\ Depth # 1 => Top.count = 0
         /\ Depth = 1 => Position = Bound \/ Position = Len(stream.text)
<1>1. Depth = Len(stack) /\ Top = Inner(stack) /\ Len(stream.enc) \in Nat
  BY TinyKnown
<1>2. Top.count = 0 \/ Top.location \notin 0 .. (Len(stream.enc) - 1)
  <2>1. Top.count = 0 \/ (Top.location \in 0 .. Len(stream.enc) /\ ch = 0)
    BY DEF Return
  <2>2. ASSUME Top.location \in 0 .. Len(stream.enc), ch = 0
        PROVE  Top.location = Len(stream.enc)
    BY <2>2, DataBytes DEF ch
  <2> QED  BY <1>1, <2>1, <2>2
<1>3. Delivering(stream, First, Bound, stack, out)
  BY DEF TInv
<1>4. Inner(stack).count = 0 \/ Inner(stack).location \notin 0 .. (Len(stream.enc) - 1)
  BY <1>1, <1>2
<1>5. /\ Len(stack) # 1 => Inner(stack).count = 0
      /\ Len(stack) = 1 => First + Len(out) = Bound \/ First + Len(out) = Len(stream.text)
  BY <1>3, <1>4, CallEnds
<1> QED  BY <1>1, <1>5 DEF Position

LEMMA TinyReturn == TInv /\ Return => TInv'
<1> SUFFICES ASSUME TInv, Return PROVE TInv'
  OBVIOUS
<1>1. /\ UNCHANGED <<stream, from, limit, out>>
      /\ \/ Depth = 1 /\ pc' = "done" /\ stack' = stack
         \/ /\ Depth # 1 /\ pc' = pc
            /\ stack' = [SubSeq(stack, 1, Depth - 1) EXCEPT
                           ![Depth - 1].count = @ - stack[Depth - 1].len]
  BY DEF Return
<1>2. Depth = Len(stack) /\ Top = Inner(stack)
  BY TinyKnown
<1>3. Delivering(stream, First, Bound, stack, out)
  BY DEF TInv
<1>4. CASE Depth = 1 /\ pc' = "done" /\ stack' = stack
  <2>1. First' = First /\ Bound' = Bound /\ Position' = Position
    BY <1>1 DEF First, Bound, Position
  <2>2. Position = Bound \/ Position = Len(stream.text)
    BY <1>4, TinyEnds
  <2> QED  BY <1>1, <1>4, <2>1, <2>2 DEF TInv
<1>5. CASE /\ Depth # 1 /\ pc' = pc
           /\ stack' = [SubSeq(stack, 1, Depth - 1) EXCEPT
                          ![Depth - 1].count = @ - stack[Depth - 1].len]
  <2>1. Top.count = 0
    BY <1>5, TinyEnds
  <2>2. Delivering(stream, First, Bound, stack', out)
    BY <1>2, <1>3, <1>5, <2>1, CallReturns
  <2> QED  BY <1>1, <1>5, <2>2, TinySilently
<1> QED  BY <1>1, <1>4, <1>5

LEMMA StepTInv == TInv /\ [Next]_vars => TInv'
<1> SUFFICES ASSUME TInv, [Next]_vars PROVE TInv'
  OBVIOUS
<1>1. CASE UNCHANGED vars
  BY <1>1 DEF vars, TInv, First, Position, Bound
<1> QED  BY <1>1, TinyLiterally, TinyJump, TinyRecurse, TinyReturn DEF Next

-----------------------------------------------------------------------------
(***************************************************************************)
(* The decoder of the Python program.  A frame of its stack does not keep  *)
(* what it called for: the frame above it does, as its howmany.            *)
(***************************************************************************)
PyFrame == [start : Int, howmany : Nat, needed : Nat]

Calls(s) ==
  [k \in 1 .. Len(s) |->
     [location |-> s[k].start, count |-> s[k].needed,
      len |-> IF k < Len(s) THEN s[k + 1].howmany ELSE 0]]

LEMMA PyFrameTypes ==
  /\ \A f \in PyFrame : f.start \in Int /\ f.howmany \in Nat /\ f.needed \in Nat
  /\ \A p \in Int, h \in Nat, n \in Nat :
       [start |-> p, howmany |-> h, needed |-> n] \in PyFrame
BY DEF PyFrame

LEMMA CallsFacts ==
  ASSUME NEW s \in Seq(PyFrame)
  PROVE  /\ Calls(s) \in Seq(Frame) /\ Len(Calls(s)) = Len(s)
         /\ \A k \in 1 .. Len(s) :
              Calls(s)[k] = [location |-> s[k].start, count |-> s[k].needed,
                             len |-> IF k < Len(s) THEN s[k + 1].howmany ELSE 0]
<1>1. \A k \in 1 .. Len(s) :
        /\ s[k].start \in Int /\ s[k].needed \in Nat
        /\ k < Len(s) => s[k + 1].howmany \in Nat
  <2>1. \A k \in 1 .. Len(s) : s[k] \in PyFrame /\ (k < Len(s) => k + 1 \in 1 .. Len(s))
    OBVIOUS
  <2> QED  BY <2>1, PyFrameTypes
<1>2. \A k \in 1 .. Len(s) :
        [location |-> s[k].start, count |-> s[k].needed,
         len |-> IF k < Len(s) THEN s[k + 1].howmany ELSE 0] \in Frame
  BY <1>1, FrameTypes
<1>3. Len(s) \in Nat
  OBVIOUS
<1> QED  BY <1>2, <1>3 DEF Calls

(* Two sequences with the same elements.                                   *)
LEMMA SameFrames ==
  ASSUME NEW S, NEW s \in Seq(S), NEW t \in Seq(S), Len(s) = Len(t),
         \A k \in 1 .. Len(s) : s[k] = t[k]
  PROVE  s = t
OBVIOUS

LEMMA CallsMove ==
  ASSUME NEW s \in Seq(PyFrame), s # << >>, NEW t \in Seq(PyFrame), Len(t) = Len(s),
         \A k \in 1 .. Len(s) : k # Len(s) => t[k] = s[k],
         t[Len(s)].howmany = s[Len(s)].howmany
  PROVE  Calls(t) = [Calls(s) EXCEPT ![Len(Calls(s))] =
                       [location |-> t[Len(s)].start, count |-> t[Len(s)].needed, len |-> 0]]
<1> DEFINE d == Len(s)
           f == [location |-> t[d].start, count |-> t[d].needed, len |-> 0]
           u == [Calls(s) EXCEPT ![d] = f]
<1>1. d \in Nat /\ d \in 1 .. d
  OBVIOUS
<1>2. Calls(s) \in Seq(Frame) /\ Calls(t) \in Seq(Frame) /\ Len(Calls(s)) = d /\ Len(Calls(t)) = d
  BY CallsFacts
<1>3. f \in Frame
  <2>1. t[d] \in PyFrame
    BY <1>1
  <2> QED  BY <2>1, PyFrameTypes, FrameTypes
<1>4. u \in Seq(Frame) /\ Len(u) = d /\ u[d] = f /\ \A k \in 1 .. d : k # d => u[k] = Calls(s)[k]
  BY <1>1, <1>2, <1>3
<1>5. Calls(t)[d] = f
  BY <1>1, CallsFacts
<1>6. ASSUME NEW k \in 1 .. d, k # d PROVE Calls(t)[k] = Calls(s)[k]
  <2>1. k < d /\ k + 1 \in 1 .. d
    BY <1>1, <1>6
  <2>2. t[k] = s[k] /\ t[k + 1].howmany = s[k + 1].howmany
    BY <1>6, <2>1
  <2>3. /\ Calls(t)[k] = [location |-> t[k].start, count |-> t[k].needed,
                          len |-> t[k + 1].howmany]
        /\ Calls(s)[k] = [location |-> s[k].start, count |-> s[k].needed,
                          len |-> s[k + 1].howmany]
    BY <2>1, CallsFacts
  <2> QED  BY <2>2, <2>3
<1> HIDE DEF f, u
<1>7. Calls(t) = u
  BY <1>2, <1>4, <1>5, <1>6, SameFrames
<1> QED  BY <1>2, <1>7 DEF u, f

LEMMA CallsPush ==
  ASSUME NEW s \in Seq(PyFrame), s # << >>, NEW t \in Seq(PyFrame), Len(t) = Len(s) + 1,
         \A k \in 1 .. Len(s) : k # Len(s) => t[k] = s[k],
         t[Len(s)].howmany = s[Len(s)].howmany
  PROVE  Calls(t) =
           Append([Calls(s) EXCEPT ![Len(Calls(s))] =
                     [location |-> t[Len(s)].start, count |-> t[Len(s)].needed,
                      len |-> t[Len(s) + 1].howmany]],
                  [location |-> t[Len(s) + 1].start, count |-> t[Len(s) + 1].needed,
                   len |-> 0])
<1> DEFINE d == Len(s)
           g == [location |-> t[d].start, count |-> t[d].needed, len |-> t[d + 1].howmany]
           f == [location |-> t[d + 1].start, count |-> t[d + 1].needed, len |-> 0]
           w == [Calls(s) EXCEPT ![d] = g]
           u == Append(w, f)
<1>1. d \in Nat /\ d \in 1 .. d /\ d + 1 \in 1 .. Len(t) /\ d \in 1 .. Len(t) /\ d < Len(t)
      /\ ~(d + 1 < Len(t))
  OBVIOUS
<1>2. Calls(s) \in Seq(Frame) /\ Calls(t) \in Seq(Frame) /\ Len(Calls(s)) = d
      /\ Len(Calls(t)) = d + 1
  BY CallsFacts
<1>3. f \in Frame /\ g \in Frame
  <2>1. t[d] \in PyFrame /\ t[d + 1] \in PyFrame
    BY <1>1
  <2> QED  BY <2>1, PyFrameTypes, FrameTypes
<1>4. w \in Seq(Frame) /\ Len(w) = d /\ w[d] = g /\ \A k \in 1 .. d : k # d => w[k] = Calls(s)[k]
  BY <1>1, <1>2, <1>3
<1> HIDE DEF w
<1>5. Calls(t)[d] = g /\ Calls(t)[d + 1] = f
  BY <1>1, CallsFacts
<1>6. ASSUME NEW k \in 1 .. d, k # d PROVE Calls(t)[k] = Calls(s)[k]
  <2>1. k < d /\ k + 1 \in 1 .. d /\ k \in 1 .. Len(t) /\ k < Len(t)
    BY <1>1, <1>6
  <2>2. t[k] = s[k] /\ t[k + 1].howmany = s[k + 1].howmany
    BY <1>6, <2>1
  <2>3. /\ Calls(t)[k] = [location |-> t[k].start, count |-> t[k].needed,
                          len |-> t[k + 1].howmany]
        /\ Calls(s)[k] = [location |-> s[k].start, count |-> s[k].needed,
                          len |-> s[k + 1].howmany]
    BY <2>1, CallsFacts
  <2> QED  BY <2>2, <2>3
<1> HIDE DEF f, g
<1>7. u \in Seq(Frame) /\ Len(u) = d + 1 /\ u[d + 1] = f /\ \A k \in 1 .. d : u[k] = w[k]
  BY <1>1, <1>3, <1>4
<1> HIDE DEF u
<1>8. \A k \in 1 .. Len(Calls(t)) : Calls(t)[k] = u[k]
  <2>1. \A k \in 1 .. (d + 1) : k = d + 1 \/ k = d \/ (k \in 1 .. d /\ k # d)
    BY <1>1
  <2> QED  BY <1>1, <1>2, <1>4, <1>5, <1>6, <1>7, <2>1
<1>9. Calls(t) = u
  BY <1>2, <1>7, <1>8, SameFrames
<1> QED  BY <1>2, <1>9 DEF u, w, f, g

LEMMA CallsPop ==
  ASSUME NEW s \in Seq(PyFrame), Len(s) >= 2, NEW t \in Seq(PyFrame), Len(t) = Len(s) - 1,
         \A k \in 1 .. Len(t) : k # Len(t) => t[k] = s[k],
         t[Len(t)].start = s[Len(t)].start, t[Len(t)].howmany = s[Len(t)].howmany,
         t[Len(t)].needed = s[Len(t)].needed - s[Len(s)].howmany
  PROVE  LET u == [SubSeq(Calls(s), 1, Len(Calls(s)) - 1) EXCEPT
                     ![Len(Calls(s)) - 1].count = @ - Calls(s)[Len(Calls(s)) - 1].len]
         IN  /\ Len(u) = Len(t) /\ u[Len(u)].location = t[Len(t)].start
             /\ u[Len(u)].count = t[Len(t)].needed
             /\ Calls(t) = [u EXCEPT ![Len(u)] =
                              [location |-> t[Len(t)].start, count |-> t[Len(t)].needed,
                               len |-> 0]]
<1> DEFINE d == Len(t)
           c == Calls(s)
           f == [location |-> t[d].start, count |-> t[d].needed, len |-> 0]
           v == SubSeq(c, 1, d)
           u == [v EXCEPT ![d].count = @ - c[d].len]
           w == [u EXCEPT ![d] = f]
<1>1. /\ d \in Nat /\ d >= 1 /\ d \in 1 .. d /\ Len(s) = d + 1 /\ d \in 1 .. Len(s) /\ d < Len(s)
      /\ Len(s) - 1 = d /\ \A k \in 1 .. d : k \in 1 .. (d + 1)
  OBVIOUS
<1>2. c \in Seq(Frame) /\ Calls(t) \in Seq(Frame) /\ Len(c) = d + 1 /\ Len(Calls(t)) = d
  BY <1>1, CallsFacts
<1>3. f \in Frame
  <2>1. t[d] \in PyFrame
    BY <1>1
  <2> QED  BY <2>1, PyFrameTypes, FrameTypes
<1>4. c[d] = [location |-> s[d].start, count |-> s[d].needed, len |-> s[d + 1].howmany]
  BY <1>1, CallsFacts
<1>5. Calls(t)[d] = f
  BY <1>1, CallsFacts
<1>6. ASSUME NEW k \in 1 .. d, k # d PROVE Calls(t)[k] = c[k]
  <2>1. k < d /\ k + 1 \in 1 .. d /\ k \in 1 .. Len(s) /\ k < Len(s)
    BY <1>1, <1>6
  <2>2. t[k] = s[k] /\ t[k + 1].howmany = s[k + 1].howmany
    BY <1>6, <2>1
  <2>3. /\ Calls(t)[k] = [location |-> t[k].start, count |-> t[k].needed,
                          len |-> t[k + 1].howmany]
        /\ c[k] = [location |-> s[k].start, count |-> s[k].needed,
                   len |-> s[k + 1].howmany]
    BY <2>1, CallsFacts
  <2> QED  BY <2>2, <2>3
<1> HIDE DEF f, c
<1>7. v \in Seq(Frame) /\ Len(v) = d /\ \A k \in 1 .. d : v[k] = c[k]
  BY <1>1, <1>2
<1> HIDE DEF v
<1>8. u = [v EXCEPT ![d] = [v[d] EXCEPT !.count = v[d].count - c[d].len]]
  BY <1>1, <1>7
<1>9. v[d] = [location |-> s[d].start, count |-> s[d].needed, len |-> s[d + 1].howmany]
  BY <1>1, <1>4, <1>7
<1>10. [v[d] EXCEPT !.count = v[d].count - c[d].len]
         = [location |-> t[d].start, count |-> t[d].needed, len |-> s[d + 1].howmany]
  BY <1>1, <1>4, <1>9
<1>11. /\ DOMAIN u = 1 .. d /\ Len(u) = d
       /\ u[d] = [location |-> t[d].start, count |-> t[d].needed, len |-> s[d + 1].howmany]
       /\ \A k \in 1 .. d : k # d => u[k] = v[k]
  <2>1. DOMAIN v = 1 .. d /\ DOMAIN u = 1 .. d
    BY <1>7, <1>8
  <2>2. Len(u) = d
    BY <1>1, <2>1
  <2> QED  BY <1>1, <1>8, <1>10, <2>1, <2>2
<1>12. u[d].location = t[d].start /\ u[d].count = t[d].needed
  BY <1>11
<1> HIDE DEF u
<1>13. /\ w = [k \in 1 .. d |-> IF k = d THEN f ELSE u[k]]
       /\ \A k \in 1 .. d : w[k] = IF k = d THEN f ELSE u[k]
  BY <1>11
<1> HIDE DEF w
<1>14. \A k \in 1 .. d : w[k] = Calls(t)[k]
  BY <1>5, <1>6, <1>7, <1>11, <1>13
<1>15. w \in Seq(Frame) /\ Len(w) = d
  <2>1. \A k \in 1 .. d : w[k] \in Frame
    BY <1>2, <1>14
  <2> QED  BY <1>1, <1>13, <2>1
<1>16. Calls(t) = w
  BY <1>2, <1>14, <1>15, SameFrames
<1>17. Len(c) - 1 = d
  BY <1>1, <1>2
<1> QED  BY <1>11, <1>12, <1>16, <1>17 DEF u, v, w, c, f

(* What the running call called for last does not matter.                  *)
LEMMA CallForgets ==
  ASSUME NEW st, NEW first, NEW b, NEW s, NEW o, Delivering(st, first, b, s, o),
         NEW f \in Frame, f.location = Inner(s).location, f.count = Inner(s).count
  PROVE  Delivering(st, first, b, [s EXCEPT ![Len(s)] = f], o)
<1>1. PICK Q : Tracks(st, s, Q, first + Len(o), b)
  BY DEF Delivering
<1>2. /\ Good(s) /\ Inner(s) = s[Len(s)] /\ Inner(s).count \in Nat
      /\ first + Len(o) \in Nat
  BY Known
<1>3. /\ Stands(st, f.location, Len(s), f.count, first + Len(o))
      /\ f.count <= s[Len(s)].count
      /\ (first + Len(o)) + f.count = (first + Len(o)) + s[Len(s)].count
  BY <1>1, <1>2, TopFacts
<1> DEFINE n == first + Len(o)
<1>4. /\ Good([s EXCEPT ![Len(s)] = f])
      /\ \E R : Tracks(st, [s EXCEPT ![Len(s)] = f], R, n, b)
  BY <1>1, <1>2, <1>3, MoveTop
<1> QED  BY <1>4, Silently DEF n

PInv ==
  /\ from \in 0 .. Len(stream.enc) /\ limit \in Nat /\ pc \in {"run", "done"}
  /\ stack \in Seq(PyFrame) /\ stack # << >>
  /\ Delivering(stream, First, Bound, Calls(stack), out)
  /\ pc = "done" => Position = Bound \/ Position = Len(stream.text)

LEMMA PyKnown ==
  ASSUME PInv
  PROVE  /\ IsStream(stream) /\ Len(stream.enc) \in Nat
         /\ stack \in Seq(PyFrame) /\ P!Depth = Len(stack) /\ P!Depth \in Nat
         /\ P!Depth >= 1 /\ P!Depth \in 1 .. Len(stack)
         /\ P!Top = stack[P!Depth] /\ P!Top \in PyFrame
         /\ P!Top.start \in Int /\ P!Top.needed \in Nat /\ P!Top.howmany \in Nat
         /\ Len(Calls(stack)) = Len(stack)
         /\ Inner(Calls(stack)).location = P!Top.start
         /\ Inner(Calls(stack)).count = P!Top.needed
<1>1. stack \in Seq(PyFrame) /\ stack # << >>
  BY DEF PInv
<1>2. /\ P!Depth = Len(stack) /\ P!Depth \in Nat /\ P!Depth >= 1
      /\ P!Depth \in 1 .. Len(stack) /\ P!Top = stack[P!Depth]
  BY <1>1 DEF P!Depth, P!Top
<1>3. P!Top \in PyFrame
  BY <1>1, <1>2
<1>4. Len(Calls(stack)) = Len(stack)
  BY <1>1, CallsFacts
<1>5. /\ Calls(stack)[Len(stack)].location = stack[Len(stack)].start
      /\ Calls(stack)[Len(stack)].count = stack[Len(stack)].needed
  <2> DEFINE c == stack[Len(stack)]
             r == [location |-> c.start, count |-> c.needed, len |-> 0]
  <2>1. Len(stack) \in 1 .. Len(stack) /\ ~(Len(stack) < Len(stack))
    BY <1>2
  <2>2. Calls(stack)[Len(stack)] = r
    BY <1>1, <2>1, CallsFacts
  <2>3. r.location = c.start /\ r.count = c.needed
    OBVIOUS
  <2> HIDE DEF r
  <2> QED  BY <2>2, <2>3
<1>6. IsStream(stream) /\ Len(stream.enc) \in Nat
  BY Known DEF PInv
<1> QED  BY <1>1, <1>2, <1>3, <1>4, <1>5, <1>6, PyFrameTypes DEF Inner

(* The decoder of the Python program reads the same format.                *)
LEMMA PyFormat ==
  \A c : /\ P!IsPointer(c) <=> IsPointer(c)
         /\ P!count(c) = count(c)
         /\ P!get_offset(c) = get_offset(c)
BY DEF P!IsPointer, IsPointer, P!count, count, P!get_offset, get_offset,
       P!IsZeroOffset, IsZeroOffset, P!ZeroPage, ZeroPage, P!ZeroShift, ZeroShift,
       P!FLAG, FLAG

(* The byte that the running call reads.                                   *)
LEMMA PyByte ==
  ASSUME PInv, P!Looping
  PROVE  /\ P!Top.start \in 0 .. (Len(stream.enc) - 1) /\ P!Top.needed > 0
         /\ P!ch = stream.enc[P!Top.start + 1] /\ P!ch \in Byte /\ count(P!ch) \in Nat
         /\ IsPointer(P!ch) => /\ P!Back = Source(stream.enc, P!Top.start)
                               /\ P!Back \in Int
<1> DEFINE p == P!Top.start
<1>1. p \in 0 .. (Len(stream.enc) - 1) /\ P!Top.needed > 0 /\ P!ch = stream.enc[p + 1]
  BY DEF P!Looping, P!ch, P!s, P!slen
<1>2. IsStream(stream)
  BY PyKnown
<1>3. P!Back = p + 1 - get_offset(stream.enc[p + 1]) - 2
  BY <1>1, PyFormat, Zenon DEF P!Back
<1> HIDE DEF p
<1>4. /\ stream.enc[p + 1] \in Byte /\ count(stream.enc[p + 1]) \in Nat
      /\ IsPointer(stream.enc[p + 1]) =>
           /\ p + 1 - get_offset(stream.enc[p + 1]) - 2 = Source(stream.enc, p)
           /\ Source(stream.enc, p) \in Int
  BY <1>1, <1>2, ByteAt
<1> QED  BY <1>1, <1>3, <1>4 DEF p

LEMMA PyBegins ==
  ASSUME IsStream(stream), from \in 0 .. Len(stream.enc), limit \in Nat,
         pc = "run", out = << >>, stack = << P!Call(from, limit) >>
  PROVE  PInv
<1> DEFINE c == P!Call(from, limit)
           f == [location |-> from, count |-> limit, len |-> 0]
<1>1. /\ from \in 0 .. Len(stream.enc) /\ limit \in Nat /\ pc = "run" /\ out = << >>
      /\ stack = << c >>
  OBVIOUS
<1>2. IsStream(stream)
  OBVIOUS
<1>3. from \in Int
  BY <1>1, <1>2, StreamFacts
<1>4. c \in PyFrame /\ c.start = from /\ c.needed = limit
  BY <1>1, <1>3, PyFrameTypes DEF P!Call
<1>5. f \in Frame /\ f.location = from /\ f.count = limit
  BY <1>1, <1>3, FrameTypes
<1> HIDE DEF c
<1>6. stack \in Seq(PyFrame) /\ stack # << >> /\ Len(stack) = 1 /\ stack[1] = c
  BY <1>1, <1>4
<1>7. Calls(stack) = << f >>
  <2> HIDE DEF f
  <2>1. /\ Calls(stack) \in Seq(Frame) /\ Len(Calls(stack)) = 1
        /\ Calls(stack)[1] = [location |-> c.start, count |-> c.needed, len |-> 0]
    <3>1. 1 \in 1 .. Len(stack) /\ ~(1 < Len(stack))
      BY <1>6
    <3>2. /\ Calls(stack) \in Seq(Frame) /\ Len(Calls(stack)) = Len(stack)
          /\ Calls(stack)[1] = [location |-> stack[1].start, count |-> stack[1].needed,
                                len |-> 0]
      BY <1>6, <3>1, CallsFacts
    <3> QED  BY <1>6, <3>2
  <2>2. Calls(stack)[1] = f
    BY <1>4, <2>1 DEF f
  <2> QED  BY <1>5, <2>1, <2>2
<1> HIDE DEF f
<1>8. Delivering(stream, First, Bound, << f >>, << >>)
  BY <1>1, <1>2, <1>5, CallBegins DEF First, Bound
<1> QED  BY <1>1, <1>6, <1>7, <1>8 DEF PInv

LEMMA InitPInv == P!Init => PInv
BY PyBegins, LimitsAssumption, StreamsAssumption DEF P!Init, P!slen, P!s

LEMMA PySilently ==
  ASSUME PInv, UNCHANGED <<stream, from, limit, out, pc>>,
         stack' \in Seq(PyFrame), stack' # << >>,
         Delivering(stream, First, Bound, Calls(stack'), out)
  PROVE  PInv'
<1>1. First' = First /\ Bound' = Bound /\ Position' = Position
  BY DEF First, Bound, Position
<1> QED  BY <1>1 DEF PInv

(* Updates of the running call.                                            *)
LEMMA PyMoved ==
  ASSUME PInv, NEW p \in Int
  PROVE  LET t == [stack EXCEPT ![P!Depth].start = p] IN
         /\ t \in Seq(PyFrame) /\ Len(t) = Len(stack)
         /\ \A k \in 1 .. Len(stack) : k # Len(stack) => t[k] = stack[k]
         /\ t[Len(stack)] = [start |-> p, howmany |-> P!Top.howmany,
                             needed |-> P!Top.needed]
<1>1. /\ stack \in Seq(PyFrame) /\ P!Depth = Len(stack) /\ P!Depth \in 1 .. Len(stack)
      /\ P!Top = stack[P!Depth] /\ P!Top \in PyFrame
  BY PyKnown
<1>2. /\ [P!Top EXCEPT !.start = p]
           = [start |-> p, howmany |-> P!Top.howmany, needed |-> P!Top.needed]
      /\ [P!Top EXCEPT !.start = p] \in PyFrame
  BY <1>1 DEF PyFrame
<1> QED  BY <1>1, <1>2

LEMMA PyMovedOn ==
  ASSUME PInv, NEW p \in Int, NEW n \in Nat
  PROVE  LET t == [stack EXCEPT ![P!Depth].start = p, ![P!Depth].needed = n] IN
         /\ t \in Seq(PyFrame) /\ Len(t) = Len(stack)
         /\ \A k \in 1 .. Len(stack) : k # Len(stack) => t[k] = stack[k]
         /\ t[Len(stack)] = [start |-> p, howmany |-> P!Top.howmany, needed |-> n]
<1> DEFINE r == [stack EXCEPT ![P!Depth].start = p]
           t == [stack EXCEPT ![P!Depth].start = p, ![P!Depth].needed = n]
           d == Len(stack)
<1>1. /\ r \in Seq(PyFrame) /\ Len(r) = d
      /\ \A k \in 1 .. d : k # d => r[k] = stack[k]
      /\ r[d] = [start |-> p, howmany |-> P!Top.howmany, needed |-> P!Top.needed]
  BY PyMoved
<1>2. P!Depth = d /\ P!Depth \in 1 .. d /\ P!Top.howmany \in Nat /\ d \in Nat
  BY PyKnown
<1>3. t = [r EXCEPT ![P!Depth].needed = n]
  BY Zenon
<1> HIDE DEF r, d
<1>4. /\ [r[d] EXCEPT !.needed = n]
           = [start |-> p, howmany |-> P!Top.howmany, needed |-> n]
      /\ [start |-> p, howmany |-> P!Top.howmany, needed |-> n] \in PyFrame
  BY <1>1, <1>2, PyFrameTypes
<1> HIDE DEF t
<1>5. /\ t \in Seq(PyFrame) /\ Len(t) = d
      /\ \A k \in 1 .. d : k # d => t[k] = r[k]
      /\ t[d] = [start |-> p, howmany |-> P!Top.howmany, needed |-> n]
  BY <1>1, <1>2, <1>3, <1>4
<1> QED  BY <1>1, <1>5 DEF t, d

LEMMA PyLiterally ==
  ASSUME PInv, P!Literally
  PROVE  /\ PInv'
         /\ Position < Len(stream.text) /\ Position < Bound
         /\ P!ch = stream.text[Position + 1]
<1> DEFINE p == P!Top.start + 1
           n == P!Top.needed - 1
           f == [location |-> p, count |-> n, len |-> 0]
           t == [stack EXCEPT ![P!Depth].start = p, ![P!Depth].needed = n]
<1>1. /\ P!Looping /\ pc = "run" /\ ~IsPointer(P!ch) /\ out' = Append(out, P!ch)
      /\ UNCHANGED <<stream, from, limit, pc>>
      /\ stack' = t
  BY PyFormat DEF P!Literally, P!Looping, P!Top
<1>2. /\ stack \in Seq(PyFrame) /\ stack # << >> /\ Len(stack) \in Nat
      /\ P!Top.start \in Int /\ P!Top.needed \in Nat
      /\ P!Top = stack[Len(stack)]
      /\ Inner(Calls(stack)).location = P!Top.start
      /\ Inner(Calls(stack)).count = P!Top.needed
  BY PyKnown DEF PInv
<1>3. /\ P!Top.start \in 0 .. (Len(stream.enc) - 1) /\ P!Top.needed > 0
      /\ P!ch = stream.enc[P!Top.start + 1]
  BY <1>1, PyByte
<1>4. p \in Int /\ n \in Nat
  BY <1>2, <1>3
<1>5. f \in Frame /\ f.location = P!Top.start + 1 /\ f.count = P!Top.needed - 1
  BY <1>4, FrameTypes
<1> HIDE DEF p, n
<1>6. /\ t \in Seq(PyFrame) /\ Len(t) = Len(stack)
      /\ \A k \in 1 .. Len(stack) : k # Len(stack) => t[k] = stack[k]
      /\ t[Len(stack)] = [start |-> p, howmany |-> P!Top.howmany, needed |-> n]
  BY <1>4, PyMovedOn
<1> HIDE DEF t
<1>7. /\ t[Len(stack)].start = p /\ t[Len(stack)].needed = n
      /\ t[Len(stack)].howmany = stack[Len(stack)].howmany
  BY <1>2, <1>6
<1>8. Calls(t) = [Calls(stack) EXCEPT ![Len(Calls(stack))] = f]
  <2>1. Calls(t) = [Calls(stack) EXCEPT ![Len(Calls(stack))] =
                      [location |-> t[Len(stack)].start, count |-> t[Len(stack)].needed,
                       len |-> 0]]
    BY <1>2, <1>6, <1>7, CallsMove
  <2> QED  BY <1>7, <2>1, Zenon
<1> HIDE DEF f
<1>9. /\ Delivering(stream, First, Bound, Calls(t), Append(out, P!ch))
      /\ First + Len(out) < Len(stream.text) /\ First + Len(out) < Bound
      /\ P!ch = stream.text[First + Len(out) + 1]
  <2> DEFINE s == Calls(stack)
             c == P!ch
  <2>1. Delivering(stream, First, Bound, s, out)
    BY DEF PInv
  <2>2. /\ Inner(s).location \in 0 .. (Len(stream.enc) - 1) /\ Inner(s).count > 0
        /\ c = stream.enc[Inner(s).location + 1] /\ ~IsPointer(c)
        /\ f.location = Inner(s).location + 1 /\ f.count = Inner(s).count - 1
    BY <1>1, <1>2, <1>3, <1>5
  <2> HIDE DEF s, c
  <2>3. /\ Delivering(stream, First, Bound, [s EXCEPT ![Len(s)] = f], Append(out, c))
        /\ First + Len(out) < Len(stream.text) /\ First + Len(out) < Bound
        /\ c = stream.text[First + Len(out) + 1]
    BY <1>5, <2>1, <2>2, LiteralComes
  <2> QED  BY <1>8, <2>3 DEF s, c
<1>10. First' = First /\ Bound' = Bound
  BY <1>1 DEF First, Bound
<1>11. /\ Position < Len(stream.text) /\ Position < Bound
       /\ P!ch = stream.text[Position + 1]
  BY <1>9 DEF Position
<1>12. t # << >>
  BY <1>2, <1>6
<1>13. /\ from \in 0 .. Len(stream.enc) /\ limit \in Nat /\ pc \in {"run", "done"}
  BY DEF PInv
<1>14. PInv'
  BY <1>1, <1>6, <1>9, <1>10, <1>12, <1>13 DEF PInv
<1> QED  BY <1>11, <1>14

LEMMA PyJump == PInv /\ P!Jump => PInv'
<1> SUFFICES ASSUME PInv, P!Jump PROVE PInv'
  OBVIOUS
<1> DEFINE p == P!Back
           f == [location |-> p, count |-> P!Top.needed, len |-> 0]
           t == [stack EXCEPT ![P!Depth].start = p]
<1>1. /\ P!Looping /\ IsPointer(P!ch) /\ P!Top.needed <= count(P!ch)
      /\ UNCHANGED <<stream, from, limit, out, pc>>
      /\ stack' = t
  BY PyFormat DEF P!Jump, P!GoTo
<1>2. /\ stack \in Seq(PyFrame) /\ stack # << >> /\ Len(stack) \in Nat
      /\ P!Top.start \in Int /\ P!Top.needed \in Nat
      /\ P!Top = stack[Len(stack)]
      /\ Inner(Calls(stack)).location = P!Top.start
      /\ Inner(Calls(stack)).count = P!Top.needed
  BY PyKnown DEF PInv
<1>3. /\ P!Top.start \in 0 .. (Len(stream.enc) - 1) /\ P!Top.needed > 0
      /\ P!ch = stream.enc[P!Top.start + 1]
      /\ p = Source(stream.enc, P!Top.start) /\ p \in Int
  BY <1>1, PyByte
<1>4. f \in Frame /\ f.location = p /\ f.count = P!Top.needed
  BY <1>2, <1>3, FrameTypes
<1> HIDE DEF p
<1>5. /\ t \in Seq(PyFrame) /\ Len(t) = Len(stack)
      /\ \A k \in 1 .. Len(stack) : k # Len(stack) => t[k] = stack[k]
      /\ t[Len(stack)] = [start |-> p, howmany |-> P!Top.howmany, needed |-> P!Top.needed]
  BY <1>3, PyMoved
<1> HIDE DEF t
<1>6. /\ t[Len(stack)].start = p /\ t[Len(stack)].needed = P!Top.needed
      /\ t[Len(stack)].howmany = stack[Len(stack)].howmany
  BY <1>2, <1>5
<1>7. Calls(t) = [Calls(stack) EXCEPT ![Len(Calls(stack))] = f]
  <2>1. Calls(t) = [Calls(stack) EXCEPT ![Len(Calls(stack))] =
                      [location |-> t[Len(stack)].start, count |-> t[Len(stack)].needed,
                       len |-> 0]]
    BY <1>2, <1>5, <1>6, CallsMove
  <2> QED  BY <1>6, <2>1, Zenon
<1> HIDE DEF f
<1>8. Delivering(stream, First, Bound, Calls(t), out)
  <2> DEFINE s == Calls(stack)
  <2>1. Delivering(stream, First, Bound, s, out)
    BY DEF PInv
  <2>2. /\ Inner(s).location \in 0 .. (Len(stream.enc) - 1) /\ Inner(s).count > 0
        /\ IsPointer(stream.enc[Inner(s).location + 1])
        /\ Inner(s).count <= count(stream.enc[Inner(s).location + 1])
        /\ f.count = Inner(s).count /\ f.location = Source(stream.enc, Inner(s).location)
    BY <1>1, <1>2, <1>3, <1>4
  <2> HIDE DEF s
  <2>3. Delivering(stream, First, Bound, [s EXCEPT ![Len(s)] = f], out)
    BY <1>4, <2>1, <2>2, CallJumps, Zenon
  <2> QED  BY <1>7, <2>3 DEF s
<1>9. t # << >>
  BY <1>2, <1>5
<1> QED  BY <1>1, <1>5, <1>8, <1>9, PySilently

LEMMA PyRecurse == PInv /\ P!Recurse => PInv'
<1> SUFFICES ASSUME PInv, P!Recurse PROVE PInv'
  OBVIOUS
<1> DEFINE p == P!Top.start + 1
           l == count(P!ch)
           q == P!Back
           h == P!Call(q, l)
           u == [stack EXCEPT ![P!Depth].start = p]
           t == Append(u, h)
           g == [location |-> p, count |-> P!Top.needed, len |-> l]
           f == [location |-> q, count |-> l, len |-> 0]
<1>1. /\ P!Looping /\ IsPointer(P!ch) /\ P!Top.needed > l
      /\ UNCHANGED <<stream, from, limit, out, pc>>
      /\ stack' = t
  BY PyFormat DEF P!Recurse, P!Enter, P!Top
<1>2. /\ stack \in Seq(PyFrame) /\ stack # << >> /\ Len(stack) \in Nat
      /\ Len(stack) \in 1 .. Len(stack)
      /\ P!Top.start \in Int /\ P!Top.needed \in Nat
      /\ P!Top = stack[Len(stack)]
      /\ Inner(Calls(stack)).location = P!Top.start
      /\ Inner(Calls(stack)).count = P!Top.needed
  BY PyKnown DEF PInv
<1>3. /\ P!Top.start \in 0 .. (Len(stream.enc) - 1) /\ P!Top.needed > 0
      /\ P!ch = stream.enc[P!Top.start + 1] /\ l \in Nat
      /\ q = Source(stream.enc, P!Top.start) /\ q \in Int /\ p \in Int
  BY <1>1, <1>2, PyByte
<1> HIDE DEF p, q, l
<1>4. /\ g \in Frame /\ f \in Frame /\ h \in PyFrame
      /\ h.start = q /\ h.needed = l /\ h.howmany = l
  BY <1>2, <1>3, FrameTypes, PyFrameTypes DEF P!Call
<1>5. /\ u \in Seq(PyFrame) /\ Len(u) = Len(stack)
      /\ \A k \in 1 .. Len(stack) : k # Len(stack) => u[k] = stack[k]
      /\ u[Len(stack)] = [start |-> p, howmany |-> P!Top.howmany, needed |-> P!Top.needed]
  BY <1>3, PyMoved
<1> HIDE DEF u, h
<1>6. /\ t \in Seq(PyFrame) /\ Len(t) = Len(stack) + 1 /\ t[Len(stack) + 1] = h
      /\ \A k \in 1 .. Len(stack) : t[k] = u[k]
  BY <1>2, <1>4, <1>5
<1> HIDE DEF t
<1>7. /\ t[Len(stack)].start = p /\ t[Len(stack)].needed = P!Top.needed
      /\ t[Len(stack)].howmany = stack[Len(stack)].howmany
      /\ t[Len(stack) + 1].start = q /\ t[Len(stack) + 1].needed = l
      /\ t[Len(stack) + 1].howmany = l
      /\ \A k \in 1 .. Len(stack) : k # Len(stack) => t[k] = stack[k]
  BY <1>2, <1>4, <1>5, <1>6
<1>8. Calls(t) = Append([Calls(stack) EXCEPT ![Len(Calls(stack))] = g], f)
  <2>1. Calls(t) =
          Append([Calls(stack) EXCEPT ![Len(Calls(stack))] =
                    [location |-> t[Len(stack)].start, count |-> t[Len(stack)].needed,
                     len |-> t[Len(stack) + 1].howmany]],
                 [location |-> t[Len(stack) + 1].start, count |-> t[Len(stack) + 1].needed,
                  len |-> 0])
    BY <1>2, <1>6, <1>7, CallsPush
  <2> QED  BY <1>7, <2>1, Zenon
<1>9. /\ g.location = P!Top.start + 1 /\ g.count = P!Top.needed /\ g.len = l
      /\ f.location = Source(stream.enc, P!Top.start) /\ f.count = l
  BY <1>3 DEF p
<1>10. l = count(stream.enc[P!Top.start + 1])
  BY <1>3 DEF l
<1> HIDE DEF g, f
<1>11. Delivering(stream, First, Bound, Calls(t), out)
  <2> DEFINE s == Calls(stack)
  <2>1. Delivering(stream, First, Bound, s, out)
    BY DEF PInv
  <2>2. /\ Inner(s).location \in 0 .. (Len(stream.enc) - 1)
        /\ l = count(stream.enc[Inner(s).location + 1])
        /\ IsPointer(stream.enc[Inner(s).location + 1]) /\ Inner(s).count > l
        /\ g.location = Inner(s).location + 1 /\ g.count = Inner(s).count
        /\ g.len = l /\ f.count = l /\ f.location = Source(stream.enc, Inner(s).location)
    BY <1>1, <1>2, <1>3, <1>9, <1>10
  <2> HIDE DEF s
  <2>3. Delivering(stream, First, Bound, Append([s EXCEPT ![Len(s)] = g], f), out)
    BY <1>4, <2>1, <2>2, CallCalls, Zenon
  <2> QED  BY <1>8, <2>3 DEF s
<1>12. t # << >>
  BY <1>2, <1>6
<1> QED  BY <1>1, <1>6, <1>11, <1>12, PySilently

LEMMA PyEnds ==
  ASSUME PInv, P!Return
  PROVE  /\ P!Depth # 1 => P!Top.needed = 0
         /\ P!Depth = 1 => Position = Bound \/ Position = Len(stream.text)
<1> DEFINE c == Calls(stack)
<1>1. /\ P!Depth = Len(c) /\ Len(stream.enc) \in Nat /\ P!Top.start \in Int
      /\ Inner(c).location = P!Top.start /\ Inner(c).count = P!Top.needed
  BY PyKnown
<1>2. P!Top.needed = 0 \/ P!Top.start >= Len(stream.enc)
  BY DEF P!Return, P!Leave, P!slen, P!s
<1>3. Delivering(stream, First, Bound, c, out)
  BY DEF PInv
<1>4. Inner(c).count = 0 \/ Inner(c).location \notin 0 .. (Len(stream.enc) - 1)
  BY <1>1, <1>2
<1> HIDE DEF c
<1>5. /\ Len(c) # 1 => Inner(c).count = 0
      /\ Len(c) = 1 => First + Len(out) = Bound \/ First + Len(out) = Len(stream.text)
  BY <1>3, <1>4, CallEnds
<1> QED  BY <1>1, <1>5 DEF Position

(* A call that returns to another has put out all it was asked for, which  *)
(* is what it reports.                                                     *)
LEMMA PyReports ==
  ASSUME PInv, P!Return, P!Depth # 1
  PROVE  /\ P!Top.howmany - P!Top.needed = P!Top.howmany
         /\ P!Depth - 1 \in 1 .. Len(stack) /\ P!Depth >= 2
         /\ stack[P!Depth - 1].needed - P!Top.howmany \in Nat
<1> DEFINE d == P!Depth - 1
           c == Calls(stack)
<1>1. /\ stack \in Seq(PyFrame) /\ P!Depth = Len(stack) /\ P!Depth \in Nat /\ P!Depth >= 1
      /\ P!Top = stack[P!Depth] /\ P!Top.howmany \in Nat /\ Len(c) = Len(stack)
  BY PyKnown
<1>2. P!Top.needed = 0
  BY PyEnds
<1>3. d \in 1 .. Len(stack) /\ P!Depth >= 2 /\ P!Depth \in 2 .. Len(stack) /\ d < Len(stack)
      /\ d + 1 = P!Depth
  BY <1>1
<1>4. c[d] = [location |-> stack[d].start, count |-> stack[d].needed,
              len |-> stack[d + 1].howmany]
  BY <1>1, <1>3, CallsFacts
<1>5. c[d].count = stack[d].needed /\ c[d].len = P!Top.howmany
  BY <1>1, <1>3, <1>4
<1>6. Chain(c)
  BY Known DEF PInv, Good
<1>7. c[d].len < c[d].count
  BY <1>1, <1>3, <1>6 DEF Chain
<1>8. stack[d].needed \in Nat
  BY <1>1, <1>3, PyFrameTypes
<1>9. stack[d].needed - P!Top.howmany \in Nat
  BY <1>1, <1>5, <1>7, <1>8
<1> QED  BY <1>1, <1>2, <1>3, <1>9

LEMMA PyReturn == PInv /\ P!Return => PInv'
<1> SUFFICES ASSUME PInv, P!Return PROVE PInv'
  OBVIOUS
<1> DEFINE d == P!Depth - 1
           r == P!Top.howmany - P!Top.needed
           v == SubSeq(stack, 1, d)
           t == [v EXCEPT ![d].needed = @ - r]
<1>1. /\ UNCHANGED <<stream, from, limit, out>>
      /\ \/ P!Depth = 1 /\ pc' = "done" /\ stack' = stack
         \/ P!Depth # 1 /\ pc' = pc /\ stack' = t
  BY DEF P!Return, P!Leave
<1>2. CASE P!Depth = 1 /\ pc' = "done" /\ stack' = stack
  <2>1. First' = First /\ Bound' = Bound /\ Position' = Position
    BY <1>1 DEF First, Bound, Position
  <2>2. Position = Bound \/ Position = Len(stream.text)
    BY <1>2, PyEnds
  <2> QED  BY <1>1, <1>2, <2>1, <2>2 DEF PInv
<1>3. CASE P!Depth # 1 /\ pc' = pc /\ stack' = t
  <2> DEFINE n == stack[d].needed - r
  <2>1. /\ stack \in Seq(PyFrame) /\ P!Depth = Len(stack) /\ P!Depth \in Nat
        /\ P!Top = stack[P!Depth] /\ Len(Calls(stack)) = Len(stack)
        /\ Inner(Calls(stack)).count = P!Top.needed
    BY PyKnown
  <2>2. /\ r = stack[Len(stack)].howmany /\ d \in 1 .. Len(stack) /\ Len(stack) >= 2
        /\ n \in Nat /\ d = Len(stack) - 1 /\ d \in Nat /\ d >= 1 /\ d \in 1 .. d
    BY <1>3, <2>1, PyReports
  <2>3. P!Top.needed = 0
    BY <1>3, PyEnds
  <2> HIDE DEF r, d, v
  <2>4. /\ v \in Seq(PyFrame) /\ Len(v) = d /\ \A k \in 1 .. d : v[k] = stack[k]
    BY <2>1, <2>2 DEF v
  <2>5. /\ stack[d] \in PyFrame
        /\ [stack[d] EXCEPT !.needed = n]
             = [start |-> stack[d].start, howmany |-> stack[d].howmany, needed |-> n]
        /\ [stack[d] EXCEPT !.needed = n] \in PyFrame
    <3>1. stack[d] \in PyFrame
      BY <2>1, <2>2
    <3>2. \A g \in PyFrame : /\ [g EXCEPT !.needed = n]
                                 = [start |-> g.start, howmany |-> g.howmany, needed |-> n]
                            /\ [g EXCEPT !.needed = n] \in PyFrame
      BY <2>2 DEF PyFrame
    <3> QED  BY <3>1, <3>2
  <2>6. t = [v EXCEPT ![d] = [stack[d] EXCEPT !.needed = n]]
    BY <2>2, <2>4
  <2> HIDE DEF t
  <2>7. /\ t \in Seq(PyFrame) /\ Len(t) = d
        /\ \A k \in 1 .. d : k # d => t[k] = stack[k]
        /\ t[d] = [stack[d] EXCEPT !.needed = n]
    BY <2>2, <2>4, <2>5, <2>6
  <2>8. /\ t[d].start = stack[d].start /\ t[d].howmany = stack[d].howmany
        /\ t[d].needed = stack[d].needed - stack[Len(stack)].howmany
    BY <2>2, <2>5, <2>7
  <2> DEFINE s == Calls(stack)
             u == [SubSeq(s, 1, Len(s) - 1) EXCEPT ![Len(s) - 1].count = @ - s[Len(s) - 1].len]
             f == [location |-> t[Len(t)].start, count |-> t[Len(t)].needed, len |-> 0]
  <2>9. /\ Len(u) = Len(t) /\ u[Len(u)].location = t[Len(t)].start
        /\ u[Len(u)].count = t[Len(t)].needed
        /\ Calls(t) = [u EXCEPT ![Len(u)] = f]
    <3>1. /\ Len(t) = Len(stack) - 1
          /\ \A k \in 1 .. Len(t) : k # Len(t) => t[k] = stack[k]
          /\ t[Len(t)].start = stack[Len(t)].start /\ t[Len(t)].howmany = stack[Len(t)].howmany
          /\ t[Len(t)].needed = stack[Len(t)].needed - stack[Len(stack)].howmany
      BY <2>2, <2>7, <2>8
    <3> QED  BY <2>1, <2>2, <2>7, <3>1, CallsPop
  <2>10. f \in Frame /\ f.location = t[Len(t)].start /\ f.count = t[Len(t)].needed
    <3>1. t[Len(t)] \in PyFrame
      BY <2>2, <2>7
    <3> QED  BY <3>1, FrameTypes, PyFrameTypes
  <2> HIDE DEF s, f
  <2>11. Delivering(stream, First, Bound, u, out)
    <3>1. Delivering(stream, First, Bound, s, out)
      BY DEF PInv, s
    <3>2. Len(s) # 1 /\ Inner(s).count = 0
      BY <2>1, <2>2, <2>3 DEF s
    <3> QED  BY <3>1, <3>2, CallReturns
  <2> HIDE DEF u
  <2>12. Delivering(stream, First, Bound, Calls(t), out)
    <3>1. f.location = Inner(u).location /\ f.count = Inner(u).count
      BY <2>9, <2>10 DEF Inner
    <3>2. Delivering(stream, First, Bound, [u EXCEPT ![Len(u)] = f], out)
      BY <2>10, <2>11, <3>1, CallForgets
    <3> QED  BY <2>9, <3>2
  <2>13. t # << >>
    BY <2>2, <2>7
  <2> QED  BY <1>1, <1>3, <2>7, <2>12, <2>13, PySilently
<1> QED  BY <1>1, <1>2, <1>3

LEMMA StepPInv == PInv /\ [P!Next]_(P!vars) => PInv'
<1> SUFFICES ASSUME PInv, [P!Next]_(P!vars) PROVE PInv'
  OBVIOUS
<1>1. CASE UNCHANGED P!vars
  BY <1>1 DEF P!vars, PInv, First, Position, Bound
<1> QED  BY <1>1, PyLiterally, PyJump, PyRecurse, PyReturn DEF P!Next

-----------------------------------------------------------------------------
(***************************************************************************)
(* Either of them.                                                         *)
(***************************************************************************)
AInv ==
  \/ program = "tiny" /\ TInv
  \/ program = "python" /\ PInv

(* Whenever a decoder runs, what the stream yields from where its calls    *)
(* stand is what is still to come.                                         *)
THEOREM AccessInvariance == ASpec => []AInv
<1>1. AInit => AInv
  BY InitTInv, InitPInv DEF AInit, AInv
<1>2. AInv /\ [ANext]_all => AInv'
  <2> SUFFICES ASSUME AInv, [ANext]_all PROVE AInv'
    OBVIOUS
  <2>1. CASE Tiny
    BY <2>1, StepTInv DEF Tiny, AInv
  <2>2. CASE Python
    BY <2>2, StepPInv DEF Python, AInv
  <2>3. CASE UNCHANGED all
    <3>1. UNCHANGED <<vars, program>> /\ UNCHANGED P!vars
      BY <2>3 DEF all, vars, P!vars
    <3> QED  BY <3>1, StepTInv, StepPInv DEF AInv
  <2> QED  BY <2>1, <2>2, <2>3 DEF ANext
<1> QED  BY <1>1, <1>2, PTL DEF ASpec

(* The depth of the recursion is bounded by the longest match: a call is   *)
(* made only when more than len characters are needed (tiny_lzjwm.c:28,    *)
(* lzjwm.py:182).                                                          *)
THEOREM DepthIsBounded == ASpec => []DepthBound
<1>1. AInv => DepthBound
  <2>1. ASSUME TInv PROVE DepthBound
    <3>1. Good(stack)
      BY <2>1, Known DEF TInv
    <3> QED  BY <3>1, DepthOfCalls DEF DepthBound, Depth
  <2>2. ASSUME PInv PROVE DepthBound
    <3>1. Good(Calls(stack))
      BY <2>2, Known DEF PInv
    <3>2. Len(Calls(stack)) = Len(stack)
      BY <2>2, PyKnown
    <3>3. Len(Calls(stack)) - 1 <= MAX_ZERO_MATCH - 1
      BY <3>1, DepthOfCalls
    <3> QED  BY <3>2, <3>3 DEF DepthBound, Depth
  <2> QED  BY <2>1, <2>2 DEF AInv
<1> QED  BY AccessInvariance, <1>1, PTL

(* A call that still needs characters reads in its data, so that the model *)
(* leaves no step of the code out: none of the minimal decoder             *)
(* (tiny_lzjwm.c:20) and none of the Python one, for which a negative      *)
(* start would be an index from the end (lzjwm.py:174).                    *)
ReadsInData ==
  /\ program = "tiny" /\ Top.count > 0 => Top.location \in 0 .. Len(stream.enc)
  /\ program = "python" /\ P!Top.needed > 0 => P!Top.start >= 0

THEOREM AlwaysReadsInData == ASpec => []ReadsInData
<1>1. AInv => ReadsInData
  <2>1. ASSUME NEW c, Delivering(stream, First, Bound, c, out)
        PROVE  Inner(c).location \in 0 .. Len(stream.enc)
    <3>1. PICK Q : Tracks(stream, c, Q, First + Len(out), Bound)
      BY <2>1 DEF Delivering
    <3> QED  BY <2>1, <3>1, Running DEF Yields
  <2>2. ASSUME TInv PROVE Top.location \in 0 .. Len(stream.enc)
    BY <2>2, TinyInside
  <2>3. ASSUME PInv PROVE P!Top.start >= 0
    <3>1. /\ Delivering(stream, First, Bound, Calls(stack), out)
          /\ Inner(Calls(stack)).location = P!Top.start /\ Len(stream.enc) \in Nat
      BY <2>3, PyKnown DEF PInv
    <3>2. P!Top.start \in 0 .. Len(stream.enc)
      BY <2>1, <3>1
    <3> QED  BY <3>1, <3>2
  <2>4. ~(program = "tiny" /\ program = "python")
    OBVIOUS
  <2> QED  BY <2>2, <2>3, <2>4 DEF AInv, ReadsInData
<1> QED  BY AccessInvariance, <1>1, PTL

-----------------------------------------------------------------------------
(* What was asked for.                                                     *)
LEMMA RequestedFacts ==
  ASSUME from \in 0 .. Len(stream.enc), limit \in Nat, IsStream(stream)
  PROVE  /\ Requested \in Seq(Byte) /\ Len(Requested) \in Nat
         /\ Len(Requested) <= limit /\ First + Len(Requested) <= Len(stream.text)
         /\ Len(Requested) = limit \/ First + Len(Requested) = Len(stream.text)
         /\ \A k \in 1 .. Len(Requested) : Requested[k] = stream.text[First + k]
<1> DEFINE room == Len(stream.text) - First
           n == IF room < limit THEN room ELSE limit
<1>1. /\ stream.text \in Seq(Byte) /\ Len(stream.text) \in Nat
      /\ First \in 0 .. Len(stream.text)
  BY StreamFacts DEF First, IsStream
<1>2. n \in Nat /\ n <= limit /\ First + n <= Len(stream.text)
      /\ (n = limit \/ First + n = Len(stream.text))
  BY <1>1
<1>3. Requested = SubSeq(stream.text, First + 1, First + n)
  BY DEF Requested, First
<1> HIDE DEF n
<1>4. /\ Requested \in Seq(Byte) /\ Len(Requested) = n
      /\ \A k \in 1 .. n : Requested[k] = stream.text[First + k]
  <2>1. /\ First + 1 \in Int /\ First + n \in Int /\ (First + n) - (First + 1) + 1 = n
        /\ (First + 1 <= First + n <=> n # 0)
        /\ \A i \in (First + 1) .. (First + n) : i \in 1 .. Len(stream.text)
        /\ \A k \in 1 .. n : (First + 1) + k - 1 = First + k
    BY <1>1, <1>2
  <2>2. \A i \in (First + 1) .. (First + n) : stream.text[i] \in Byte
    BY <1>1, <2>1
  <2>3. /\ Requested \in Seq(Byte)
        /\ Len(Requested) = IF First + 1 <= First + n
                            THEN (First + n) - (First + 1) + 1 ELSE 0
        /\ \A k \in 1 .. ((First + n) - (First + 1) + 1) :
             Requested[k] = stream.text[(First + 1) + k - 1]
    BY <1>3, <2>1, <2>2, SubSeqProperties
  <2> QED  BY <1>2, <2>1, <2>3
<1> QED  BY <1>2, <1>4

LEMMA DeliveryStart == AInit => D!Init
<1> SUFFICES ASSUME AInit PROVE D!Init
  OBVIOUS
<1>1. /\ from \in 0 .. Len(stream.enc) /\ limit \in Nat /\ pc = "run" /\ out = << >>
      /\ IsStream(stream)
  BY LimitsAssumption, StreamsAssumption DEF AInit, Init, P!Init, P!slen, P!s
<1>2. Requested \in Seq(Byte)
  BY <1>1, RequestedFacts
<1> QED  BY <1>1, <1>2 DEF D!Init

(* The next character that was asked for comes out, or all of them are.    *)
LEMMA DeliveryNext ==
  ASSUME NEW c, Delivering(stream, First, Bound, c, out),
         from \in 0 .. Len(stream.enc), limit \in Nat,
         UNCHANGED <<stream, from, limit>>, pc = "run",
         \/ /\ Position < Len(stream.text) /\ Position < Bound /\ pc' # "done"
            /\ out' = Append(out, stream.text[Position + 1])
         \/ out' = out /\ pc' # "done"
         \/ /\ out' = out /\ pc' = "done"
            /\ Position = Bound \/ Position = Len(stream.text)
  PROVE  [D!Next]_(D!vars)
<1>1. Requested' = Requested
  BY DEF Requested
<1>2. IsStream(stream)
  BY Known
<1>3. /\ Requested \in Seq(Byte) /\ Len(Requested) \in Nat
      /\ Len(Requested) <= limit /\ First + Len(Requested) <= Len(stream.text)
      /\ Len(Requested) = limit \/ First + Len(Requested) = Len(stream.text)
      /\ \A k \in 1 .. Len(Requested) : Requested[k] = stream.text[First + k]
  BY <1>2, RequestedFacts
<1>4. /\ out \in Seq(Byte) /\ Len(out) \in Nat /\ First \in Nat
      /\ Len(stream.text) \in Nat
      /\ Position = First + Len(out) /\ Bound = First + limit
  BY Known DEF Position, Bound
<1>5. /\ Position <= Len(stream.text)
      /\ \A k \in 1 .. Len(out) : out[k] = stream.text[First + k]
  BY DEF Delivering, Position
<1>6. CASE /\ Position < Len(stream.text) /\ Position < Bound /\ pc' # "done"
           /\ out' = Append(out, stream.text[Position + 1])
  <2>1. Len(out) < Len(Requested)
    BY <1>3, <1>4, <1>6
  <2>2. stream.text[Position + 1] = Requested[Len(out) + 1]
    <3>1. Len(out) + 1 \in 1 .. Len(Requested) /\ First + (Len(out) + 1) = Position + 1
      BY <1>3, <1>4, <2>1
    <3> QED  BY <1>3, <3>1
  <2> QED  BY <1>1, <1>6, <2>1, <2>2 DEF D!Next, D!Deliver
<1>7. CASE out' = out /\ pc' # "done"
  BY <1>1, <1>7 DEF D!vars
<1>8. CASE /\ out' = out /\ pc' = "done"
           /\ Position = Bound \/ Position = Len(stream.text)
  <2>1. Position <= Bound
    <3>1. PICK Q : Tracks(stream, c, Q, First + Len(out), Bound)
      BY DEF Delivering
    <3> QED  BY <3>1, Running DEF Position
  <2>2. Len(out) = Len(Requested)
    BY <1>3, <1>4, <1>5, <1>8, <2>1
  <2>3. out = Requested
    <3>1. \A k \in 1 .. Len(out) : out[k] = Requested[k]
      BY <1>3, <1>5, <2>2
    <3> QED  BY <1>3, <1>4, <2>2, <3>1
  <2> QED  BY <1>1, <1>8, <2>3 DEF D!Next, D!End
<1> QED  BY <1>6, <1>7, <1>8

(* Each step puts out the next of the characters asked for or none, and    *)
(* either decoder returns when all of them are out (tiny_lzjwm.c:11-12):   *)
(* what Delivery asks, but for its fairness.                               *)
THEOREM DeliversFrom == ASpec => D!Init /\ [][D!Next]_(D!vars)
<1>1. ASSUME AInv, Tiny PROVE [D!Next]_(D!vars)
  <2>1. TInv /\ Next
    BY <1>1 DEF AInv, Tiny
  <2>2. /\ Delivering(stream, First, Bound, stack, out)
        /\ from \in 0 .. Len(stream.enc) /\ limit \in Nat
    BY <2>1 DEF TInv
  <2>3. UNCHANGED <<stream, from, limit>> /\ pc = "run"
    BY <2>1 DEF Next, Literally, Recurse, Enter, Jump, GoTo, Return, Looping
  <2>4. CASE Literally
    <3>1. pc' = pc /\ out' = Append(out, ch)
      BY <2>4 DEF Literally
    <3>2. Position < Len(stream.text) /\ Position < Bound /\ ch = stream.text[Position + 1]
      BY <2>1, <2>4, TinyLiterally
    <3> QED  BY <2>2, <2>3, <3>1, <3>2, DeliveryNext
  <2>5. CASE Recurse \/ Jump
    <3>1. out' = out /\ pc' = pc
      BY <2>5 DEF Recurse, Enter, Jump, GoTo
    <3> QED  BY <2>2, <2>3, <3>1, DeliveryNext
  <2>6. CASE Return
    <3>1. out' = out /\ (pc' # "done" \/ (pc' = "done" /\ Depth = 1))
      BY <2>3, <2>6 DEF Return
    <3>2. Depth = 1 => Position = Bound \/ Position = Len(stream.text)
      BY <2>1, <2>6, TinyEnds
    <3> QED  BY <2>2, <2>3, <3>1, <3>2, DeliveryNext
  <2> QED  BY <2>1, <2>4, <2>5, <2>6 DEF Next
<1>2. ASSUME AInv, Python PROVE [D!Next]_(D!vars)
  <2>1. PInv /\ P!Next
    BY <1>2 DEF AInv, Python
  <2>2. /\ Delivering(stream, First, Bound, Calls(stack), out)
        /\ from \in 0 .. Len(stream.enc) /\ limit \in Nat
    BY <2>1 DEF PInv
  <2>3. UNCHANGED <<stream, from, limit>> /\ pc = "run"
    BY <2>1 DEF P!Next, P!Literally, P!Recurse, P!Enter, P!Jump, P!GoTo, P!Return, P!Leave,
                P!Looping
  <2>4. CASE P!Literally
    <3>1. pc' = pc /\ out' = Append(out, P!ch)
      BY <2>4 DEF P!Literally
    <3>2. /\ Position < Len(stream.text) /\ Position < Bound
          /\ P!ch = stream.text[Position + 1]
      BY <2>1, <2>4, PyLiterally
    <3> QED  BY <2>2, <2>3, <3>1, <3>2, DeliveryNext
  <2>5. CASE P!Recurse \/ P!Jump
    <3>1. out' = out /\ pc' = pc
      BY <2>5 DEF P!Recurse, P!Enter, P!Jump, P!GoTo
    <3> QED  BY <2>2, <2>3, <3>1, DeliveryNext
  <2>6. CASE P!Return
    <3>1. out' = out /\ (pc' # "done" \/ (pc' = "done" /\ P!Depth = 1))
      BY <2>3, <2>6 DEF P!Return, P!Leave
    <3>2. P!Depth = 1 => Position = Bound \/ Position = Len(stream.text)
      BY <2>1, <2>6, PyEnds
    <3> QED  BY <2>2, <2>3, <3>1, <3>2, DeliveryNext
  <2> QED  BY <2>1, <2>4, <2>5, <2>6 DEF P!Next
<1>3. ASSUME UNCHANGED all PROVE [D!Next]_(D!vars)
  <2>1. UNCHANGED <<stream, from, limit, out, pc>>
    BY <1>3 DEF all, vars
  <2>2. Requested' = Requested
    BY <2>1 DEF Requested
  <2> QED  BY <2>1, <2>2 DEF D!vars
<1>4. AInv /\ [ANext]_all => [D!Next]_(D!vars)
  BY <1>1, <1>2, <1>3 DEF ANext
<1> QED  BY DeliveryStart, <1>4, AccessInvariance, PTL DEF ASpec
=============================================================================
