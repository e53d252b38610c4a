-------------------------- MODULE CompressorProofs --------------------------
(***************************************************************************)
(* Proofs about Compressor: the list surgery of the encoder is right for   *)
(* every input, every window and every longest match, and so is what it    *)
(* writes.  See IInv, and OInv for the output, for the inductive           *)
(* invariants; there is a lemma for each action that preserves them.       *)
(***************************************************************************)
EXTENDS Compressor, LZFormatProofs, FiniteSetTheorems

(* The fields of a node, as operators: the provers take better to these.   *)
Size(x) == as[x].count
Succ(x) == as[x].next
From(x) == as[x].from

(* No node crosses position b: nodes before b end at or before it.         *)
Boundary(b) == \A y \in 0 .. (b - 1) : y + Size(y) <= b

(* What next holds for the position b.                                     *)
Link(b) == IF b = isize THEN -1 ELSE b

(* Every node, on the list or not, ends inside the input and points to     *)
(* where it ends.                                                          *)
Tiles ==
  \A x \in Nodes :
    /\ Size(x) >= 1
    /\ x + Size(x) <= isize
    /\ Succ(x) = Link(x + Size(x))

(* Two nodes are disjoint, or the later one lies inside the earlier one.   *)
Nested ==
  \A x \in Nodes, y \in Nodes :
    y < x => y + Size(y) <= x \/ x + Size(x) <= y + Size(y)

(* A pointer that is not emitted yet has a faithful copy on the list       *)
(* before it, and at or before dptr.                                       *)
Sources ==
  \A x \in Nodes :
    Size(x) >= 2 /\ (pc = "emit" => x >= cur) =>
      /\ From(x) <= dptr
      /\ From(x) < x
      /\ Boundary(From(x))
      /\ SameText(From(x), x, Size(x))

Preparing == pc = "prepare" => dptr = 0 /\ cl = 0 /\ cur = 0 /\ out = << >>

Scanning ==
  pc \in {"scan", "prune"} =>
    /\ Boundary(dptr) /\ Boundary(cl)
    /\ dptr <= cl
    /\ cur = 0 /\ out = << >>

Pruning ==
  pc = "prune" =>
    /\ dptr < cl
    /\ cl + m <= isize
    /\ SameText(dptr, cl, m)
    /\ i < LOOKBACK
    /\ d <= j /\ j <= m
    /\ Boundary(cl + j)
    /\ nn = Link(cl + j)

Emitting ==
  pc = "emit" => Boundary(cur) /\ Len(out) <= cur

IInv ==
  /\ TypeOK
  /\ Listed => Tiles /\ Nested
  /\ Listed /\ pc # "done" => Sources
  /\ Preparing /\ Scanning /\ Pruning /\ Emitting

-----------------------------------------------------------------------------
(***************************************************************************)
(* The proofs do not need to know which match the encoder takes, nor when  *)
(* it stops swallowing nodes: they are about the steps of an encoder that  *)
(* is free to take any match within its limits, and the Python encoder,    *)
(* which stops at a NUL or at a record, takes such steps too.              *)
(***************************************************************************)
FreeCompare ==
  /\ pc = "scan"
  /\ i < LOOKBACK
  /\ Succ(cl) >= 0
  /\ cl' = Succ(cl)
  /\ \E n \in 0 .. (IF i = 0 THEN MAX_ZERO_MATCH ELSE MAX_MATCH) :
       /\ cl' + n <= isize
       /\ SameText(dptr, cl', n)
       /\ IF n >= 2
          THEN /\ pc' = "prune" /\ m' = n /\ nn' = cl' /\ d' = 0 /\ j' = 0
               /\ i' = i
          ELSE i' = i + 1 /\ UNCHANGED <<pc, m, nn, d, j>>
  /\ UNCHANGED <<in, as, dptr, cur, out>>

FreeReplace ==
  /\ pc = "prune"
  /\ as' = IF d >= 2
           THEN [as EXCEPT ![cl] = [next |-> nn, from |-> dptr, count |-> uint8(j)]]
           ELSE as
  /\ i' = i + 1
  /\ pc' = "scan"
  /\ UNCHANGED <<in, dptr, cl, m, nn, d, j, cur, out>>

FreeNext ==
  \/ Reject \/ PrepareNothing \/ Prepare
  \/ FreeCompare \/ Advance
  \/ Swallow \/ FreeReplace
  \/ Emit

LEMMA MatchSpec ==
  ASSUME in \in Seq(Byte), NEW x \in Nodes, NEW y \in Nodes, NEW mm \in Nat
  PROVE  /\ match(x, y, mm) \in 0 .. mm
         /\ x + match(x, y, mm) <= isize
         /\ y + match(x, y, mm) <= isize
         /\ SameText(x, y, match(x, y, mm))
<1> DEFINE room == IF x > y THEN isize - x ELSE isize - y
           limit == IF room > mm THEN mm ELSE room
           Stop(n) == n = limit \/ in[x + n + 1] # in[y + n + 1]
           S == {n \in 0 .. limit : Stop(n)}
<1>1. isize \in Nat /\ x \in 0 .. (isize - 1) /\ y \in 0 .. (isize - 1)
  BY DEF isize, Nodes
<1>2. limit \in 0 .. mm /\ x + limit <= isize /\ y + limit <= isize
  BY <1>1
<1> HIDE DEF limit
<1>3. PICK n \in S : \A k \in S : <<k, n>> \notin OpToRel(<, Nat)
  <2>1. IsWellFoundedOn(OpToRel(<, Nat), Nat)
    BY NatLessThanWellFounded
  <2>2. S \subseteq Nat /\ limit \in S
    BY <1>2
  <2> QED  BY <2>1, <2>2, WFMin
<1>4. SameText(x, y, n)
  <2>1. n \in 0 .. limit
    BY <1>3
  <2>2. SUFFICES ASSUME NEW k \in 1 .. n PROVE in[x + k] = in[y + k]
    BY DEF SameText
  <2>3. k - 1 \in 0 .. limit /\ k - 1 < n /\ k - 1 \in Nat /\ n \in Nat
    BY <2>1, <1>2
  <2>4. k - 1 \notin S
    BY <1>3, <2>3 DEF OpToRel
  <2>5. in[x + (k - 1) + 1] = in[y + (k - 1) + 1]
    BY <2>3, <2>4
  <2>6. x + (k - 1) + 1 = x + k /\ y + (k - 1) + 1 = y + k
    BY <1>1, <2>3
  <2> QED  BY <2>5, <2>6
<1>5. n \in 0 .. limit /\ (n < limit => in[x + n + 1] # in[y + n + 1])
  BY <1>2
<1>6. \E r \in 0 .. limit :
        /\ SameText(x, y, r)
        /\ r < limit => in[x + r + 1] # in[y + r + 1]
  BY <1>4, <1>5
<1>7. match(x, y, mm) = CHOOSE r \in 0 .. limit :
        /\ SameText(x, y, r)
        /\ r < limit => in[x + r + 1] # in[y + r + 1]
  BY DEF match, limit
<1>8. match(x, y, mm) \in 0 .. limit /\ SameText(x, y, match(x, y, mm))
  BY <1>6, <1>7
<1> DEFINE r == match(x, y, mm)
<1>9. r \in 0 .. limit /\ SameText(x, y, r)
  BY <1>8
<1> HIDE DEF r
<1>10. isize \in Nat
  BY <1>1
<1>11. r \in 0 .. mm /\ x + r <= isize /\ y + r <= isize
  BY <1>1, <1>2, <1>9, <1>10
<1> QED  BY <1>9, <1>11 DEF r


(* The match is the only number of characters that agree and at which      *)
(* something ends: the limit, the input or the agreement.                  *)
LEMMA MatchIsUnique ==
  ASSUME in \in Seq(Byte), NEW x \in Nodes, NEW y \in Nodes, NEW mm \in Nat, NEW n \in 0 .. mm,
         x + n <= isize, y + n <= isize, SameText(x, y, n),
         \/ n = mm \/ x + n = isize \/ y + n = isize
         \/ in[x + n + 1] # in[y + n + 1]
  PROVE  match(x, y, mm) = n
<1> DEFINE room == IF x > y THEN isize - x ELSE isize - y
           limit == IF room > mm THEN mm ELSE room
           P(r) == /\ SameText(x, y, r)
                   /\ r < limit => in[x + r + 1] # in[y + r + 1]
<1>1. isize \in Nat /\ x \in 0 .. (isize - 1) /\ y \in 0 .. (isize - 1)
  BY DEF isize, Nodes
<1>2. n \in 0 .. limit /\ (n = mm \/ x + n = isize \/ y + n = isize => n = limit)
      /\ limit \in Nat
  BY <1>1
<1>3. match(x, y, mm) = CHOOSE r \in 0 .. limit : P(r)
  BY DEF match
<1> HIDE DEF limit
<1>4. P(n)
  BY <1>1, <1>2
<1>5. ASSUME NEW r \in 0 .. limit, P(r) PROVE r = n
  <2>1. ASSUME r < n PROVE FALSE
    <3>1. r + 1 \in 1 .. n /\ r < limit /\ x + (r + 1) = x + r + 1 /\ y + (r + 1) = y + r + 1
      BY <1>1, <1>2, <2>1
    <3>2. in[x + (r + 1)] = in[y + (r + 1)]
      BY <3>1 DEF SameText
    <3> QED  BY <1>5, <3>1, <3>2
  <2>2. ASSUME n < r PROVE FALSE
    <3>1. n + 1 \in 1 .. r /\ n < limit /\ x + (n + 1) = x + n + 1 /\ y + (n + 1) = y + n + 1
      BY <1>1, <1>2, <2>2
    <3>2. in[x + (n + 1)] = in[y + (n + 1)]
      BY <1>5, <3>1 DEF SameText
    <3> QED  BY <1>4, <3>1, <3>2
  <2> QED  BY <1>2, <2>1, <2>2
<1>6. match(x, y, mm) \in 0 .. limit /\ P(match(x, y, mm))
  <2> HIDE DEF P
  <2> QED  BY <1>2, <1>3, <1>4
<1> HIDE DEF P
<1> QED  BY <1>5, <1>6

LEMMA InitInv == Init => IInv
<1> SUFFICES ASSUME Init PROVE IInv
  OBVIOUS
<1>1. in \in Seq(Byte)
  BY InputsAssumption DEF Init
<1>2. isize \in Nat
  BY <1>1 DEF isize
<1>3. TypeOK
  BY <1>1, <1>2, FormatBounds DEF Init, TypeOK, Listed
<1>4. ~Listed /\ Preparing /\ Scanning /\ Pruning /\ Emitting
  BY DEF Init, Listed, Preparing, Scanning, Pruning, Emitting
<1> QED  BY <1>3, <1>4 DEF IInv

(***************************************************************************)
(* A step that leaves the input and the list alone keeps what is said of   *)
(* the list only.                                                          *)
(***************************************************************************)
LEMMA SameList ==
  ASSUME UNCHANGED <<in, as>>
  PROVE  /\ isize' = isize /\ Nodes' = Nodes /\ Node' = Node
         /\ Tiles' <=> Tiles
         /\ Nested' <=> Nested
         /\ \A x : Size(x)' = Size(x) /\ Succ(x)' = Succ(x) /\ From(x)' = From(x)
         /\ \A b : Boundary(b)' <=> Boundary(b)
         /\ \A b : Link(b)' = Link(b)
         /\ \A x, y, n : SameText(x, y, n)' <=> SameText(x, y, n)
BY DEF isize, Nodes, Node, Size, Succ, From, Tiles, Nested, Boundary, Link, SameText

(* The calls that end before the list is there.                            *)
LEMMA EndStep == TypeOK /\ (Reject \/ PrepareNothing) => IInv'
<1> SUFFICES ASSUME TypeOK, Reject \/ PrepareNothing PROVE IInv'
  OBVIOUS
<1>1. UNCHANGED <<in, as, dptr, cl, i, m, nn, d, j, cur, out>>
  BY DEF Reject, PrepareNothing
<1>2. pc' \in {"rejected", "undefined"}
  BY DEF Reject, PrepareNothing
<1>3. TypeOK'
  BY <1>1, <1>2 DEF TypeOK, Listed, isize
<1>4. (~Listed /\ Preparing /\ Scanning /\ Pruning /\ Emitting)'
  BY <1>2 DEF Listed, Preparing, Scanning, Pruning, Emitting
<1> QED  BY <1>3, <1>4 DEF IInv

LEMMA PrepareStep == TypeOK /\ Preparing /\ Prepare => IInv'
<1> SUFFICES ASSUME TypeOK, Preparing, Prepare PROVE IInv'
  OBVIOUS
<1>1. /\ in' = in /\ out' = << >> /\ dptr' = 0 /\ cl' = 0 /\ cur' = 0 /\ pc' = "scan"
      /\ UNCHANGED <<out, dptr, cl, i, m, nn, d, j, cur>>
  BY DEF Prepare, Preparing
<1>2. isize \in Nat /\ isize > 0 /\ isize' = isize /\ Nodes' = Nodes /\ Node' = Node
  BY <1>1 DEF isize, Nodes, Node, TypeOK, Prepare
<1>3. as' = [x \in Nodes |-> [next |-> IF x = isize - 1 THEN -1 ELSE x + 1,
                              from |-> 0, count |-> 1]]
  BY DEF Prepare
<1>4. \A x \in Nodes : in[x + 1] \in Literal
  <2> SUFFICES ASSUME NEW x \in Nodes PROVE in[x + 1] \in Literal
    OBVIOUS
  <2>1. in[x + 1] \in Byte
    BY <1>2 DEF TypeOK, Nodes, isize
  <2>2. ~IsPointer(in[x + 1])
    BY DEF Prepare
  <2> QED  BY <2>1, <2>2, FormatBounds DEF Byte, Literal, IsPointer
<1>5. as' \in [Nodes -> Node]
  <2> SUFFICES ASSUME NEW x \in Nodes
               PROVE  [next |-> IF x = isize - 1 THEN -1 ELSE x + 1,
                       from |-> 0, count |-> 1] \in Node
    BY <1>3
  <2> QED  BY <1>2, FormatBounds DEF Node, Nodes, Byte
<1>6. TypeOK'
  BY <1>1, <1>2, <1>4, <1>5 DEF TypeOK, Listed, Nodes, isize
<1>6a. \A x \in Nodes : /\ Size(x)' = 1 /\ From(x)' = 0
                         /\ Succ(x)' = IF x = isize - 1 THEN -1 ELSE x + 1
  BY <1>3 DEF Size, From, Succ
<1>7. Tiles'
  BY <1>2, <1>6a DEF Tiles, Link, Nodes
<1>8. Nested'
  BY <1>2, <1>6a DEF Nested, Nodes
<1>9. Sources'
  BY <1>2, <1>6a DEF Sources
<1>10. Preparing' /\ Scanning' /\ Pruning' /\ Emitting'
  BY <1>1 DEF Preparing, Scanning, Pruning, Emitting, Boundary
<1> QED  BY <1>6, <1>7, <1>8, <1>9, <1>10 DEF IInv

(* The types of a node's fields.                                           *)
LEMMA NodeTypes ==
  ASSUME as \in [Nodes -> Node], isize \in Nat
  PROVE  /\ \A x \in Nodes : x \in 0 .. (isize - 1)
         /\ \A x \in 0 .. (isize - 1) : x \in Nodes
         /\ \A x \in Nodes : Size(x) \in Nat
         /\ \A x \in Nodes : Succ(x) \in -1 .. (isize - 1)
         /\ \A x \in Nodes : From(x) \in 0 .. (isize - 1)
<1>1. \A x \in Nodes : as[x] \in Node
  OBVIOUS
<1>2. \A r \in Node : /\ r.count \in Byte
                      /\ r.next \in -1 .. (isize - 1)
                      /\ r.from \in Nodes
  BY DEF Node
<1>3. \A c \in Byte : c \in Nat
  BY FormatBounds DEF Byte
<1>4. Nodes = 0 .. (isize - 1)
  BY DEF Nodes
<1> QED  BY <1>1, <1>2, <1>3, <1>4, Zenon DEF Size, Succ, From

(* The position after a node is a boundary when the node starts at one.    *)
LEMMA NextBoundary ==
  ASSUME isize \in Nat, as \in [Nodes -> Node], Tiles, Nested,
         NEW x \in Nodes, Boundary(x)
  PROVE  /\ x + Size(x) \in 1 .. isize
         /\ x + Size(x) > x
         /\ Boundary(x + Size(x))
         /\ Succ(x) = Link(x + Size(x))
<1>1. /\ x \in 0 .. (isize - 1)
      /\ \A y \in Nodes : y \in 0 .. (isize - 1) /\ Size(y) \in Nat
  BY NodeTypes
<1>2. /\ Size(x) >= 1 /\ x + Size(x) <= isize
      /\ Succ(x) = Link(x + Size(x))
  BY DEF Tiles
<1>4. Boundary(x + Size(x))
  <2> SUFFICES ASSUME NEW y \in 0 .. ((x + Size(x)) - 1)
               PROVE  y + Size(y) <= x + Size(x)
    BY Zenon DEF Boundary
  <2>1. y \in 0 .. (isize - 1)
    BY <1>1, <1>2
  <2>2. y \in Nodes
    BY <2>1, NodeTypes
  <2>3. Size(y) \in Nat /\ Size(x) \in Nat
    BY <1>1, <2>2
  <2>4. CASE y < x
    <3>1. y \in 0 .. (x - 1)
      BY <1>1, <2>1, <2>4
    <3>2. y + Size(y) <= x
      BY <3>1 DEF Boundary
    <3> QED  BY <1>1, <2>1, <2>3, <3>2
  <2>5. CASE y = x
    BY <1>1, <2>3, <2>5
  <2>6. CASE y > x
    <3>1. x + Size(x) <= y \/ y + Size(y) <= x + Size(x)
      BY <2>2, <2>6 DEF Nested
    <3> QED  BY <1>1, <2>1, <2>3, <3>1
  <2> QED  BY <1>1, <2>1, <2>4, <2>5, <2>6
<1>5. x + Size(x) \in 1 .. isize /\ x + Size(x) > x
  <2>1. Size(x) \in Nat
    BY <1>1
  <2> QED  BY <1>1, <1>2, <2>1
<1> QED  BY <1>2, <1>4, <1>5

LEMMA InputSize == in \in Seq(Byte) => isize \in Nat
BY DEF isize

LEMMA CompareStep == IInv /\ FreeCompare => IInv'
<1> SUFFICES ASSUME IInv, FreeCompare PROVE IInv'
  OBVIOUS
<1>1. /\ TypeOK /\ pc = "scan" /\ Listed /\ Tiles /\ Nested /\ Sources
      /\ Boundary(dptr) /\ Boundary(cl) /\ dptr <= cl /\ out = << >> /\ cur = 0
  BY DEF FreeCompare, IInv, Listed, Scanning
<1>2. UNCHANGED <<in, as, dptr, cur, out>>
  BY DEF FreeCompare
<1>3. /\ in \in Seq(Byte) /\ isize \in Nat /\ as \in [Nodes -> Node]
      /\ dptr \in Nodes /\ cl \in Nodes
      /\ Nodes = 0 .. (isize - 1)
  BY <1>1, InputSize DEF TypeOK, Nodes
<1>4. cl' \in Nodes /\ cl' > cl /\ Boundary(cl')
  <2>1. cl' = Succ(cl) /\ Succ(cl) >= 0
    BY DEF FreeCompare, Succ
  <2>2. /\ cl + Size(cl) \in 1 .. isize /\ cl + Size(cl) > cl
        /\ Boundary(cl + Size(cl))
        /\ Succ(cl) = Link(cl + Size(cl))
    BY <1>1, <1>3, NextBoundary
  <2>3. cl' = cl + Size(cl) /\ cl' # isize
    BY <1>3, <2>1, <2>2 DEF Link
  <2> QED  BY <1>3, <2>2, <2>3
<1> DEFINE longest == IF i = 0 THEN MAX_ZERO_MATCH ELSE MAX_MATCH
<1>5. longest \in Nat /\ longest <= MAX_ZERO_MATCH
  BY FormatBounds
<1>6a. PICK n \in 0 .. longest :
         /\ cl' + n <= isize
         /\ SameText(dptr, cl', n)
         /\ IF n >= 2
            THEN /\ pc' = "prune" /\ m' = n /\ nn' = cl' /\ d' = 0 /\ j' = 0
                 /\ i' = i
            ELSE i' = i + 1 /\ UNCHANGED <<pc, m, nn, d, j>>
  BY DEF FreeCompare
<1>6. n \in 0 .. longest /\ cl' + n <= isize /\ SameText(dptr, cl', n)
  BY <1>6a
<1>7. IF n >= 2 THEN /\ pc' = "prune" /\ m' = n /\ nn' = cl' /\ d' = 0 /\ j' = 0
                     /\ i' = i
      ELSE i' = i + 1 /\ UNCHANGED <<pc, m, nn, d, j>>
  BY <1>6a
<1>8. i \in 0 .. LOOKBACK /\ i < LOOKBACK /\ LOOKBACK \in Nat /\ MAX_ZERO_MATCH \in Nat
  BY <1>1, FormatBounds DEF TypeOK, FreeCompare
<1> HIDE DEF longest
<1>9. isize' = isize /\ Nodes' = Nodes /\ Node' = Node
  BY <1>2, SameList
<1>10. TypeOK'
  <2>1. Listed' /\ pc' \in {"scan", "prune"}
    BY <1>1, <1>7 DEF Listed
  <2>2. (Listed => /\ isize > 0
                   /\ \A x \in Nodes : in[x + 1] \in Literal
                   /\ as \in [Nodes -> Node]
                   /\ dptr \in Nodes
                   /\ cl \in Nodes)'
    BY <1>1, <1>2, <1>4, <1>9 DEF TypeOK
  <2>3. i' \in 0 .. LOOKBACK
    BY <1>7, <1>8
  <2>4. /\ m' \in 0 .. MAX_ZERO_MATCH /\ j' \in 0 .. MAX_ZERO_MATCH
        /\ nn' \in -1 .. (isize - 1) \cup {0} /\ d' \in Nat
    BY <1>1, <1>3, <1>4, <1>5, <1>6, <1>7, <1>8, SMTT(30) DEF TypeOK
  <2> QED  BY <1>1, <1>2, <1>9, <2>1, <2>2, <2>3, <2>4 DEF TypeOK
<1>11. (Tiles /\ Nested)' /\ Boundary(dptr)' /\ Boundary(cl)'
  BY <1>1, <1>2, <1>4, SameList
<1>12. Sources'
  BY <1>1, <1>2, <1>7, <1>9, SameList DEF Sources
<1>13. Scanning' /\ Preparing' /\ Emitting'
  BY <1>1, <1>2, <1>3, <1>4, <1>7, <1>11 DEF Scanning, Preparing, Emitting
<1>14. Pruning'
  <2> SUFFICES ASSUME pc' = "prune" PROVE Pruning'
    BY DEF Pruning
  <2>1. n >= 2 /\ m' = n /\ nn' = cl' /\ j' = 0 /\ d' = 0
    BY <1>1, <1>7
  <2>2. SameText(dptr, cl, m)'
    BY <1>2, <1>6, <2>1, SameList
  <2>3. cl' \in Nat /\ cl' + j' = cl' /\ cl' # isize'
    <3>1. cl' \in 0 .. (isize - 1) /\ isize \in Nat
      BY <1>3, <1>4
    <3>2. j' = 0 /\ isize' = isize
      BY <1>9, <2>1
    <3>3. \A r \in 0 .. (isize - 1) : r \in Nat /\ r + 0 = r /\ r # isize
      BY <3>1
    <3> QED  BY <3>1, <3>2, <3>3, Zenon
  <2>4. (nn = Link(cl + j))'
    BY <2>1, <2>3 DEF Link
  <2>5. Boundary(cl + j)'
    BY <1>11, <2>3, Zenon DEF Boundary
  <2>6. dptr' < cl' /\ (cl + m <= isize)' /\ (d <= j)' /\ (j <= m)'
    <3>1. dptr < cl'
      BY <1>1, <1>3, <1>4
    <3>2. 0 <= n /\ 0 <= 0
      BY <1>5, <1>6
    <3> QED  BY <1>2, <1>6, <1>9, <2>1, <3>1, <3>2, Zenon
  <2>7. i' < LOOKBACK
    BY <1>7, <1>8, <2>1
  <2> QED  BY <2>2, <2>4, <2>5, <2>6, <2>7 DEF Pruning
<1> QED  BY <1>10, <1>11, <1>12, <1>13, <1>14 DEF IInv

LEMMA AdvanceStep == IInv /\ Advance => IInv'
<1> SUFFICES ASSUME IInv, Advance PROVE IInv'
  OBVIOUS
<1>1. /\ TypeOK /\ pc = "scan" /\ Listed /\ Tiles /\ Nested /\ Sources
      /\ Boundary(dptr) /\ Boundary(cl) /\ dptr <= cl /\ out = << >> /\ cur = 0
  BY DEF Advance, IInv, Listed, Scanning
<1>2. UNCHANGED <<in, as, m, nn, d, j, cur, out>>
  BY DEF Advance
<1>3. /\ in \in Seq(Byte) /\ isize \in Nat /\ as \in [Nodes -> Node]
      /\ dptr \in Nodes /\ cl \in Nodes
      /\ Nodes = 0 .. (isize - 1)
  BY <1>1, InputSize DEF TypeOK, Nodes
<1>4. isize' = isize /\ Nodes' = Nodes /\ Node' = Node
  BY <1>2, SameList
<1>5. \/ Succ(dptr) = -1 /\ pc' = "emit" /\ UNCHANGED <<dptr, cl, i>>
      \/ /\ Succ(dptr) # -1 /\ pc' = "scan"
         /\ dptr' = Succ(dptr) /\ cl' = dptr' /\ i' = 0
  BY <1>1 DEF Advance, Succ
<1>6. /\ dptr' \in Nodes /\ cl' \in Nodes /\ dptr' >= dptr /\ dptr' <= cl'
      /\ Boundary(dptr') /\ Boundary(cl')
  <2>1. CASE UNCHANGED <<dptr, cl>>
    BY <1>1, <1>3, <2>1
  <2>2. CASE Succ(dptr) # -1 /\ dptr' = Succ(dptr) /\ cl' = dptr'
    <3>1. /\ dptr + Size(dptr) \in 1 .. isize /\ dptr + Size(dptr) > dptr
          /\ Boundary(dptr + Size(dptr))
          /\ Succ(dptr) = Link(dptr + Size(dptr))
      BY <1>1, <1>3, NextBoundary
    <3>2. dptr' = dptr + Size(dptr) /\ dptr' # isize
      BY <2>2, <3>1 DEF Link
    <3> QED  BY <1>3, <2>2, <3>1, <3>2
  <2> QED  BY <1>5, <2>1, <2>2
<1>7. pc' \in {"scan", "emit"} /\ Listed' /\ i' \in 0 .. LOOKBACK
  BY <1>1, <1>5, FormatBounds DEF TypeOK, Listed
<1>8. TypeOK'
  <2>1. (Listed => /\ isize > 0
                   /\ \A x \in Nodes : in[x + 1] \in Literal
                   /\ as \in [Nodes -> Node]
                   /\ dptr \in Nodes
                   /\ cl \in Nodes)'
    BY <1>1, <1>2, <1>4, <1>6 DEF TypeOK
  <2>2. /\ in' \in Seq(Byte) /\ m' \in 0 .. MAX_ZERO_MATCH /\ j' \in 0 .. MAX_ZERO_MATCH
        /\ nn' \in -1 .. (isize' - 1) \cup {0} /\ d' \in Nat
        /\ cur' \in -1 .. (isize' - 1) \cup {0} /\ out' \in Seq(Byte)
    BY <1>1, <1>2, <1>4 DEF TypeOK
  <2>3. cur' >= 0
    BY <1>1, <1>2
  <2> QED  BY <1>7, <2>1, <2>2, <2>3 DEF TypeOK
<1>9. (Tiles /\ Nested)' /\ Boundary(dptr)' /\ Boundary(cl)'
  BY <1>1, <1>2, <1>6, SameList
<1>10. Sources'
  <2> SUFFICES ASSUME NEW x \in Nodes, Size(x) >= 2
               PROVE  /\ From(x) <= dptr'
                      /\ From(x) < x
                      /\ Boundary(From(x))
                      /\ SameText(From(x), x, Size(x))
    BY <1>2, <1>4, SameList DEF Sources
  <2>1. /\ From(x) <= dptr /\ From(x) < x /\ Boundary(From(x))
        /\ SameText(From(x), x, Size(x))
    BY <1>1 DEF Sources
  <2>2. From(x) \in 0 .. (isize - 1) /\ dptr \in 0 .. (isize - 1) /\ dptr' \in 0 .. (isize - 1)
    BY <1>3, <1>6, NodeTypes
  <2> QED  BY <1>6, <2>1, <2>2
<1>11. Emitting'
  <2>1. cur' = 0 /\ out' = << >>
    BY <1>1, <1>2
  <2> QED  BY <2>1 DEF Emitting, Boundary
<1>12. Scanning' /\ Preparing' /\ Pruning'
  BY <1>1, <1>2, <1>6, <1>7, <1>9 DEF Scanning, Preparing, Pruning
<1> QED  BY <1>8, <1>9, <1>10, <1>11, <1>12 DEF IInv

(* Where pruning stands: nn is the node at position cl + j.                *)
LEMMA PruneNode ==
  ASSUME IInv, pc = "prune", nn # -1
  PROVE  /\ nn = cl + j /\ nn \in Nodes /\ Boundary(nn)
         /\ cl + j + Size(nn) \in 0 .. isize
         /\ Boundary(cl + (j + Size(nn)))
         /\ Succ(nn) = Link(cl + (j + Size(nn)))
         /\ Size(nn) \in Nat /\ Size(nn) >= 1
<1>1. /\ TypeOK /\ Listed /\ Tiles /\ Nested
      /\ cl + m <= isize /\ j <= m /\ Boundary(cl + j) /\ nn = Link(cl + j)
  BY DEF IInv, Listed, Pruning
<1>2. /\ in \in Seq(Byte) /\ isize \in Nat /\ as \in [Nodes -> Node]
      /\ cl \in 0 .. (isize - 1) /\ j \in Nat /\ m \in Nat
  <2>1. in \in Seq(Byte) /\ as \in [Nodes -> Node] /\ cl \in Nodes
        /\ j \in 0 .. MAX_ZERO_MATCH /\ m \in 0 .. MAX_ZERO_MATCH
    BY <1>1 DEF TypeOK
  <2>2. isize \in Nat /\ MAX_ZERO_MATCH \in Nat
    BY <2>1, InputSize, FormatBounds
  <2>3. cl \in 0 .. (isize - 1)
    BY <2>1, <2>2, NodeTypes
  <2>4. j \in Nat /\ m \in Nat
    BY <2>1, <2>2
  <2> QED  BY <2>1, <2>2, <2>3, <2>4
<1>3. nn = cl + j /\ cl + j # isize
  BY <1>1 DEF Link
<1>4. nn \in 0 .. (isize - 1)
  BY <1>1, <1>2, <1>3
<1>5. nn \in Nodes /\ Boundary(nn)
  BY <1>1, <1>3, <1>4 DEF Nodes
<1>6. /\ nn + Size(nn) \in 1 .. isize /\ Boundary(nn + Size(nn))
      /\ Succ(nn) = Link(nn + Size(nn))
  BY <1>1, <1>2, <1>5, NextBoundary
<1>7. Size(nn) \in Nat /\ Size(nn) >= 1
  BY <1>1, <1>2, <1>5, NodeTypes DEF Tiles
<1>8. nn + Size(nn) = cl + (j + Size(nn)) /\ nn + Size(nn) = cl + j + Size(nn)
  BY <1>2, <1>3, <1>7
<1> QED  BY <1>3, <1>5, <1>6, <1>7, <1>8

LEMMA SwallowStep == IInv /\ Swallow => IInv'
<1> SUFFICES ASSUME IInv, Swallow PROVE IInv'
  OBVIOUS
<1>1. /\ TypeOK /\ pc = "prune" /\ Listed /\ Tiles /\ Nested /\ Sources
      /\ Boundary(dptr) /\ Boundary(cl) /\ dptr <= cl /\ out = << >> /\ cur = 0
  BY DEF Swallow, IInv, Listed, Scanning
<1>2. UNCHANGED <<in, pc, as, dptr, cl, i, m, cur, out>>
  BY DEF Swallow
<1>3. /\ in \in Seq(Byte) /\ isize \in Nat /\ d \in Nat /\ j \in Nat
      /\ m \in 0 .. MAX_ZERO_MATCH /\ MAX_ZERO_MATCH \in Nat
  BY <1>1, InputSize, FormatBounds DEF TypeOK
<1>4. /\ nn # -1 /\ j + Size(nn) <= m
      /\ j' = j + Size(nn) /\ nn' = Succ(nn) /\ d' = d + 1
  BY DEF Swallow, Fits, Size, Succ
<1>5. /\ nn \in Nodes
      /\ Boundary(cl + (j + Size(nn)))
      /\ Succ(nn) = Link(cl + (j + Size(nn)))
      /\ Size(nn) \in Nat /\ Size(nn) >= 1
  BY <1>1, <1>4, PruneNode
<1>6. isize' = isize /\ Nodes' = Nodes /\ Node' = Node
  BY <1>2, SameList
<1>7. nn' \in -1 .. (isize - 1)
  BY <1>1, <1>3, <1>4, <1>5, NodeTypes DEF TypeOK
<1>8. j' \in 0 .. MAX_ZERO_MATCH /\ j' <= m
  <2>1. j + Size(nn) \in 0 .. MAX_ZERO_MATCH
    BY <1>3, <1>4, <1>5
  <2> QED  BY <1>4, <2>1
<1>9. d' \in Nat /\ d' <= j'
  <2>1. d <= j
    BY <1>1 DEF IInv, Pruning
  <2>2. d + 1 \in Nat /\ d + 1 <= j + Size(nn)
    BY <1>3, <1>5, <2>1
  <2> QED  BY <1>4, <2>2
<1>10. TypeOK'
  <2>1. (Listed => /\ isize > 0
                   /\ \A x \in Nodes : in[x + 1] \in Literal
                   /\ as \in [Nodes -> Node]
                   /\ dptr \in Nodes
                   /\ cl \in Nodes)'
    BY <1>1, <1>2, <1>6 DEF TypeOK
  <2> QED  BY <1>1, <1>2, <1>6, <1>7, <1>8, <1>9, <2>1 DEF TypeOK
<1>11. (Tiles /\ Nested)' /\ Boundary(dptr)' /\ Boundary(cl)'
  BY <1>1, <1>2, SameList
<1>12. Sources'
  BY <1>1, <1>2, <1>6, SameList DEF Sources
<1>13. Pruning'
  <2>1. dptr' < cl' /\ (cl + m <= isize)' /\ SameText(dptr, cl, m)' /\ i' < LOOKBACK
    BY <1>1, <1>2, <1>6, SameList DEF IInv, Pruning
  <2>2. Boundary(cl + j)'
    BY <1>2, <1>4, <1>5, SameList
  <2>3. (nn = Link(cl + j))'
    BY <1>2, <1>4, <1>5, SameList
  <2> QED  BY <1>2, <1>8, <1>9, <2>1, <2>2, <2>3 DEF Pruning
<1>14. Scanning' /\ Preparing' /\ Emitting'
  BY <1>1, <1>2, <1>11 DEF Scanning, Preparing, Emitting
<1> QED  BY <1>10, <1>11, <1>12, <1>13, <1>14 DEF IInv

(* What replacing nodes by a pointer does to the list.                     *)
LEMMA ReplaceList ==
  ASSUME IInv, FreeReplace, d >= 2
  PROVE  /\ as' \in [Nodes -> Node]
         /\ Tiles' /\ Nested' /\ Sources'
         /\ Boundary(dptr)' /\ Boundary(cl)'
<1> DEFINE new == [next |-> nn, from |-> dptr, count |-> uint8(j)]
<1>1. /\ TypeOK /\ pc = "prune" /\ Listed /\ Tiles /\ Nested /\ Sources
      /\ Boundary(dptr) /\ Boundary(cl) /\ out = << >> /\ cur = 0
      /\ dptr < cl /\ cl + m <= isize /\ SameText(dptr, cl, m)
      /\ d <= j /\ j <= m /\ Boundary(cl + j) /\ nn = Link(cl + j)
  BY DEF FreeReplace, IInv, Listed, Scanning, Pruning
<1>2. /\ UNCHANGED <<in, dptr, cl, m, nn, d, j, cur, out>>
      /\ pc' = "scan" /\ i' = i + 1
      /\ as' = [as EXCEPT ![cl] = new]
  BY DEF FreeReplace
<1>3. /\ in \in Seq(Byte) /\ isize \in Nat /\ as \in [Nodes -> Node]
      /\ dptr \in Nodes /\ cl \in Nodes /\ isize > 0
      /\ nn \in -1 .. (isize - 1) \cup {0}
  BY <1>1, InputSize DEF TypeOK
<1>4. /\ dptr \in 0 .. (isize - 1) /\ cl \in 0 .. (isize - 1)
      /\ nn \in -1 .. (isize - 1)
  <2>1. dptr \in 0 .. (isize - 1) /\ cl \in 0 .. (isize - 1)
    BY <1>3, NodeTypes
  <2>2. \A r \in -1 .. (isize - 1) \cup {0} : r \in -1 .. (isize - 1)
    BY <1>3
  <2> QED  BY <1>3, <2>1, <2>2
<1>5. j \in 0 .. MAX_ZERO_MATCH /\ m \in 0 .. MAX_ZERO_MATCH /\ d \in Nat
  BY <1>1 DEF TypeOK
<1>6. j \in Nat /\ m \in Nat /\ uint8(j) = j /\ j \in Byte
  BY <1>5, FormatBounds DEF uint8, Byte
<1>7. isize' = isize /\ Nodes' = Nodes /\ Node' = Node
  BY <1>2 DEF isize, Nodes, Node
<1>8. new \in Node
  BY <1>3, <1>4, <1>6 DEF Node
<1>9. as' \in [Nodes -> Node]
  BY <1>2, <1>3, <1>8
<1>21. /\ \A x \in Nodes : x = cl => /\ Size(x)' = j
                                    /\ From(x)' = dptr
                                    /\ Succ(x)' = nn
      /\ \A x \in Nodes : x # cl => /\ Size(x)' = Size(x)
                                    /\ From(x)' = From(x)
                                    /\ Succ(x)' = Succ(x)
  BY <1>2, <1>3, <1>6 DEF Size, From, Succ
<1>22. j >= 1 /\ j >= 2 /\ cl + j <= isize
  <2>1. d <= j /\ j <= m /\ cl + m <= isize /\ d >= 2
    BY <1>1
  <2>2. cl \in Nat /\ isize \in Nat /\ j \in Nat /\ m \in Nat /\ d \in Nat
    BY <1>3, <1>4, <1>5, <1>6
  <2> QED  BY <2>1, <2>2
<1>23. \A b : Link(b)' = Link(b)
  BY <1>7 DEF Link
<1>24. Tiles'
  <2> SUFFICES ASSUME NEW x \in Nodes
               PROVE  /\ Size(x)' >= 1
                      /\ x + Size(x)' <= isize
                      /\ Succ(x)' = Link(x + Size(x)')
    BY <1>7, <1>23 DEF Tiles, Link
  <2>1. CASE x = cl
    BY <1>1, <1>21, <1>22, <2>1, Zenon
  <2>2. CASE x # cl
    BY <1>1, <1>21, <2>2 DEF Tiles
  <2> QED  BY <2>1, <2>2
<1>25. Nested'
  <2> SUFFICES ASSUME NEW x \in Nodes, NEW y \in Nodes, y < x
               PROVE  y + Size(y)' <= x \/ x + Size(x)' <= y + Size(y)'
    BY <1>7 DEF Nested
  <2>1. /\ x \in 0 .. (isize - 1) /\ y \in 0 .. (isize - 1)
        /\ Size(x) \in Nat /\ Size(y) \in Nat
    BY <1>3, NodeTypes
  <2>2. CASE x = cl
    <3>1. y \in 0 .. (cl - 1)
      BY <1>4, <2>1, <2>2
    <3>2. y + Size(y) <= cl /\ Size(y)' = Size(y)
      BY <1>1, <1>4, <1>21, <3>1 DEF Boundary
    <3> QED  BY <2>2, <3>2
  <2>3. CASE y = cl /\ x # cl
    <3>1. CASE x < cl + j
      <4>1. x \in 0 .. ((cl + j) - 1)
        BY <1>4, <1>6, <2>1, <3>1
      <4>2. Boundary(cl + j)
        BY <1>1
      <4>3. x + Size(x) <= cl + j
        BY <4>1, <4>2, Zenon DEF Boundary
      <4> QED  BY <1>21, <2>3, <4>3, Zenon
    <3>2. CASE cl + j <= x
      BY <1>21, <2>3, <3>2, Zenon
    <3> QED  BY <1>4, <1>6, <2>1, <3>1, <3>2
  <2>4. CASE x # cl /\ y # cl
    BY <1>1, <1>21, <2>4 DEF Nested
  <2> QED  BY <2>2, <2>3, <2>4
<1>26. ASSUME NEW b \in 0 .. cl, Boundary(b) PROVE Boundary(b)'
  <2> SUFFICES ASSUME NEW y \in 0 .. (b - 1) PROVE y + Size(y)' <= b
    BY Zenon DEF Boundary
  <2>1. y \in 0 .. (isize - 1) /\ y # cl
    BY <1>3, <1>4
  <2>2. y \in Nodes
    BY <1>3, <2>1, NodeTypes
  <2>3. y + Size(y) <= b
    BY <1>26 DEF Boundary
  <2> QED  BY <1>21, <2>1, <2>2, <2>3
<1>27. Boundary(dptr)' /\ Boundary(cl)'
  <2>1. dptr \in 0 .. cl /\ cl \in 0 .. cl
    BY <1>1, <1>4
  <2>2. \A b \in 0 .. cl : Boundary(b) => Boundary(b)'
    BY <1>26
  <2>3. dptr' = dptr /\ cl' = cl
    BY <1>2
  <2> QED  BY <1>1, <2>1, <2>2, <2>3, Zenon DEF Boundary
<1>28. Sources'
  <2> SUFFICES ASSUME NEW x \in Nodes, Size(x)' >= 2
               PROVE  /\ From(x)' <= dptr
                      /\ From(x)' < x
                      /\ Boundary(From(x))'
                      /\ SameText(From(x), x, Size(x))'
    BY <1>2, <1>7 DEF Sources
  <2>1. CASE x = cl
    <3>1. SameText(dptr, cl, j)
      BY <1>1, <1>6 DEF SameText
    <3>2. From(x)' = dptr' /\ From(x)' = dptr /\ dptr <= dptr
      BY <1>2, <1>4, <1>21, <2>1
    <3>3. Boundary(From(x))'
      BY <1>27, <3>2, Zenon DEF Boundary
    <3>4. SameText(From(x), x, Size(x))'
      BY <1>2, <1>21, <2>1, <3>1, Zenon DEF SameText
    <3> QED  BY <1>1, <1>21, <2>1, <3>2, <3>3, <3>4, Zenon
  <2>2. CASE x # cl
    <3>1. /\ From(x) <= dptr /\ From(x) < x /\ Boundary(From(x))
          /\ SameText(From(x), x, Size(x))
      BY <1>1, <1>21, <2>2 DEF Sources
    <3>2. From(x) \in 0 .. cl
      <4>1. From(x) \in 0 .. (isize - 1)
        BY <1>3, NodeTypes
      <4> QED  BY <1>1, <1>4, <3>1, <4>1
    <3>3. \A b \in 0 .. cl : Boundary(b) => Boundary(b)'
      BY <1>26
    <3>4. Boundary(From(x))'
      BY <1>21, <2>2, <3>1, <3>2, <3>3, Zenon DEF Boundary
    <3>5. SameText(From(x), x, Size(x))'
      BY <1>2, <1>21, <2>2, <3>1, Zenon DEF SameText
    <3> QED  BY <1>21, <2>2, <3>1, <3>4, <3>5
  <2> QED  BY <2>1, <2>2
<1> QED  BY <1>9, <1>24, <1>25, <1>27, <1>28

LEMMA ReplaceStep == IInv /\ FreeReplace => IInv'
<1> SUFFICES ASSUME IInv, FreeReplace PROVE IInv'
  OBVIOUS
<1>1. /\ TypeOK /\ pc = "prune" /\ Listed /\ Tiles /\ Nested /\ Sources
      /\ Boundary(dptr) /\ Boundary(cl) /\ out = << >> /\ cur = 0 /\ dptr <= cl
  BY DEF FreeReplace, IInv, Listed, Scanning
<1>2. /\ UNCHANGED <<in, dptr, cl, m, nn, d, j, cur, out>>
      /\ pc' = "scan" /\ i' = i + 1 /\ Listed'
      /\ ~(d >= 2) => as' = as
  BY DEF FreeReplace, Listed
<1>3. isize' = isize /\ Nodes' = Nodes /\ Node' = Node
  BY <1>2 DEF isize, Nodes, Node
<1>4. /\ as' \in [Nodes -> Node]
      /\ Tiles' /\ Nested' /\ Sources'
      /\ Boundary(dptr)' /\ Boundary(cl)'
  <2>1. CASE d >= 2
    BY <2>1, ReplaceList
  <2>2. CASE ~(d >= 2)
    <3>1. as' = as
      BY <1>2, <2>2
    <3>2. (Tiles /\ Nested)' /\ Boundary(dptr)' /\ Boundary(cl)'
      BY <1>1, <1>2, <3>1, SameList
    <3>3. Sources'
      BY <1>1, <1>2, <1>3, <3>1, SameList DEF Sources
    <3>4. as' \in [Nodes -> Node]
      BY <1>1, <3>1 DEF TypeOK
    <3> QED  BY <3>2, <3>3, <3>4
  <2> QED  BY <2>1, <2>2
<1>5. TypeOK'
  <2>1. (Listed => /\ isize > 0
                   /\ \A x \in Nodes : in[x + 1] \in Literal
                   /\ as \in [Nodes -> Node]
                   /\ dptr \in Nodes
                   /\ cl \in Nodes)'
    BY <1>1, <1>2, <1>3, <1>4 DEF TypeOK
  <2>2. i' \in 0 .. LOOKBACK
    <3>1. i \in 0 .. LOOKBACK /\ i < LOOKBACK /\ LOOKBACK \in Nat
      BY <1>1, FormatBounds DEF TypeOK, IInv, Pruning
    <3> QED  BY <1>2, <3>1
  <2> QED  BY <1>1, <1>2, <1>3, <2>1, <2>2 DEF TypeOK
<1>6. Scanning' /\ Preparing' /\ Pruning' /\ Emitting'
  BY <1>1, <1>2, <1>4 DEF Scanning, Preparing, Pruning, Emitting
<1> QED  BY <1>2, <1>4, <1>5, <1>6 DEF IInv

LEMMA EmitStep == IInv /\ Emit => IInv'
<1> SUFFICES ASSUME IInv, Emit PROVE IInv'
  OBVIOUS
<1>1. /\ TypeOK /\ pc = "emit" /\ Listed /\ Tiles /\ Nested /\ Sources
      /\ Boundary(cur) /\ Len(out) <= cur /\ cur >= 0
  BY DEF Emit, IInv, Listed, Emitting, TypeOK
<1>2. UNCHANGED <<in, dptr, cl, i, m, nn, d, j>>
  BY DEF Emit
<1>3. /\ in \in Seq(Byte) /\ isize \in Nat /\ as \in [Nodes -> Node]
      /\ dptr \in Nodes /\ cl \in Nodes /\ isize > 0 /\ out \in Seq(Byte)
      /\ cur \in -1 .. (isize - 1) \cup {0}
      /\ \A x \in Nodes : in[x + 1] \in Literal
  BY <1>1, InputSize DEF TypeOK
<1>4. cur \in 0 .. (isize - 1) /\ cur \in Nodes
  <2>1. \A r \in -1 .. (isize - 1) \cup {0} : r >= 0 => r \in 0 .. (isize - 1)
    BY <1>3
  <2>2. cur \in 0 .. (isize - 1)
    BY <1>1, <1>3, <2>1
  <2> QED  BY <1>3, <2>2, NodeTypes
<1>5. /\ as' = [as EXCEPT ![cur].from = Len(out)]
      /\ cur' = Succ(cur)
      /\ pc' = IF cur' = -1 THEN "done" ELSE "emit"
  BY DEF Emit, Succ
<1>6. isize' = isize /\ Nodes' = Nodes /\ Node' = Node
  BY <1>2 DEF isize, Nodes, Node
<1>7. Len(out) \in Nodes
  <2>1. Len(out) \in Nat /\ Len(out) <= cur
    BY <1>1, <1>3
  <2>2. \A r \in Nat : r <= cur => r \in 0 .. (isize - 1)
    BY <1>3, <1>4
  <2> QED  BY <1>3, <2>1, <2>2, NodeTypes
<1> DEFINE new == [next |-> Succ(cur), from |-> Len(out), count |-> Size(cur)]
<1>8. as' = [as EXCEPT ![cur] = new] /\ new \in Node
  <2>1. \A l : \A r \in Node : [r EXCEPT !.from = l]
                             = [next |-> r.next, from |-> l, count |-> r.count]
    BY DEF Node
  <2>2. as[cur] \in Node
    BY <1>3, <1>4
  <2>3. [as[cur] EXCEPT !.from = Len(out)] = new
    BY <2>1, <2>2 DEF Succ, Size
  <2>4. \A r \in Node, l \in Nodes :
          [next |-> r.next, from |-> l, count |-> r.count] \in Node
    BY DEF Node
  <2>5. new \in Node
    BY <1>7, <2>2, <2>4 DEF Succ, Size
  <2> QED  BY <1>5, <2>3, <2>5
<1>9. /\ as' \in [Nodes -> Node]
      /\ \A x \in Nodes : Size(x)' = Size(x) /\ Succ(x)' = Succ(x)
      /\ \A x \in Nodes : x # cur => From(x)' = From(x)
  <2> HIDE DEF new
  <2>1. new.count = Size(cur) /\ new.next = Succ(cur)
    BY DEF new
  <2> QED  BY <1>3, <1>4, <1>8, <2>1 DEF Size, Succ, From
<1>10. \A b : Link(b)' = Link(b)
  BY <1>6 DEF Link
<1>11. Tiles' /\ Nested'
  BY <1>1, <1>6, <1>9, <1>10 DEF Tiles, Nested
<1>12. ASSUME NEW b \in 0 .. isize, Boundary(b) PROVE Boundary(b)'
  <2> SUFFICES ASSUME NEW y \in 0 .. (b - 1) PROVE y + Size(y)' <= b
    BY Zenon DEF Boundary
  <2>1. y \in 0 .. (isize - 1)
    BY <1>3
  <2>2. y \in Nodes
    BY <1>3, <2>1, NodeTypes
  <2>3. y + Size(y) <= b
    BY <1>12, Zenon DEF Boundary
  <2> QED  BY <1>9, <2>2, <2>3, Zenon
<1>13. /\ cur + Size(cur) \in 1 .. isize /\ cur + Size(cur) > cur
       /\ Boundary(cur + Size(cur))
       /\ Succ(cur) = Link(cur + Size(cur))
  BY <1>1, <1>3, <1>4, NextBoundary
<1>14. \/ cur' = -1 /\ pc' = "done"
       \/ /\ pc' = "emit" /\ cur' \in 0 .. (isize - 1)
          /\ cur' > cur /\ Boundary(cur')
  <2>1. CASE cur + Size(cur) = isize
    BY <1>5, <1>13, <2>1 DEF Link
  <2>2. CASE cur + Size(cur) # isize
    <3>1. cur' = cur + Size(cur)
      BY <1>5, <1>13, <2>2 DEF Link
    <3>2. cur + Size(cur) \in 0 .. (isize - 1) /\ cur + Size(cur) # -1
      BY <1>3, <1>13, <2>2
    <3> QED  BY <1>5, <1>13, <3>1, <3>2
  <2> QED  BY <2>1, <2>2
<1>15. out' \in Seq(Byte) /\ Len(out') = Len(out) + 1
  <2> DEFINE b == IF as[cur].count < 2
                  THEN in[cur + 1] % FLAG
                  ELSE mk_ptr(as[cur].count, uint8(Offset(cur)))
  <2>1. out' = Append(out, b)
    BY DEF Emit
  <2>2. b \in Byte
    <3>1. FLAG \in Nat /\ 0 < FLAG /\ 2 * FLAG \in Nat /\ 0 < 2 * FLAG
      BY FormatBounds
    <3>2. in[cur + 1] \in Literal
      BY <1>3, <1>4
    <3>3. in[cur + 1] % FLAG \in Byte
      BY <3>1, <3>2 DEF Literal, Byte
    <3>4. mk_ptr(as[cur].count, uint8(Offset(cur))) \in Byte
      <4>1. Size(cur) \in Nat /\ From(cur) \in Nodes
        BY <1>3, <1>4, NodeTypes
      <4>2. From(From(cur)) \in 0 .. (isize - 1)
        BY <1>3, <4>1, NodeTypes
      <4>3. \A r \in 0 .. (isize - 1) : (Len(out) - r) - 1 \in Int
        BY <1>3
      <4>4. Offset(cur) = (Len(out) - From(From(cur))) - 1
        BY DEF Offset, From
      <4>5. Offset(cur) \in Int
        BY <4>2, <4>3, <4>4
      <4>6. \A r \in Int : uint8(r) \in Int
        BY <3>1 DEF uint8
      <4> QED  BY <4>1, <4>5, <4>6, PointerIsByte DEF Size
    <3> QED  BY <3>3, <3>4
  <2> HIDE DEF b
  <2> QED  BY <1>3, <2>1, <2>2
<1>16. TypeOK'
  <2>1. (Listed => /\ isize > 0
                   /\ \A x \in Nodes : in[x + 1] \in Literal
                   /\ as \in [Nodes -> Node]
                   /\ dptr \in Nodes
                   /\ cl \in Nodes)'
    BY <1>2, <1>3, <1>6, <1>9
  <2>2. /\ cur' \in -1 .. (isize' - 1) \cup {0} /\ (pc' = "emit" => cur' >= 0)
        /\ pc' \in {"emit", "done"}
    BY <1>3, <1>6, <1>14
  <2> QED  BY <1>1, <1>2, <1>6, <1>15, <2>1, <2>2 DEF TypeOK
<1>17. pc' # "done" => Sources'
  <2> SUFFICES ASSUME pc' = "emit", NEW x \in Nodes, Size(x)' >= 2, x >= cur'
               PROVE  /\ From(x)' <= dptr
                      /\ From(x)' < x
                      /\ Boundary(From(x))'
                      /\ SameText(From(x), x, Size(x))'
    BY <1>2, <1>6, <1>14 DEF Sources
  <2>1. x # cur /\ x >= cur /\ Size(x) >= 2
    <3>1. x \in 0 .. (isize - 1)
      BY <1>3, NodeTypes
    <3>2. cur' \in 0 .. (isize - 1) /\ cur' > cur
      BY <1>14
    <3>3. \A r \in 0 .. (isize - 1) : x >= r /\ r > cur => x # cur /\ x >= cur
      BY <1>3, <1>4, <3>1
    <3> QED  BY <1>9, <3>2, <3>3
  <2>2. /\ From(x) <= dptr /\ From(x) < x /\ Boundary(From(x))
        /\ SameText(From(x), x, Size(x))
    BY <1>1, <2>1 DEF Sources
  <2>3. From(x) \in 0 .. isize
    <3>1. From(x) \in 0 .. (isize - 1)
      BY <1>3, NodeTypes
    <3> QED  BY <1>3, <3>1
  <2>4. From(x)' = From(x)
    BY <1>9, <2>1
  <2>5. \A b \in 0 .. isize : Boundary(b) => Boundary(b)'
    BY <1>12
  <2>6. Boundary(From(x))'
    BY <2>2, <2>3, <2>4, <2>5, Zenon DEF Boundary
  <2>7. SameText(From(x), x, Size(x))'
    BY <1>2, <1>9, <2>2, <2>4, Zenon DEF SameText
  <2> QED  BY <2>2, <2>4, <2>6, <2>7
<1>18. Emitting'
  <2> SUFFICES ASSUME pc' = "emit" PROVE Boundary(cur)' /\ Len(out') <= cur'
    BY DEF Emitting
  <2>1. /\ cur' \in 0 .. (isize - 1) /\ cur' > cur /\ Boundary(cur')
    BY <1>14
  <2>2. \A b \in 0 .. isize : Boundary(b) => Boundary(b)'
    BY <1>12
  <2>3. \A r \in 0 .. (isize - 1) : r \in 0 .. isize
    BY <1>3
  <2>4. Boundary(cur)'
    BY <2>1, <2>2, <2>3, Zenon DEF Boundary
  <2>5. \A r \in 0 .. (isize - 1), l \in Nat : r > cur /\ l <= cur => l + 1 <= r
    BY <1>3, <1>4
  <2>6. Len(out) + 1 <= cur'
    BY <1>1, <1>3, <2>1, <2>5
  <2> QED  BY <1>15, <2>4, <2>6
<1>19. Scanning' /\ Preparing' /\ Pruning'
  BY <1>14 DEF Scanning, Preparing, Pruning
<1> QED  BY <1>11, <1>16, <1>17, <1>18, <1>19 DEF IInv

-----------------------------------------------------------------------------
LEMMA StepInv == IInv /\ [FreeNext]_vars => IInv'
<1> SUFFICES ASSUME IInv, [FreeNext]_vars PROVE IInv'
  OBVIOUS
<1>1. CASE Reject \/ PrepareNothing
  BY <1>1, EndStep DEF IInv
<1>2. CASE Prepare
  BY <1>2, PrepareStep DEF IInv
<1>3. CASE FreeCompare
  BY <1>3, CompareStep
<1>4. CASE Advance
  BY <1>4, AdvanceStep
<1>5. CASE Swallow
  BY <1>5, SwallowStep
<1>6. CASE FreeReplace
  BY <1>6, ReplaceStep
<1>7. CASE Emit
  BY <1>7, EmitStep
<1>8. CASE UNCHANGED vars
  <2>1. UNCHANGED <<in, pc, as, dptr, cl, i, m, nn, d, j, cur, out>>
    BY <1>8 DEF vars
  <2> QED  BY <2>1 DEF IInv, TypeOK, Listed, Tiles, Nested, Sources, Preparing,
                       Scanning, Pruning, Emitting, Boundary, Link, SameText,
                       Size, Succ, From, isize, Nodes, Node
<1> QED  BY <1>1, <1>2, <1>3, <1>4, <1>5, <1>6, <1>7, <1>8 DEF FreeNext

(* lzjwm_compress takes the longest match and swallows what fits in it.    *)
LEMMA NextIsFree == IInv /\ [Next]_vars => [FreeNext]_vars
<1> SUFFICES ASSUME IInv, [Next]_vars PROVE [FreeNext]_vars
  OBVIOUS
<1>1. CASE Compare
  <2>1. TypeOK /\ Listed /\ pc = "scan"
    BY <1>1 DEF Compare, Visit, IInv, Listed
  <2>2. /\ in \in Seq(Byte) /\ isize \in Nat /\ as \in [Nodes -> Node]
        /\ dptr \in Nodes /\ cl \in Nodes
    BY <2>1, InputSize DEF TypeOK
  <2>3. cl' = Succ(cl) /\ Succ(cl) >= 0 /\ Succ(cl) \in -1 .. (isize - 1)
    BY <1>1, <2>2, NodeTypes DEF Compare, Visit, Succ
  <2>4. cl' \in Nodes
    BY <2>2, <2>3 DEF Nodes
  <2> DEFINE longest == IF i = 0 THEN MAX_ZERO_MATCH ELSE MAX_MATCH
             n == match(dptr, cl', longest)
  <2>5. n \in 0 .. longest /\ cl' + n <= isize /\ SameText(dptr, cl', n)
    <3>1. longest \in Nat
      BY FormatBounds
    <3> QED  BY <2>2, <2>4, <3>1, MatchSpec
  <2>6. /\ i < LOOKBACK
        /\ IF n >= 2
           THEN /\ pc' = "prune" /\ m' = n /\ nn' = cl' /\ d' = 0 /\ j' = 0
                /\ i' = i
           ELSE i' = i + 1 /\ UNCHANGED <<pc, m, nn, d, j>>
        /\ UNCHANGED <<in, as, dptr, cur, out>>
    BY <1>1 DEF Compare, Visit
  <2> HIDE DEF n
  <2> QED  BY <2>1, <2>3, <2>5, <2>6 DEF FreeNext, FreeCompare
<1>2. CASE Replace
  BY <1>2 DEF Replace, Chop, FreeNext, FreeReplace
<1> QED  BY <1>1, <1>2 DEF Next, FreeNext

THEOREM Invariance == Spec => []IInv
<1> QED  BY InitInv, StepInv, NextIsFree, PTL DEF Spec

(* Every variable keeps its type: Compressor's type invariant.             *)
THEOREM TypeCorrect == Spec => []TypeOK
<1>1. IInv => TypeOK
  BY DEF IInv
<1> QED  BY <1>1, Invariance, PTL

(* The list is made of the boundaries of the nodes.                        *)
LEMMA OnList == Linked = {x \in Nodes : Boundary(x)}
BY Zenon DEF Linked, Boundary, Size

(* No surgery on the list loses or repeats a character, whatever the input *)
(* and the window (the chop at lzjwm_compress.c:71-75).                    *)
THEOREM ListAlwaysTiles == Spec => []ListTilesInput
<1>1. IInv => ListTilesInput
  <2> SUFFICES ASSUME IInv, Listed PROVE ListTilesInput
    BY DEF ListTilesInput
  <2>1. /\ Tiles /\ Nested /\ isize \in Nat /\ isize > 0 /\ as \in [Nodes -> Node]
        /\ Nodes = 0 .. (isize - 1)
    BY InputSize DEF IInv, TypeOK, Nodes
  <2>2. 0 \in Linked
    BY <2>1, OnList DEF Boundary
  <2>3. ASSUME NEW x \in Linked
        PROVE  LET end == x + as[x].count IN
               IF end = isize THEN as[x].next = -1
               ELSE as[x].next = end /\ end \in Linked
    <3> DEFINE end == x + Size(x)
    <3>1. x \in Nodes /\ Boundary(x)
      BY OnList
    <3>2. /\ end \in 1 .. isize /\ Boundary(end)
          /\ Succ(x) = Link(end)
      BY <2>1, <3>1, NextBoundary
    <3> HIDE DEF end
    <3>3. end # isize => end \in Linked
      BY <2>1, <3>2, OnList
    <3>4. IF end = isize THEN Succ(x) = -1 ELSE Succ(x) = end /\ end \in Linked
      BY <3>2, <3>3 DEF Link
    <3> QED  BY <3>4 DEF end, Size, Succ
  <2> QED  BY <2>2, <2>3 DEF ListTilesInput
<1> QED  BY <1>1, Invariance, PTL

(* A pointer that is still to be emitted copies the text it replaces, from *)
(* a node that is on the list before it (lzjwm_compress.c:71-75, 79-87).   *)
THEOREM CopiesAlwaysFaithful == Spec => []CopiesAreFaithful
<1>1. IInv => CopiesAreFaithful
  <2> SUFFICES ASSUME IInv, Listed, pc # "done", NEW x \in Linked,
                      as[x].count >= 2, pc = "emit" => x >= cur
               PROVE  /\ as[x].from \in Linked
                      /\ as[x].from < x
                      /\ SameText(as[x].from, x, as[x].count)
    BY DEF CopiesAreFaithful
  <2>1. x \in Nodes /\ Size(x) >= 2
    BY OnList DEF Size
  <2>2. From(x) < x /\ Boundary(From(x)) /\ SameText(From(x), x, Size(x))
    BY <2>1 DEF IInv, Sources
  <2>3. From(x) \in Nodes
    BY <2>1, InputSize, NodeTypes DEF IInv, TypeOK, From, Node
  <2> QED  BY <2>2, <2>3, OnList DEF From, Size
<1> QED  BY <1>1, Invariance, PTL

-----------------------------------------------------------------------------
(* What a step may do to a list that is there.                             *)
Frozen ==
  Listed => /\ dptr' >= dptr
            /\ Linked' \subseteq Linked
            /\ \A x \in Linked : x <= dptr => /\ as'[x].count = as[x].count
                                             /\ as'[x].next = as[x].next

(* A step that changes the extent of no node changes no boundary.          *)
LEMMA SameExtents ==
  ASSUME isize \in Nat, isize' = isize, Nodes' = Nodes,
         \A x \in Nodes : Size(x)' = Size(x)
  PROVE  Linked' = Linked
<1>1. Nodes = 0 .. (isize - 1)
  BY DEF Nodes
<1>2. \A x \in Nodes : \A y \in 0 .. (x - 1) : y \in Nodes
  BY <1>1
<1>3. \A x \in Nodes : Boundary(x)' <=> Boundary(x)
  BY <1>2, Zenon DEF Boundary
<1>4. Linked' = {x \in Nodes' : Boundary(x)'}
  BY Zenon DEF Linked, Boundary, Size
<1> QED  BY <1>3, <1>4, OnList

LEMMA FrozenReplace == IInv /\ FreeReplace => Frozen
<1> SUFFICES ASSUME IInv, FreeReplace, Listed PROVE Frozen
  BY DEF Frozen
<1>1. /\ TypeOK /\ Tiles /\ Nested /\ dptr < cl /\ Boundary(cl + j)
      /\ isize \in Nat /\ as \in [Nodes -> Node]
      /\ dptr \in 0 .. (isize - 1) /\ cl \in 0 .. (isize - 1) /\ j \in Nat
      /\ Nodes = 0 .. (isize - 1)
  <2>1. /\ TypeOK /\ Tiles /\ Nested /\ dptr < cl /\ Boundary(cl + j)
    BY DEF FreeReplace, IInv, Listed, Pruning
  <2>2. /\ isize \in Nat /\ as \in [Nodes -> Node] /\ dptr \in Nodes /\ cl \in Nodes
        /\ j \in 0 .. MAX_ZERO_MATCH
    BY <2>1, InputSize DEF TypeOK
  <2>3. \A r \in 0 .. MAX_ZERO_MATCH : r \in Nat
    BY FormatBounds
  <2>4. Nodes = 0 .. (isize - 1) /\ j \in Nat
    BY <2>2, <2>3 DEF Nodes
  <2> QED  BY <2>1, <2>2, <2>4, Zenon
<1>2. /\ UNCHANGED <<in, dptr>> /\ isize' = isize /\ Nodes' = Nodes
      /\ as' = IF d >= 2
               THEN [as EXCEPT ![cl] = [next |-> nn, from |-> dptr, count |-> uint8(j)]]
               ELSE as
  BY DEF FreeReplace, isize, Nodes
<1>3. \A x \in Nodes : x # cl => as'[x] = as[x]
  BY <1>1, <1>2
<1>4. \A x \in Nodes : x <= dptr => x # cl
  BY <1>1
<1>5. ASSUME NEW x \in Nodes, Boundary(x)' PROVE Boundary(x)
  <2> SUFFICES ASSUME NEW y \in 0 .. (x - 1) PROVE y + Size(y) <= x
    BY Zenon DEF Boundary
  <2>1. y \in Nodes /\ y \in 0 .. (isize - 1) /\ x \in 0 .. (isize - 1)
    BY <1>1
  <2>2. y + Size(y)' <= x
    BY <1>5, Zenon DEF Boundary
  <2>3. CASE y # cl
    BY <1>3, <2>1, <2>2, <2>3 DEF Size
  <2>4. CASE y = cl /\ as' = as
    BY <2>2, <2>4 DEF Size
  <2>5. CASE y = cl /\ as' # as
    <3>1. as'[cl].count = uint8(j) /\ j >= 2
      <4>1. as'[cl] = [next |-> nn, from |-> dptr, count |-> uint8(j)]
        BY <1>1, <1>2, <2>5
      <4>2. d >= 2 /\ d <= j /\ d \in Nat
        BY <1>2, <2>5 DEF IInv, Pruning, TypeOK, FreeReplace
      <4> QED  BY <1>1, <4>1, <4>2
    <3>2. uint8(j) = j
      <4>1. j \in 0 .. MAX_ZERO_MATCH
        BY <1>1 DEF TypeOK
      <4> QED  BY <4>1, FormatBounds DEF uint8
    <3>3. Size(y)' = j
      BY <1>2, <2>5, <3>1, <3>2 DEF Size
    <3>4. cl + j <= x
      BY <2>2, <2>5, <3>3, Zenon
    <3>5. cl \in 0 .. ((cl + j) - 1)
      BY <1>1, <3>1
    <3>6. cl + Size(cl) <= cl + j
      BY <1>1, <3>5, Zenon DEF Boundary
    <3>7. Size(cl) \in Nat
      BY <1>1, NodeTypes
    <3>8. cl + Size(cl) <= x
      BY <1>1, <2>1, <3>4, <3>6, <3>7
    <3> QED  BY <2>5, <3>8
  <2> QED  BY <2>3, <2>4, <2>5
<1>6. Linked' \subseteq Linked
  <2>1. Linked' = {x \in Nodes' : Boundary(x)'}
    BY Zenon DEF Linked, Boundary, Size
  <2> QED  BY <1>2, <1>5, <2>1, OnList
<1>7. Linked \subseteq Nodes /\ dptr' >= dptr
  <2>1. \A r \in 0 .. (isize - 1) : r >= r
    BY <1>1
  <2> QED  BY <1>1, <1>2, <2>1, OnList
<1>8. \A x \in Linked : x <= dptr => as'[x] = as[x]
  BY <1>3, <1>4, <1>7
<1> QED  BY <1>6, <1>7, <1>8 DEF Frozen

LEMMA FrozenStep == IInv /\ [FreeNext]_vars => Frozen
<1> SUFFICES ASSUME IInv, [FreeNext]_vars, Listed PROVE Frozen
  BY DEF Frozen
<1>1. /\ isize \in Nat /\ as \in [Nodes -> Node] /\ Tiles /\ Nested
      /\ dptr \in Nodes /\ Nodes = 0 .. (isize - 1) /\ Linked \subseteq Nodes
  BY InputSize DEF IInv, TypeOK, Nodes, Linked
<1>2. CASE UNCHANGED <<in, as, dptr>>
  <2>1. Linked' = Linked
    BY <1>2 DEF Linked, Nodes, isize
  <2> QED  BY <1>1, <1>2, <2>1 DEF Frozen
<1>3. CASE Reject \/ PrepareNothing \/ Prepare
  BY <1>3 DEF Reject, PrepareNothing, Prepare, Listed
<1>4. CASE FreeCompare \/ Swallow
  BY <1>2, <1>4 DEF FreeCompare, Swallow
<1>5. CASE Advance
  <2>1. pc = "scan" /\ UNCHANGED <<in, as>>
    BY <1>5 DEF Advance
  <2>2. Linked' = Linked
    BY <2>1 DEF Linked, Nodes, isize
  <2>3. CASE dptr' = dptr
    BY <1>2, <2>1, <2>3
  <2>4. CASE Succ(dptr) # -1 /\ dptr' = Succ(dptr)
    <3>1. Boundary(dptr)
      BY <2>1 DEF IInv, Scanning
    <3>2. /\ dptr + Size(dptr) > dptr /\ Succ(dptr) = Link(dptr + Size(dptr))
      BY <1>1, <3>1, NextBoundary
    <3>3. dptr' = dptr + Size(dptr)
      BY <2>4, <3>2 DEF Link
    <3>4. Size(dptr) \in Nat /\ dptr \in 0 .. (isize - 1)
      BY <1>1, NodeTypes
    <3>5. dptr' >= dptr
      BY <1>1, <3>2, <3>3, <3>4
    <3> QED  BY <2>1, <2>2, <3>5 DEF Frozen
  <2> QED  BY <1>5, <2>3, <2>4 DEF Advance, Succ
<1>6. CASE FreeReplace
  BY <1>6, FrozenReplace
<1>7. CASE Emit
  <2>1. UNCHANGED <<in, dptr>> /\ as' = [as EXCEPT ![cur].from = Len(out)]
    BY <1>7 DEF Emit
  <2>2. \A l : \A r \in Node : /\ [r EXCEPT !.from = l].count = r.count
                             /\ [r EXCEPT !.from = l].next = r.next
    BY DEF Node
  <2>3. \A x \in Nodes : as'[x] = as[x] \/ as'[x] = [as[x] EXCEPT !.from = Len(out)]
    BY <1>1, <2>1
  <2>4. \A x \in Nodes : as'[x].count = as[x].count /\ as'[x].next = as[x].next
    <3>1. \A x \in Nodes : as[x] \in Node
      BY <1>1
    <3> SUFFICES ASSUME NEW x \in Nodes
                 PROVE  as'[x].count = as[x].count /\ as'[x].next = as[x].next
      OBVIOUS
    <3>2. CASE as'[x] = as[x]
      BY <3>2
    <3>3. CASE as'[x] = [as[x] EXCEPT !.from = Len(out)]
      BY <2>2, <3>1, <3>3
    <3> QED  BY <2>3, <3>2, <3>3
  <2>5. isize' = isize /\ Nodes' = Nodes
    BY <2>1 DEF isize, Nodes
  <2>6. Linked' = Linked
    BY <1>1, <2>4, <2>5, SameExtents DEF Size
  <2>7. dptr' >= dptr
    BY <1>1, <2>1
  <2>8. \A x \in Linked : as'[x].count = as[x].count /\ as'[x].next = as[x].next
    BY <1>1, <2>4, Zenon
  <2>9. Linked' \subseteq Linked
    BY <2>6, Zenon
  <2> QED  BY <2>7, <2>8, <2>9, Zenon DEF Frozen
<1>8. CASE UNCHANGED vars
  BY <1>2, <1>8 DEF vars
<1> QED  BY <1>3, <1>4, <1>5, <1>6, <1>7, <1>8 DEF FreeNext

(* The encoder never rewrites what dptr has walked past.                   *)
THEOREM WalkedPartStaysFrozen == Spec => WalkedPartIsFrozen
<1>1. Spec => [][Frozen]_vars
  <2>1. IInv /\ [FreeNext]_vars => [Frozen]_vars
    BY FrozenStep
  <2> QED  BY <2>1, NextIsFree, Invariance, PTL DEF Spec
<1>2. [][Frozen]_vars <=> WalkedPartIsFrozen
  BY PTL DEF WalkedPartIsFrozen, Frozen
<1> QED  BY <1>1, <1>2, PTL

-----------------------------------------------------------------------------
(***************************************************************************)
(* What the output walk of the encoder relies on: that the offsets         *)
(* measured in list nodes while the list was still being changed fit in a  *)
(* pointer when it is written, and that every byte written is the right    *)
(* one.  OInv is the inductive invariant.                                  *)
(***************************************************************************)
(* The elements of S strictly between a and b.                             *)
Span(S, a, b) == {y \in S : a < y /\ y < b}

(* The nodes on the list before b, and those strictly between a and b.     *)
Before(b) == Span(Linked, -1, b)
Between(a, b) == Span(Linked, a, b)

(* A pointer to be emitted is close enough to its source, and adjacent if  *)
(* it is one of the longer ones.                                           *)
NearAt(x) ==
  /\ Cardinality(Between(From(x), x)) < LOOKBACK
  /\ Size(x) <= MAX_ZERO_MATCH
  /\ Size(x) > MAX_MATCH => Between(From(x), x) = {}

Near ==
  \A x \in Nodes : Size(x) >= 2 /\ (pc = "emit" => x >= cur) => NearAt(x)

(* The inner loop has not counted fewer nodes than there are up to cl.     *)
Seen ==
  /\ pc = "scan" => Cardinality(Between(dptr, cl + 1)) <= i
  /\ pc = "prune" => /\ Cardinality(Between(dptr, cl)) <= i
                     /\ m > MAX_MATCH => i = 0

(* from of an emitted node is the number of nodes before it.               *)
Placed ==
  pc = "emit" =>
    /\ Len(out) = Cardinality(Before(cur))
    /\ \A x \in Linked : x < cur => From(x) = Cardinality(Before(x))

OInv ==
  /\ IInv
  /\ Listed /\ pc # "done" => Near
  /\ Seen /\ Placed

-----------------------------------------------------------------------------
(* Sizes of spans, for any finite set of numbers.                          *)
LEMMA SpanBounds ==
  ASSUME NEW S \in SUBSET Int, IsFiniteSet(S), NEW T \in SUBSET S,
         NEW a \in Int, NEW b \in Int
  PROVE  /\ Cardinality(Span(S, a, b)) \in Nat
         /\ Cardinality(Span(T, a, b)) \in Nat
         /\ Cardinality(Span(T, a, b)) <= Cardinality(Span(S, a, b))
         /\ Cardinality(Span(T, a, b + 1)) <= Cardinality(Span(S, a, b)) + 1
         /\ Cardinality(Span(S, a, b)) <= 0 => Span(S, a, b) = {}
<1>1. Span(S, a, b) \subseteq S /\ Span(T, a, b) \subseteq Span(S, a, b)
  BY DEF Span
<1>2. IsFiniteSet(Span(S, a, b))
  BY <1>1, FS_Subset
<1>3. /\ IsFiniteSet(Span(T, a, b))
      /\ Cardinality(Span(T, a, b)) <= Cardinality(Span(S, a, b))
  BY <1>1, <1>2, FS_Subset
<1>4. Cardinality(Span(S, a, b)) \in Nat /\ Cardinality(Span(T, a, b)) \in Nat
  BY <1>2, <1>3, FS_CardinalityType
<1>5. /\ IsFiniteSet(Span(S, a, b) \cup {b})
      /\ Cardinality(Span(S, a, b) \cup {b}) <= Cardinality(Span(S, a, b)) + 1
  BY <1>2, <1>4, FS_AddElement
<1>6. Span(T, a, b + 1) \subseteq Span(S, a, b) \cup {b}
  <2> SUFFICES ASSUME NEW y \in T, a < y, y < b + 1 PROVE y \in Span(S, a, b) \cup {b}
    BY DEF Span
  <2>1. y \in S /\ y \in Int
    OBVIOUS
  <2>2. y < b \/ y = b
    BY <2>1
  <2> QED  BY <2>1, <2>2 DEF Span
<1>7. /\ IsFiniteSet(Span(T, a, b + 1))
      /\ Cardinality(Span(T, a, b + 1)) <= Cardinality(Span(S, a, b) \cup {b})
  BY <1>5, <1>6, FS_Subset
<1>8. /\ Cardinality(Span(T, a, b + 1)) \in Nat
      /\ Cardinality(Span(S, a, b) \cup {b}) \in Nat
  BY <1>5, <1>7, FS_CardinalityType
<1>9. Cardinality(Span(T, a, b + 1)) <= Cardinality(Span(S, a, b)) + 1
  BY <1>4, <1>5, <1>7, <1>8
<1>10. Cardinality(Span(S, a, b)) <= 0 => Span(S, a, b) = {}
  BY <1>2, <1>4, FS_EmptySet
<1> QED  BY <1>3, <1>4, <1>9, <1>10

LEMMA SpanEmpty == \A S \in SUBSET Int, a \in Int : Span(S, a, a + 1) = {}
<1> SUFFICES ASSUME NEW S \in SUBSET Int, NEW a \in Int, NEW y \in S, a < y, y < a + 1
             PROVE  FALSE
  BY DEF Span
<1>1. y \in Int
  OBVIOUS
<1> QED  BY <1>1

(* The span before an element, the element and the rest.                   *)
LEMMA SpanSplit ==
  ASSUME NEW S \in SUBSET Int, IsFiniteSet(S), NEW x \in S,
         NEW a \in Int, NEW b \in Int, a < x, x < b
  PROVE  Cardinality(Span(S, a, b))
           = Cardinality(Span(S, a, x)) + 1 + Cardinality(Span(S, x, b))
<1> DEFINE A == Span(S, a, x)
           B == Span(S, x, b)
<1>1. A \subseteq S /\ B \subseteq S
  BY DEF Span
<1>2. /\ IsFiniteSet(A) /\ IsFiniteSet(B)
  BY <1>1, FS_Subset
<1>0. \A y \in S : y \in Int
  OBVIOUS
<1>3. x \notin A /\ (A \cup {x}) \cap B = {}
  <2>1. x \in Int /\ ~(x < x)
    BY <1>0
  <2>2. \A y \in S : ~(y < x /\ x < y)
    BY <1>0
  <2> QED  BY <2>1, <2>2 DEF Span
<1>4. Span(S, a, b) = (A \cup {x}) \cup B
  <2>1. \A y \in S : a < y /\ y < b <=> (a < y /\ y < x) \/ y = x \/ (x < y /\ y < b)
    BY <1>0
  <2> QED  BY <2>1 DEF Span
<1> HIDE DEF A, B
<1>5. /\ IsFiniteSet(A \cup {x})
      /\ Cardinality(A \cup {x}) = Cardinality(A) + 1
  BY <1>2, <1>3, FS_AddElement
<1>6. Cardinality((A \cup {x}) \cup B)
        = Cardinality(A \cup {x}) + Cardinality(B) - Cardinality({})
  BY <1>2, <1>3, <1>5, FS_Union
<1>7. Cardinality({}) = 0 /\ Cardinality(A) \in Nat /\ Cardinality(B) \in Nat
  BY <1>2, FS_EmptySet, FS_CardinalityType
<1>8. Cardinality((A \cup {x}) \cup B) = Cardinality(A) + 1 + Cardinality(B)
  BY <1>5, <1>6, <1>7
<1> QED  BY <1>4, <1>8 DEF A, B

(* The list is a finite set of numbers.                                    *)
LEMMA LinkedFinite ==
  ASSUME isize \in Nat
  PROVE  /\ Linked \in SUBSET Int /\ IsFiniteSet(Linked)
         /\ Linked \subseteq Nodes /\ Nodes = 0 .. (isize - 1)
<1>1. Linked \subseteq Nodes /\ Nodes = 0 .. (isize - 1)
  BY DEF Linked, Nodes
<1>2. IsFiniteSet(0 .. (isize - 1)) /\ 0 .. (isize - 1) \subseteq Int
  BY FS_Interval
<1> QED  BY <1>1, <1>2, FS_Subset

(* No node of the list lies inside another.                                *)
LEMMA LinkedApart ==
  ASSUME isize \in Nat, NEW x \in Linked, NEW y \in Linked, x < y
  PROVE  x + Size(x) <= y
<1>1. x \in 0 .. (y - 1)
  BY LinkedFinite
<1> QED  BY <1>1, OnList, Zenon DEF Boundary

(* What the lemmas below need of IInv.                                     *)
LEMMA ListFacts ==
  ASSUME IInv, Listed
  PROVE  /\ TypeOK /\ Tiles /\ Nested /\ in \in Seq(Byte) /\ out \in Seq(Byte)
         /\ isize \in Nat /\ isize > 0 /\ as \in [Nodes -> Node]
         /\ Nodes = 0 .. (isize - 1) /\ dptr \in 0 .. (isize - 1)
         /\ cl \in 0 .. (isize - 1) /\ LOOKBACK \in Nat
         /\ i \in 0 .. LOOKBACK /\ i \in Nat
         /\ m \in Nat /\ m <= MAX_ZERO_MATCH
<1>1. TypeOK /\ Tiles /\ Nested
  BY DEF IInv
<1>2. LOOKBACK \in Nat /\ MAX_ZERO_MATCH \in Nat
  BY FormatBounds
<1>3. /\ in \in Seq(Byte) /\ out \in Seq(Byte) /\ isize > 0 /\ as \in [Nodes -> Node]
      /\ dptr \in Nodes /\ cl \in Nodes
      /\ i \in 0 .. LOOKBACK /\ m \in 0 .. MAX_ZERO_MATCH
  BY <1>1 DEF TypeOK
<1>4. isize \in Nat /\ Nodes = 0 .. (isize - 1)
  BY <1>3, InputSize DEF Nodes
<1>5. i \in Nat /\ m \in Nat /\ m <= MAX_ZERO_MATCH
  BY <1>2, <1>3
<1> QED  BY <1>1, <1>2, <1>3, <1>4, <1>5

(* A shorter list brings every pointer closer to its source.               *)
LEMMA NearShrinks ==
  ASSUME isize \in Nat, Linked' \subseteq Linked, NEW x \in Nodes,
         From(x) \in Int, From(x)' = From(x), Size(x)' = Size(x), NearAt(x)
  PROVE  NearAt(x)'
<1>1. Linked \in SUBSET Int /\ IsFiniteSet(Linked) /\ x \in Int
  BY LinkedFinite
<1>2. LOOKBACK \in Nat
  BY FormatBounds
<1> DEFINE S == Span(Linked, From(x), x)
           T == Span(Linked', From(x), x)
<1>3. Between(From(x), x) = S /\ Between(From(x), x)' = T
  BY DEF Between, Span
<1>4. Cardinality(S) \in Nat /\ Cardinality(T) \in Nat /\ Cardinality(T) <= Cardinality(S)
  BY <1>1, SpanBounds
<1>5. T \subseteq S
  BY DEF Span
<1> HIDE DEF S, T
<1>6. Cardinality(S) < LOOKBACK => Cardinality(T) < LOOKBACK
  BY <1>2, <1>4
<1> QED  BY <1>3, <1>5, <1>6 DEF NearAt

LEMMA SameLinked ==
  ASSUME UNCHANGED <<in, as>>
  PROVE  /\ Linked' = Linked
         /\ \A x : NearAt(x)' <=> NearAt(x)
<1>1. Linked' = Linked
  BY DEF Linked, Nodes, isize
<1>2. \A x : From(x)' = From(x) /\ Size(x)' = Size(x)
  BY DEF From, Size
<1> QED  BY <1>1, <1>2 DEF NearAt, Between, Span

-----------------------------------------------------------------------------
LEMMA InitOut == Init => OInv
<1> SUFFICES ASSUME Init PROVE OInv
  OBVIOUS
<1>1. ~Listed /\ pc = "prepare"
  BY DEF Init, Listed
<1> QED  BY <1>1, InitInv DEF OInv, Seen, Placed

(* The calls that end before the list is there.                            *)
LEMMA EndOut == OInv /\ (Reject \/ PrepareNothing) => OInv'
<1> SUFFICES ASSUME OInv, Reject \/ PrepareNothing PROVE OInv'
  OBVIOUS
<1>1. pc' \in {"rejected", "undefined"}
  BY DEF Reject, PrepareNothing
<1>2. IInv'
  BY EndStep DEF OInv, IInv
<1> QED  BY <1>1, <1>2 DEF OInv, Seen, Placed, Listed

LEMMA PrepareOut == OInv /\ Prepare => OInv'
<1> SUFFICES ASSUME OInv, Prepare PROVE OInv'
  OBVIOUS
<1>1. IInv'
  BY PrepareStep DEF OInv, IInv
<1>2. /\ pc' = "scan" /\ dptr' = 0 /\ cl' = 0 /\ i' = i
      /\ in' = in
      /\ as' = [x \in Nodes |-> [next |-> IF x = isize - 1 THEN -1 ELSE x + 1,
                                from |-> 0, count |-> 1]]
  BY DEF Prepare, OInv, IInv, Preparing
<1>3. Near'
  <2>1. Nodes' = Nodes
    BY <1>2 DEF Nodes, isize
  <2>2. \A x \in Nodes : Size(x)' = 1
    BY <1>2 DEF Size
  <2> QED  BY <2>1, <2>2 DEF Near
<1>4. Seen'
  <2>1. (isize \in Nat)'
    BY <1>1 DEF IInv, TypeOK, isize
  <2>2. Linked' \subseteq Int
    BY <2>1 DEF Linked, Nodes
  <2>3. Span(Linked', 0, 1) = {}
    BY <2>2, SpanEmpty
  <2>4. Between(dptr, cl + 1)' = {}
    BY <1>2, <2>3 DEF Between, Span
  <2>5. i \in Nat
    BY FormatBounds DEF OInv, IInv, TypeOK
  <2> QED  BY <1>2, <2>4, <2>5, FS_EmptySet DEF Seen
<1> QED  BY <1>1, <1>2, <1>3, <1>4 DEF OInv, Placed

(* A turn of the inner loop sees the node after cl: no node of the list    *)
(* lies between the two.                                                   *)
LEMMA CompareOut == OInv /\ FreeCompare => OInv'
<1> SUFFICES ASSUME OInv, FreeCompare PROVE OInv'
  OBVIOUS
<1>1. /\ IInv /\ pc = "scan" /\ Listed /\ Near
      /\ Cardinality(Between(dptr, cl + 1)) <= i
      /\ Boundary(cl) /\ dptr <= cl
  BY DEF OInv, FreeCompare, Listed, Seen, IInv, Scanning
<1>2. /\ Tiles /\ Nested /\ isize \in Nat /\ as \in [Nodes -> Node] /\ in \in Seq(Byte)
      /\ Nodes = 0 .. (isize - 1) /\ dptr \in 0 .. (isize - 1)
      /\ cl \in 0 .. (isize - 1) /\ i \in Nat
  BY <1>1, ListFacts
<1>3. UNCHANGED <<in, as, dptr, cur, out>>
  BY DEF FreeCompare
<1>4. IInv'
  BY <1>1, CompareStep
<1>5. Linked \in SUBSET Int /\ IsFiniteSet(Linked)
  BY <1>2, LinkedFinite
<1>6. cl' \in Int /\ cl' > cl /\ cl' = cl + Size(cl) /\ cl \in Linked
  <2>1. cl' = Succ(cl) /\ Succ(cl) >= 0
    BY DEF FreeCompare, Succ
  <2>2. /\ cl + Size(cl) \in 1 .. isize /\ cl + Size(cl) > cl
        /\ Succ(cl) = Link(cl + Size(cl))
    BY <1>1, <1>2, NextBoundary
  <2>3. cl' = cl + Size(cl)
    BY <2>1, <2>2 DEF Link
  <2>4. cl \in Linked
    BY <1>1, <1>2, OnList
  <2> QED  BY <2>2, <2>3, <2>4
<1>7. Span(Linked, dptr, cl') \subseteq Span(Linked, dptr, cl + 1)
  <2> SUFFICES ASSUME NEW y \in Linked, dptr < y, y < cl' PROVE y < cl + 1
    BY DEF Span
  <2>1. y \in Int
    BY <1>5
  <2>2. ~(cl < y)
    BY <1>2, <1>6, <2>1, LinkedApart
  <2> QED  BY <1>2, <2>1, <2>2
<1>8. /\ Cardinality(Span(Linked, dptr, cl')) <= i
      /\ Cardinality(Span(Linked, dptr, cl' + 1)) <= i + 1
  <2>1. IsFiniteSet(Span(Linked, dptr, cl + 1))
    BY <1>5, FS_Subset DEF Span
  <2>2. Cardinality(Span(Linked, dptr, cl')) <= Cardinality(Span(Linked, dptr, cl + 1))
    BY <1>7, <2>1, FS_Subset
  <2>3. Cardinality(Span(Linked, dptr, cl + 1)) \in Nat
    BY <2>1, FS_CardinalityType
  <2>4. /\ Cardinality(Span(Linked, dptr, cl' + 1)) <= Cardinality(Span(Linked, dptr, cl')) + 1
        /\ Cardinality(Span(Linked, dptr, cl')) \in Nat
        /\ Cardinality(Span(Linked, dptr, cl' + 1)) \in Nat
    <3>1. cl' + 1 \in Int /\ cl' \in Int /\ dptr \in Int
      BY <1>2, <1>6
    <3> QED  BY <1>5, <3>1, SpanBounds
  <2>5. Cardinality(Span(Linked, dptr, cl + 1)) <= i
    BY <1>1 DEF Between
  <2> QED  BY <1>2, <2>2, <2>3, <2>4, <2>5
<1>9. Linked' = Linked /\ \A x : NearAt(x)' <=> NearAt(x)
  BY <1>3, SameLinked
<1>10. Between(dptr, cl)' = Span(Linked, dptr, cl')
       /\ Between(dptr, cl + 1)' = Span(Linked, dptr, cl' + 1)
  BY <1>3, <1>9 DEF Between, Span
<1>11. pc' \in {"scan", "prune"}
  BY <1>1 DEF FreeCompare
<1>12. Near'
  <2>1. Nodes' = Nodes /\ \A x : Size(x)' = Size(x)
    BY <1>3, SameList
  <2> QED  BY <1>1, <1>9, <1>11, <2>1 DEF Near
<1>13. Seen'
  <2>1. CASE pc' = "scan"
    <3>1. i' = i + 1
      BY <2>1 DEF FreeCompare
    <3> QED  BY <1>8, <1>10, <2>1, <3>1 DEF Seen
  <2>2. CASE pc' = "prune"
    <3>1. i' = i /\ m' \in 0 .. (IF i = 0 THEN MAX_ZERO_MATCH ELSE MAX_MATCH)
      BY <1>1, <2>2 DEF FreeCompare
    <3>2. i # 0 => m' \in 0 .. MAX_MATCH
      BY <3>1
    <3>3. m' > MAX_MATCH => i = 0
      BY <3>2, FormatBounds
    <3> QED  BY <1>8, <1>10, <2>2, <3>1, <3>3 DEF Seen
  <2> QED  BY <1>11, <2>1, <2>2
<1> QED  BY <1>4, <1>11, <1>12, <1>13 DEF OInv, Placed

LEMMA AdvanceOut == OInv /\ Advance => OInv'
<1> SUFFICES ASSUME OInv, Advance PROVE OInv'
  OBVIOUS
<1>1. /\ IInv /\ pc = "scan" /\ Listed /\ Near
      /\ Cardinality(Between(dptr, cl + 1)) <= i
      /\ cur = 0 /\ out = << >>
  BY DEF OInv, Advance, Listed, Seen, IInv, Scanning
<1>2. UNCHANGED <<in, as, cur, out>>
  BY DEF Advance
<1>3. IInv'
  BY <1>1, AdvanceStep
<1>4. isize \in Nat /\ i \in Nat
  BY <1>1, ListFacts
<1>5. Linked' = Linked /\ \A x : NearAt(x)' <=> NearAt(x)
  BY <1>2, SameLinked
<1>6. Linked \subseteq Int /\ \A x \in Linked : x >= 0
  BY <1>4, LinkedFinite
<1>7. Near'
  <2>1. Nodes' = Nodes /\ \A x : Size(x)' = Size(x)
    BY <1>2, SameList
  <2> QED  BY <1>1, <1>5, <2>1 DEF Near
<1>8. \/ pc' = "emit"
      \/ pc' = "scan" /\ cl' = dptr' /\ i' = 0
  BY <1>1 DEF Advance
<1>9. Seen'
  <2> SUFFICES ASSUME pc' = "scan" PROVE Cardinality(Between(dptr, cl + 1)') <= i'
    BY <1>8 DEF Seen
  <2>1. dptr' \in Int
    BY <1>3, <1>8, InputSize DEF IInv, TypeOK, Listed, Nodes
  <2>2. Span(Linked, dptr', dptr' + 1) = {}
    BY <1>6, <2>1, SpanEmpty
  <2>3. Between(dptr, cl + 1)' = {}
    BY <1>5, <1>8, <2>2 DEF Between, Span
  <2> QED  BY <1>8, <2>3, FS_EmptySet
<1>10. Placed'
  <2>1. \A x \in Linked : x \in Int /\ x >= 0 /\ ~(x < 0)
    BY <1>6
  <2>3. Span(Linked, -1, 0) = {}
    BY <2>1 DEF Span
  <2>2. Before(cur)' = {} /\ cur' = 0 /\ Len(out') = 0
    BY <1>1, <1>2, <1>5, <2>3 DEF Before, Span
  <2> QED  BY <1>5, <2>1, <2>2, FS_EmptySet DEF Placed
<1> QED  BY <1>3, <1>7, <1>9, <1>10 DEF OInv

LEMMA SwallowOut == OInv /\ Swallow => OInv'
<1> SUFFICES ASSUME OInv, Swallow PROVE OInv'
  OBVIOUS
<1>1. IInv /\ pc = "prune" /\ Listed /\ Near /\ Seen
  BY DEF OInv, Swallow, Listed
<1>2. UNCHANGED <<in, pc, as, dptr, cl, i, m, cur, out>>
  BY DEF Swallow
<1>3. IInv'
  BY <1>1, SwallowStep
<1>4. Linked' = Linked /\ \A x : NearAt(x)' <=> NearAt(x)
  BY <1>2, SameLinked
<1>5. Near'
  <2>1. Nodes' = Nodes /\ \A x : Size(x)' = Size(x)
    BY <1>2, SameList
  <2> QED  BY <1>1, <1>2, <1>4, <2>1 DEF Near
<1>6. Seen'
  BY <1>1, <1>2, <1>4 DEF Seen, Between, Span
<1> QED  BY <1>1, <1>2, <1>3, <1>5, <1>6 DEF OInv, Placed

(* The pointer made at cl is as far from dptr as the loop has counted.     *)
LEMMA ReplaceOut == OInv /\ FreeReplace => OInv'
<1> SUFFICES ASSUME OInv, FreeReplace PROVE OInv'
  OBVIOUS
<1>1. /\ IInv /\ pc = "prune" /\ Listed /\ Near
      /\ Cardinality(Between(dptr, cl)) <= i
      /\ m > MAX_MATCH => i = 0
      /\ i < LOOKBACK /\ j <= m
  BY DEF OInv, FreeReplace, Listed, Seen, IInv, Pruning
<1>2. /\ isize \in Nat /\ as \in [Nodes -> Node]
      /\ Nodes = 0 .. (isize - 1) /\ dptr \in 0 .. (isize - 1)
      /\ cl \in 0 .. (isize - 1) /\ i \in Nat /\ LOOKBACK \in Nat
      /\ m \in Nat /\ m <= MAX_ZERO_MATCH
      /\ MAX_MATCH \in Nat /\ MAX_ZERO_MATCH \in Nat
  BY <1>1, ListFacts, FormatBounds
<1>3. /\ UNCHANGED <<in, dptr, cl, m, cur, out>>
      /\ pc' = "scan" /\ i' = i + 1
      /\ as' = IF d >= 2
               THEN [as EXCEPT ![cl] = [next |-> nn, from |-> dptr, count |-> uint8(j)]]
               ELSE as
  BY DEF FreeReplace
<1>4. IInv'
  BY <1>1, ReplaceStep
<1>5. Linked' \subseteq Linked
  BY <1>1, FrozenReplace DEF Frozen
<1>6. Linked \in SUBSET Int /\ IsFiniteSet(Linked)
  BY <1>2, LinkedFinite
<1> DEFINE S == Span(Linked, dptr, cl)
           T == Span(Linked', dptr, cl)
           U == Span(Linked', dptr, cl + 1)
<1>7. /\ Cardinality(S) <= i
      /\ Between(dptr, cl)' = T /\ Between(dptr, cl + 1)' = U
  BY <1>1, <1>3 DEF Between, Span
<1>8. /\ Cardinality(S) \in Nat /\ Cardinality(T) \in Nat
      /\ Cardinality(T) <= Cardinality(S)
      /\ Cardinality(U) <= Cardinality(S) + 1
      /\ Cardinality(S) <= 0 => S = {}
  <2>1. dptr \in Int /\ cl \in Int
    BY <1>2
  <2>2. Linked' \in SUBSET Linked
    BY <1>5
  <2> QED  BY <1>6, <2>1, <2>2, SpanBounds
<1>9. Cardinality(U) \in Nat
  <2>1. Linked' \in SUBSET Int /\ IsFiniteSet(Linked')
    BY <1>5, <1>6, FS_Subset
  <2>2. cl + 1 \in Int /\ dptr \in Int
    BY <1>2
  <2> QED  BY <2>1, <2>2, SpanBounds
<1>10. T \subseteq S
  BY <1>5 DEF Span
<1> HIDE DEF S, T, U
<1>11. Seen'
  <2>1. Cardinality(U) <= i + 1
    BY <1>2, <1>7, <1>8, <1>9
  <2> QED  BY <1>3, <1>7, <2>1 DEF Seen
<1>12. Near'
  <2> SUFFICES ASSUME NEW x \in Nodes, Size(x)' >= 2 PROVE NearAt(x)'
    <3>1. Nodes' = Nodes
      BY <1>3 DEF Nodes, isize
    <3> QED  BY <3>1 DEF Near
  <2>1. CASE as'[x] = as[x]
    <3>1. Size(x)' = Size(x) /\ From(x)' = From(x)
      BY <2>1 DEF Size, From
    <3>2. NearAt(x)
      BY <1>1, <3>1 DEF Near
    <3>3. From(x) \in Int
      <4>1. From(x) \in 0 .. (isize - 1)
        BY <1>2, NodeTypes
      <4> QED  BY <1>2, <4>1
    <3> QED  BY <1>2, <1>5, <3>1, <3>2, <3>3, NearShrinks
  <2>2. CASE as'[x] # as[x]
    <3>1. d >= 2 /\ x = cl /\ From(x)' = dptr /\ Size(x)' = uint8(j)
      BY <1>2, <1>3, <2>2 DEF From, Size
    <3>2. uint8(j) = j /\ j \in Nat
      <4>1. j \in 0 .. MAX_ZERO_MATCH
        BY <1>1 DEF IInv, TypeOK
      <4> QED  BY <4>1, FormatBounds DEF uint8
    <3>3. Between(From(x), x)' = T
      <4>1. Between(From(x), x)' = Span(Linked', From(x)', x)
        BY DEF Between, Span
      <4> QED  BY <3>1, <4>1 DEF T
    <3>4. Cardinality(T) < LOOKBACK
      BY <1>1, <1>2, <1>7, <1>8
    <3>5. Size(x)' <= MAX_ZERO_MATCH
      BY <1>1, <1>2, <3>1, <3>2
    <3>6. Size(x)' > MAX_MATCH => T = {}
      <4> SUFFICES ASSUME j > MAX_MATCH PROVE S = {}
        BY <1>10, <3>1, <3>2
      <4>1. i = 0
        BY <1>1, <1>2, <3>2
      <4> QED  BY <1>7, <1>8, <4>1
    <3> QED  BY <3>3, <3>4, <3>5, <3>6 DEF NearAt
  <2> QED  BY <2>1, <2>2
<1> QED  BY <1>3, <1>4, <1>11, <1>12 DEF OInv, Placed
(* What the emission of a node changes.                                    *)
LEMMA EmitFacts ==
  ASSUME IInv, Emit
  PROVE  /\ cur \in 0 .. (isize - 1) /\ cur \in Linked /\ in' = in /\ isize' = isize
         /\ Linked' = Linked /\ Nodes' = Nodes
         /\ \A x \in Nodes : Size(x)' = Size(x)
         /\ \A x \in Nodes : From(x)' = IF x = cur THEN Len(out) ELSE From(x)
         /\ Len(out) \in Nat /\ out \in Seq(Byte) /\ cur \in Nodes
         /\ cur + Size(cur) \in 1 .. isize /\ Size(cur) \in Nat /\ Size(cur) >= 1
         /\ \/ pc' = "done" /\ cur + Size(cur) = isize
            \/ /\ pc' = "emit" /\ cur' = cur + Size(cur)
               /\ cur' \in 0 .. (isize - 1)
<1>1. pc = "emit" /\ Listed /\ Boundary(cur) /\ cur >= 0
  BY DEF Emit, Listed, IInv, Emitting, TypeOK
<1>2. /\ TypeOK /\ Tiles /\ Nested /\ isize \in Nat /\ isize > 0 /\ as \in [Nodes -> Node]
      /\ Nodes = 0 .. (isize - 1) /\ out \in Seq(Byte)
  BY <1>1, ListFacts
<1>3. cur \in 0 .. (isize - 1)
  <2>1. cur \in -1 .. (isize - 1) \cup {0}
    BY <1>2 DEF TypeOK
  <2> QED  BY <1>1, <1>2, <2>1
<1>4. cur \in Linked
  BY <1>1, <1>2, <1>3, OnList
<1>5. /\ in' = in /\ as' = [as EXCEPT ![cur].from = Len(out)]
      /\ cur' = Succ(cur) /\ pc' = IF cur' = -1 THEN "done" ELSE "emit"
  BY DEF Emit, Succ
<1>6. isize' = isize /\ Nodes' = Nodes
  BY <1>5 DEF isize, Nodes
<1>7. \A l : \A r \in Node : [r EXCEPT !.from = l]
                           = [next |-> r.next, from |-> l, count |-> r.count]
  BY DEF Node
<1>8. as[cur] \in Node
  BY <1>2, <1>3
<1>9. as'[cur] = [next |-> as[cur].next, from |-> Len(out), count |-> as[cur].count]
  <2>1. as'[cur] = [as[cur] EXCEPT !.from = Len(out)]
    BY <1>2, <1>3, <1>5
  <2> QED  BY <1>7, <1>8, <2>1
<1>10. \A x \in Nodes : x # cur => as'[x] = as[x]
  BY <1>2, <1>5
<1>11. /\ \A x \in Nodes : Size(x)' = Size(x)
       /\ \A x \in Nodes : From(x)' = IF x = cur THEN Len(out) ELSE From(x)
  <2>1. cur \in Nodes /\ as'[cur].count = as[cur].count /\ as'[cur].from = Len(out)
    BY <1>2, <1>3, <1>9
  <2> QED  BY <1>10, <2>1 DEF Size, From
<1>12. Linked' = Linked
  BY <1>2, <1>6, <1>11, SameExtents
<1>13. /\ cur + Size(cur) \in 1 .. isize /\ cur + Size(cur) > cur
       /\ Succ(cur) = Link(cur + Size(cur))
  BY <1>1, <1>2, <1>3, NextBoundary
<1>14. Size(cur) \in Nat /\ Size(cur) >= 1
  BY <1>2, <1>3, NodeTypes DEF Tiles
<1>15. \/ pc' = "done" /\ cur + Size(cur) = isize
       \/ /\ pc' = "emit" /\ cur' = cur + Size(cur)
          /\ cur' \in 0 .. (isize - 1)
  BY <1>2, <1>3, <1>5, <1>13, <1>14 DEF Link
<1>16. Len(out) \in Nat
  BY <1>2
<1> QED  BY <1>2, <1>3, <1>4, <1>5, <1>6, <1>11, <1>12, <1>13, <1>14, <1>15, <1>16
LEMMA EmitOut == OInv /\ Emit => OInv'
<1> SUFFICES ASSUME OInv, Emit PROVE OInv'
  OBVIOUS
<1>1. /\ IInv /\ pc = "emit" /\ Listed /\ Near /\ Placed
      /\ Len(out) = Cardinality(Before(cur))
      /\ \A x \in Linked : x < cur => From(x) = Cardinality(Before(x))
  BY DEF OInv, Emit, Listed, Placed
<1>2. /\ cur \in 0 .. (isize - 1) /\ cur \in Linked /\ cur \in Nodes
      /\ Linked' = Linked /\ Nodes' = Nodes
      /\ \A x \in Nodes : Size(x)' = Size(x)
      /\ \A x \in Nodes : From(x)' = IF x = cur THEN Len(out) ELSE From(x)
      /\ Len(out) \in Nat /\ Size(cur) \in Nat /\ Size(cur) >= 1
      /\ \/ pc' = "done"
         \/ /\ pc' = "emit" /\ cur' = cur + Size(cur)
            /\ cur' \in 0 .. (isize - 1)
  BY <1>1, EmitFacts
<1>3. /\ isize \in Nat /\ as \in [Nodes -> Node] /\ Nodes = 0 .. (isize - 1)
      /\ out \in Seq(Byte)
  BY <1>1, ListFacts
<1>4. Linked \in SUBSET Int /\ IsFiniteSet(Linked) /\ Linked \subseteq Nodes
  BY <1>3, LinkedFinite
<1>5. IInv'
  BY <1>1, EmitStep
<1>6. CASE pc' = "done"
  BY <1>5, <1>6 DEF OInv, Seen, Placed, Listed
<1>7. CASE pc' = "emit" /\ cur' = cur + Size(cur) /\ cur' \in 0 .. (isize - 1)
  <2>1. cur \in Int /\ cur' \in Int /\ cur < cur' /\ -1 < cur
    BY <1>2, <1>3, <1>7
  <2>2. ASSUME NEW y \in Linked, cur < y, y < cur' PROVE FALSE
    <3>1. cur + Size(cur) <= y
      BY <1>2, <1>3, <2>2, LinkedApart
    <3>2. y \in Int
      BY <1>4
    <3> QED  BY <1>7, <2>1, <2>2, <3>1, <3>2
  <2>3. Near'
    <3> SUFFICES ASSUME NEW x \in Nodes, Size(x)' >= 2, x >= cur' PROVE NearAt(x)'
      BY <1>2, <1>7 DEF Near
    <3>1. x \in Int /\ x # cur /\ x >= cur
      BY <1>3, <2>1
    <3>2. Size(x)' = Size(x) /\ From(x)' = From(x)
      BY <1>2, <3>1
    <3>3. From(x) \in Int
      <4>1. From(x) \in 0 .. (isize - 1)
        BY <1>3, NodeTypes
      <4> QED  BY <1>3, <4>1
    <3>4. NearAt(x)
      BY <1>1, <3>1, <3>2 DEF Near
    <3> QED  BY <1>2, <1>3, <3>2, <3>3, <3>4, NearShrinks
  <2>4. Placed'
    <3>1. Span(Linked, cur, cur') = {}
      BY <2>2 DEF Span
    <3>2. Cardinality(Span(Linked, -1, cur'))
            = Cardinality(Span(Linked, -1, cur)) + 1 + Cardinality({})
      <4>1. -1 \in Int /\ cur \in Linked
        BY <1>2
      <4>2. Cardinality(Span(Linked, -1, cur'))
              = Cardinality(Span(Linked, -1, cur)) + 1 + Cardinality(Span(Linked, cur, cur'))
        BY <1>4, <2>1, <4>1, SpanSplit
      <4> QED  BY <3>1, <4>2
    <3>3. Cardinality(Span(Linked, -1, cur)) = Len(out)
      BY <1>1 DEF Before
    <3>4. Cardinality(Span(Linked, -1, cur')) = Len(out) + 1
      BY <1>2, <3>2, <3>3, FS_EmptySet
    <3>5. Len(out') = Len(out) + 1
      <4>1. out' = Append(out, IF as[cur].count < 2
                        THEN in[cur + 1] % FLAG
                        ELSE mk_ptr(as[cur].count, uint8(Offset(cur))))
        BY DEF Emit
      <4> QED  BY <1>3, <4>1
    <3>6. Before(cur)' = Span(Linked, -1, cur')
      BY <1>2 DEF Before, Span
    <3>7. ASSUME NEW x \in Linked, x < cur'
          PROVE  From(x)' = Cardinality(Span(Linked, -1, x))
      <4>1. x \in Nodes /\ x \in Int
        BY <1>4
      <4>2. x = cur \/ x < cur
        BY <2>1, <2>2, <3>7, <4>1
      <4>3. CASE x = cur
        BY <1>2, <3>3, <4>1, <4>3
      <4>4. CASE x < cur
        <5>1. x # cur
          BY <2>1, <4>1, <4>4
        <5> QED  BY <1>1, <1>2, <4>1, <4>4, <5>1 DEF Before
      <4> QED  BY <4>2, <4>3, <4>4
    <3>8. \A x : Before(x)' = Span(Linked, -1, x)
      BY <1>2 DEF Before, Span
    <3> QED  BY <1>2, <3>4, <3>5, <3>6, <3>7, <3>8 DEF Placed
  <2> QED  BY <1>5, <1>7, <2>3, <2>4 DEF OInv, Seen
<1> QED  BY <1>2, <1>6, <1>7

LEMMA StepOut == OInv /\ [FreeNext]_vars => OInv'
<1> SUFFICES ASSUME OInv, [FreeNext]_vars PROVE OInv'
  OBVIOUS
<1>1. CASE UNCHANGED vars
  <2>1. UNCHANGED <<in, pc, as, dptr, cl, i, m, nn, d, j, cur, out>>
    BY <1>1 DEF vars
  <2>2. IInv'
    BY <1>1, StepInv DEF OInv
  <2> QED  BY <2>1, <2>2 DEF OInv, Listed, Near, NearAt, Seen, Placed, Before, Between,
                             Linked, Size, From, Nodes, isize
<1> QED
  BY <1>1, EndOut, PrepareOut, CompareOut, AdvanceOut, SwallowOut, ReplaceOut, EmitOut
     DEF FreeNext

THEOREM OutputInvariance == Spec => []OInv
<1>1. OInv => IInv
  BY DEF OInv
<1> QED  BY <1>1, InitOut, StepOut, NextIsFree, PTL DEF Spec

(* The offset of a pointer is the number of nodes between it and its source*)
LEMMA OffsetIsDistance ==
  ASSUME OInv, pc = "emit", Size(cur) >= 2
  PROVE  /\ Offset(cur) \in 0 .. (LOOKBACK - 1)
         /\ Size(cur) <= (IF Offset(cur) = 0 THEN MAX_ZERO_MATCH ELSE MAX_MATCH)
         /\ From(cur) \in Linked /\ From(cur) < cur
         /\ SameText(From(cur), cur, Size(cur))
<1>1. /\ IInv /\ Listed /\ Near /\ Sources /\ cur >= 0
      /\ Len(out) = Cardinality(Before(cur))
      /\ \A x \in Linked : x < cur => From(x) = Cardinality(Before(x))
  BY DEF OInv, Listed, Placed, IInv, TypeOK
<1>2. /\ isize \in Nat /\ as \in [Nodes -> Node] /\ Nodes = 0 .. (isize - 1)
      /\ isize > 0 /\ LOOKBACK \in Nat
  BY <1>1, ListFacts
<1>3. cur \in 0 .. (isize - 1)
  <2>1. cur \in -1 .. (isize - 1) \cup {0}
    BY <1>1 DEF IInv, TypeOK
  <2> QED  BY <1>1, <1>2, <2>1
<1> DEFINE f == From(cur)
<1>4. f \in Nodes /\ f \in 0 .. (isize - 1) /\ cur \in Nodes
  BY <1>2, <1>3, NodeTypes
<1>5. /\ f < cur /\ Boundary(f) /\ SameText(f, cur, Size(cur)) /\ NearAt(cur)
  BY <1>1, <1>3, <1>4 DEF Sources, Near
<1>6. f \in Linked
  BY <1>4, <1>5, OnList
<1> HIDE DEF f
<1>7. Linked \in SUBSET Int /\ IsFiniteSet(Linked)
  BY <1>2, LinkedFinite
<1> DEFINE B == Cardinality(Span(Linked, f, cur))
           A == Cardinality(Span(Linked, -1, f))
<1>8. Cardinality(Span(Linked, -1, cur)) = A + 1 + B
  <2>1. f \in Int /\ -1 < f /\ cur \in Int
    BY <1>3, <1>4
  <2> QED  BY <1>5, <1>6, <1>7, <2>1, SpanSplit
<1>9. A \in Nat /\ B \in Nat
  <2>1. f \in Int /\ -1 \in Int /\ cur \in Int
    BY <1>3, <1>4
  <2> QED  BY <1>7, <2>1, SpanBounds
<1>10. Len(out) = A + 1 + B
  BY <1>1, <1>8 DEF Before
<1>11. From(f) = A
  BY <1>1, <1>5, <1>6 DEF Before
<1>12. Offset(cur) = Len(out) - From(f) - 1
  BY DEF Offset, From, f
<1>13. B < LOOKBACK /\ Size(cur) <= MAX_ZERO_MATCH
       /\ (Size(cur) > MAX_MATCH => Between(f, cur) = {})
  BY <1>5 DEF NearAt, Between, f
<1>14. Size(cur) > MAX_MATCH => B = 0
  BY <1>13, FS_EmptySet DEF Between
<1> HIDE DEF A, B
<1>15. Offset(cur) = B
  BY <1>9, <1>10, <1>11, <1>12
<1>16. Size(cur) \in Nat
  BY <1>2, <1>4, NodeTypes
<1>17. Size(cur) <= (IF Offset(cur) = 0 THEN MAX_ZERO_MATCH ELSE MAX_MATCH)
  BY <1>13, <1>14, <1>15, <1>16, FormatBounds
<1> QED  BY <1>2, <1>5, <1>6, <1>9, <1>13, <1>15, <1>17 DEF f

LEMMA FittingOffsets == OInv => OffsetsFit
BY OffsetIsDistance DEF OffsetsFit, Size

(* What mk_ptr asserts: an offset measured in list nodes, before later     *)
(* matches rewrote the list, is below LOOKBACK when it is written, and 0   *)
(* for the longer matches (lzjwm_compress.c:18-33, 79-87).                 *)
THEOREM OffsetsAlwaysFit == Spec => []OffsetsFit
BY FittingOffsets, OutputInvariance, PTL

-----------------------------------------------------------------------------
(* The stream so far: it stands for the input up to cur, and from of an    *)
(* emitted node is where its byte is.                                      *)
Written ==
  /\ pc \in {"emit", "done"} => Spells(out, in)
  /\ pc = "emit" =>
       /\ Starts(out)[Len(out)] = cur
       /\ \A x \in Linked : x < cur => /\ From(x) < Len(out)
                                       /\ Starts(out)[From(x)] = x
  /\ pc = "done" => Starts(out)[Len(out)] = isize

WInv == OInv /\ Written

(* The byte emitted for the node cur.                                      *)
NextByte == IF as[cur].count < 2 THEN in[cur + 1] % FLAG
            ELSE mk_ptr(as[cur].count, uint8(Offset(cur)))

(* It stands for the characters of the node.                               *)
LEMMA ByteOfNode ==
  ASSUME WInv, pc = "emit", cur \in Nodes
  PROVE  /\ NextByte \in Byte
         /\ count(NextByte) = Size(cur)
         /\ cur + Size(cur) <= isize
         /\ ~IsPointer(NextByte) => in[cur + 1] = NextByte
         /\ IsPointer(NextByte) =>
              /\ Source(Append(out, NextByte), Len(out)) >= 0
              /\ \A k \in 1 .. count(NextByte) :
                   in[cur + k]
                     = in[Starts(out)[Source(Append(out, NextByte), Len(out))] + k]
<1>1. /\ OInv /\ IInv /\ Listed /\ Written
  BY DEF WInv, OInv, Listed
<1>2. /\ isize \in Nat /\ as \in [Nodes -> Node] /\ Nodes = 0 .. (isize - 1)
      /\ out \in Seq(Byte) /\ Tiles /\ TypeOK
  BY <1>1, ListFacts
<1>3. Size(cur) \in Nat /\ Size(cur) >= 1 /\ cur + Size(cur) <= isize
  BY <1>2, NodeTypes DEF Tiles
<1>4. FLAG \in Nat /\ FLAG >= 2 /\ LOOKBACK \in Nat
  BY FormatBounds
<1>7. NextByte = IF Size(cur) < 2 THEN in[cur + 1] % FLAG
                 ELSE mk_ptr(Size(cur), uint8(Offset(cur)))
  BY Zenon DEF NextByte, Size
<1>5. CASE Size(cur) < 2
  <2>1. Size(cur) = 1 /\ NextByte = in[cur + 1] % FLAG
    BY <1>3, <1>5, <1>7
  <2>2. in[cur + 1] \in Literal
    BY <1>1, <1>2 DEF TypeOK
  <2>3. in[cur + 1] % FLAG = in[cur + 1]
    BY <1>4, <2>2 DEF Literal
  <2>4. NextByte = in[cur + 1] /\ NextByte \in Byte /\ ~IsPointer(NextByte)
    BY <1>4, <2>1, <2>2, <2>3 DEF Literal, Byte, IsPointer
  <2>5. count(NextByte) = 1
    BY <2>4 DEF count
  <2> QED  BY <1>3, <2>1, <2>4, <2>5
<1>6. CASE Size(cur) >= 2
  <2> DEFINE o == Offset(cur)
             f == From(cur)
  <2>1. /\ o \in 0 .. (LOOKBACK - 1)
        /\ Size(cur) <= (IF o = 0 THEN MAX_ZERO_MATCH ELSE MAX_MATCH)
        /\ f \in Linked /\ f < cur
        /\ SameText(f, cur, Size(cur))
    BY <1>1, <1>6, OffsetIsDistance
  <2>2. LOOKBACK <= FLAG
    BY FormatBounds
  <2>3. uint8(o) = o
    BY <1>4, <2>1, <2>2 DEF uint8
  <2>4. NextByte = mk_ptr(Size(cur), o)
    BY <1>3, <1>6, <1>7, <2>3
  <2>5. Size(cur) \in 2 .. (IF o = 0 THEN MAX_ZERO_MATCH ELSE MAX_MATCH)
    BY <1>3, <1>6, <2>1, FormatBounds
  <2>6. /\ IsPointer(NextByte) /\ count(NextByte) = Size(cur)
        /\ get_offset(NextByte) = o
    BY <2>1, <2>4, <2>5, PointerFields
  <2>7. NextByte \in Byte
    <3>1. o \in Int
      BY <1>4, <2>1
    <3> QED  BY <1>3, <2>4, <3>1, PointerIsByte
  <2>8. From(f) < Len(out) /\ Starts(out)[From(f)] = f /\ From(f) \in 0 .. (isize - 1)
    <3>1. f \in Nodes
      BY <2>1 DEF Linked
    <3>2. From(f) \in 0 .. (isize - 1)
      BY <1>2, <3>1, NodeTypes
    <3> QED  BY <1>1, <2>1, <3>2 DEF Written
  <2>9. Source(Append(out, NextByte), Len(out)) = From(f)
    <3>1. Append(out, NextByte)[Len(out) + 1] = NextByte
      BY <1>2
    <3>2. o = Len(out) - From(f) - 1
      BY DEF Offset, From
    <3> HIDE DEF o, f
    <3> QED  BY <1>2, <2>6, <2>8, <3>1, <3>2 DEF Source
  <2>10. \A k \in 1 .. Size(cur) : in[cur + k] = in[f + k]
    BY <2>1 DEF SameText
  <2>11. From(f) >= 0
    BY <1>2, <2>8
  <2> HIDE DEF o, f
  <2> QED  BY <1>3, <2>6, <2>7, <2>8, <2>9, <2>10, <2>11
<1> QED  BY <1>3, <1>5, <1>6

LEMMA EmitWritten == WInv /\ Emit => Written'
<1> SUFFICES ASSUME WInv, Emit PROVE Written'
  OBVIOUS
<1>1. IInv /\ Listed /\ pc = "emit" /\ Spells(out, in)
      /\ Starts(out)[Len(out)] = cur
      /\ \A x \in Linked : x < cur => /\ From(x) < Len(out)
                                     /\ Starts(out)[From(x)] = x
  BY DEF WInv, OInv, Written, Emit, Listed
<1>2. /\ cur \in 0 .. (isize - 1) /\ cur \in Linked /\ cur \in Nodes
      /\ in' = in /\ isize' = isize /\ Linked' = Linked
      /\ \A x \in Nodes : From(x)' = IF x = cur THEN Len(out) ELSE From(x)
      /\ Len(out) \in Nat /\ out \in Seq(Byte)
      /\ Size(cur) \in Nat /\ Size(cur) >= 1
      /\ \/ pc' = "done" /\ cur + Size(cur) = isize
         \/ /\ pc' = "emit" /\ cur' = cur + Size(cur)
            /\ cur' \in 0 .. (isize - 1)
  BY <1>1, EmitFacts
<1>3. /\ NextByte \in Byte
      /\ count(NextByte) = Size(cur)
      /\ cur + Size(cur) <= isize
      /\ ~IsPointer(NextByte) => in[cur + 1] = NextByte
      /\ IsPointer(NextByte) =>
           /\ Source(Append(out, NextByte), Len(out)) >= 0
           /\ \A k \in 1 .. count(NextByte) :
                in[cur + k]
                  = in[Starts(out)[Source(Append(out, NextByte), Len(out))] + k]
  BY <1>1, <1>2, ByteOfNode
<1>4. out' = Append(out, NextByte)
  BY DEF Emit, NextByte
<1> DEFINE c == NextByte
           e == Append(out, c)
<1> HIDE DEF c
<1>5. Spells(e, in)
  <2>1. Starts(out)[Len(out)] + count(c) <= Len(in)
    BY <1>1, <1>3 DEF c, isize
  <2> QED  BY <1>1, <1>2, <1>3, <2>1, SpellsAppend DEF c
<1>6. /\ \A p \in 0 .. Len(out) : Starts(e)[p] = Starts(out)[p]
      /\ Starts(e)[Len(out) + 1] = Starts(out)[Len(out)] + count(c)
  BY <1>2, <1>3, StartsAppend DEF c
<1>7. out' = e /\ Len(e) = Len(out) + 1
  BY <1>2, <1>4 DEF c
<1> HIDE DEF e
<1>8. Starts(e)[Len(e)] = cur + Size(cur)
  BY <1>1, <1>3, <1>6, <1>7 DEF c
<1>9. ASSUME NEW x \in Linked, x < cur + Size(cur)
      PROVE  From(x)' < Len(e) /\ Starts(e)[From(x)'] = x
  <2>1. isize \in Nat /\ as \in [Nodes -> Node] /\ Nodes = 0 .. (isize - 1)
    BY <1>1, ListFacts
  <2>2. x \in Nodes /\ x \in Int /\ cur \in Int
    BY <1>2, <2>1 DEF Linked
  <2>3. CASE x = cur
    <3>1. Len(out) < Len(e) /\ Len(out) \in 0 .. Len(out)
      BY <1>2, <1>7
    <3> QED  BY <1>1, <1>2, <1>6, <2>2, <2>3, <3>1
  <2>4. CASE x < cur
    <3>1. From(x) < Len(out) /\ Starts(out)[From(x)] = x /\ From(x)' = From(x)
      BY <1>1, <1>2, <2>2, <2>4
    <3>2. From(x) \in 0 .. (isize - 1)
      BY <2>1, <2>2, NodeTypes
    <3>3. From(x) \in 0 .. Len(out) /\ From(x) < Len(e)
      BY <1>2, <1>7, <2>1, <3>1, <3>2
    <3> QED  BY <1>6, <3>1, <3>3
  <2>5. ~(cur < x)
    <3>1. cur < x => cur + Size(cur) <= x
      BY <1>2, <2>1, LinkedApart
    <3> QED  BY <1>2, <1>9, <2>2, <3>1
  <2> QED  BY <2>2, <2>3, <2>4, <2>5
<1>10. Spells(out, in)'
  BY <1>2, <1>5, <1>7
<1>11. Starts(out)' = Starts(e) /\ Len(out') = Len(e)
  BY <1>7
<1>12. (Starts(out)[Len(out)])' = Starts(e)[Len(e)]
  BY <1>7
<1> QED
  BY <1>2, <1>7, <1>8, <1>9, <1>10, <1>12 DEF Written

LEMMA InitWInv == Init => WInv
BY InitOut DEF Init, Written, WInv

LEMMA StepWritten == WInv /\ [FreeNext]_vars => Written'
<1> SUFFICES ASSUME WInv, [FreeNext]_vars PROVE Written'
  OBVIOUS
<1>1. CASE Reject \/ PrepareNothing \/ Prepare \/ FreeCompare \/ Swallow \/ FreeReplace
  <2>1. pc' \notin {"emit", "done"}
    BY <1>1 DEF Reject, PrepareNothing, Prepare, FreeCompare, Swallow, FreeReplace
  <2> QED  BY <2>1 DEF Written
<1>2. CASE Advance
  <2>8. IInv /\ pc = "scan" /\ Listed
    BY <1>2 DEF WInv, OInv, Advance, Listed
  <2>9. in \in Seq(Byte) /\ isize \in Nat
    BY <2>8, ListFacts
  <2>10. \A x \in Linked : x >= 0 /\ x \in Int
    BY <2>9, LinkedFinite
  <2>1. pc = "scan" /\ out = << >> /\ cur = 0 /\ in \in Seq(Byte) /\ isize \in Nat
        /\ \A x \in Linked : x >= 0 /\ x \in Int
    BY <2>8, <2>9, <2>10 DEF IInv, Scanning
  <2>2. UNCHANGED <<in, as, cur, out>> /\ pc' \in {"scan", "emit"}
    BY <1>2, <2>1 DEF Advance
  <2>3. Linked' = Linked
    BY <2>2, SameLinked
  <2>4. Spells(<< >>, in)
    BY <2>1, SpellsNothing
  <2>5. Starts(<< >>)[0] = 0 /\ Len(<< >>) = 0
    <3>1. << >> \in Seq(Byte)
      OBVIOUS
    <3> QED  BY <3>1, StartsValue
  <2>6. \A x \in Linked : ~(x < 0)
    BY <2>1
  <2>7. out' = << >> /\ cur' = 0 /\ in' = in
    BY <2>1, <2>2
  <2> QED  BY <2>2, <2>3, <2>4, <2>5, <2>6, <2>7 DEF Written
<1>3. CASE Emit
  BY <1>3, EmitWritten
<1>4. CASE UNCHANGED vars
  <2>1. UNCHANGED <<in, pc, as, cur, out>>
    BY <1>4 DEF vars
  <2> QED  BY <2>1 DEF WInv, Written, Linked, From, Nodes, isize
<1> QED  BY <1>1, <1>2, <1>3, <1>4 DEF FreeNext

LEMMA StepWInv == WInv /\ [FreeNext]_vars => WInv'
BY StepOut, StepWritten DEF WInv

THEOREM WrittenInvariance == Spec => []WInv
<1>1. WInv => IInv
  BY DEF WInv, OInv
<1> QED  BY <1>1, InitWInv, StepWInv, NextIsFree, PTL DEF Spec

LEMMA WrittenDecodes == WInv => OutputDecodes
<1> SUFFICES ASSUME WInv, pc = "done"
             PROVE  DecodesVia(out, in, Starts(out)) /\ Len(out) <= isize
  BY DEF OutputDecodes
<1>1. out \in Seq(Byte) /\ in \in Seq(Byte)
  BY DEF WInv, OInv, IInv, TypeOK
<1>2. Spells(out, in) /\ Starts(out)[Len(out)] = Len(in)
  BY DEF WInv, Written, isize
<1> QED  BY <1>1, <1>2, SpellsAll DEF isize

(* The output of every call that returns normally decodes to the input and *)
(* is not longer than it (lzjwm.h:11, lzjwm_compress.c:79-89).             *)
THEOREM OutputAlwaysDecodes == Spec => []OutputDecodes
BY WrittenDecodes, WrittenInvariance, PTL

-----------------------------------------------------------------------------
(* The operators of Encoding, instantiated, are those of this module.      *)
LEMMA EncodingOperators ==
  /\ E!Covered = Starts(out)[Len(out)]
  /\ E!Byte = Byte
  /\ \A c : /\ E!IsPointer(c) <=> IsPointer(c)
           /\ E!count(c) = count(c)
  /\ \A e, p : E!Source(e, p) = Source(e, p)
  /\ E!Starts(out) = Starts(out)
BY DEF E!Covered, E!Starts, E!count, E!get_offset, E!Source, E!IsPointer, E!IsZeroOffset,
       E!ZeroPage, E!ZeroShift, E!FLAG, E!Byte,
       Starts, count, get_offset, Source, IsPointer, IsZeroOffset, ZeroPage, ZeroShift,
       FLAG, Byte

LEMMA EmitEncodes == WInv /\ Emit => E!Encode
<1> SUFFICES ASSUME WInv, Emit PROVE E!Encode
  OBVIOUS
<1>1. IInv /\ Listed /\ pc = "emit" /\ Starts(out)[Len(out)] = cur
  BY DEF WInv, OInv, Written, Emit, Listed
<1>2. /\ cur \in 0 .. (isize - 1) /\ cur \in Nodes /\ in' = in
      /\ Size(cur) \in Nat
      /\ \/ pc' = "done" /\ cur + Size(cur) = isize
         \/ /\ pc' = "emit" /\ cur' = cur + Size(cur)
            /\ cur' \in 0 .. (isize - 1)
  BY <1>1, EmitFacts
<1> DEFINE c == NextByte
<1>3. /\ c \in Byte
      /\ count(c) = Size(cur)
      /\ cur + Size(cur) <= isize
      /\ ~IsPointer(c) => in[cur + 1] = c
      /\ IsPointer(c) =>
           /\ Source(Append(out, c), Len(out)) >= 0
           /\ \A k \in 1 .. count(c) :
                in[cur + k] = in[Starts(out)[Source(Append(out, c), Len(out))] + k]
  BY <1>1, <1>2, ByteOfNode
<1>4. out' = Append(out, c)
  BY DEF Emit, NextByte
<1> HIDE DEF c
<1>5. E!StandsForNext(c)
  <2>1. E!Covered + E!count(c) <= Len(in)
    BY <1>1, <1>3, EncodingOperators DEF isize
  <2> QED  BY <1>1, <1>3, <2>1, EncodingOperators, Zenon DEF E!StandsForNext
<1>6. isize \in Nat
  BY <1>1, ListFacts
<1>7. (pc \in {"done", "rejected"})' <=> (E!Covered + E!count(c) = Len(in))
  <2>1. E!Covered + E!count(c) = cur + Size(cur)
    BY <1>1, <1>3, EncodingOperators
  <2>2. \A r \in 0 .. (isize - 1) : r # isize
    BY <1>6
  <2>3. \/ pc' = "done" /\ cur + Size(cur) = isize
        \/ pc' = "emit" /\ cur + Size(cur) # isize
    BY <1>2, <2>2, Zenon
  <2> QED  BY <2>1, <2>3 DEF isize
<1>8. c \in E!Byte
  BY <1>3, EncodingOperators
<1>9. ~(pc \in {"done", "rejected"})
  BY <1>1
<1>10. (pc \in {"done", "rejected"})' = (E!Covered + E!count(c) = Len(in))
  BY <1>7
<1> QED  BY <1>2, <1>4, <1>5, <1>8, <1>9, <1>10, Zenon DEF E!Encode

LEMMA StepEncodes == WInv /\ [FreeNext]_vars => (isize > 0 => [E!Next]_(E!vars))
<1> SUFFICES ASSUME WInv, [FreeNext]_vars, isize > 0 PROVE [E!Next]_(E!vars)
  OBVIOUS
<1>1. CASE Emit
  BY <1>1, EmitEncodes DEF E!Next
<1>2. CASE Reject
  <2>1. pc = "prepare" /\ pc' = "rejected" /\ in' = in /\ out' = out /\ out = << >>
    BY <1>2 DEF Reject, WInv, OInv, IInv, Preparing
  <2>2. \E k \in DOMAIN in : E!IsPointer(in[k])
    <3>1. PICK x \in Nodes : IsPointer(in[x + 1])
      BY <1>2 DEF Reject
    <3>2. x + 1 \in DOMAIN in
      BY InputSize DEF WInv, OInv, IInv, TypeOK, Nodes, isize
    <3> QED  BY <3>1, <3>2, EncodingOperators
  <2>3. E!Refuse
    BY <2>1, <2>2 DEF E!Refuse
  <2> QED  BY <2>3 DEF E!Next
<1>3. CASE PrepareNothing
  BY <1>3 DEF PrepareNothing
<1>4. CASE Prepare \/ FreeCompare \/ Advance \/ Swallow \/ FreeReplace
  <2>1. in' = in /\ out' = out
    BY <1>4 DEF Prepare, FreeCompare, Advance, Swallow, FreeReplace
  <2>2. pc \notin {"done", "rejected"} /\ pc' \notin {"done", "rejected"}
    BY <1>4 DEF Prepare, FreeCompare, Advance, Swallow, FreeReplace
  <2> QED  BY <2>1, <2>2 DEF E!vars
<1>5. CASE UNCHANGED vars
  BY <1>5 DEF vars, E!vars
<1> QED  BY <1>1, <1>2, <1>3, <1>4, <1>5 DEF FreeNext

(* The encoder is an encoder in the sense of Encoding: every byte it       *)
(* writes stands for the next characters of the input, and it returns with *)
(* the last one (lzjwm_compress.c:45-48, 79-89).                           *)
THEOREM CompressorEncodes == Spec => Encodes
<1>1. Init => (isize > 0 => E!Init)
  BY DEF Init, E!Init
<1>2. WInv /\ [FreeNext]_vars => [isize > 0 => [E!Next]_(E!vars)]_vars
  BY StepEncodes
<1>3. WInv => IInv
  BY DEF WInv, OInv
<1> QED  BY <1>1, <1>2, <1>3, NextIsFree, WrittenInvariance, PTL DEF Spec, Encodes
=============================================================================
