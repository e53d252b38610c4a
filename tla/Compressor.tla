----------------------------- MODULE Compressor -----------------------------
(***************************************************************************)
(* lzjwm_compress of lzjwm_compress.c: the greedy encoder.                 *)
(*                                                                         *)
(* Every input position is a node of a linked list threaded through the    *)
(* array as.  dptr walks the list; for each dptr, cl looks ahead up to     *)
(* LOOKBACK nodes for a place where the text at dptr occurs again.  The    *)
(* matched node cl becomes a pointer node (its count grows above 1) that   *)
(* swallows the nodes after it, which leave the list.  A last walk emits   *)
(* one byte per node and reuses the field from for the node's position in  *)
(* the output.                                                             *)
(***************************************************************************)
EXTENDS LZFormat, FiniteSets

CONSTANT Inputs     \* the inputs considered: a set of sequences of bytes

ASSUME InputsAssumption == Inputs \subseteq Seq(Byte)

VARIABLES
  in,        \* the input
  pc,        \* the loop the call is in, or how it ended
  as,        \* the list: next, from and count of every input position
  dptr,      \* the node whose text is looked for
  cl,        \* the node it is compared with
  i,         \* how many nodes after dptr the inner loop has visited
  m,         \* the length of the match at cl
  nn, d, j,  \* pruning: the node after the d nodes, of j characters, swallowed
  cur,       \* the node the output walk is at
  out        \* the output

vars == <<in, pc, as, dptr, cl, i, m, nn, d, j, cur, out>>

isize == Len(in)
Nodes == 0 .. (isize - 1)
Node == [next : -1 .. (isize - 1), from : Nodes, count : Byte]

-----------------------------------------------------------------------------
(***************************************************************************)
(* match(data, x, y, max, max_match): how many characters the text at x    *)
(* and the text at y share, at most max_match and never beyond the end.    *)
(***************************************************************************)
SameText(x, y, n) == \A k \in 1 .. n : in[x + k] = in[y + k]

match(x, y, max_match) ==
  LET room == IF x > y THEN isize - x ELSE isize - y
      limit == IF room > max_match THEN max_match ELSE room
  IN  CHOOSE n \in 0 .. limit :
        /\ SameText(x, y, n)
        /\ n < limit => in[x + n + 1] # in[y + n + 1]

-----------------------------------------------------------------------------
Init ==
  /\ in \in Inputs
  /\ pc = "prepare"
  /\ as = << >>
  /\ dptr = 0 /\ cl = 0 /\ i = 0 /\ m = 0
  /\ nn = 0 /\ d = 0 /\ j = 0
  /\ cur = 0
  /\ out = << >>

(* An input with a byte of 8 bits is refused: the call returns -1.         *)
Reject ==
  /\ pc = "prepare"
  /\ \E x \in Nodes : IsPointer(in[x + 1])
  /\ pc' = "rejected"
  /\ UNCHANGED <<in, as, dptr, cl, i, m, nn, d, j, cur, out>>

(* With isize = 0 the code writes as[isize - 1].next, one node before the  *)
(* array, and then reads as[0]: what follows is undefined.                 *)
PrepareNothing ==
  /\ pc = "prepare"
  /\ isize = 0
  /\ pc' = "undefined"
  /\ UNCHANGED <<in, as, dptr, cl, i, m, nn, d, j, cur, out>>

(* Mutant: the last node keeps next = isize.                               *)
Prepare_LastNext ==
  /\ pc = "prepare"
  /\ isize > 0
  /\ \A x \in Nodes : ~IsPointer(in[x + 1])
  /\ as' = [x \in Nodes |-> [next |-> x + 1, from |-> 0, count |-> 1]]
  /\ pc' = "scan"
  /\ UNCHANGED <<in, dptr, cl, i, m, nn, d, j, cur, out>>

Prepare ==
  /\ pc = "prepare"
  /\ isize > 0
  /\ \A x \in Nodes : ~IsPointer(in[x + 1])
  /\ as' = [x \in Nodes |->
              [next |-> IF x = isize - 1 THEN -1 ELSE x + 1,
               from |-> 0, count |-> 1]]
  /\ pc' = "scan"
  /\ UNCHANGED <<in, dptr, cl, i, m, nn, d, j, cur, out>>

(* A turn of the inner loop: step cl to the next node and compare it.      *)
Visit(window, longest) ==
  /\ pc = "scan"
  /\ i < window
  /\ as[cl].next >= 0
  /\ cl' = as[cl].next
  /\ LET n == match(dptr, cl', longest) IN
     IF n >= 2
     THEN /\ pc' = "prune"
          /\ m' = n
          /\ nn' = cl'
          /\ d' = 0
          /\ j' = 0
          /\ UNCHANGED i
     ELSE /\ i' = i + 1
          /\ UNCHANGED <<pc, m, nn, d, j>>
  /\ UNCHANGED <<in, as, dptr, cur, out>>

(* Mutants: one node too many; the long matches at every distance.         *)
Compare_Window == Visit(LOOKBACK + 1, IF i = 0 THEN MAX_ZERO_MATCH ELSE MAX_MATCH)
Compare_Longest == Visit(LOOKBACK, MAX_ZERO_MATCH)

Compare == Visit(LOOKBACK, IF i = 0 THEN MAX_ZERO_MATCH ELSE MAX_MATCH)

(* Mutant: dptr is not moved.                                              *)
Advance_Stays ==
  /\ pc = "scan"
  /\ i >= LOOKBACK \/ as[cl].next < 0
  /\ i' = 0
  /\ cl' = dptr
  /\ pc' = IF as[dptr].next = -1 THEN "emit" ELSE pc
  /\ UNCHANGED <<in, as, dptr, m, nn, d, j, cur, out>>

(* The inner loop ends at the window's or the list's end: dptr moves on,   *)
(* and after the last node the output walk begins.                         *)
Advance ==
  /\ pc = "scan"
  /\ i >= LOOKBACK \/ as[cl].next < 0
  /\ IF as[dptr].next = -1
     THEN /\ pc' = "emit"
          /\ UNCHANGED <<dptr, cl, i>>
     ELSE /\ dptr' = as[dptr].next
          /\ cl' = dptr'
          /\ i' = 0
          /\ UNCHANGED pc
  /\ UNCHANGED <<in, as, m, nn, d, j, cur, out>>

(* Mutant: the first node that exceeds the match is swallowed too.         *)
Fits_Overshoots == nn # -1 /\ j < m

(* The whole node nn still fits in the match.                              *)
Fits == nn # -1 /\ j + as[nn].count <= m

Swallow ==
  /\ pc = "prune"
  /\ Fits
  /\ j' = j + as[nn].count
  /\ nn' = as[nn].next
  /\ d' = d + 1
  /\ UNCHANGED <<in, pc, as, dptr, cl, i, m, cur, out>>

(* The next node does not fit: the d nodes are replaced by the node new at *)
(* position x when that saves a byte.                                      *)
Chop(x, new) ==
  /\ pc = "prune"
  /\ ~Fits
  /\ as' = IF d >= 2 THEN [as EXCEPT ![x] = new] ELSE as
  /\ i' = i + 1
  /\ pc' = "scan"
  /\ UNCHANGED <<in, dptr, cl, m, nn, d, j, cur, out>>

(* Mutants: the length of the match instead of that of the nodes; the      *)
(* earlier occurrence becomes the pointer.                                 *)
Replace_WholeMatch == Chop(cl, [next |-> nn, from |-> dptr, count |-> uint8(m)])
Replace_Earlier == Chop(dptr, [next |-> nn, from |-> cl, count |-> uint8(j)])

Replace == Chop(cl, [next |-> nn, from |-> dptr, count |-> uint8(j)])

(* Mutant: the distance instead of the number of bytes between.            *)
Offset_Distance(x) == Len(out) - as[as[x].from].from

(* The offset of the pointer at node x when it is the next to be emitted.  *)
(* The node it copies from was emitted before: its from is now where.      *)
Offset(x) == Len(out) - as[as[x].from].from - 1

Emit ==
  /\ pc = "emit"
  /\ out' = Append(out, IF as[cur].count < 2
                        THEN in[cur + 1] % FLAG
                        ELSE mk_ptr(as[cur].count, uint8(Offset(cur))))
  /\ as' = [as EXCEPT ![cur].from = Len(out)]
  /\ cur' = as[cur].next
  /\ pc' = IF cur' = -1 THEN "done" ELSE "emit"
  /\ UNCHANGED <<in, dptr, cl, i, m, nn, d, j>>

Next ==
  \/ Reject \/ PrepareNothing \/ Prepare
  \/ Compare \/ Advance
  \/ Swallow \/ Replace
  \/ Emit

Spec == Init /\ [][Next]_vars

(* The call runs in one thread that is never abandoned.                    *)
FairSpec == Spec /\ WF_vars(Next)

-----------------------------------------------------------------------------
Ended == pc \in {"done", "rejected", "undefined"}
Listed == pc \in {"scan", "prune", "emit", "done"}

TypeOK ==
  /\ in \in Seq(Byte)
  /\ pc \in {"prepare", "scan", "prune", "emit", "done", "rejected", "undefined"}
  /\ Listed => /\ isize > 0
               /\ \A x \in Nodes : in[x + 1] \in Literal
               /\ as \in [Nodes -> Node]
               /\ dptr \in Nodes
               /\ cl \in Nodes
  /\ i \in 0 .. LOOKBACK
  /\ m \in 0 .. MAX_ZERO_MATCH
  /\ nn \in -1 .. (isize - 1) \cup {0}
  /\ d \in Nat
  /\ j \in 0 .. MAX_ZERO_MATCH
  /\ cur \in -1 .. (isize - 1) \cup {0}
  /\ pc = "emit" => cur >= 0
  /\ out \in Seq(Byte)

(***************************************************************************)
(* The nodes on the list: the positions no pointer node before them has    *)
(* swallowed.                                                              *)
(***************************************************************************)
Linked == {x \in Nodes : \A y \in 0 .. (x - 1) : y + as[y].count <= x}

(* The list always tiles the input: a node's successor is the position     *)
(* after the last character it stands for, and the last node ends where    *)
(* the input ends, so no surgery loses or repeats a character.  (The chop  *)
(* at lzjwm_compress.c:71-75.)                                             *)
ListTilesInput ==
  Listed =>
    /\ 0 \in Linked
    /\ \A x \in Linked :
         LET end == x + as[x].count IN
         IF end = isize THEN as[x].next = -1
         ELSE as[x].next = end /\ end \in Linked

(* A pointer that is still to be emitted copies the very text it replaces, *)
(* whatever later matches did to the nodes between it and its source; and  *)
(* its source is a node that will have been emitted, so its from is then   *)
(* an output position and not a stale input position.                      *)
CopiesAreFaithful ==
  Listed =>
    \A x \in Linked :
      as[x].count >= 2 /\ (pc = "emit" => x >= cur) /\ pc # "done" =>
        /\ as[x].from \in Linked
        /\ as[x].from < x
        /\ SameText(as[x].from, x, as[x].count)

(* What the assertions of mk_ptr and the widths of its fields demand: the  *)
(* number of output bytes between a pointer and its source is below        *)
(* LOOKBACK although it was measured in list nodes, before later matches   *)
(* rewrote the list, and the longer matches are only used at offset 0.     *)
OffsetsFit ==
  pc = "emit" /\ as[cur].count >= 2 =>
    /\ Offset(cur) \in 0 .. (LOOKBACK - 1)
    /\ as[cur].count <= (IF Offset(cur) = 0 THEN MAX_ZERO_MATCH ELSE MAX_MATCH)

(* When the call returns, the output stands for the input, and "it will    *)
(* never increase the size" (lzjwm.h:11).                                  *)
OutputDecodes ==
  pc = "done" => DecodesVia(out, in, Starts(out)) /\ Len(out) <= isize

(* Every byte is right when it is written: at each moment the output is a  *)
(* stream for a prefix of the input, and the call returns with the byte    *)
(* that completes it, or refuses the input before it writes anything       *)
(* (lzjwm_compress.c:45-48, 79-89).                                        *)
E == INSTANCE Encoding WITH
       Texts <- Inputs,
       text <- in, enc <- out, ended <- pc \in {"done", "rejected"}
Encodes == (isize > 0 => E!Init) /\ [][isize > 0 => [E!Next]_(E!vars)]_vars

(* The encoder never rewrites what it has walked past: dptr only moves     *)
(* forward, a node that left the list does not come back, and the nodes up *)
(* to dptr keep their extent.  This is why an offset can only shrink after *)
(* it was measured.                                                        *)
WalkedPartIsFrozen ==
  [][Listed => /\ dptr' >= dptr
               /\ Linked' \subseteq Linked
               /\ \A x \in Linked : x <= dptr => /\ as'[x].count = as[x].count
                                                /\ as'[x].next = as[x].next]_vars

(* Every call ends.                                                        *)
Terminates == <>Ended

(* Data of 7 bits can be encoded (lzjwm.h:9): no input leaves the array.   *)
StaysInArray == pc # "undefined"

=============================================================================
