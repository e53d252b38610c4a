---------------------------- MODULE PyCompressor ----------------------------
(***************************************************************************)
(* lzjwm.py -c: the Python encoder.  It compresses a list of records into  *)
(* one stream and tells where in the stream each record starts, so that a  *)
(* program can decode one record without the others.                       *)
(*                                                                         *)
(* The list of nodes is that of Compressor, with two more rules: a node    *)
(* where a record starts (aux_data) is never swallowed by a match, and     *)
(* with -z no match contains a NUL.  Nodes are created when next is first  *)
(* asked for, which nothing can observe: here they are all there.          *)
(*                                                                         *)
(* -s, -0 and -z are modelled; the records may come from files, from lines *)
(* (-l) or from a YAML file (-y).  The form of the output (-f) is not.     *)
(***************************************************************************)
EXTENDS LZFormat, SequencesExt

CONSTANT Jobs  \* the records and the options -s (unify), -0 (terminate), -z (keepNul)

(* The configuration of the program is never given zero_bits.              *)
ASSUME NoZeroPage == ZERO_BITS = 0
ASSUME JobsAssumption ==
  Jobs \subseteq [data : Seq(Seq(Literal)),
                  unify : BOOLEAN, terminate : BOOLEAN, keepNul : BOOLEAN]

VARIABLES
  job,
  pc,        \* the loop the program is in, or how it ended
  items,     \* the records compressed: with -s the distinct ones, sorted
  mv,        \* the bytes of all items
  aux,       \* for every position in mv the item that starts there
  nodes,     \* _next, offset, count and counter of every position
  dptr, cl, i, m, nn, d, j,   \* as in Compressor
  head,      \* the node the output walk is at
  counter,   \* the bytes written
  place,     \* compressed_offset of every item
  offsets,   \* compressed_offset of every record
  out        \* the output

vars == <<job, pc, items, mv, aux, nodes, dptr, cl, i, m, nn, d, j,
          head, counter, place, offsets, out>>

scan_vars == <<dptr, cl, i, m, nn, d, j>>
text_vars == <<job, items, mv, aux>>
out_vars == <<head, counter, place, offsets, out>>

None == -1
NUL == 0

Init ==
  /\ job \in Jobs
  /\ pc = "unify"
  /\ items = << >> /\ mv = << >> /\ aux = << >> /\ nodes = << >>
  /\ dptr = 0 /\ cl = 0 /\ i = 0 /\ m = 0 /\ nn = 0 /\ d = 0 /\ j = 0
  /\ head = 0 /\ counter = 0 /\ place = << >> /\ offsets = << >>
  /\ out = << >>

(* The order of bytes objects.                                             *)
Before(a, b) ==
  \E k \in 0 .. Len(a) :
    /\ k < Len(b)
    /\ SubSeq(a, 1, k) = SubSeq(b, 1, k)
    /\ k = Len(a) \/ a[k + 1] < b[k + 1]

Sorted(S) ==
  CHOOSE s \in SetToSeqs(S) : \A k, l \in DOMAIN s : k < l => Before(s[k], s[l])

(* -s: one record for all that hold the same data.                         *)
Unified == IF job.unify THEN Sorted(ToSet(job.data)) ELSE job.data

Unify ==
  /\ pc = "unify"
  /\ items' = Unified
  /\ pc' = "prepare"
  /\ UNCHANGED <<job, mv, aux, nodes, scan_vars, out_vars>>

(* prepare_nodes: join the items, each with its terminator.  aux_data maps *)
(* the position of an item to the item; when empty items precede another   *)
(* at the same position the last one is kept.                              *)
Joined(its) ==
  FlattenSeq([k \in DOMAIN its |->
                its[k] \o (IF job.terminate THEN <<NUL>> ELSE << >>)])

(* Mutant: the terminators are not counted.                                *)
Position_Data(k) == Len(FlattenSeq(SubSeq(items, 1, k - 1)))

Position(k) == Len(Joined(SubSeq(items, 1, k - 1)))

(* Untouched nodes with the successors next.                               *)
Chain(next) ==
  [x \in DOMAIN next |->
     [next |-> next[x], offset |-> None, count |-> 1, counter |-> None]]

(* Mutant: there is a node past the end.                                   *)
Linked_PastEnd(n) == Chain([x \in 0 .. (n - 1) |-> x + 1])

Linked(n) == Chain([x \in 0 .. (n - 1) |-> IF x + 1 < n THEN x + 1 ELSE None])

Prepare ==
  /\ pc = "prepare"
  /\ mv' = Joined(items)
  /\ aux' = [x \in 0 .. (Len(mv') - 1) |->
               Max({k \in DOMAIN items : Position(k) = x} \cup {None})]
  /\ nodes' = Linked(Len(mv'))
  /\ place' = [k \in DOMAIN items |-> None]
  /\ pc' = IF mv' = << >> THEN "collect" ELSE "scan"
  /\ UNCHANGED <<job, items, scan_vars, head, counter, offsets, out>>

(* Node.match: how far the data at x and at y agree, up to the end or a    *)
(* byte that must not be compressed.                                       *)
Agree(x, y) == mv[x + 1] = mv[y + 1]

(* Mutant: NULs are compressed.                                            *)
Compressible_All(x) == TRUE

Compressible(x) == ~(job.keepNul /\ mv[x + 1] = NUL)

match(x, y, longest) ==
  LET room == Len(mv) - Max({x, y})
      limit == Min({longest, room})
  IN  CHOOSE n \in 0 .. limit :
        /\ \A k \in 0 .. (n - 1) : Agree(x + k, y + k) /\ Compressible(x + k)
        /\ n = limit \/ ~Agree(x + n, y + n) \/ ~Compressible(x + n)

Visit(window) ==
  /\ pc = "scan"
  /\ i < window
  /\ nodes[cl].next # None
  /\ cl' = nodes[cl].next
  /\ LET n == match(dptr, cl', IF i = 0 THEN MAX_ZERO_MATCH ELSE MAX_MATCH) IN
     IF n >= 2
     THEN /\ pc' = "prune"
          /\ m' = n
          /\ nn' = cl'
          /\ d' = 0
          /\ j' = 0
          /\ UNCHANGED i
     ELSE /\ i' = i + 1
          /\ UNCHANGED <<pc, m, nn, d, j>>
  /\ UNCHANGED <<text_vars, nodes, dptr, out_vars>>

(* Mutant: one node too many.                                              *)
Compare_Window == Visit(LOOKBACK + 1)

(* A turn of the loop over offset: the node after cl is compared.          *)
Compare == Visit(LOOKBACK)

(* The loop over offset ends: dptr moves on, and after the last node the   *)
(* output walk begins.                                                     *)
Advance ==
  /\ pc = "scan"
  /\ i >= LOOKBACK \/ nodes[cl].next = None
  /\ IF nodes[dptr].next = None
     THEN pc' = "emit" /\ UNCHANGED <<dptr, cl, i>>
     ELSE dptr' = nodes[dptr].next /\ cl' = dptr' /\ i' = 0 /\ UNCHANGED pc
  /\ UNCHANGED <<text_vars, nodes, m, nn, d, j, out_vars>>

(* Mutant: a record's first node is swallowed.                             *)
Fits_Records == nn # None /\ j + nodes[nn].count <= m

(* The node nn can be swallowed: it does not start a record and fits.      *)
Fits == nn # None /\ aux[nn] = None /\ j + nodes[nn].count <= m

Swallow ==
  /\ pc = "prune"
  /\ Fits
  /\ j' = j + nodes[nn].count
  /\ nn' = nodes[nn].next
  /\ d' = d + 1
  /\ UNCHANGED <<text_vars, pc, nodes, dptr, cl, i, m, out_vars>>

Chop(saves) ==
  /\ pc = "prune"
  /\ ~Fits
  /\ nodes' = IF saves
              THEN [nodes EXCEPT ![cl].next = nn, ![cl].count = j, ![cl].offset = dptr]
              ELSE nodes
  /\ i' = i + 1
  /\ pc' = "scan"
  /\ UNCHANGED <<text_vars, dptr, cl, m, nn, d, j, out_vars>>

(* Mutant: a node is replaced on its own, too.                             *)
Replace_One == Chop(d >= 1)

(* The next node does not fit: cl takes the place of the d nodes when that *)
(* saves a byte.                                                           *)
Replace == Chop(d >= 2)

(* The byte of a pointer.  An offset too wide by one bit runs into the     *)
(* flag; bytes([...]) and the assertion raise on anything else.            *)
Shifted(x) == (counter - nodes[nodes[x].offset].counter - 1) * (2 ^ COUNT_BITS)
Encodable(x) ==
  nodes[x].count > 1 => nodes[x].count <= MAX_MATCH /\ Shifted(x) \in Byte
the_byte(x) == FLAG + (Shifted(x) % FLAG) + ((nodes[x].count - 2) % (2 ^ COUNT_BITS))

(* One byte for every node left, and the offset of the item it starts.     *)
Emit ==
  /\ pc = "emit"
  /\ place' = IF aux[head] = None THEN place
              ELSE [place EXCEPT ![aux[head]] = counter]
  /\ IF Encodable(head)
     THEN /\ out' = Append(out, IF nodes[head].count > 1 THEN the_byte(head)
                                                         ELSE mv[head + 1])
          /\ nodes' = [nodes EXCEPT ![head].counter = counter]
          /\ counter' = counter + 1
          /\ head' = nodes[head].next
          /\ pc' = IF head' = None THEN "collect" ELSE "emit"
     ELSE /\ pc' = "raised"
          /\ UNCHANGED <<out, nodes, counter, head>>
  /\ UNCHANGED <<text_vars, scan_vars, offsets>>

(* main: every record gets the offset of its item; an empty one that has   *)
(* none gets 0, and one that holds data and has none is a KeyError.        *)
ItemOf(r) ==
  CHOOSE k \in DOMAIN items : IF job.unify THEN items[k] = job.data[r] ELSE k = r

Collect ==
  /\ pc = "collect"
  /\ offsets' = [r \in DOMAIN job.data |->
                   IF place[ItemOf(r)] = None /\ items[ItemOf(r)] = << >>
                   THEN 0 ELSE place[ItemOf(r)]]
  /\ pc' = IF None \in ToSet(offsets') THEN "raised" ELSE "done"
  /\ UNCHANGED <<text_vars, nodes, scan_vars, head, counter, place, out>>

Next ==
  \/ Unify \/ Prepare
  \/ Compare \/ Advance \/ Swallow \/ Replace
  \/ Emit \/ Collect

Spec == Init /\ [][Next]_vars

(* One thread that runs until the program exits.                           *)
FairSpec == Spec /\ WF_vars(Next)

-----------------------------------------------------------------------------
Positions == 0 .. (Len(mv) - 1)
Node ==
  [next : Positions \cup {None}, offset : Positions \cup {None},
   count : 1 .. MAX_MATCH, counter : Nat \cup {None}]

TypeOK ==
  /\ pc \in {"unify", "prepare", "scan", "prune", "emit", "collect", "raised", "done"}
  /\ items \in Seq(Seq(Literal))
  /\ mv \in Seq(Literal)
  /\ pc \notin {"unify", "prepare"} =>
       /\ aux \in [Positions -> DOMAIN items \cup {None}]
       /\ nodes \in [Positions -> Node]
       /\ place \in [DOMAIN items -> Nat \cup {None}]
  /\ pc \in {"scan", "prune", "emit"} =>
       /\ {dptr, cl} \subseteq Positions
       /\ head \in Positions
       /\ nn \in Positions \cup {None}
  /\ i \in 0 .. LOOKBACK
  /\ m \in 0 .. MAX_MATCH
  /\ j \in 0 .. m
  /\ d \in 0 .. m
  /\ counter = Len(out)
  /\ out \in Seq(Byte)

(* Every byte is right when it is written: at each moment the output is a  *)
(* stream for a prefix of the joined records, and the encoder ends with    *)
(* the byte that completes it (lzjwm.py:149-166).                          *)
E == INSTANCE Encoding WITH
       Texts <- Seq(Literal),
       text <- Joined(IF pc = "unify" THEN Unified ELSE items),
       enc <- out, ended <- pc \in {"collect", "done"}
Encodes == E!Spec

(* Each record can be decoded without the others: the characters that the  *)
(* bytes from its offset on stand for begin with it.  (The aux_data rule   *)
(* at lzjwm.py:134-137; -f c writes the offsets and lengths for a program  *)
(* to decode from.)                                                        *)
RecordsAddressable ==
  pc = "done" =>
    \A r \in DOMAIN job.data :
      LET first == Starts(out)[offsets[r]] IN
      SubSeq(Decode(out), first + 1, first + Len(job.data[r])) = job.data[r]

(* No pointer is out of range, no record is left without an offset, and    *)
(* the program ends: the KeyError, the ValueError and the assertion never  *)
(* come.                                                                   *)
Succeeds == <>(pc = "done")

(* The two encoders agree: on a single record that the options leave alone *)
(* every step is one of lzjwm_compress on that record, or none, so the     *)
(* outputs are the same byte for byte.  from of the C array holds first    *)
(* the source and then the place in the output.                            *)
Plain ==
  /\ Len(job.data) = 1 /\ job.data[1] # << >>
  /\ ~job.terminate
  /\ job.keepNul => NUL \notin ToSet(job.data[1])

from_field(x) ==
  IF nodes[x].counter # None THEN nodes[x].counter
  ELSE IF nodes[x].offset # None THEN nodes[x].offset ELSE 0

C == INSTANCE Compressor WITH
       Inputs <- Seq(Literal),
       in <- FlattenSeq(job.data),
       pc <- CASE pc \in {"unify", "prepare"} -> "prepare"
               [] pc \in {"collect", "done"} -> "done"
               [] OTHER -> pc,
       as <- [x \in DOMAIN nodes |->
                [next |-> nodes[x].next, from |-> from_field(x), count |-> nodes[x].count]],
       cur <- head

AgreesWithC == (Plain => C!Init) /\ [][Plain => [C!Next]_(C!vars)]_vars
=============================================================================
