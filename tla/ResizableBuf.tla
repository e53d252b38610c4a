---------------------------- MODULE ResizableBuf ----------------------------
(***************************************************************************)
(* The functions of resizable_buf.c as operators: each takes a buffer and  *)
(* its arguments and returns the buffer after the call.                    *)
(*                                                                         *)
(* A buffer is [mem, len, ok]: mem is the allocated memory (its length is  *)
(* the field size of rb_t), len the field len, and ok turns false when a   *)
(* call touches memory it does not own or fails an assertion (they are     *)
(* compiled in: assert.h is included before NDEBUG is defined).            *)
(***************************************************************************)
EXTENDS Integers, Sequences

CONSTANT
  GROWTH     \* bytes added to the size beyond its half: 8 in the code

ASSUME GrowthAssumption == GROWTH \in Nat \ {0}

NUL == 0
Junk == -1   \* a byte nobody has written

Unwritten(n) == [k \in 1 .. n |-> Junk]
Fill(byte, n) == [k \in 1 .. n |-> byte]

RB_BLANK == [mem |-> << >>, len |-> 0, ok |-> TRUE]
rb_size(r) == Len(r.mem)
Contents(r) == SubSeq(r.mem, 1, r.len)

(* The first of the sizes z, NextSize(z), ... that has room for n bytes.   *)
NextSize(z) == z + (z \div 2) + GROWTH
RoomFor(z, n) ==
  LET f[k \in 0 .. n] == IF k = 0 THEN z ELSE NextSize(f[k - 1])
  IN  f[CHOOSE k \in 0 .. n : f[k] >= n /\ (k = 0 \/ f[k - 1] < n)]

(* realloc keeps the old bytes, malloc does not.                           *)
realloc(r, z) == [r EXCEPT !.mem = @ \o Unwritten(z - Len(@))]
malloc(r, z) == [r EXCEPT !.mem = Unwritten(z)]

(* memcpy and memmove into the buffer.                                     *)
memcpy(r, at, s) ==
  IF at + Len(s) > rb_size(r) THEN [r EXCEPT !.ok = FALSE]
  ELSE [r EXCEPT !.mem = SubSeq(@, 1, at) \o s \o SubSeq(@, at + Len(s) + 1, Len(@))]

memmove(r, to, from, n) ==
  IF from + n > rb_size(r) THEN [r EXCEPT !.ok = FALSE]
  ELSE memcpy(r, to, SubSeq(r.mem, from + 1, from + n))

Longer(r, n) == [r EXCEPT !.len = @ + n]
Assert(condition, r) == [r EXCEPT !.ok = @ /\ condition]

-----------------------------------------------------------------------------
rb_grow(r, sz) ==
  IF r.len + sz > rb_size(r) THEN realloc(r, RoomFor(rb_size(r), r.len + sz)) ELSE r

rb_makesize(r, sz, preserve) ==
  IF sz <= rb_size(r) THEN r
  ELSE IF preserve THEN realloc(r, RoomFor(rb_size(r), sz))
  ELSE malloc(r, RoomFor(rb_size(r), sz))

rb_resize(r, n, preserve) == [rb_makesize(r, n, preserve) EXCEPT !.len = n]

rb_resize_fill(r, n, byte) ==
  LET big == rb_makesize(r, n, TRUE)
      set == IF n > r.len THEN memcpy(big, r.len, Fill(byte, n - r.len)) ELSE big
  IN  [set EXCEPT !.len = n]

rb_push(r, n) == Longer(rb_grow(r, n), n)
rb_append(r, s) == memcpy(rb_push(r, Len(s)), r.len, s)
rb_calloc(r, n) == rb_append(r, Fill(NUL, n))
rb_putc(r, ch) == Longer(memcpy(rb_grow(r, 1), r.len, <<ch>>), 1)
(* s is the UTF-8 form of a codepoint: one to four bytes.                  *)
rb_putwc(r, s) == Longer(memcpy(rb_grow(r, 4), r.len, s), Len(s))
rb_set(r, s) == memcpy(rb_resize(r, Len(s), FALSE), 0, s)
rb_stringize(r) == memcpy(rb_grow(r, 1), r.len, <<NUL>>)

(* The string functions: rb_strcat and rb_puts differ in what they return. *)
rb_strcpy(r, s) == rb_stringize(rb_set(r, s))
rb_strcat(r, s) == rb_stringize(rb_append(r, s))
rb_printf(r, s) ==
  Longer(memcpy(rb_grow(r, Len(s) + 1), r.len, Append(s, NUL)), Len(s))

(* A file read to its end, when it comes in two pieces (the module Files   *)
(* has the loop of rb_fread); the caller stringizes once more.             *)
rb_read_file(r, s, t) ==
  rb_stringize(rb_stringize(rb_append(rb_append(r, s), t)))

(* rb_extract looks at the length of rb where it means that of rb2.        *)
rb_extract(r, r2, loc, n) ==
  IF r.len < loc THEN r
  ELSE IF loc + n > rb_size(r2) THEN Assert(FALSE, r)
  ELSE rb_append(r, SubSeq(r2.mem, loc + 1, loc + n))

(* Mutant: no room for the byte past the end.                              *)
rb_insert_space_Tight(r, loc, n) ==
  IF loc + n > r.len THEN rb_resize(r, loc + n, TRUE)
  ELSE Longer(memmove(rb_grow(r, n), loc + n, loc, r.len - loc + 1), n)

rb_insert_space(r, loc, n) ==
  IF loc + n > r.len THEN rb_resize(r, loc + n, TRUE)
  ELSE Longer(memmove(rb_grow(r, n + 1), loc + n, loc, r.len - loc + 1), n)

rb_insert(r, loc, s) == memcpy(rb_insert_space(r, loc, Len(s)), loc, s)

rb_memset(r, byte, loc, n) ==
  memcpy(IF loc + n > r.len THEN rb_resize(r, loc + n, TRUE) ELSE r, loc, Fill(byte, n))

(* Mutant: the byte past the end stays where it is.                        *)
rb_delete_Data(r, loc, n) ==
  IF loc + n > r.len THEN [r EXCEPT !.len = loc]
  ELSE Longer(memmove(rb_grow(r, 1), loc, loc + n, r.len - (loc + n)), -n)

rb_delete(r, loc, n) ==
  Assert(loc <= r.len,
         IF loc + n > r.len THEN IF loc < r.len THEN [r EXCEPT !.len = loc] ELSE r
         ELSE Longer(memmove(rb_grow(r, 1), loc, loc + n, r.len - (loc + n) + 1), -n))

rb_pop(r, n) == IF n <= r.len THEN Longer(r, -n) ELSE r

-----------------------------------------------------------------------------
(* A fifo is a buffer and the number of its bytes already taken out.       *)
fifo_len(f) == f.rb.len - f.offset
fifo_discard(f) == [rb |-> [f.rb EXCEPT !.len = 0], offset |-> 0]
Pending(f) == SubSeq(f.rb.mem, f.offset + 1, f.rb.len)

(* What is pending is moved to the front when the new bytes would not fit. *)
Compacted(f) ==
  [rb |-> Longer(memmove(f.rb, 0, f.offset, fifo_len(f)), -f.offset), offset |-> 0]

(* Mutant: the offset survives the move.                                   *)
fifo_append_Stale(f, s) ==
  LET moves == f.offset # 0 /\ Len(s) >= rb_size(f.rb) - f.rb.len
      g == IF moves THEN [Compacted(f) EXCEPT !.offset = f.offset] ELSE f
  IN  [g EXCEPT !.rb = rb_append(@, s)]

fifo_append(f, s) ==
  LET moves == f.offset # 0 /\ Len(s) >= rb_size(f.rb) - f.rb.len
      g == IF moves THEN Compacted(f) ELSE f
  IN  [g EXCEPT !.rb = rb_append(@, s)]

(* Mutant: a fifo that has become empty keeps its offset.                  *)
fifo_dequeue_Keep(f, n) ==
  IF n > fifo_len(f) THEN f ELSE [f EXCEPT !.offset = @ + n]

fifo_dequeue(f, n) ==
  IF n > fifo_len(f) THEN f
  ELSE IF n = fifo_len(f) THEN fifo_discard(f)
  ELSE [f EXCEPT !.offset = @ + n]
=============================================================================
