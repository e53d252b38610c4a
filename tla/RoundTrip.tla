----------------------------- MODULE RoundTrip -----------------------------
(***************************************************************************)
(* The programs much as util/regress.py runs them on a file: lzjwm -c, and *)
(* on what it wrote lzjwm -d, lzjwm -S, lzjwm.py -d and tiny_lzjwm.  Each  *)
(* reads its input, runs and writes; the next one starts unless its status *)
(* was not 0.  A read or a write may break off with an error.              *)
(*                                                                         *)
(* regress.py runs tiny_lzjwm, and lzjwm -d once more, on what lzjwm.py -c *)
(* wrote (regress.py:72-78), which are the bytes of lzjwm -c (PyRecords).  *)
(* It gives lzjwm.py -d one file; here the file is given twice, and the    *)
(* two are joined (lzjwm.py:268-274).  The reads of lzjwm.py, and fputc    *)
(* and putchar, do not fail here.                                          *)
(***************************************************************************)
EXTENDS Files

CONSTANTS
  PAYLOAD_BITS, COUNT_BITS, ZERO_BITS,
  UINT_MAX,     \* the largest unsigned int
  BLOCK, ROOM,  \* as in TinyInput
  Inputs        \* the files to be compressed

(* The format is one of those LZFormat admits, and files hold its bytes.   *)
ASSUME RoundTripAssumption ==
  /\ PAYLOAD_BITS \in 1 .. 7
  /\ COUNT_BITS \in 0 .. PAYLOAD_BITS
  /\ ZERO_BITS \in 0 .. (PAYLOAD_BITS - COUNT_BITS)
  /\ {BLOCK, ROOM} \subseteq Nat \ {0}
  /\ Inputs \subseteq Seq(0 .. (2 * 2 ^ PAYLOAD_BITS - 1))

(* lzjwm.py and tiny_lzjwm.c have no ZERO_BITS.                            *)
ASSUME NoZeroPage == ZERO_BITS = 0

(* lzjwm -S and lzjwm.py are told to stop after UINT_MAX and SIZE_MAX + 1  *)
(* characters, which are to be more than there are.                        *)
ASSUME LengthAssumption ==
  /\ UINT_MAX \in Nat /\ UINT_MAX > 2 ^ COUNT_BITS + 1
  /\ \A t \in Inputs : Len(t) + 1 < UINT_MAX /\ 2 * Len(t) <= SIZE_MAX + 1

VARIABLES
  text,      \* the file to be compressed
  disk,      \* what lzjwm -c wrote
  program,   \* the program that runs, or "exit"
  phase,     \* what it does: "read", "run", "write"
  outputs,   \* what each program has written
  in, pc, as, dptr, cl, i, m, nn, d, j, cur, out,  \* lzjwm_compress
  pos, stack, result, sent,                        \* the decoders, pos being pc
  dsize, cells, iptr, len, fsize, outf, k,         \* lzjwm_decompress
  bsz, data                                        \* the main of tiny_lzjwm

io_vars == <<call, file, rb, errors>>
C_vars == <<in, pc, as, dptr, cl, i, m, nn, d, j, cur, out>>
R_vars == <<stack, result, sent>>
B_vars == <<dsize, cells, iptr, len, fsize, outf, k>>
I_vars == <<bsz, data>>
run_vars == <<C_vars, pos, R_vars, B_vars, I_vars>>
W_vars == <<text, disk, program, outputs>>
all == <<io_vars, run_vars, W_vars, phase>>

C == INSTANCE Compressor

S == INSTANCE StreamDecoder WITH
       Streams <- {}, Modes <- {"sized"}, mode <- "sized",
       stream <- [enc |-> Contents(rb), text |-> text],
       input_size <- rb.len, pc <- pos, out <- sent

B == INSTANCE BufferedDecoder WITH
       Streams <- {}, Modes <- {"sized"}, mode <- "sized",
       stream <- [enc |-> Contents(rb), text |-> text],
       pc <- pos, size <- dsize, i <- k

P == INSTANCE PyDecoder WITH
       Streams <- {}, Limits <- {},
       stream <- [enc |-> disk \o disk, text |-> text \o text],
       from <- 0, limit <- SIZE_MAX + 1, pc <- pos, out <- sent

T == INSTANCE TinyDecoder WITH
       Streams <- {}, Limits <- {},
       stream <- [enc |-> data, text |-> text],
       from <- 0, limit <- S!unsigned(-1), pc <- pos, out <- sent

I == INSTANCE TinyInput

Programs == {"lzjwm -c", "lzjwm -d", "lzjwm -S", "lzjwm.py -d", "tiny_lzjwm"}
In(p, ph) == program = p /\ phase = ph

RInit ==
  /\ text \in Inputs
  /\ disk = << >>
  /\ program = "lzjwm -c" /\ phase = "read"
  /\ outputs = [p \in Programs |-> << >>]
  /\ rb = RB_BLANK /\ call = rb_fread(rb, SIZE_MAX) /\ file = File(text)
  /\ errors = 0
  /\ in = << >> /\ pc = "prepare" /\ as = << >> /\ out = << >>
  /\ dptr = 0 /\ cl = 0 /\ i = 0 /\ m = 0 /\ nn = 0 /\ d = 0 /\ j = 0 /\ cur = 0
  /\ pos = "size" /\ stack = << >> /\ result = 0 /\ sent = << >>
  /\ dsize = 0 /\ cells = << >>
  /\ iptr = 0 /\ len = 0 /\ fsize = 0 /\ outf = 0 /\ k = 0
  /\ bsz = 0 /\ data = << >>

-----------------------------------------------------------------------------
(* What the modes of lzjwm.c have in common.                               *)
ReadOrWrite ==
  /\ program \in {"lzjwm -c", "lzjwm -d", "lzjwm -S"}
  /\ phase \in {"read", "write"}
  /\ Next
  /\ UNCHANGED <<run_vars, W_vars, phase>>

(* rb_fread < 0: exit(1).                                                  *)
CannotRead ==
  /\ phase = "read"
  /\ call.returned /\ call.result < 0
  /\ program' = "exit"
  /\ UNCHANGED <<io_vars, run_vars, text, disk, outputs, phase>>

HasRead == phase = "read" /\ call.returned /\ call.result >= 0

(* rbo has room for n bytes, and holds bytes when it is written.           *)
Output(n, bytes) ==
  rb_resize(memcpy(rb_resize(RB_BLANK, n, FALSE), 0, bytes), Len(bytes), TRUE)

BeginWrite(r) ==
  /\ phase' = "write"
  /\ rb' = r
  /\ call' = rb_fwrite(r, SIZE_MAX)
  /\ file' = File(<< >>)
  /\ UNCHANGED errors

(* p ends with status 0 and next starts, on the file contents.             *)
Exit(p, bytes, next, contents) ==
  /\ outputs' = [outputs EXCEPT ![p] = bytes]
  /\ program' = next
  /\ phase' = "read"
  /\ rb' = RB_BLANK /\ call' = rb_fread(RB_BLANK, SIZE_MAX) /\ file' = File(contents)
  /\ UNCHANGED <<text, errors>>

(* What rb_fwrite returns is not looked at.                                *)
HasWritten == phase = "write" /\ call.returned

-----------------------------------------------------------------------------
(* lzjwm -c.                                                               *)
BeginCompress ==
  /\ program = "lzjwm -c" /\ HasRead
  /\ phase' = "run"
  /\ in' = Contents(rb)
  /\ UNCHANGED <<io_vars, pc, as, dptr, cl, i, m, nn, d, j, cur, out,
                 pos, R_vars, B_vars, I_vars, W_vars>>

Compress ==
  /\ In("lzjwm -c", "run")
  /\ C!Next
  /\ UNCHANGED <<io_vars, pos, R_vars, B_vars, I_vars, W_vars, phase>>

(* nsz < 0: exit(1), and nothing is written.                               *)
Refuse ==
  /\ In("lzjwm -c", "run")
  /\ pc = "rejected"
  /\ program' = "exit"
  /\ UNCHANGED <<io_vars, run_vars, text, disk, outputs, phase>>

WriteCompressed ==
  /\ In("lzjwm -c", "run")
  /\ pc = "done"
  /\ BeginWrite(Output(rb.len, out))
  /\ in' = << >> /\ as' = << >> /\ out' = << >>
  /\ UNCHANGED <<pc, dptr, cl, i, m, nn, d, j, cur,
                 pos, R_vars, B_vars, I_vars, W_vars>>

Compressed ==
  /\ program = "lzjwm -c" /\ HasWritten
  /\ disk' = file.bytes
  /\ Exit("lzjwm -c", file.bytes, "lzjwm -d", file.bytes)
  /\ UNCHANGED run_vars

(* lzjwm -d.                                                               *)
BeginDecompress ==
  /\ program = "lzjwm -d" /\ HasRead
  /\ phase' = "run"
  /\ UNCHANGED <<io_vars, run_vars, W_vars>>

Decompress ==
  /\ In("lzjwm -d", "run")
  /\ UNCHANGED <<io_vars, C_vars, R_vars, I_vars, W_vars, phase>>
  /\ B!Next

WriteDecompressed ==
  /\ In("lzjwm -d", "run")
  /\ pos = "done"
  /\ BeginWrite(Output(dsize, cells))
  /\ cells' = << >>
  /\ UNCHANGED <<C_vars, pos, R_vars, dsize, iptr, len, fsize, outf, k, I_vars, W_vars>>

Decompressed ==
  /\ program = "lzjwm -d" /\ HasWritten
  /\ Exit("lzjwm -d", file.bytes, "lzjwm -S", disk)
  /\ UNCHANGED <<run_vars, disk>>

(* lzjwm -S.                                                               *)
BeginStream ==
  /\ program = "lzjwm -S" /\ HasRead
  /\ phase' = "run"
  /\ pos' = "run" /\ stack' = << S!Call(0, S!unsigned(-1)) >>
  /\ UNCHANGED <<io_vars, C_vars, result, sent, B_vars, I_vars, W_vars>>

Stream ==
  /\ In("lzjwm -S", "run")
  /\ UNCHANGED <<io_vars, C_vars, B_vars, I_vars, W_vars, phase>>
  /\ S!Next

Streamed ==
  /\ In("lzjwm -S", "run")
  /\ pos = "done"
  /\ Exit("lzjwm -S", sent, "lzjwm.py -d", << >>)
  /\ pos' = "run" /\ stack' = << P!Call(0, SIZE_MAX + 1) >> /\ sent' = << >>
  /\ UNCHANGED <<C_vars, result, B_vars, I_vars, disk>>

(* lzjwm.py -d.                                                            *)
Decode ==
  /\ program = "lzjwm.py -d"
  /\ UNCHANGED <<io_vars, C_vars, result, B_vars, I_vars, W_vars, phase>>
  /\ P!Next

Decoded ==
  /\ program = "lzjwm.py -d"
  /\ pos = "done"
  /\ Exit("lzjwm.py -d", sent, "tiny_lzjwm", disk)
  /\ sent' = << >>
  /\ UNCHANGED <<C_vars, pos, stack, result, B_vars, I_vars, disk>>

(* tiny_lzjwm.                                                             *)
ReadTiny ==
  /\ In("tiny_lzjwm", "read")
  /\ I!Next
  /\ UNCHANGED <<call, rb, C_vars, pos, R_vars, B_vars, W_vars, phase>>

BeginTiny ==
  /\ In("tiny_lzjwm", "read")
  /\ ~I!Looping
  /\ phase' = "run"
  /\ pos' = "run" /\ stack' = << T!Call(0, S!unsigned(-1)) >>
  /\ UNCHANGED <<io_vars, C_vars, result, sent, B_vars, I_vars, W_vars>>

Tiny ==
  /\ In("tiny_lzjwm", "run")
  /\ UNCHANGED <<io_vars, C_vars, result, B_vars, I_vars, W_vars, phase>>
  /\ T!Next

Finished ==
  /\ In("tiny_lzjwm", "run")
  /\ pos = "done"
  /\ Exit("tiny_lzjwm", sent, "exit", << >>)
  /\ UNCHANGED <<run_vars, disk>>

RNext ==
  \/ ReadOrWrite \/ CannotRead
  \/ BeginCompress \/ Compress \/ Refuse \/ WriteCompressed \/ Compressed
  \/ BeginDecompress \/ Decompress \/ WriteDecompressed \/ Decompressed
  \/ BeginStream \/ Stream \/ Streamed
  \/ Decode \/ Decoded
  \/ ReadTiny \/ BeginTiny \/ Tiny \/ Finished

(* Each program runs until it exits.                                       *)
RSpec == RInit /\ [][RNext]_all /\ WF_all(RNext)

-----------------------------------------------------------------------------
(* The encoder's assertions hold on real texts in the format as shipped.   *)
OffsetsFit == C!OffsetsFit

(* tiny_lzjwm always has a byte left for its NUL (tiny_lzjwm.c:53).        *)
RoomForNul == I!RoomForNul

(* Compression followed by any decompression gives the input back, and     *)
(* only an input with a byte of 8 bits is refused: the comparisons of      *)
(* util/regress.py:66-80.  The Python program decodes two streams joined   *)
(* to the two texts joined (lzjwm.py:268-274): a pointer never reaches     *)
(* back over the seam.                                                     *)
Refused == \E x \in DOMAIN text : C!IsPointer(text[x])
Restores ==
  <>[](/\ program = "exit"
       /\ errors = 0 =>
            outputs = [p \in Programs |->
                         CASE Refused -> << >>
                           [] p = "lzjwm -c" -> disk
                           [] p = "lzjwm.py -d" -> text \o text
                           [] OTHER -> text])

(* When reading or writing breaks off, what comes out at the end is still  *)
(* the beginning of the text: a stream that was cut anywhere stands for a  *)
(* prefix, and every decoder gives that prefix and stops, although lzjwm   *)
(* exits with 0 after a failed write (lzjwm.c:72-73) and tiny_lzjwm after  *)
(* a failed read (tiny_lzjwm.c:46).                                        *)
Prefix(s) == s = SubSeq(text, 1, Len(s))
Twice(s) ==
  LET half == SubSeq(s, 1, Len(s) \div 2) IN s = half \o half /\ Prefix(half)

OnlyPrefixes ==
  /\ \A p \in {"lzjwm -d", "lzjwm -S", "tiny_lzjwm"} : Prefix(outputs[p])
  /\ Twice(outputs["lzjwm.py -d"])
  /\ program \in {"lzjwm -S", "tiny_lzjwm"} => Prefix(sent)
=============================================================================
