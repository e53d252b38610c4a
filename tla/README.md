# A verification of lzjwm in TLA+

lzjwm is a byte-oriented LZ compressor for 7-bit text. A byte below 128 is a
literal; a byte from 128 on is a *pointer* that copies 2 to 5 characters from an
offset measured in **encoded** bytes, so that a decoder needs no output buffer
and can start anywhere. This directory holds TLA+ models of the C and Python programs,
configurations that model-check them with TLC, and proofs checked by TLAPS.
Paths and line numbers refer to the repository's files under `src/`.

## Inventory

| component | source | state | operations | module |
|---|---|---|---|---|
| byte format | `lzjwm.h`, `mk_ptr`, `count`, `get_offset` | none | pack and unpack a pointer | `LZFormat` |
| encoder | `lzjwm_compress.c` | the list `as` (next, from, count), `dptr`, `cl`, the loop variables, the output | `lzjwm_compress` | `Compressor` |
| streaming decoder | `lzjwm_decompress.c:44-81` | the C stack of `_decompress_stream` | `lzjwm_decompress_stream` | `StreamDecoder` |
| buffered decoder | `lzjwm_decompress.c:28-34, 91-114` | the output buffer, positions in input and output | `lzjwm_decompressed_size`, `lzjwm_decompress` | `BufferedDecoder` |
| minimal decoder | `tiny_lzjwm.c` | the C stack; the input read so far | `lzjwm_decompress` from a location, for a count; `main` reads standard input | `TinyDecoder`, `TinyInput` |
| command line program | `lzjwm.c` | input and output buffer, the mode | `-c -d -S` (`-x` and `-v` print) | `RoundTrip` |
| dump | `lzjwm_decompress.c:118-127` | none | print a stream | not modelled |
| resizable buffer, fifo | `resizable_buf.c/.h` | buffer, length, size; offset | append, insert, delete, push, pop, dequeue, ... | `ResizableBuf`, `Buffers` |
| its file operations | `resizable_buf.c:345-408` | the bytes moved, the flags of the file | `rb_fread`, `rb_fwrite`, `rb_read_file` | `Files` |
| Python program | `lzjwm.py` | linked nodes, records; the Python stack | encoder with records and `-z -0 -l -s`, decoder | `PyCompressor`, `PyDecoder` |
| regression driver | `util/regress.py` | the status of the last program | runs the programs, compares outputs | `RoundTrip` |

Interaction: everything is sequential. The encoder writes a buffer of bytes; each
decoder reads such a buffer and writes a buffer or calls `fputc`/`putchar`. The
command line program reads, makes and writes the buffers with `resizable_buf`; what
one program wrote is what the next one reads. A C program may also hold a stream with
records made by `lzjwm.py` and ask the minimal decoder for one of them. The four
decoders (three in C, one in Python) and the two encoders share no code and must
agree.

What is hard here is not concurrency but **data whose meaning changes while it is
rewritten**:

* the encoder bounds the distance to a copy's source in *list nodes* at the time
  of the match (`lzjwm_compress.c:56`), emits it in *output bytes* much later
  (line 84), and rewrites the list in between (lines 71-75);
* `from` is an input position during the scan and an output position once the
  node was emitted (lines 74, 84, 86);
* a pointer may be swallowed, extended or shortened by a later match;
* the streaming decoders decode a pointer by decoding again, recursively, and
  the last pointer of a call is a jump that never comes back
  (`lzjwm_decompress.c:65-68`): the call must end inside the copied text;
* unsigned and signed sizes are mixed, and `-1` has a meaning of its own;
* files come and go in pieces and may break off: `lzjwm` does not look at what
  `rb_fwrite` returns (`lzjwm.c:72`), so a stream may be cut anywhere and still be
  handed on with status 0, and `tiny_lzjwm` takes an error for the end.

What makes each component correct: the encoder's list tiles the input and its
pointers are faithful and fit in a byte, so that the output decodes to the input
and is not longer; each decoder delivers the text of a stream in order, all of it
and nothing else, inside its buffers and with bounded recursion; compression
followed by any decompression is the identity, and a stream that was cut decodes to a
prefix. A record compressed by `lzjwm.py` can be decoded from the offset it reports. A resizable buffer holds what the calls on it
promise and never touches memory it does not own.

## Modules

* **`LZFormat`** - constants `PAYLOAD_BITS` (7 in the code; a constant so that a
  narrow byte can be checked), `COUNT_BITS`, `ZERO_BITS`; the macros; `mk_ptr`,
  `count`, `get_offset` as arithmetic on naturals. `DecodesVia(enc, text, s)`
  says what it *means* that a stream stands for a text: an equation for each
  byte, with `s` the position where a byte's text starts. `Decode` computes that
  text. Everything the other modules call right is measured against these two.
* **`Compressor`** - `lzjwm_compress`, one action per loop body: `Prepare` (or
  `Reject`, or `PrepareNothing` for no input), `Compare` and `Advance` for the
  two scanning loops, `Swallow` and `Replace` for the pruning loop and the list
  surgery after it, `Emit` for the output walk. `pc` names the loop the call is
  in. `match` is the length the while loop of `match()` stops at. The list is an
  array indexed from 0 as in the code; the input is a sequence, so character p of
  the code is `in[p + 1]`.
* **`Delivery`** - the abstract specification of a decoder: it owns a text, the
  characters sent and whether it has returned; a step sends the next character;
  it may end only when all is sent; and it does end.
* **`Encoding`** - the abstract specification of an encoder: a text, the stream so far,
  and whether it has returned; a step appends one byte, *any* byte that stands for the
  next characters of the text, and the last byte ends it. It leaves open which matches
  are found and says nothing of lists, windows or records. `Compressor` and
  `PyCompressor` implement it.
* **`StreamDecoder`** - `lzjwm_decompress_stream`. The recursion is the sequence
  `stack` of frames with the C variables `iptr`, `howmany`, `needed`. `Literally`,
  `Recurse` and `Jump` are the three branches of the loop, `Return` the end of a
  call with what its caller does with the result. `unsigned` wraps at `UINT_MAX`;
  `ReadPast` is a read after the memory the caller passed.
* **`BufferedDecoder`** - `lzjwm_decompressed_size`, the caller's allocation, and
  `lzjwm_decompress` with the walk back (`Rewind`) and the copy (`Copy`) as loops
  of their own. The two functions look for the end of the input differently, and so do
  `MoreToSize` and, in the decoder, `MoreToDecode` before a byte is read and `Breaks`
  after it; `isize` is -1 or the size, and `unsigned` its conversion in the decoder's
  test. Cells hold `Uninit` until written; an access outside a buffer, or outside the
  input, ends in `"undefined"`.
* **`TinyDecoder`** - the decoder of `tiny_lzjwm.c` from every location and for
  every count in `Limits`. Unlike the others its inner call returns nothing, and
  its caller assumes `len` characters came out. **`PyDecoder`** - `decompress` of
  `lzjwm.py`, on the same variables; its frames hold `start`, `howmany`, `needed`,
  and nothing wraps. **`RandomAccess`** - either of the two, with one property for both.
* **`TinyInput`** - the loop of `main` in `tiny_lzjwm.c` that reads standard input into
  memory that grows by `BLOCK` (4096) when fewer than `ROOM` (256) bytes are left.
* **`PyCompressor`** - `lzjwm.py -c` on a list of records: `Unify` (`-s`), `Prepare`
  (`prepare_nodes`), the loops of `compress` as in `Compressor`, and `Collect`, which
  gives every record the offset that goes into the C header or the YAML. `aux` is
  `aux_data`; `"raised"` is any exception. It instantiates `Compressor` on its own
  variables to say that the two encoders agree. **`PyRecords`** - composes it with
  `TinyDecoder`: once the stream is written, a program asks for a record by its offset
  and its length, or with `-0 -z` by its offset alone.
* **`Files`** - `rb_fread` and `rb_fwrite` as loops, one action per turn: `Read` (a
  whole piece, or what is left with the end of the file), `ReadError` and `WriteError`
  (fewer bytes than asked for, and the error flag), `Stop` and `Written` (the call
  returns). `n = -1` is `SIZE_MAX`; the 4096 bytes of `buf` are `CHUNK`.
* **`RoundTrip`** - the programs in the order in which `util/regress.py` runs them:
  `lzjwm -c`, and `lzjwm -d`, `lzjwm -S`, `lzjwm.py -d` and `tiny_lzjwm` on what it
  wrote. Extends `Files` and instantiates `Compressor`, `StreamDecoder`,
  `BufferedDecoder`, `PyDecoder`, `TinyDecoder` and `TinyInput`: what one leaves in a
  buffer or a file is what the next one starts with. A negative result of `rb_fread` is
  `exit(1)` and ends the sequence; a result of `rb_fwrite` is ignored, as in the code.
  `lzjwm.py` gets the file twice, which it joins; the driver gives it one. `tiny_lzjwm`
  gets the stream of `lzjwm -c`, in the driver that of `lzjwm.py -c`: they are the same
  (`AgreesWithC`).
* **`ResizableBuf`** - every function of `resizable_buf.c` that changes a buffer, as
  an operator from buffer to buffer. The allocated memory is explicit, so that the
  bytes beyond `len` (stale data, the NUL of `rb_stringize`, memory never written)
  are there to be read. **`Buffers`** - a program that makes any sequence of these
  calls on two buffers, the first of which can be used as a fifo; next to each buffer
  `want` records what the header and the comments promise it to hold. Of a call that
  breaks its promise (`Unkept`) nothing is promised; what it should have done is
  a part of the property of the run `buffers_comments`. The 8 bytes by which the code
  grows a buffer are the constant `GROWTH`, for the reason `PAYLOAD_BITS` is one.
* **`MCCompressor`**, **`MCPyRecords`**, **`MCBuffers`**, **`MCFiles`**, **`MCDecoders`** (with
  `MCStreamDecoder`, `MCBufferedDecoder`, `MCRandomAccess`), **`MCRoundTrip`** - inputs for TLC.
* **`LZFormatProofs`**, **`CompressorProofs`**, **`PyCompressorProofs`** (also of
  `Encoding`), **`StreamDecoderProofs`**, **`BufferedDecoderProofs`**,
  **`RandomAccessProofs`** (of `TinyDecoder` and `PyDecoder`), **`BuffersProofs`**,
  **`RoundTripProofs`** (of `Files` and `RoundTrip`) - proofs.

A definition whose name is that of an action and a suffix (`Replace_WholeMatch`)
is a mutant: the action with a plausible mistake. Each property is violated by one
of them (PROJECT.json, `mutants`), which shows that it depends on the code.

## Runs

| run | shows | bounds |
|---|---|---|
| `compress_narrow` | `TypeOK`; the list tiles the input (`ListTilesInput`); pointers to be emitted are faithful (`CopiesAreFaithful`) and fit in their fields (`OffsetsFit`); each byte is right when it is written, and the last completes the input (`Encodes`: the call implements `Encoding`); what `dptr` passed is never changed (`WalkedPartIsFrozen`); the call ends (`Terminates`) | 5-bit byte: window of 4 nodes, matches of 2-5 characters; all texts over 2 letters up to 11 characters and over 3 letters up to 6, the empty one, and inputs with the flag bit |
| `compress_zero_page` | `OffsetsFit`, and that the output decodes to the input and is no longer (`OutputDecodes`), with `ZERO_BITS = 1`: matches up to 5 at offset 0 only, up to 3 elsewhere | 4-bit byte: window of 2 nodes; the same texts |
| `stream_delivers` | the streaming decoder implements `Delivery`, given the size or `-1` (then up to the NUL it puts out after the text); `DepthBound`; inner calls stay in the input (`StaysInInput`) and complete (`CalleeCompletes`) | 5-bit byte, matches of 2-5 as shipped; every well-formed stream up to 4 bytes over 2 literals and all pointers that can occur; a "ladder" of pointers to pointers that reaches the deepest recursion; a copy from the end of the window |
| `buffer_delivers` | the buffered decoder implements `Delivery`, sized or terminated; the size computed is right (`SizesAgree`); no access leaves a buffer (`BuffersRespected`); 160 bytes of history are enough (`WindowSuffices`) | the streams of `stream_delivers`; those up to 4 bytes with a NUL among them, with their size |
| `random_access` | the minimal decoder and the Python one deliver the right characters from every byte, for every count (`DeliversFromAnywhere`), within the advertised depth (`DepthBound`) | the streams of `stream_delivers`, counts 0-6 and 99 |
| `py_records` | the encoder implements `Encoding` (`Encodes`); every record can be decoded from its offset (`RecordsAddressable`), and a program with the minimal decoder gets it, with `-0 -z` without knowing its length (`FetchesRecords`); the program ends without an exception (`Succeeds`); on one record and no options that matter each step is a step of `Compressor` (`AgreesWithC`) | 5-bit byte, window of 4 nodes; up to 3 records of up to 2 bytes over NUL and a letter, empty and equal ones included, with all options; pairs of records up to 4; single texts up to 10; any one record without a NUL is asked for |
| `buffers` | no call touches memory outside the buffer or fails an assertion (`CallsAreSafe`); buffers and fifo hold what header and comments say (`HoldsWhatWasPut`); the NUL after the data stays there (`TerminatorFollows`) | `GROWTH = 1`: sizes 0, 1, 2 and 4, at most 5 bytes for both buffers; lengths and locations up to 4; data over NUL and a letter |
| `round_trip` | `-c` and then every decoder restores the input, 8-bit input is refused and nothing written (`Restores`); after an error anywhere, what comes out at the end is a prefix of the input (`OnlyPrefixes`); `rb_fread` and `rb_fwrite` report what they moved (`ReportsBytesCopied`); `tiny_lzjwm` keeps a byte for its NUL (`RoomForNul`); `OffsetsFit` | the format as shipped; 16 texts that bring window, longest match and nested copies to their limits; at most one error, after any number of bytes of any read or write; pieces of 16 bytes and blocks of 8 instead of 4096, so that files come in several and end inside and at the end of one |

The bounds are small but every limit of the code is hit: the window is left by
inputs of 6 characters in the 5-bit byte, the match limit by 7; nested and
overlapping pointers and pointers extended by later matches occur in texts of 9
letters, and a match that is cut short before a pointer it would break first occurs
in texts of 10. `PAYLOAD_BITS` only scales these limits, and `round_trip` repeats the
argument with the real numbers.

Deadlock is checked on the buffers only: elsewhere a call returns, and then nothing happens.

Four runs expect a violation; they are places where the code does not do what a
comment of the repository says:

* `compress_empty`: no input makes `lzjwm_compress` write `as[-1]`
  (`lzjwm_compress.c:53`), and `lzjwm.h:9` says all 7-bit data can be encoded.
* `buffers_comments`: five comments on `rb_insert`, `rb_extract` and `rb_delete` say what the
  code does not do. `SomeCommentIsRight` says that, whatever the buffers hold, one of
  the five is right; TLC finds two buffers with which none is, so that the one
  run refutes all of them. With `MaxMemory = 6` there is room for these buffers, a string
  with its NUL and three bytes.
  * `InsertMovesData`: an insertion longer than the data behind its location moves
    nothing and overwrites that data (`resizable_buf.c:200`); line 226 says data is
    moved to make space.
  * `InsertMovesTerminator`: an insertion at the end takes the same branch, and the NUL
    behind the data does not move, which lines 228-229 promise.
  * `ExtractCopiesRange`: `rb_extract` clips by the length of the buffer it appends to
    (`resizable_buf.c:180`), and copies nothing of a valid range that begins beyond it;
    `resizable_buf.h:122` says the range is appended.
  * `ExtractStopsAtEnd`: of a range that reaches beyond the second buffer it appends
    all, having clipped `nlen` and used `len` (`resizable_buf.c:184`);
    `resizable_buf.h:123` says it copies what it can.
  * `DeleteBeyondDoesNothing`: `rb_delete` asserts `loc <= len` (`resizable_buf.c:243`)
    where its comment (line 236) says that nothing happens.

  In `buffers` nothing is promised of a buffer after an insertion or an extraction of
  which this is wrong, and a program makes no call that the last two are about.
* `stream_nul`: `lzjwm_decompress_stream` with `isize = -1` never looks for the NUL
  that `lzjwm.h:49` promises it stops at, and reads on.
* `fread_finite`: `rb_fread` with a count that is reached before the end of the file
  never returns (`resizable_buf.c:352`: `tr <= n` still holds, and nothing is asked for);
  `resizable_buf.h:161` says what it returns. The programs pass `-1`.

Seen in the code and not run: copies reach back 32 positions where `lzjwm.h:20` says
28; `RB_PEEKN` pops (`resizable_buf.h:52`).

**Fairness.** Every `FairSpec` is weak fairness of the whole next-state relation:
each function runs in one thread and is never abandoned, so as long as it can take a
step it does. Nothing is assumed of any particular branch. In `RoundTrip` and
`PyRecords` the programs run one after the other, so the same holds of the whole; an
error is never required to happen or not to.

## Proofs

TLAPS checks every step, for every input, every value of the format constants that
`FormatAssumption` allows, every `GROWTH`, and every `UINT_MAX` the assumptions allow.
What is assumed of the constants is declared by the modules, and TLC evaluates each
assumption on the runs:

| assumption | says | because |
|---|---|---|
| `FormatAssumption` | the fields of a pointer fit below its flag bit, and the byte in 8 bits | `lzjwm.h:31-40` |
| `InputsAssumption`, `StreamsAssumption` | inputs are bytes; streams are streams of a text of bytes | see "What is abstracted" |
| `StreamsAssumption` of `TinyDecoder` (and `Init` of the buffered decoder, in the mode without a size) | a stream whose end is found by its NUL holds no other NUL | it would end there |
| `UIntAssumption`, `LengthAssumption` (streaming decoder) | the longest match and the text with its NUL fit in an `unsigned` | `needed` starts at `UINT_MAX` and counts down; a longer text would be cut |
| `LengthAssumption` (buffered decoder) | a stream is shorter than `UINT_MAX` | positions in it are `int`, and `isize = -1` must be larger than each |
| `NoZeroPage` (`TinyDecoder`, `RoundTrip`) | `ZERO_BITS = 0` | `tiny_lzjwm.c` has no other case |
| `GrowthAssumption`, `BuffersAssumption` | a buffer that grows does grow; data are bytes | `resizable_buf.c:24-31` |
| `FilesAssumption` | a piece, a count and what was moved before an error are natural numbers; files are bytes | `size_t` arguments; see "What is abstracted" |
| `LengthAssumption` (`RoundTrip`) | a file with its NUL is shorter than `UINT_MAX`, and twice the file no longer than the count `lzjwm.py` starts with; the longest match fits in an `unsigned` | as for the streaming decoder; lengths are `int` |
| `RoundTripAssumption` | the format is as in `FormatAssumption`, the files hold its bytes, `BLOCK` and `ROOM` are not 0 | `tiny_lzjwm.c:40-47` |

* **`LZFormatProofs`**: the bounds of the format's numbers (`FormatBounds`), that
  `mk_ptr` yields a byte, that `count` is at most the longest match and above 1 for
  pointers only, that `count` and `get_offset` invert `mk_ptr` for what fits; that
  `Starts` adds up the counts (`StartsValue`) and that a byte appended to a stream
  appends its text (`SpellsAppend`); that a stream cut anywhere stands for a prefix of
  the text (`SpellsCut`, `SpelledStream`) and that two streams joined stand for the two
  texts joined (`StreamsJoin`). Powers of two are tabulated up to 2^7
  (`PowerTable`, `Powers`): the provers know nothing of exponentiation. `Starts` is a
  recursive function, and the library's induction theorems cannot be instantiated
  here; `SetInduction` states induction for a *set* of naturals, which follows from the
  well-foundedness of `<`, and is enough to show that such a function exists.
* **`CompressorProofs`**: the inductive invariant `IInv`. `ListTilesInput` alone is not
  inductive, for it speaks of nodes on the list, and *which* nodes are on the list
  changes with every `Replace`. `IInv` therefore speaks of **all** nodes, those that
  left the list included: each ends inside the input and points where it ends
  (`Tiles`), and two are disjoint or the later lies inside the earlier (`Nested`). A
  node is on the list exactly when it starts at a *boundary*, a position no node
  crosses; `dptr`, `cl`, the end of what was swallowed, and every `from` are
  boundaries (`Scanning`, `Pruning`, `Sources`). `Sources` adds that a pointer's text
  is that of its source and that the source is at or before `dptr`; `Replace` keeps
  it because surgery happens beyond `cl > dptr`. One lemma per action proves
  `IInv /\ Action => IInv'`. The theorems `TypeCorrect`, `ListAlwaysTiles`,
  `CopiesAlwaysFaithful` and `WalkedPartStaysFrozen` follow.
  The second half of the module is about the output: `OffsetsAlwaysFit`, the answer to the hazard at
  `lzjwm_compress.c:56` and `:84`. A pointer's offset is checked in list nodes when the
  match is made, and written in bytes when the list has changed. `OInv` counts the
  boundaries strictly between a pointer and its source. While the list is built
  (`Near`) that number can only fall: surgery takes boundaries away and never adds one
  (`SpanBounds` is the lemma about cardinalities). `Seen` ties the loop variable `i` to
  the nodes passed, and in the output walk `Placed` equates the number of boundaries
  before a node with the position of its byte, so that the two measures agree.
  `WInv` adds that the bytes written stand for the text before `cur` (`Written`);
  `OutputAlwaysDecodes` follows, and `CompressorEncodes`, the step simulation of
  `Encoding`. `OutputDecodes` names the solution of the equations of `DecodesVia`,
  `Starts(out)`, instead of saying that there is one.
  The steps of the list are proved for an encoder that may take *any* faithful match, or
  none, where the code takes the longest (`FreeNext`, of which `Next` is a case,
  `NextIsFree`): nothing about the output depends on the choice, and the Python
  encoder, which chooses otherwise where a record ends, has the same proof.
* **`PyCompressorProofs`**: the list of the Python encoder holds all records, joined to one
  text. `PInv` says of it (`L!WInv`, the invariant of the free encoder, as an instance)
  what `CompressorProofs` says of the C encoder, and of the records: each begins at a
  boundary of the list and none of the nodes about to be swallowed holds one (`Apart`);
  the nodes with a counter are those the output walk has passed (`Counters`); the place
  noted for a record it has passed is that of the byte that stands for the record's first
  character (`Places`), and what is reported at the end is that place, or 0 for an
  empty record that ended the list (`Reported`). `-s` keeps one record of
  those that are equal, and sorts them; `SortedExist` shows that a finite set of records has an order, which
  makes `Sorted` a value. `ProgramInvariance` gives `PyTypeCorrect` and `NeverRaises`:
  neither the assertion on offsets, nor a value too large for a byte, nor a record without
  an offset. `RecordsAlwaysAddressable`: whatever the options, the stream yields each
  record from the offset reported for it. `PyCompressorEncodes` is the step simulation of
  `Encoding`. `EncodersAlwaysAgree` proves `AgreesWithC`: on one record and no options
  that matter, each step is one of `lzjwm_compress`; the two find matches in different
  ways, and `MatchIsUnique` shows that the loop of `match()` has one possible result. The
  module assumes `NoZeroPage`: `lzjwm.py` has no `ZERO_BITS`.
  `EncodersAreCorrect` - whatever implements `Encoding` returns a stream whose `Decode`
  is its text and that is no longer - checks the abstract specification itself, and holds
  for both encoders.
* **`StreamDecoderProofs`**: an inner call is asked for fewer characters than its caller
  still needs (`Chain`), and the first for at most the longest match; so the k-th
  frame was asked for at most `MAX_ZERO_MATCH - (k - 2)` and at least 2. This is the
  argument of `README.md:97-100`, and gives `DepthIsBounded`; the same invariant
  shows that `needed` never wraps (`StreamTypeCorrect`). That the right characters come
  out needs more: `TInv` gives every frame of the stack a place in the text, where
  the output will be when the call it made has returned (`Tracks`); there its input
  yields what it still needs after that (`Yields`: characters of the text, from bytes
  that lie in the input). The outermost call yields the rest of the text. When the size
  is not given, the state after the NUL was put out is described apart (`Past`).
  `StaysInsideInput`, `CalleesAlwaysComplete` and `StreamDelivers` follow.
* **`RandomAccessProofs`**: the minimal and the Python decoder, from any location and for
  any count. `Delivering` is the invariant of `StreamDecoderProofs` for a stack of frames in
  which the caller trusts its inner call to put out `len` characters, as `tiny_lzjwm.c`
  does. The Python decoder notes in the *inner* frame how many were asked for, and takes off what
  it reports; `Calls` reads its stack as one of such frames, and since an inner call always
  completes, its steps are the same (`CallForgets`: a frame that has returned keeps no
  `len`). `DepthIsBounded` and `DeliversFrom` (the steps are those of `Delivery`,
  for the characters requested) hold for both, and so does `AlwaysReadsInData`: a call that
  still wants characters looks at a byte of the data or, in C, at the NUL behind it, and in
  Python at no negative index, so that the guards on the location in the models' loops leave no
  step of the code out.
* **`BufferedDecoderProofs`**: the tests of the two loops come first. As long as there is
  a byte, both go on, whether the size is given and there are NULs in the input or not
  (`MoreIsBeforeEnd`, `FetchesByte`); at its end both stop, one by its test, the other by
  its test or by breaking off at the NUL (`EndsAtEnd`). `BInv` has a relation for each loop: `Sizing` and
  `Fetching` between the position in the stream and the sum so far, `Walking` between the walk
  back and the place in the output (`iptr` and `fsize` go back together), `Copying`
  for what is still to be copied, `Decoded` for the cells. `BuffersAlwaysRespected`,
  `SizesAlwaysAgree` and `BufferedDelivers` follow. `WindowAlwaysSuffices` has
  `ZERO_BITS = 0` as a hypothesis: with a zero page a byte can hold an offset of `LOOKBACK`,
  one more than the encoder ever writes, and a stream with it needs one byte more.
* **`BuffersProofs`**: one lemma per function of `resizable_buf.c` says what memory,
  length and NUL are after a call, for every buffer (`Shows`: what it holds from an offset on,
  but for bytes left open; `Ends`: the NUL behind; `Pends`: a fifo). `RoomForSuffices`
  shows that the loop that looks for a size ends with one that is large enough, for
  every `GROWTH`. `BInv` says that both buffers hold what was promised; it is stronger
  than `HoldsWhatWasPut` in that a buffer is never longer than its memory and that no
  assertion failed. A call that breaks its promise leaves a sound buffer (`UnkeptKeeps`)
  of which nothing is promised; `rb_extract` is covered with ranges that lie in the second
  buffer, `rb_delete` with locations inside; `rb_putwc` with the one to four bytes a codepoint has, since it grows by 4 only.
* **`RoundTripProofs`**: first `Files` alone. `FInv` relates what a call has counted to
  the buffer's length or the file's (`Reading`, `Writing`): the sum `tr` is what arrived,
  or, after an error, the negative number that is to be returned; `FilesReport` follows,
  for which only lengths matter (`IsBuffer`). Then the programs, with `RInv`:
  in each mode of `lzjwm.c` `FInv` holds when a call begins and at each of its steps
  (`CallsCounted`; `BInv` adds that up to the run of `lzjwm -d` buffers and files hold
  bytes, for the sum of the counts is the length of what is written). While `lzjwm -c` runs, the encoder's
  invariant `WInv` holds of what was read (`EncoderRuns`), and its output fits in the
  buffer it is put in. The lemmas about the encoder and the buffers are not proved
  again: they are cited from `CompressorProofs` and `BuffersProofs` as instances, after
  a lemma that the operators and steps of the two instances are the same
  (`CompressorSteps`, `SameCalls`). `ProgramsReport`, `AlwaysRoomForNul` and
  `ProgramOffsetsFit` follow, errors included.
  Last, what comes out when something breaks off. `PrefixInv` says of each program what
  it has in hand: what a mode of `lzjwm.c` has read, with what it can still read, is the
  beginning of its file (`Moving`), what is in the output buffer or in the hands of a
  decoder stands for the beginning of the text (`Encoding`, `Buffered`, `Streaming`,
  `Python`, `TinyRuns`), and what is written already is one (`Settled`). The step
  that is about the format is `CutSpells`: the bytes that survive a cut, wherever it
  falls, stand for a prefix of the text, because the text of every byte starts where
  those before it end (`SpellsCut` of `LZFormatProofs`). So each decoder runs on a
  whole stream of a shorter text (`Spelled`; `Joined` for `lzjwm.py -d`, whose two
  streams are one because pointers reach back only, `StreamsJoin`; `BeforeNul` for
  `tiny_lzjwm`), and its own invariant applies: `BufferedKeeps`, `StreamKeeps`,
  `PythonKeeps` and `TinyKeeps` cite the three other proof modules as instances with that
  stream. The conclusion is `AlwaysOnlyPrefixes`.

`StreamDelivers`, `BufferedDelivers`, `DeliversFrom`, `CompressorEncodes` and
`PyCompressorEncodes` are the refinements of `Delivery` and `Encoding` without fairness:
initial states and steps map to initial states and to steps or stutters. Only
model-checked: all liveness (`Terminates`, `Succeeds`, the liveness part of `DeliversText`
and `DeliversFromAnywhere`, `Restores`, `FetchesRecords`), which the proof system does not
handle.

## What is abstracted

Bytes are naturals; `char`'s sign does not matter, for the code only masks. `malloc`
and `realloc` always succeed, and inputs are shorter than 2^31. The decoders are given
well-formed streams (every pointer's source lies in the stream) or, in `round_trip`,
such a stream cut short: they trust their input. `fputc`, `putchar` and Python's files
do not fail. `mk_ptr`'s bitwise or is a sum, which is the same as long as the fields do
not overlap (`OffsetsFit`). `fread` and `fwrite` move fewer bytes than asked for only at
the end of the file or with an error, as the C standard says.

Python's list of nodes is built as it is walked; here it is all there from the start,
which no step can tell. The records of `PyCompressor` hold 7-bit data: lzjwm.py does
not refuse other bytes. A record that holds a NUL is not asked for in `PyRecords`: the
minimal decoder stops at it. The sequences of calls in `buffers` extract only ranges
inside the second buffer and pop and delete only from what is there; that a caller must
not extract or delete beyond is what `buffers_comments` shows. Its `ReadFile` reads a file in two pieces
in one step, the loop itself being in `Files`.

## Not modelled

`lzjwm_dump`, `-x` and `-v` print and change nothing. Of `lzjwm.py`: splitting a file
into lines, reading YAML, writing YAML and laying out the C header. Of `resizable_buf`:
the encoding of a codepoint by `rb_putwc`, the typed macros around the functions, and
`fopen`. Malformed streams, exhausted memory and files of 2^31 bytes and more are outside
every model. `regress/flisp.c`, by far the longest C file of the repository, is no part of
the program: it is a text that the regression driver compresses, like the other files of
that directory, and no definition stands for it. The build files and examples have no
behaviour.

## Plan

1. Done: the format, the C encoder, the three C decoders, the first theorems.
2. Done: the Python encoder with its records; the resizable buffer and the fifo.
3. Done: the Python decoder; the file operations with errors; the abstract encoder,
   implemented by both encoders; the programs composed as the regression driver runs
   them, and a program that fetches records.
4. Done: the encoder's offsets and output, the delivery of the three C decoders, the
   buffers under any sequence of calls, the calls on files, alone and in the programs.
5. Done: the Python encoder with its records, the agreement of the two encoders, the
   Python decoder.
6. Done: the programs composed put out prefixes only, whatever breaks off, by the
   invariants of the encoder and of all four decoders.
