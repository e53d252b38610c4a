----------------------------- MODULE PyRecords ------------------------------
(***************************************************************************)
(* What the records are compressed for: lzjwm.py -c -f c writes the stream *)
(* into a C header with the offset and the length of every record, and a   *)
(* program with the minimal decoder in it asks for one of them.            *)
(***************************************************************************)
EXTENDS PyCompressor

VARIABLES
  record,  \* the record asked for
  pos,     \* the minimal decoder: "idle", "run", "done"
  stack, sent

fetch_vars == <<record, pos, stack, sent>>
all == <<vars, fetch_vars>>

(* A count above every length: the record ends at its NUL.                 *)
Unlimited == 2 ^ 16
Length(r) == IF job.terminate /\ job.keepNul THEN Unlimited ELSE Len(job.data[r])

T == INSTANCE TinyDecoder WITH
       Streams <- {}, Limits <- {},
       stream <- [enc |-> out, text |-> mv],
       from <- offsets[record], limit <- Length(record),
       pc <- pos, out <- sent

RInit ==
  /\ Init
  /\ record = None /\ pos = "idle" /\ stack = << >> /\ sent = << >>

Compress ==
  /\ Next
  /\ UNCHANGED fetch_vars

(* The decoder stops at a NUL, so a record that holds one is never whole.  *)
Fetchable == {r \in DOMAIN job.data : NUL \notin ToSet(job.data[r])}

Ask ==
  /\ pc = "done"
  /\ pos = "idle"
  /\ \E r \in Fetchable :
       /\ record' = r
       /\ stack' = << T!Call(offsets[r], Length(r)) >>
  /\ pos' = "run"
  /\ UNCHANGED <<vars, sent>>

Decompress ==
  /\ UNCHANGED <<vars, record>>
  /\ T!Next

RNext == Compress \/ Ask \/ Decompress

(* Both programs run until they end.                                       *)
RSpec == RInit /\ [][RNext]_all /\ WF_all(RNext)

-----------------------------------------------------------------------------
(* A program that has the stream, and the offset and length of a record,   *)
(* gets exactly the record, whatever the records around it and the copies  *)
(* that reach back into them; with -0 and -z it needs no length ("never    *)
(* compress null so it appears unchanged in compressed data. useful for    *)
(* random access", lzjwm.py:353-354).                                      *)
FetchesRecords ==
  <>[](/\ pc = "done"
       /\ Fetchable # {} => pos = "done" /\ sent = job.data[record])
=============================================================================
