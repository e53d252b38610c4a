---------------------------- MODULE RandomAccess ----------------------------
(***************************************************************************)
(* The two decoders that a caller may start at any byte of a stream and    *)
(* stop after any number of characters: the minimal one in C and the one   *)
(* of the Python program.  They are written differently and promise the    *)
(* same.                                                                   *)
(***************************************************************************)
EXTENDS TinyDecoder

VARIABLE program   \* "tiny" or "python"

P == INSTANCE PyDecoder

AInit ==
  \/ program = "tiny" /\ Init
  \/ program = "python" /\ P!Init

Tiny == program = "tiny" /\ Next /\ UNCHANGED program
Python == program = "python" /\ P!Next /\ UNCHANGED program

ANext == Tiny \/ Python
all == <<vars, program>>

(* One thread that runs until the call returns.                            *)
ASpec == AInit /\ [][ANext]_all /\ WF_all(ANext)
=============================================================================
