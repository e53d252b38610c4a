---------------------------- MODULE MCCompressor ----------------------------
(***************************************************************************)
(* Inputs for model checking Compressor.                                   *)
(***************************************************************************)
EXTENDS Compressor, SequencesExt

(* Every text over two letters of up to 11 characters, every text over     *)
(* three letters of up to 6, the empty input, and inputs that hold a byte  *)
(* with the flag bit.                                                      *)
ShortInputs ==
  BoundedSeq({1, 2}, 11) \cup BoundedSeq({1, 2, 3}, 6) \cup BoundedSeq({1, FLAG}, 2)

Empty == {<< >>}
=============================================================================
