-------------------------- MODULE MCStreamDecoder --------------------------
(***************************************************************************)
(* StreamDecoder on the streams of MCDecoders.                             *)
(***************************************************************************)
EXTENDS StreamDecoder, MCDecoders
=============================================================================
