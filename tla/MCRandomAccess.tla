--------------------------- MODULE MCRandomAccess ---------------------------
(***************************************************************************)
(* RandomAccess on the streams of MCDecoders.                              *)
(***************************************************************************)
EXTENDS RandomAccess, MCDecoders
=============================================================================
