------------------------- MODULE MCBufferedDecoder --------------------------
(***************************************************************************)
(* BufferedDecoder on the streams of MCDecoders, and on streams with a NUL *)
(* among their bytes, whose size has to be given.                          *)
(***************************************************************************)
EXTENDS BufferedDecoder, MCDecoders

WithNul ==
  {e \in BoundedSeq({0, 1} \cup Pointers(0 .. 1), MaxBytes) :
     WellFormed(e) /\ \E p \in DOMAIN e : e[p] = 0}

NulStreams == {StreamOf(e) : e \in WithNul}
MixedStreams == AllStreams \cup NulStreams
=============================================================================
