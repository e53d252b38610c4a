----------------------------- MODULE MCBuffers ------------------------------
(***************************************************************************)
(* Data for model checking Buffers.                                        *)
(***************************************************************************)
EXTENDS Buffers

ShortStrings == {<< >>, <<1>>, <<NUL>>, <<1, NUL>>, <<1, 1>>}
=============================================================================
