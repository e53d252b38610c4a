------------------------------ MODULE MCFiles -------------------------------
(***************************************************************************)
(* Files that are shorter and longer than the count.                       *)
(***************************************************************************)
EXTENDS Files

ShortFiles == {[k \in 1 .. n |-> 1 + (k % 2)] : n \in 0 .. 5}
=============================================================================
