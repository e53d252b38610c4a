---------------------------- MODULE MCRoundTrip ----------------------------
(***************************************************************************)
(* Texts for the round trip in the format as shipped, chosen so that the   *)
(* window, the longest match and nested copies all come to their limits.   *)
(***************************************************************************)
EXTENDS RoundTrip

Letters(first, n) == [x \in 1 .. n |-> first + x - 1]
Cycle(n, p) == [x \in 1 .. n |-> 97 + ((x - 1) % p)]

(* Two letters that come back after n others.                              *)
Again(n) == <<120, 121>> \o Letters(1, n) \o <<120, 121>>

Texts ==
  {Cycle(n, p) : n \in {1, 23, 40}, p \in {1, 2, 3, 5}}
    \cup {Again(n) : n \in {29, 30, 31}}
    \cup {Cycle(12, 4) \o Again(3) \o Cycle(14, 7) \o Cycle(12, 4),
          Letters(1, 40) \o Letters(1, 40),
          Cycle(9, 2) \o Letters(10, 24) \o Cycle(17, 2) \o Letters(20, 9),
          <<97, 200, 97>>}

(* Every place in these files and streams.                                 *)
Anywhere == 0 .. 92
=============================================================================
