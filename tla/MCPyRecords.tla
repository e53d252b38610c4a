---------------------------- MODULE MCPyRecords ----------------------------
(***************************************************************************)
(* Command lines for model checking PyRecords.                             *)
(***************************************************************************)
EXTENDS PyRecords

Records(letters, n) == BoundedSeq(letters, n)

(* Up to three short records over NUL and a letter with every combination  *)
(* of options, pairs of longer ones over two letters, whose matches want   *)
(* to reach across the boundary, and single texts that exceed the window   *)
(* and the longest match.                                                  *)
ShortRecords ==
  [data : BoundedSeq(Records({0, 1}, 2), 3),
   unify : BOOLEAN, terminate : BOOLEAN, keepNul : BOOLEAN]
Pairs ==
  [data : {<<a, b>> : a \in Records({1, 2}, 4), b \in Records({1, 2}, 4)},
   unify : {FALSE}, terminate : BOOLEAN, keepNul : {TRUE}]
LongRecords ==
  [data : {<<a>> : a \in Records({1, 2}, 10)},
   unify : {FALSE}, terminate : {FALSE}, keepNul : BOOLEAN]

CommandLines == ShortRecords \cup Pairs \cup LongRecords
=============================================================================
