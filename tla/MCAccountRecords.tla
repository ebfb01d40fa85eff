--------------------------- MODULE MCAccountRecords ---------------------------
(* AccountRecords for TLC: requests are interchangeable. *)
EXTENDS AccountRecords, TLC

Symmetry == Permutations(Calls)
=============================================================================
