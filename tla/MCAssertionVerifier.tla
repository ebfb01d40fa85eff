------------------------ MODULE MCAssertionVerifier ------------------------
(* An instance of AssertionVerifier: three requests; assertions of two ids,   *)
(* with the longest life and a shorter one, two that share an id, one that   *)
(* lives too long and one that is not genuine; and a clock of five readings  *)
(* around their windows.                                                    *)
EXTENDS AssertionVerifier

CONSTANTS i1, i2

MCIds == {i1, i2}

MCTimes == 0..4

MCAssertions ==
  {[id |-> i1, iat |-> 0, exp |-> 2, genuine |-> TRUE],
   [id |-> i2, iat |-> 1, exp |-> 2, genuine |-> TRUE],
   [id |-> i1, iat |-> 2, exp |-> 4, genuine |-> TRUE],
   [id |-> i2, iat |-> 0, exp |-> 4, genuine |-> TRUE],
   [id |-> i2, iat |-> 1, exp |-> 2, genuine |-> FALSE]}
=============================================================================
