-------------------------- MODULE MCLearningSessions --------------------------
(* LearningSessions with interchangeable users, sessions and requests. *)
EXTENDS LearningSessions, TLC

Symmetry == Permutations(Users) \cup Permutations(Modules) \cup Permutations(Requests)
=============================================================================
