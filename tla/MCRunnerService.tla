-------------------------- MODULE MCRunnerService --------------------------
(* RunnerService on small sets for TLC. *)
EXTENDS RunnerService, TLC

(* These values are only compared, so permuting any of the sets maps        *)
(* behaviours to behaviours (Droppable is empty or all of Requests).        *)
Symmetry == Permutations(Ids) \cup Permutations(Requests)
              \cup Permutations(Users) \cup Permutations(Sources)
=============================================================================
