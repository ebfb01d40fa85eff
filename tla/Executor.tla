------------------------------ MODULE Executor ------------------------------
(***************************************************************************)
(* What the submission service asks of a sandbox executor (the trait        *)
(* SandboxExecutor, src/src/runner/docker.rs): one call gives one answer,   *)
(* and the answer is `cancelled` only if the owner asked for it.            *)
(* SandboxExecution implements this module; RunnerService relies on it in   *)
(* ExecutorReturns.                                                        *)
(***************************************************************************)
CONSTANTS Classes, None

VARIABLES requested, answer

Init == requested \in BOOLEAN /\ answer = None

Request == requested' = TRUE /\ UNCHANGED answer

Answer == /\ answer = None
          /\ answer' \in Classes
          /\ answer' = "cancelled" => requested
          /\ UNCHANGED requested

Next == Request \/ Answer

Spec == Init /\ [][Next]_<<requested, answer>>
=============================================================================
