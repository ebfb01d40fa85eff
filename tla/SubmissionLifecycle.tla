------------------------ MODULE SubmissionLifecycle ------------------------
(***************************************************************************)
(* What the submission service promises for each submission, with no       *)
(* queue, no locks and no worker: a submission waits, at most one runs at a *)
(* time, and each ends exactly once -- with a verdict, cancelled, or        *)
(* withdrawn because the queue had no room for it.  RunnerService is shown  *)
(* to implement this module.                                               *)
(***************************************************************************)
CONSTANT Submissions

VARIABLE phase

Verdicts == {"passed", "failed", "error"}
Phases == {"none", "waiting", "running", "cancelled", "withdrawn"} \cup Verdicts
Final == Verdicts \cup {"cancelled", "withdrawn"}

Init == phase = [s \in Submissions |-> "none"]

Move(s, p) == phase' = [phase EXCEPT ![s] = p]

Accept(s) == phase[s] = "none" /\ Move(s, "waiting")

(* Concurrency one: nothing else is running. *)
Begin(s) == /\ phase[s] = "waiting"
            /\ \A t \in Submissions : phase[t] # "running"
            /\ Move(s, "running")

(* Only a submission that ran gets a verdict. *)
Settle(s) == /\ phase[s] = "running"
             /\ \E v \in Verdicts : Move(s, v)

Cancel(s) == phase[s] \in {"waiting", "running"} /\ Move(s, "cancelled")

(* The queue-full rollback takes a record back, but never one that began. *)
Withdraw(s) == phase[s] \in {"waiting", "cancelled"} /\ Move(s, "withdrawn")

Next == \E s \in Submissions :
          Accept(s) \/ Begin(s) \/ Settle(s) \/ Cancel(s) \/ Withdraw(s)

Spec == Init /\ [][Next]_phase
=============================================================================
