--------------------------- MODULE RunnerService ---------------------------
(***************************************************************************)
(* The in-memory submission service of the reviewed runner                 *)
(* (src/src/runner/service.rs): request tasks that submit, deduplicate and *)
(* roll back, owners that cancel, and the single worker task that drains    *)
(* the bounded queue, retries a lost worker and records signed results.    *)
(*                                                                         *)
(* One action per critical section: code between two awaits of a task runs *)
(* as a step, and so does code that holds the write guard of `submissions`.*)
(***************************************************************************)
EXTENDS Naturals, Sequences, FiniteSets

CONSTANTS
  Requests,    \* request tasks that may be inside submit at the same time
  Droppable,   \* those whose client may go away, dropping the task at an await
  Users,
  Sources,     \* source texts a learner may send, by digest
  Ids,         \* submission ids; finite, so Cardinality(Ids) bounds the run
  Capacity,    \* limits.queue_capacity
  MaxRetries,  \* limits.max_retries
  Outcomes,    \* classifications the executor can return
  None         \* "no value"

RunnerClassification ==
  {"passed", "failed", "compile-error", "timeout", "output-limit",
   "resource-limit", "isolation-error", "worker-lost", "cancelled"}

ASSUME ConstantsAssumption ==
  /\ Capacity \in Nat \ {0}
  /\ MaxRetries \in Nat
  /\ Outcomes \subseteq RunnerClassification
  /\ Droppable \subseteq Requests
  /\ None \notin Ids \cup (Users \X Sources) \cup Requests
       \cup RunnerClassification \cup (Ids \X RunnerClassification)

VARIABLES
  state,           \* view.state of each record; "absent": no record in the map
  classification,  \* view.classification
  result,          \* authenticated_result: the evidence kept, <<job's id, class>>
  cancellation,    \* the watch channel the worker polls
  key,             \* owner and source of an id once it is assigned, for good
  deduplication,   \* dedup key -> submission id
  dedupLock,       \* the request that holds the deduplication mutex, or None
  queue,           \* the bounded mpsc channel
  pc, want, target,    \* per request: where it is, what it submits, its id
  acknowledged,    \* history: <<user, id>> pairs answered with Ok(view)
  worker,          \* where worker_loop is
  job,             \* the item it holds
  attempt,         \* the execution it is at, counted from 1
  evidence,        \* what the executor returned
  outcomes         \* history: what the executor returned for each submission

records == <<state, classification, result, cancellation>>
index   == <<deduplication, dedupLock>>
requests == <<pc, want, target, acknowledged>>
workers == <<worker, job, attempt, evidence, outcomes>>
vars == <<records, key, index, queue, requests, workers>>

Keys == Users \X Sources
Verdict == {"passed", "failed", "error"}
Terminal == Verdict \cup {"cancelled"}
SubmissionState == {"queued", "running"} \cup Terminal
Evidence == Ids \X RunnerClassification

(* submission_state: the state a recorded classification leads to. *)
SubmissionStateOf(class) ==
  CASE class = "passed" -> "passed"
    [] class = "cancelled" -> "cancelled"
    [] class \in {"failed", "compile-error", "timeout", "output-limit",
                  "resource-limit"} -> "failed"
    [] class \in {"isolation-error", "worker-lost"} -> "error"

Init ==
  /\ state = [s \in Ids |-> "absent"]
  /\ classification = [s \in Ids |-> None]
  /\ result = [s \in Ids |-> None]
  /\ cancellation = [s \in Ids |-> FALSE]
  /\ key = [s \in Ids |-> None]
  /\ deduplication = [k \in Keys |-> None]
  /\ dedupLock = None
  /\ queue = <<>>
  /\ pc = [r \in Requests |-> "idle"]
  /\ want = [r \in Requests |-> None]
  /\ target = [r \in Requests |-> None]
  /\ acknowledged = {}
  /\ worker = "receiving"
  /\ job = None
  /\ attempt = 1
  /\ evidence = None
  /\ outcomes = [s \in Ids |-> <<>>]

-----------------------------------------------------------------------------
(* submit *)

Fresh == {s \in Ids : key[s] = None}

(* The record the key points to, when it may be handed out again. *)
Reusable(k) ==
  LET s == deduplication[k] IN
  /\ s # None
  /\ state[s] \notin {"absent", "cancelled"}
  /\ key[s][1] = k[1]

Finish(r) ==
  /\ pc' = [pc EXCEPT ![r] = "idle"]
  /\ want' = [want EXCEPT ![r] = None]
  /\ target' = [target EXCEPT ![r] = None]

(* Lock the index; answer with the existing submission, if there is one. *)
SubmitExisting(r, k) ==
  /\ pc[r] = "idle" /\ dedupLock = None
  /\ Reusable(k)
  /\ acknowledged' = acknowledged \cup {<<k[1], deduplication[k]>>}
  /\ UNCHANGED <<records, key, index, queue, pc, want, target, workers>>

(* Mutant: the index is unlocked between the look-up and the registration. *)
MutantLookupUnlocks(r, k) ==
  /\ pc[r] = "idle" /\ dedupLock = None
  /\ ~Reusable(k)
  /\ Cardinality(Fresh) > Cardinality({q \in Requests : pc[q] = "registering"})
  /\ pc' = [pc EXCEPT ![r] = "registering"]
  /\ want' = [want EXCEPT ![r] = k]
  /\ UNCHANGED <<records, key, index, queue, target, acknowledged, workers>>

(* Otherwise keep the lock: the request goes on to make a record.  (Ids is  *)
(* finite here: the run ends its submissions when none is left.)           *)
SubmitLookup(r, k) ==
  /\ pc[r] = "idle" /\ dedupLock = None
  /\ ~Reusable(k)
  /\ Fresh # {}
  /\ dedupLock' = r
  /\ pc' = [pc EXCEPT ![r] = "registering"]
  /\ want' = [want EXCEPT ![r] = k]
  /\ UNCHANGED <<records, key, deduplication, queue, target, acknowledged, workers>>

(* Insert the Queued record under a new id, index it and unlock. *)
SubmitRegister(r) ==
  /\ pc[r] = "registering"
  /\ \E s \in Fresh :
       /\ state' = [state EXCEPT ![s] = "queued"]
       /\ key' = [key EXCEPT ![s] = want[r]]
       /\ deduplication' = [deduplication EXCEPT ![want[r]] = s]
       /\ target' = [target EXCEPT ![r] = s]
  /\ dedupLock' = None
  /\ pc' = [pc EXCEPT ![r] = "sending"]
  /\ UNCHANGED <<classification, result, cancellation, queue, want, acknowledged, workers>>

(* try_send finds room. *)
SubmitSend(r) ==
  /\ pc[r] = "sending"
  /\ Len(queue) < Capacity
  /\ queue' = Append(queue, target[r])
  /\ acknowledged' = acknowledged \cup {<<want[r][1], target[r]>>}
  /\ Finish(r)
  /\ UNCHANGED <<records, key, index, workers>>

(* Mutant: only the index entry is taken back. *)
MutantFullKeepsRecord(r) ==
  /\ pc[r] = "sending"
  /\ Len(queue) >= Capacity
  /\ pc' = [pc EXCEPT ![r] = "unindexing"]
  /\ UNCHANGED <<records, key, index, queue, want, target, acknowledged, workers>>

(* try_send fails: the record and its index entry are taken back, each     *)
(* under its own lock.                                                     *)
SubmitQueueFull(r) ==
  /\ pc[r] = "sending"
  /\ Len(queue) >= Capacity
  /\ pc' = [pc EXCEPT ![r] = "removing"]
  /\ UNCHANGED <<records, key, index, queue, want, target, acknowledged, workers>>

RollbackRecord(r) ==
  /\ pc[r] = "removing"
  /\ state' = [state EXCEPT ![target[r]] = "absent"]
  /\ classification' = [classification EXCEPT ![target[r]] = None]
  /\ cancellation' = [cancellation EXCEPT ![target[r]] = FALSE]
  /\ pc' = [pc EXCEPT ![r] = "unindexing"]
  /\ UNCHANGED <<result, key, index, queue, want, target, acknowledged, workers>>

RollbackIndex(r) ==
  /\ pc[r] = "unindexing" /\ dedupLock = None
  /\ deduplication' = [deduplication EXCEPT ![want[r]] = None]
  /\ Finish(r)
  /\ UNCHANGED <<records, key, dedupLock, queue, acknowledged, workers>>

(* The handler's future is dropped while it awaits a lock; a mutex guard it *)
(* holds is released with it, nothing else is undone.                      *)
Disconnect(r) ==
  /\ r \in Droppable
  /\ pc[r] \in {"registering", "removing", "unindexing"}
  /\ dedupLock' = IF dedupLock = r THEN None ELSE dedupLock
  /\ Finish(r)
  /\ UNCHANGED <<records, key, deduplication, queue, acknowledged, workers>>

-----------------------------------------------------------------------------
(* Mutant: cancel forgets that a verdict is terminal. *)
MutantCancelAnyState(u, s) ==
  /\ state[s] # "absent"
  /\ key[s][1] = u
  /\ cancellation' = [cancellation EXCEPT ![s] = TRUE]
  /\ state' = [state EXCEPT ![s] = "cancelled"]
  /\ classification' = [classification EXCEPT ![s] = "cancelled"]
  /\ UNCHANGED <<result, key, index, queue, requests, workers>>

(* cancel, by the owner; anyone else is told NotFound, and a terminal      *)
(* submission is returned as it is.                                        *)
Cancel(u, s) ==
  /\ state[s] \in {"queued", "running"}
  /\ key[s][1] = u
  /\ cancellation' = [cancellation EXCEPT ![s] = TRUE]
  /\ state' = [state EXCEPT ![s] = "cancelled"]
  /\ classification' = [classification EXCEPT ![s] = "cancelled"]
  /\ UNCHANGED <<result, key, index, queue, requests, workers>>

-----------------------------------------------------------------------------
(* worker_loop *)

WorkerReceive ==
  /\ worker = "receiving"
  /\ queue # <<>>
  /\ job' = Head(queue)
  /\ queue' = Tail(queue)
  /\ worker' = "starting"
  /\ UNCHANGED <<records, key, index, requests, attempt, evidence, outcomes>>

(* The loop comes round: back to recv. *)
Receive == worker' = "receiving" /\ job' = None /\ attempt' = 1 /\ evidence' = None

(* The item was cancelled (seen on the channel or in the record) or has no *)
(* record: it never reaches the executor.                                  *)
WorkerSkip ==
  /\ worker = "starting"
  /\ cancellation[job] \/ state[job] \in {"cancelled", "absent"}
  /\ IF state[job] = "absent"
     THEN UNCHANGED <<state, classification>>
     ELSE /\ state' = [state EXCEPT ![job] = "cancelled"]
          /\ classification' = [classification EXCEPT ![job] = "cancelled"]
  /\ Receive
  /\ UNCHANGED <<result, cancellation, key, index, queue, requests, outcomes>>

WorkerStart ==
  /\ worker = "starting"
  /\ ~cancellation[job] /\ state[job] \notin {"cancelled", "absent"}
  /\ state' = [state EXCEPT ![job] = "running"]
  /\ worker' = "executing"
  /\ UNCHANGED <<classification, result, cancellation, key, index, queue,
                 requests, job, attempt, evidence, outcomes>>

(* The executor answers.  It reports a cancellation only after one was     *)
(* requested (docker.rs); the job its evidence names may be another's.     *)
ExecutorReturns ==
  /\ worker = "executing"
  /\ \E class \in Outcomes, named \in Ids :
       /\ class = "cancelled" => cancellation[job]
       /\ evidence' = <<named, class>>
       /\ outcomes' = [outcomes EXCEPT ![job] = Append(@, class)]
  /\ worker' = "returned"
  /\ UNCHANGED <<records, key, index, queue, requests, job, attempt>>

(* Mutant: a timeout is retried like a lost worker. *)
MutantRetryTimeout ==
  /\ evidence[2] \in {"worker-lost", "timeout"}
  /\ attempt <= MaxRetries
  /\ ~cancellation[job]

MayRetry ==
  /\ evidence[2] = "worker-lost"
  /\ attempt <= MaxRetries
  /\ ~cancellation[job]

(* Mutant: a lost job goes back to the queue instead of round the loop. *)
MutantRetryRequeues ==
  /\ worker = "returned"
  /\ MayRetry
  /\ queue' = Append(queue, job)
  /\ Receive
  /\ UNCHANGED <<records, key, index, requests, outcomes>>

WorkerRetry ==
  /\ worker = "returned"
  /\ MayRetry
  /\ worker' = "executing"
  /\ attempt' = attempt + 1
  /\ evidence' = None
  /\ UNCHANGED <<records, key, index, queue, requests, job, outcomes>>

WorkerSign ==
  /\ worker = "returned"
  /\ ~MayRetry
  /\ worker' = "storing"
  /\ UNCHANGED <<records, key, index, queue, requests, job, attempt, evidence, outcomes>>

(* Mutant: the error is stored without a look at the state. *)
MutantErrorOverwrites ==
  /\ worker = "storing"
  /\ state' = [state EXCEPT ![job] = "error"]
  /\ classification' = [classification EXCEPT ![job] = "worker-lost"]
  /\ Receive
  /\ UNCHANGED <<result, cancellation, key, index, queue, requests, outcomes>>

(* store_worker_error, after a signing failure ("worker-signature-failed")  *)
(* or when the signed result does not verify or is not bound to this job   *)
(* ("worker-result-rejected").                                             *)
StoreWorkerError ==
  /\ worker = "storing"
  /\ IF state[job] \in {"absent", "cancelled"}
     THEN UNCHANGED <<state, classification>>
     ELSE /\ state' = [state EXCEPT ![job] = "error"]
          /\ classification' = [classification EXCEPT ![job] = "worker-lost"]
  /\ Receive
  /\ UNCHANGED <<result, cancellation, key, index, queue, requests, outcomes>>

(* Mutant: the binding of the signed result is not compared. *)
MutantStoreUnbound ==
  /\ worker = "storing"
  /\ IF state[job] \in {"absent", "cancelled"}
     THEN UNCHANGED <<state, classification, result>>
     ELSE /\ state' = [state EXCEPT ![job] = SubmissionStateOf(evidence[2])]
          /\ classification' = [classification EXCEPT ![job] = evidence[2]]
          /\ result' = [result EXCEPT ![job] = evidence]
  /\ Receive
  /\ UNCHANGED <<cancellation, key, index, queue, requests, outcomes>>

(* The signature verifies and the binding is this job's. *)
StoreAuthenticated ==
  /\ worker = "storing"
  /\ evidence[1] = job
  /\ IF state[job] \in {"absent", "cancelled"}
     THEN UNCHANGED <<state, classification, result>>
     ELSE /\ state' = [state EXCEPT ![job] = SubmissionStateOf(evidence[2])]
          /\ classification' = [classification EXCEPT ![job] = evidence[2]]
          /\ result' = [result EXCEPT ![job] = evidence]
  /\ Receive
  /\ UNCHANGED <<cancellation, key, index, queue, requests, outcomes>>

-----------------------------------------------------------------------------
Submitting(r) ==
  \/ SubmitRegister(r) \/ SubmitSend(r) \/ SubmitQueueFull(r)
  \/ RollbackRecord(r) \/ RollbackIndex(r)

Worker ==
  \/ WorkerReceive \/ WorkerSkip \/ WorkerStart \/ ExecutorReturns
  \/ WorkerRetry \/ WorkerSign \/ StoreWorkerError \/ StoreAuthenticated

Next ==
  \/ \E r \in Requests, k \in Keys : SubmitExisting(r, k) \/ SubmitLookup(r, k)
  \/ \E r \in Requests : Submitting(r) \/ Disconnect(r)
  \/ \E u \in Users, s \in Ids : Cancel(u, s)
  \/ Worker

Spec == Init /\ [][Next]_vars

(* The runtime polls every runnable task, its locks are fair, and the      *)
(* executor's wall timeout makes it return; clients owe nothing.           *)
Fairness ==
  /\ WF_vars(Worker)
  /\ \A r \in Requests : WF_vars(Submitting(r))

FairSpec == Spec /\ Fairness
-----------------------------------------------------------------------------
(* Properties *)

TypeOK ==
  /\ state \in [Ids -> SubmissionState \cup {"absent"}]
  /\ classification \in [Ids -> RunnerClassification \cup {None}]
  /\ result \in [Ids -> Evidence \cup {None}]
  /\ cancellation \in [Ids -> BOOLEAN]
  /\ key \in [Ids -> Keys \cup {None}]
  /\ deduplication \in [Keys -> Ids \cup {None}]
  /\ dedupLock \in Requests \cup {None}
  /\ queue \in Seq(Ids)
  /\ pc \in [Requests -> {"idle", "registering", "sending", "removing", "unindexing"}]
  /\ want \in [Requests -> Keys \cup {None}]
  /\ target \in [Requests -> Ids \cup {None}]
  /\ acknowledged \subseteq Users \X Ids
  /\ worker \in {"receiving", "starting", "executing", "returned", "storing"}
  /\ job \in Ids \cup {None}
  /\ attempt \in Nat \ {0}
  /\ evidence \in Evidence \cup {None}
  /\ outcomes \in [Ids -> Seq(RunnerClassification)]

(* A terminal submission never changes again: a late result replaces       *)
(* neither a cancellation nor a verdict.  The one exception is the          *)
(* queue-full rollback, which may take back a record someone cancelled      *)
(* before it ever ran (service.rs store_authenticated, store_worker_error). *)
TerminalIsFinal ==
  [][\A s \in Ids : state[s] \in Terminal =>
       \/ /\ state'[s] = state[s]
          /\ classification'[s] = classification[s]
          /\ result'[s] = result[s]
       \/ /\ state[s] = "cancelled" /\ state'[s] = "absent"
          /\ outcomes[s] = <<>>]_vars

(* No execution of a submission begins, first or retried, once it is       *)
(* cancelled (the two checks before Running and the one before a retry).   *)
CancelledNeverStarts ==
  [][\A s \in Ids :
       state[s] = "cancelled" =>
         ~(worker # "executing" /\ worker' = "executing" /\ job' = s)]_vars

(* What a record shows is what the executor last said of that very job,    *)
(* signed and bound to it, and there is no verdict without such a result    *)
(* (the binding check of worker_loop and store_authenticated).             *)
ResultAuthentic ==
  \A s \in Ids :
    /\ result[s] # None =>
         /\ result[s] = <<s, classification[s]>>
         /\ state[s] = SubmissionStateOf(classification[s])
         /\ outcomes[s] # <<>>
         /\ classification[s] = outcomes[s][Len(outcomes[s])]
    /\ state[s] \in {"passed", "failed"} => result[s] # None

(* Only a lost worker is retried, and at most MaxRetries times: every       *)
(* outcome but the last is worker-lost (the loop of worker_loop).          *)
RetryDiscipline ==
  \A s \in Ids :
    /\ Len(outcomes[s]) <= MaxRetries + 1
    /\ \A i \in 1..(Len(outcomes[s]) - 1) : outcomes[s][i] = "worker-lost"

(* The queue holds each submission at most once, never one the worker      *)
(* already has or has run, and only ones with a record, so nothing runs     *)
(* twice and the worker's missing-record branches are never needed.        *)
QueueIntegrity ==
  /\ Len(queue) <= Capacity
  /\ \A i, j \in 1..Len(queue) : queue[i] = queue[j] => i = j
  /\ \A i \in 1..Len(queue) :
       /\ queue[i] # job
       /\ outcomes[queue[i]] = <<>>
       /\ state[queue[i]] \in {"queued", "cancelled"}
  /\ job # None => state[job] # "absent"

Active(s) == state[s] \notin {"absent", "cancelled"}

(* A user has at most one submission per source that is not cancelled: the *)
(* deduplication submit promises (tests.rs,                                *)
(* service_deduplicates_per_user_and_isolates_ownership).                  *)
OneActivePerKey ==
  \A s, t \in Ids : Active(s) /\ Active(t) /\ key[s] = key[t] => s = t

(* No submission has been taken back, and none is being, for a full queue. *)
NeverFull ==
  /\ \A r \in Requests : pc[r] \notin {"removing", "unindexing"}
  /\ \A s \in Ids : key[s] # None => state[s] # "absent"

(* As long as the queue has not been full, deduplication is right for every  *)
(* user and source, whatever is cancelled, dropped or resubmitted; and what  *)
(* submit answers with, new or found in the index, is always the user's own  *)
(* (the mutex that submit holds from the look-up to the registration).      *)
DeduplicatedUntilFull ==
  /\ NeverFull => OneActivePerKey
  /\ \A a \in acknowledged : key[a[2]] # None /\ key[a[2]][1] = a[1]

(* A submission that has a record ends: verdict, cancelled or withdrawn    *)
(* (the worker drains the queue and the rollback finishes).                *)
EverySubmissionResolves ==
  \A s \in Ids : state[s] \in {"queued", "running"}
                   ~> state[s] \in Terminal \cup {"absent"}

(* What the client sees of a submission's life, with none of the machinery. *)
Phase(s) ==
  CASE state[s] = "absent" -> IF key[s] = None THEN "none" ELSE "withdrawn"
    [] state[s] = "queued" -> "waiting"
    [] OTHER -> state[s]

Lifecycle == INSTANCE SubmissionLifecycle
               WITH Submissions <- Ids, phase <- [s \in Ids |-> Phase(s)]

(* The service implements SubmissionLifecycle: one submission runs at a     *)
(* time, only a submission that ran gets a verdict, none ends twice.       *)
ImplementsLifecycle == Lifecycle!Spec
-----------------------------------------------------------------------------
(* The inductive invariant behind the safety properties: who owns an id at  *)
(* each moment -- nobody yet, a request, the queue, or the worker.          *)

(* A request past its registration, with an id it still owns. *)
Holding(r) == pc[r] \in {"sending", "removing", "unindexing"}

(* The mutex is held exactly by the request that is about to register. *)
LockInv ==
  \A r \in Requests : pc[r] = "registering" <=> dedupLock = r

(* A request owns its id alone: neither the queue nor the worker has it. *)
RequestInv ==
  \A r \in Requests :
    /\ pc[r] # "idle" => want[r] \in Keys
    /\ Holding(r) =>
         /\ target[r] \in Ids
         /\ key[target[r]] # None
         /\ outcomes[target[r]] = <<>>
         /\ target[r] # job
         /\ \A i \in 1..Len(queue) : queue[i] # target[r]
         /\ \A q \in Requests : Holding(q) /\ target[q] = target[r] => q = r
    /\ pc[r] \in {"sending", "removing"} => state[target[r]] \in {"queued", "cancelled"}

(* What each view state says of the rest of the record. *)
RecordInv ==
  \A s \in Ids :
    /\ cancellation[s] <=> state[s] = "cancelled"
    /\ state[s] = "cancelled" => classification[s] = "cancelled"
    /\ state[s] = "running" => s = job
    /\ state[s] \in {"absent", "queued", "running", "cancelled"} => result[s] = None
    /\ state[s] \in {"absent", "queued"} => outcomes[s] = <<>>
    /\ key[s] = None => state[s] = "absent"

(* Where the worker is in its loop, and what it knows of its job there. *)
WorkerInv ==
  /\ worker = "receiving" <=> job = None
  /\ worker # "receiving" => key[job] # None
  /\ worker \in {"receiving", "starting"} => attempt = 1
  /\ worker = "starting" =>
       /\ state[job] \in {"queued", "cancelled"}
       /\ outcomes[job] = <<>>
  /\ worker \in {"executing", "returned", "storing"} =>
       /\ state[job] \in {"running", "cancelled"}
       /\ attempt <= MaxRetries + 1
       /\ Len(outcomes[job]) = IF worker = "executing" THEN attempt - 1 ELSE attempt
       /\ \A i \in 1..(attempt - 1) : outcomes[job][i] = "worker-lost"
  /\ worker \in {"returned", "storing"} =>
       /\ evidence \in Evidence
       /\ evidence[2] = outcomes[job][attempt]
       /\ evidence[2] = "cancelled" => cancellation[job]

(* Every part, checked on the instance before it is proved inductive. *)
IInv ==
  /\ TypeOK /\ LockInv /\ RequestInv /\ RecordInv /\ WorkerInv
  /\ QueueIntegrity /\ ResultAuthentic /\ RetryDiscipline

(* The index of deduplication: an entry names a submission of its key; until one *)
(* is withdrawn, every active submission has its entry, and there is none of the  *)
(* key that the mutex is held for.                                           *)
NoneWithdrawn == \A s \in Ids : key[s] # None => state[s] # "absent"

IndexInv ==
  /\ \A k \in Keys : deduplication[k] # None => key[deduplication[k]] = k
  /\ \A r \in Requests :
       /\ Holding(r) => key[target[r]] = want[r]
       /\ pc[r] = "unindexing" => state[target[r]] = "absent"
  /\ \A a \in acknowledged : key[a[2]] # None /\ key[a[2]][1] = a[1]
  /\ NoneWithdrawn =>
       /\ \A s \in Ids : Active(s) => deduplication[key[s]] = s
       /\ \A r \in Requests, s \in Ids :
            pc[r] = "registering" /\ Active(s) => key[s] # want[r]
=============================================================================
