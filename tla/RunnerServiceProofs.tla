------------------------ MODULE RunnerServiceProofs ------------------------
(***************************************************************************)
(* RunnerService for every set of requests, users, sources and ids, every  *)
(* capacity and every retry limit: IInv is inductive, so the safety         *)
(* invariants hold, a terminal record is final, and the service implements *)
(* SubmissionLifecycle.                                                    *)
(***************************************************************************)
EXTENDS RunnerService, SequenceTheorems, TLAPS

-----------------------------------------------------------------------------
(* The two ends of the queue. *)

(* Receiving moves every element one place forward (mpsc recv). *)
LEMMA TailFacts ==
  ASSUME NEW S, NEW q \in Seq(S), q # <<>>
  PROVE  /\ Tail(q) \in Seq(S) /\ Len(Tail(q)) = Len(q) - 1
         /\ Head(q) = q[1] /\ Head(q) \in S /\ 1 \in 1..Len(q)
         /\ \A i \in 1..Len(Tail(q)) : Tail(q)[i] = q[i + 1] /\ i + 1 \in 1..Len(q)
BY HeadTailProperties

(* Sending leaves the elements before the new one in place (try_send). *)
LEMMA AppendFacts ==
  ASSUME NEW S, NEW q \in Seq(S), NEW x \in S
  PROVE  /\ Append(q, x) \in Seq(S) /\ Len(Append(q, x)) = Len(q) + 1
         /\ Append(q, x)[Len(q) + 1] = x
         /\ \A i \in 1..Len(q) : Append(q, x)[i] = q[i]
BY AppendProperties

-----------------------------------------------------------------------------
(* One lemma per action: the action keeps IInv. *)

(* A duplicate submit only records its answer. *)
LEMMA SubmitExistingStep ==
  ASSUME IInv, NEW r \in Requests, NEW k \in Keys, SubmitExisting(r, k)
  PROVE  IInv'
<1>1. TypeOK'
  BY ConstantsAssumption DEF IInv, SubmitExisting, Reusable, TypeOK,
       SubmissionState, Terminal, RunnerClassification, Keys, records, index,
       requests, workers
<1>2. LockInv' /\ RequestInv' /\ RecordInv' /\ WorkerInv' /\ QueueIntegrity' /\ ResultAuthentic' /\ RetryDiscipline'
  BY ConstantsAssumption DEF IInv, SubmitExisting, Reusable, LockInv, RequestInv,
       RecordInv, WorkerInv, QueueIntegrity, ResultAuthentic, RetryDiscipline,
       Holding, Keys, records, index, requests, workers
<1> QED
  BY <1>1, <1>2 DEF IInv

(* A request that takes the mutex owns no id yet. *)
LEMMA SubmitLookupStep ==
  ASSUME IInv, NEW r \in Requests, NEW k \in Keys, SubmitLookup(r, k)
  PROVE  IInv'
<1>1. TypeOK'
  BY ConstantsAssumption DEF IInv, SubmitLookup, TypeOK, SubmissionState, Terminal,
       RunnerClassification, Keys, records, index, requests, workers
<1>2. LockInv'
  BY ConstantsAssumption DEF IInv, SubmitLookup, LockInv, TypeOK, records, index,
       requests, workers
<1>3. RequestInv'
  BY ConstantsAssumption DEF IInv, SubmitLookup, RequestInv, TypeOK, Holding,
       records, index, requests, workers
<1>4. RecordInv' /\ WorkerInv' /\ QueueIntegrity' /\ ResultAuthentic' /\ RetryDiscipline'
  BY ConstantsAssumption DEF IInv, SubmitLookup, RecordInv, WorkerInv,
       QueueIntegrity, ResultAuthentic, RetryDiscipline, records, index, requests,
       workers
<1> QED
  BY <1>1, <1>2, <1>3, <1>4 DEF IInv

(* A fresh id is in no queue, with no worker and with no other request. *)
LEMMA SubmitRegisterStep ==
  ASSUME IInv, NEW r \in Requests, SubmitRegister(r)
  PROVE  IInv'
<1>1. TypeOK'
  <2>1. PICK s \in Fresh : /\ state' = [state EXCEPT ![s] = "queued"]
                           /\ key' = [key EXCEPT ![s] = want[r]]
                           /\ deduplication' = [deduplication EXCEPT ![want[r]] = s]
                           /\ target' = [target EXCEPT ![r] = s]
    BY DEF SubmitRegister
  <2>2. s \in Ids /\ want[r] \in Keys /\ "queued" \in SubmissionState
    BY DEF Fresh, SubmissionState, IInv, RequestInv, SubmitRegister
  <2>3. /\ state' \in [Ids -> SubmissionState \cup {"absent"}]
        /\ key' \in [Ids -> Keys \cup {None}]
        /\ deduplication' \in [Keys -> Ids \cup {None}]
        /\ target' \in [Requests -> Ids \cup {None}]
    BY <2>1, <2>2 DEF IInv, TypeOK
  <2> QED
    BY <2>3 DEF IInv, TypeOK, SubmitRegister, workers
<1>2. LockInv'
  BY ConstantsAssumption DEF IInv, SubmitRegister, Fresh, LockInv, TypeOK, Keys,
       records, index, requests, workers
<1>3. RequestInv'
  <2>1. PICK s \in Fresh : /\ state' = [state EXCEPT ![s] = "queued"]
                           /\ key' = [key EXCEPT ![s] = want[r]]
                           /\ target' = [target EXCEPT ![r] = s]
    BY DEF SubmitRegister
  <2>2. /\ s \in Ids /\ key[s] = None /\ state[s] = "absent" /\ outcomes[s] = <<>>
        /\ want[r] \in Keys /\ want[r] # None
    BY ConstantsAssumption DEF Fresh, IInv, RecordInv, RequestInv, SubmitRegister, Keys
  <2>3. /\ s # job
        /\ \A i \in 1..Len(queue) : queue[i] # s
        /\ \A q \in Requests : Holding(q) => target[q] # s
    BY <2>2, ConstantsAssumption DEF IInv, QueueIntegrity, RequestInv
  <2> QED
    BY <2>1, <2>2, <2>3
    DEF IInv, TypeOK, RequestInv, Holding, SubmitRegister, workers
<1>4. RecordInv'
  BY ConstantsAssumption DEF IInv, SubmitRegister, Fresh, RecordInv, TypeOK,
       RequestInv, Holding, Keys, records, index, requests, workers
<1>5. WorkerInv'
  BY ConstantsAssumption DEF IInv, SubmitRegister, Fresh, WorkerInv, records,
       index, requests, workers
<1>6. QueueIntegrity'
  BY ConstantsAssumption DEF IInv, SubmitRegister, Fresh, QueueIntegrity, records,
       index, requests, workers
<1>7. ResultAuthentic'
  BY ConstantsAssumption DEF IInv, SubmitRegister, Fresh, ResultAuthentic, TypeOK,
       RecordInv, Keys, records, index, requests, workers
<1>8. RetryDiscipline'
  BY ConstantsAssumption DEF IInv, SubmitRegister, Fresh, RetryDiscipline, records,
       index, requests, workers
<1> QED
  BY <1>1, <1>2, <1>3, <1>4, <1>5, <1>6, <1>7, <1>8 DEF IInv

(* The id passes from the request to the end of the queue. *)
LEMMA SubmitSendStep ==
  ASSUME IInv, NEW r \in Requests, SubmitSend(r)
  PROVE  IInv'
<1>1. TypeOK'
  <2>1. want[r] \in Users \X Sources /\ target[r] \in Ids
    BY DEF IInv, RequestInv, SubmitSend, Holding, Keys
  <2>2. <<want[r][1], target[r]>> \in Users \X Ids /\ queue' \in Seq(Ids)
    BY <2>1, AppendFacts DEF IInv, TypeOK, SubmitSend
  <2> QED
    BY <2>2 DEF IInv, TypeOK, SubmitSend, Finish, records, index, workers
<1>2. LockInv'
  BY ConstantsAssumption DEF IInv, SubmitSend, Finish, LockInv, records, index,
       requests, workers
<1>3. RequestInv'
  BY ConstantsAssumption DEF IInv, SubmitSend, Finish, RequestInv, TypeOK, Holding,
       Keys, records, index, requests, workers
<1>4. QueueIntegrity'
  <2>1. target[r] \in Ids /\ queue \in Seq(Ids) /\ Len(queue) < Capacity /\ Len(queue) \in Nat
    BY LenProperties DEF IInv, TypeOK, RequestInv, SubmitSend, Holding
  <2>2. /\ Len(queue') = Len(queue) + 1
        /\ queue'[Len(queue) + 1] = target[r]
        /\ \A i \in 1..Len(queue) : queue'[i] = queue[i]
    BY <2>1, AppendFacts DEF SubmitSend
  <2>3. \A i \in 1..Len(queue') : i \in 1..Len(queue) \/ i = Len(queue) + 1
    BY <2>1, <2>2
  <2> QED
    BY <2>1, <2>2, <2>3, ConstantsAssumption
    DEF IInv, RequestInv, QueueIntegrity, SubmitSend, Holding, records, workers
<1>5. RecordInv' /\ WorkerInv' /\ ResultAuthentic' /\ RetryDiscipline'
  BY ConstantsAssumption DEF IInv, SubmitSend, Finish, RecordInv, WorkerInv,
       ResultAuthentic, RetryDiscipline, records, index, requests, workers
<1> QED
  BY <1>1, <1>2, <1>3, <1>4, <1>5 DEF IInv

(* The request keeps its id on its way to the rollback. *)
LEMMA SubmitQueueFullStep ==
  ASSUME IInv, NEW r \in Requests, SubmitQueueFull(r)
  PROVE  IInv'
<1>1. TypeOK'
  BY ConstantsAssumption DEF IInv, SubmitQueueFull, TypeOK, SubmissionState,
       Terminal, RunnerClassification, Keys, records, index, requests, workers
<1>2. LockInv'
  BY ConstantsAssumption DEF IInv, SubmitQueueFull, LockInv, records, index,
       requests, workers
<1>3. RequestInv'
  BY ConstantsAssumption DEF IInv, SubmitQueueFull, RequestInv, Holding, records,
       index, requests, workers
<1>4. RecordInv' /\ WorkerInv' /\ QueueIntegrity' /\ ResultAuthentic' /\ RetryDiscipline'
  BY ConstantsAssumption DEF IInv, SubmitQueueFull, RecordInv, WorkerInv,
       QueueIntegrity, ResultAuthentic, RetryDiscipline, records, index, requests,
       workers
<1> QED
  BY <1>1, <1>2, <1>3, <1>4 DEF IInv

(* The record taken back is one that only the request knows. *)
LEMMA RollbackRecordStep ==
  ASSUME IInv, NEW r \in Requests, RollbackRecord(r)
  PROVE  IInv'
<1>1. TypeOK'
  BY ConstantsAssumption DEF IInv, RollbackRecord, TypeOK, SubmissionState,
       Terminal, RunnerClassification, Keys, records, index, requests, workers
<1>2. LockInv'
  BY ConstantsAssumption DEF IInv, RollbackRecord, LockInv, records, index,
       requests, workers
<1>3. RequestInv'
  BY ConstantsAssumption DEF IInv, RollbackRecord, RequestInv, TypeOK, Holding,
       records, index, requests, workers
<1>4. RecordInv'
  BY ConstantsAssumption DEF IInv, RollbackRecord, RecordInv, TypeOK, RequestInv,
       Holding, records, index, requests, workers
<1>5. WorkerInv'
  BY ConstantsAssumption DEF IInv, RollbackRecord, WorkerInv, TypeOK, RequestInv,
       RecordInv, Holding, records, index, requests, workers
<1>6. QueueIntegrity'
  BY ConstantsAssumption DEF IInv, RollbackRecord, QueueIntegrity, TypeOK,
       RequestInv, RecordInv, Holding, records, index, requests, workers
<1>7. ResultAuthentic'
  BY ConstantsAssumption DEF IInv, RollbackRecord, ResultAuthentic, TypeOK,
       RequestInv, RecordInv, Holding, records, index, requests, workers
<1>8. RetryDiscipline'
  BY ConstantsAssumption DEF IInv, RollbackRecord, RetryDiscipline, records, index,
       requests, workers
<1> QED
  BY <1>1, <1>2, <1>3, <1>4, <1>5, <1>6, <1>7, <1>8 DEF IInv

(* Dropping an index entry touches no record. *)
LEMMA RollbackIndexStep ==
  ASSUME IInv, NEW r \in Requests, RollbackIndex(r)
  PROVE  IInv'
<1>1. TypeOK'
  BY ConstantsAssumption DEF IInv, RollbackIndex, Finish, TypeOK, SubmissionState,
       Terminal, RunnerClassification, Keys, records, index, requests, workers
<1>2. LockInv'
  BY ConstantsAssumption DEF IInv, RollbackIndex, Finish, LockInv, records, index,
       requests, workers
<1>3. RequestInv'
  BY ConstantsAssumption DEF IInv, RollbackIndex, Finish, RequestInv, TypeOK,
       Holding, records, index, requests, workers
<1>4. RecordInv' /\ WorkerInv' /\ QueueIntegrity' /\ ResultAuthentic' /\ RetryDiscipline'
  BY ConstantsAssumption DEF IInv, RollbackIndex, Finish, RecordInv, WorkerInv,
       QueueIntegrity, ResultAuthentic, RetryDiscipline, records, index, requests,
       workers
<1> QED
  BY <1>1, <1>2, <1>3, <1>4 DEF IInv

(* A dropped request gives up its id for good. *)
LEMMA DisconnectStep ==
  ASSUME IInv, NEW r \in Requests, Disconnect(r)
  PROVE  IInv'
<1>1. TypeOK'
  BY ConstantsAssumption DEF IInv, Disconnect, Finish, TypeOK, SubmissionState,
       Terminal, RunnerClassification, Keys, records, index, requests, workers
<1>2. LockInv'
  BY ConstantsAssumption DEF IInv, Disconnect, Finish, LockInv, TypeOK, records,
       index, requests, workers
<1>3. RequestInv'
  BY ConstantsAssumption DEF IInv, Disconnect, Finish, RequestInv, TypeOK, Holding,
       records, index, requests, workers
<1>4. RecordInv' /\ WorkerInv' /\ QueueIntegrity' /\ ResultAuthentic' /\ RetryDiscipline'
  BY ConstantsAssumption DEF IInv, Disconnect, Finish, RecordInv, WorkerInv,
       QueueIntegrity, ResultAuthentic, RetryDiscipline, records, index, requests,
       workers
<1> QED
  BY <1>1, <1>2, <1>3, <1>4 DEF IInv

(* A cancelled record keeps no result, and its flag is set with it. *)
LEMMA CancelStep ==
  ASSUME IInv, NEW u \in Users, NEW s \in Ids, Cancel(u, s)
  PROVE  IInv'
<1>1. TypeOK'
  BY ConstantsAssumption DEF IInv, Cancel, TypeOK, SubmissionState, Terminal,
       RunnerClassification, Keys, records, index, requests, workers
<1>2. RequestInv'
  BY ConstantsAssumption DEF IInv, Cancel, RequestInv, Holding, records, index,
       requests, workers
<1>3. RecordInv'
  BY ConstantsAssumption DEF IInv, Cancel, RecordInv, TypeOK, records, index,
       requests, workers
<1>4. WorkerInv'
  BY ConstantsAssumption DEF IInv, Cancel, WorkerInv, records, index, requests,
       workers
<1>5. QueueIntegrity'
  BY ConstantsAssumption DEF IInv, Cancel, QueueIntegrity, records, index,
       requests, workers
<1>6. ResultAuthentic'
  BY ConstantsAssumption DEF IInv, Cancel, ResultAuthentic, TypeOK, RecordInv,
       records, index, requests, workers
<1>7. LockInv' /\ RetryDiscipline'
  BY ConstantsAssumption DEF IInv, Cancel, LockInv, RetryDiscipline, records,
       index, requests, workers
<1> QED
  BY <1>1, <1>2, <1>3, <1>4, <1>5, <1>6, <1>7 DEF IInv

(* The head of the queue passes to the worker. *)
LEMMA WorkerReceiveStep ==
  ASSUME IInv, WorkerReceive
  PROVE  IInv'
<1>1. TypeOK'
  BY ConstantsAssumption DEF IInv, WorkerReceive, TypeOK, SubmissionState,
       Terminal, RunnerClassification, Keys, records, index, requests, workers
<1>2. RequestInv'
  BY ConstantsAssumption DEF IInv, WorkerReceive, RequestInv, Holding, records,
       index, requests, workers
<1>3. RecordInv'
  BY ConstantsAssumption DEF IInv, WorkerReceive, RecordInv, TypeOK, WorkerInv,
       records, index, requests, workers
<1>4. WorkerInv'
  <2>1. queue \in Seq(Ids) /\ Len(queue) \in Nat /\ queue' = Tail(queue) /\ queue # <<>>
    BY LenProperties DEF IInv, TypeOK, WorkerReceive
  <2>2. /\ Len(queue') = Len(queue) - 1
        /\ job' = queue[1] /\ job' \in Ids /\ 1 \in 1..Len(queue)
        /\ \A i \in 1..Len(queue') : queue'[i] = queue[i + 1] /\ i + 1 \in 1..Len(queue)
    BY <2>1, TailFacts DEF WorkerReceive
  <2> QED
    BY <2>1, <2>2, ConstantsAssumption
    DEF IInv, RecordInv, WorkerInv, QueueIntegrity, WorkerReceive, records
<1>5. QueueIntegrity'
  <2>1. queue \in Seq(Ids) /\ Len(queue) \in Nat /\ queue' = Tail(queue) /\ queue # <<>>
    BY LenProperties DEF IInv, TypeOK, WorkerReceive
  <2>2. /\ Len(queue') = Len(queue) - 1
        /\ job' = queue[1] /\ job' \in Ids /\ 1 \in 1..Len(queue)
        /\ \A i \in 1..Len(queue') : queue'[i] = queue[i + 1] /\ i + 1 \in 1..Len(queue)
    BY <2>1, TailFacts DEF WorkerReceive
  <2> QED
    BY <2>1, <2>2, ConstantsAssumption DEF IInv, QueueIntegrity, WorkerReceive, records
<1>6. LockInv' /\ ResultAuthentic' /\ RetryDiscipline'
  BY ConstantsAssumption DEF IInv, WorkerReceive, LockInv, ResultAuthentic,
       RetryDiscipline, records, index, requests, workers
<1> QED
  BY <1>1, <1>2, <1>3, <1>4, <1>5, <1>6 DEF IInv

(* Skipping repeats a cancellation that is already recorded. *)
LEMMA WorkerSkipStep ==
  ASSUME IInv, WorkerSkip
  PROVE  IInv'
<1>1. TypeOK'
  <2>1. CASE state[job] = "absent"
    BY <2>1 DEF IInv, TypeOK, WorkerSkip, Receive, index, requests
  <2>2. CASE state[job] # "absent"
    <3>1. "cancelled" \in SubmissionState /\ "cancelled" \in RunnerClassification
      BY DEF SubmissionState, Terminal, RunnerClassification
    <3>2. /\ state' = [state EXCEPT ![job] = "cancelled"]
          /\ classification' = [classification EXCEPT ![job] = "cancelled"]
      BY <2>2 DEF WorkerSkip
    <3>3. /\ state' \in [Ids -> SubmissionState \cup {"absent"}]
          /\ classification' \in [Ids -> RunnerClassification \cup {None}]
      BY <3>1, <3>2 DEF IInv, TypeOK
    <3> QED
      BY <3>3 DEF IInv, TypeOK, WorkerSkip, Receive, index, requests
  <2> QED
    BY <2>1, <2>2
<1>2. RequestInv'
  BY ConstantsAssumption DEF IInv, WorkerSkip, Receive, RequestInv, TypeOK,
       Holding, records, index, requests, workers
<1>3. RecordInv'
  BY ConstantsAssumption DEF IInv, WorkerSkip, Receive, RecordInv, TypeOK, records,
       index, requests, workers
<1>4. WorkerInv'
  BY ConstantsAssumption DEF IInv, WorkerSkip, Receive, WorkerInv, records, index,
       requests, workers
<1>5. QueueIntegrity'
  BY ConstantsAssumption DEF IInv, WorkerSkip, Receive, QueueIntegrity, TypeOK,
       records, index, requests, workers
<1>6. ResultAuthentic'
  BY ConstantsAssumption DEF IInv, WorkerSkip, Receive, ResultAuthentic, TypeOK,
       RecordInv, records, index, requests, workers
<1>7. LockInv' /\ RetryDiscipline'
  BY ConstantsAssumption DEF IInv, WorkerSkip, Receive, LockInv, RetryDiscipline,
       records, index, requests, workers
<1> QED
  BY <1>1, <1>2, <1>3, <1>4, <1>5, <1>6, <1>7 DEF IInv

(* The only running record is the one the worker holds. *)
LEMMA WorkerStartStep ==
  ASSUME IInv, WorkerStart
  PROVE  IInv'
<1>1. TypeOK'
  BY ConstantsAssumption DEF IInv, WorkerStart, TypeOK, SubmissionState, Terminal,
       RunnerClassification, Keys, records, index, requests, workers
<1>2. RequestInv'
  BY ConstantsAssumption DEF IInv, WorkerStart, RequestInv, Holding, records,
       index, requests, workers
<1>3. RecordInv'
  BY ConstantsAssumption DEF IInv, WorkerStart, RecordInv, TypeOK, WorkerInv,
       records, index, requests, workers
<1>4. WorkerInv'
  BY ConstantsAssumption DEF IInv, WorkerStart, WorkerInv, TypeOK, records, index,
       requests, workers
<1>5. QueueIntegrity'
  BY ConstantsAssumption DEF IInv, WorkerStart, QueueIntegrity, records, index,
       requests, workers
<1>6. ResultAuthentic'
  BY ConstantsAssumption DEF IInv, WorkerStart, ResultAuthentic, TypeOK, WorkerInv,
       records, index, requests, workers
<1>7. LockInv' /\ RetryDiscipline'
  BY ConstantsAssumption DEF IInv, WorkerStart, LockInv, RetryDiscipline, records,
       index, requests, workers
<1> QED
  BY <1>1, <1>2, <1>3, <1>4, <1>5, <1>6, <1>7 DEF IInv

(* An outcome is appended to the history of the job alone. *)
LEMMA ExecutorReturnsStep ==
  ASSUME IInv, ExecutorReturns
  PROVE  IInv'
<1>1. TypeOK'
  BY ConstantsAssumption DEF IInv, ExecutorReturns, TypeOK, WorkerInv,
       SubmissionState, Terminal, RunnerClassification, Keys, Evidence, records,
       index, requests, workers
<1>2. RequestInv'
  BY ConstantsAssumption DEF IInv, ExecutorReturns, RequestInv, Holding, records,
       index, requests, workers
<1>3. RecordInv'
  BY ConstantsAssumption DEF IInv, ExecutorReturns, RecordInv, TypeOK, WorkerInv,
       Evidence, RunnerClassification, records, index, requests, workers
<1>4. WorkerInv'
  BY ConstantsAssumption DEF IInv, ExecutorReturns, WorkerInv, TypeOK, Evidence,
       RunnerClassification, records, index, requests, workers
<1>5. QueueIntegrity'
  BY ConstantsAssumption DEF IInv, ExecutorReturns, QueueIntegrity, records, index,
       requests, workers
<1>6. ResultAuthentic'
  BY ConstantsAssumption DEF IInv, ExecutorReturns, ResultAuthentic, TypeOK,
       RecordInv, WorkerInv, Evidence, RunnerClassification, records, index,
       requests, workers
<1>7. RetryDiscipline'
  BY ConstantsAssumption DEF IInv, ExecutorReturns, RetryDiscipline, TypeOK,
       WorkerInv, Evidence, RunnerClassification, records, index, requests, workers
<1>8. LockInv'
  BY ConstantsAssumption DEF IInv, ExecutorReturns, LockInv, records, index,
       requests, workers
<1> QED
  BY <1>1, <1>2, <1>3, <1>4, <1>5, <1>6, <1>7, <1>8 DEF IInv

(* A retry follows a lost worker and stays within the bound. *)
LEMMA WorkerRetryStep ==
  ASSUME IInv, WorkerRetry
  PROVE  IInv'
<1>1. TypeOK'
  BY ConstantsAssumption DEF IInv, WorkerRetry, MayRetry, TypeOK, SubmissionState,
       Terminal, RunnerClassification, Keys, records, index, requests, workers
<1>2. WorkerInv'
  BY ConstantsAssumption DEF IInv, WorkerRetry, MayRetry, WorkerInv, records,
       index, requests, workers
<1>3. LockInv' /\ RequestInv' /\ RecordInv' /\ QueueIntegrity' /\ ResultAuthentic' /\ RetryDiscipline'
  BY ConstantsAssumption DEF IInv, WorkerRetry, MayRetry, LockInv, RequestInv,
       RecordInv, QueueIntegrity, ResultAuthentic, RetryDiscipline, Holding,
       records, index, requests, workers
<1> QED
  BY <1>1, <1>2, <1>3 DEF IInv

(* Signing changes no record. *)
LEMMA WorkerSignStep ==
  ASSUME IInv, WorkerSign
  PROVE  IInv'
<1>1. TypeOK'
  BY ConstantsAssumption DEF IInv, WorkerSign, MayRetry, TypeOK, SubmissionState,
       Terminal, RunnerClassification, Keys, records, index, requests, workers
<1>2. WorkerInv'
  BY ConstantsAssumption DEF IInv, WorkerSign, MayRetry, WorkerInv, records, index,
       requests, workers
<1>3. LockInv' /\ RequestInv' /\ RecordInv' /\ QueueIntegrity' /\ ResultAuthentic' /\ RetryDiscipline'
  BY ConstantsAssumption DEF IInv, WorkerSign, MayRetry, LockInv, RequestInv,
       RecordInv, QueueIntegrity, ResultAuthentic, RetryDiscipline, Holding,
       records, index, requests, workers
<1> QED
  BY <1>1, <1>2, <1>3 DEF IInv

(* An error is recorded unless the job was cancelled. *)
LEMMA StoreWorkerErrorStep ==
  ASSUME IInv, StoreWorkerError
  PROVE  IInv'
<1>1. TypeOK'
  <2>1. CASE state[job] \in {"absent", "cancelled"}
    BY <2>1 DEF IInv, TypeOK, StoreWorkerError, Receive, index, requests
  <2>2. CASE state[job] \notin {"absent", "cancelled"}
    <3>1. "error" \in SubmissionState /\ "worker-lost" \in RunnerClassification
      BY DEF SubmissionState, Terminal, Verdict, RunnerClassification
    <3>2. /\ state' = [state EXCEPT ![job] = "error"]
          /\ classification' = [classification EXCEPT ![job] = "worker-lost"]
      BY <2>2 DEF StoreWorkerError
    <3>3. /\ state' \in [Ids -> SubmissionState \cup {"absent"}]
          /\ classification' \in [Ids -> RunnerClassification \cup {None}]
      BY <3>1, <3>2 DEF IInv, TypeOK
    <3> QED
      BY <3>3 DEF IInv, TypeOK, StoreWorkerError, Receive, index, requests
  <2> QED
    BY <2>1, <2>2
<1>2. RequestInv'
  BY ConstantsAssumption DEF IInv, StoreWorkerError, Receive, RequestInv, TypeOK,
       Holding, records, index, requests, workers
<1>3. RecordInv'
  BY ConstantsAssumption DEF IInv, StoreWorkerError, Receive, RecordInv, TypeOK,
       records, index, requests, workers
<1>4. WorkerInv'
  BY ConstantsAssumption DEF IInv, StoreWorkerError, Receive, WorkerInv, records,
       index, requests, workers
<1>5. QueueIntegrity'
  BY ConstantsAssumption DEF IInv, StoreWorkerError, Receive, QueueIntegrity,
       TypeOK, records, index, requests, workers
<1>6. ResultAuthentic'
  BY ConstantsAssumption DEF IInv, StoreWorkerError, Receive, ResultAuthentic,
       TypeOK, RecordInv, WorkerInv, records, index, requests, workers
<1>7. LockInv' /\ RetryDiscipline'
  BY ConstantsAssumption DEF IInv, StoreWorkerError, Receive, LockInv,
       RetryDiscipline, records, index, requests, workers
<1> QED
  BY <1>1, <1>2, <1>3, <1>4, <1>5, <1>6, <1>7 DEF IInv

(* Evidence about to be stored on a live record is the last outcome of the *)
(* job, and no cancellation.                                               *)
LEMMA VerdictFacts ==
  ASSUME IInv, StoreAuthenticated, state[job] \notin {"absent", "cancelled"}
  PROVE  /\ job \in Ids
         /\ evidence \in Evidence /\ evidence = <<job, evidence[2]>>
         /\ evidence[2] \in RunnerClassification
         /\ outcomes[job] # <<>> /\ evidence[2] = outcomes[job][Len(outcomes[job])]
         /\ SubmissionStateOf(evidence[2]) \in Verdict
<1>1. job \in Ids /\ evidence \in Evidence /\ evidence[1] = job
  BY ConstantsAssumption DEF IInv, TypeOK, StoreAuthenticated, WorkerInv
<1>2. evidence = <<job, evidence[2]>> /\ evidence[2] \in RunnerClassification
  BY <1>1 DEF Evidence
<1>3. Len(outcomes[job]) = attempt /\ evidence[2] = outcomes[job][attempt]
  BY DEF IInv, StoreAuthenticated, WorkerInv
<1>4. outcomes[job] # <<>>
  BY <1>1, <1>3 DEF IInv, TypeOK
<1>5. evidence[2] # "cancelled"
  BY <1>1 DEF IInv, StoreAuthenticated, WorkerInv, RecordInv
<1>6. SubmissionStateOf(evidence[2]) \in Verdict
  BY <1>2, <1>5 DEF SubmissionStateOf, Verdict, RunnerClassification
<1> QED
  BY <1>1, <1>2, <1>3, <1>4, <1>6

(* A verdict is recorded unless the job was cancelled. *)
LEMMA StoreAuthenticatedStep ==
  ASSUME IInv, StoreAuthenticated
  PROVE  IInv'
<1>1. TypeOK'
  <2>1. CASE state[job] \in {"absent", "cancelled"}
    BY <2>1 DEF IInv, TypeOK, StoreAuthenticated, Receive, index, requests
  <2>2. CASE state[job] \notin {"absent", "cancelled"}
    <3>1. state' \in [Ids -> SubmissionState \cup {"absent"}]
      BY <2>2, VerdictFacts DEF IInv, TypeOK, StoreAuthenticated, SubmissionState, Terminal
    <3>2. /\ classification' \in [Ids -> RunnerClassification \cup {None}]
          /\ result' \in [Ids -> Evidence \cup {None}]
      BY <2>2, VerdictFacts DEF IInv, TypeOK, StoreAuthenticated
    <3> QED
      BY <3>1, <3>2 DEF IInv, TypeOK, StoreAuthenticated, Receive, index, requests
  <2> QED
    BY <2>1, <2>2
<1>2. RequestInv'
  BY ConstantsAssumption DEF IInv, StoreAuthenticated, Receive, SubmissionStateOf,
       RequestInv, TypeOK, Holding, Evidence, RunnerClassification, records, index,
       requests, workers
<1>3. RecordInv'
  BY ConstantsAssumption DEF IInv, StoreAuthenticated, Receive, SubmissionStateOf,
       RecordInv, TypeOK, WorkerInv, Evidence, RunnerClassification, records,
       index, requests, workers
<1>4. WorkerInv'
  BY ConstantsAssumption DEF IInv, StoreAuthenticated, Receive, SubmissionStateOf,
       WorkerInv, records, index, requests, workers
<1>5. QueueIntegrity'
  BY ConstantsAssumption DEF IInv, StoreAuthenticated, Receive, SubmissionStateOf,
       QueueIntegrity, TypeOK, Evidence, RunnerClassification, records, index,
       requests, workers
<1>6. ResultAuthentic'
  <2>1. CASE state[job] \in {"absent", "cancelled"}
    BY <2>1 DEF IInv, ResultAuthentic, StoreAuthenticated
  <2>2. CASE state[job] \notin {"absent", "cancelled"}
    <3>1. /\ state' = [state EXCEPT ![job] = SubmissionStateOf(evidence[2])]
          /\ classification' = [classification EXCEPT ![job] = evidence[2]]
          /\ result' = [result EXCEPT ![job] = evidence]
          /\ outcomes' = outcomes
      BY <2>2 DEF StoreAuthenticated
    <3>2. /\ state'[job] = SubmissionStateOf(evidence[2])
          /\ classification'[job] = evidence[2]
          /\ result'[job] = evidence
          /\ evidence # None
      BY <2>2, <3>1, VerdictFacts, ConstantsAssumption DEF IInv, TypeOK, Evidence
    <3>3. \A s \in Ids \ {job} : /\ state'[s] = state[s]
                                 /\ classification'[s] = classification[s]
                                 /\ result'[s] = result[s]
      BY <3>1 DEF IInv, TypeOK
    <3> QED
      BY <2>2, <3>1, <3>2, <3>3, VerdictFacts DEF IInv, ResultAuthentic
  <2> QED
    BY <2>1, <2>2
<1>7. LockInv' /\ RetryDiscipline'
  BY ConstantsAssumption DEF IInv, StoreAuthenticated, Receive, SubmissionStateOf,
       LockInv, RetryDiscipline, records, index, requests, workers
<1> QED
  BY <1>1, <1>2, <1>3, <1>4, <1>5, <1>6, <1>7 DEF IInv

-----------------------------------------------------------------------------
(* The invariant, and what follows from it. *)

LEMMA InitIInv == Init => IInv
<1> SUFFICES ASSUME Init PROVE IInv
  OBVIOUS
<1>1. TypeOK
  BY DEF Init, TypeOK, SubmissionState
<1>2. LockInv /\ RequestInv /\ RecordInv /\ WorkerInv
  BY ConstantsAssumption DEF Init, LockInv, RequestInv, Holding, RecordInv, WorkerInv
<1>3. QueueIntegrity /\ ResultAuthentic /\ RetryDiscipline
  BY ConstantsAssumption DEF Init, QueueIntegrity, ResultAuthentic, RetryDiscipline
<1> QED
  BY <1>1, <1>2, <1>3 DEF IInv

LEMMA StepIInv == IInv /\ [Next]_vars => IInv'
<1> SUFFICES ASSUME IInv, [Next]_vars PROVE IInv'
  OBVIOUS
<1>1. CASE UNCHANGED vars
  BY <1>1 DEF vars, records, index, requests, workers, IInv, TypeOK, LockInv, RequestInv,
       Holding, RecordInv, WorkerInv, QueueIntegrity, ResultAuthentic, RetryDiscipline
<1>2. ASSUME NEW r \in Requests, NEW k \in Keys, SubmitExisting(r, k) \/ SubmitLookup(r, k)
      PROVE  IInv'
  BY <1>2, SubmitExistingStep, SubmitLookupStep
<1>3. ASSUME NEW r \in Requests, Submitting(r) \/ Disconnect(r)
      PROVE  IInv'
  BY <1>3, SubmitRegisterStep, SubmitSendStep, SubmitQueueFullStep, RollbackRecordStep,
     RollbackIndexStep, DisconnectStep DEF Submitting
<1>4. ASSUME NEW u \in Users, NEW s \in Ids, Cancel(u, s)
      PROVE  IInv'
  BY <1>4, CancelStep
<1>5. CASE Worker
  BY <1>5, WorkerReceiveStep, WorkerSkipStep, WorkerStartStep, ExecutorReturnsStep,
     WorkerRetryStep, WorkerSignStep, StoreWorkerErrorStep, StoreAuthenticatedStep DEF Worker
<1> QED
  BY <1>1, <1>2, <1>3, <1>4, <1>5 DEF Next

(* Every id has one owner at a time: IInv holds in every reachable state. *)
THEOREM Invariance == Spec => []IInv
<1> QED
  BY InitIInv, StepIInv, PTL DEF Spec

(* Every variable keeps its type. *)
THEOREM TypeCorrect == Spec => []TypeOK
<1>1. IInv => TypeOK
  BY DEF IInv
<1> QED
  BY <1>1, Invariance, PTL

(* A verdict shown to a learner is the last outcome of that very job. *)
THEOREM ResultsAreAuthentic == Spec => []ResultAuthentic
<1>1. IInv => ResultAuthentic
  BY DEF IInv
<1> QED
  BY <1>1, Invariance, PTL

(* Only lost workers are retried, and no more than MaxRetries times. *)
THEOREM RetriesAreDisciplined == Spec => []RetryDiscipline
<1>1. IInv => RetryDiscipline
  BY DEF IInv
<1> QED
  BY <1>1, Invariance, PTL

(* No submission is queued twice, or queued once it has run. *)
THEOREM QueueIsSound == Spec => []QueueIntegrity
<1>1. IInv => QueueIntegrity
  BY DEF IInv
<1> QED
  BY <1>1, Invariance, PTL

(* Neither a late result nor a late error replaces a terminal state. *)
THEOREM TerminalStaysFinal == Spec => TerminalIsFinal
<1> DEFINE Kept(s) == \/ /\ state'[s] = state[s]
                         /\ classification'[s] = classification[s]
                         /\ result'[s] = result[s]
                      \/ /\ state[s] = "cancelled" /\ state'[s] = "absent"
                         /\ outcomes[s] = <<>>
           Step == \A s \in Ids : state[s] \in Terminal => Kept(s)
<1>1. IInv /\ [Next]_vars => [Step]_vars
  <2> SUFFICES ASSUME IInv, Next, NEW s \in Ids, state[s] \in Terminal
               PROVE  Kept(s)
    BY DEF vars
  <2> USE DEF Terminal, Verdict
  <2>1. ASSUME NEW r \in Requests, NEW k \in Keys, SubmitExisting(r, k) \/ SubmitLookup(r, k)
        PROVE  Kept(s)
    BY <2>1 DEF SubmitExisting, SubmitLookup, records
  <2>2. ASSUME NEW r \in Requests, SubmitRegister(r)
        PROVE  Kept(s)
    BY <2>2 DEF SubmitRegister, Fresh, IInv, TypeOK, RecordInv
  <2>3. ASSUME NEW r \in Requests, RollbackRecord(r)
        PROVE  Kept(s)
    BY <2>3 DEF RollbackRecord, IInv, TypeOK, RequestInv, Holding
  <2>4. ASSUME NEW r \in Requests,
               SubmitSend(r) \/ SubmitQueueFull(r) \/ RollbackIndex(r) \/ Disconnect(r)
        PROVE  Kept(s)
    BY <2>4 DEF SubmitSend, SubmitQueueFull, RollbackIndex, Disconnect, records
  <2>5. ASSUME NEW u \in Users, NEW t \in Ids, Cancel(u, t)
        PROVE  Kept(s)
    BY <2>5 DEF Cancel, IInv, TypeOK
  <2>6. CASE WorkerReceive \/ ExecutorReturns \/ WorkerRetry \/ WorkerSign
    BY <2>6 DEF WorkerReceive, ExecutorReturns, WorkerRetry, WorkerSign, records
  <2>7. CASE WorkerSkip
    BY <2>7 DEF WorkerSkip, IInv, TypeOK, RecordInv, WorkerInv
  <2>8. CASE WorkerStart
    BY <2>8 DEF WorkerStart, IInv, TypeOK, WorkerInv
  <2>9. CASE StoreWorkerError
    BY <2>9 DEF StoreWorkerError, IInv, TypeOK, WorkerInv
  <2>10. CASE StoreAuthenticated
    BY <2>10 DEF StoreAuthenticated, IInv, TypeOK, WorkerInv
  <2> QED
    BY <2>1, <2>2, <2>3, <2>4, <2>5, <2>6, <2>7, <2>8, <2>9, <2>10
    DEF Next, Submitting, Worker
<1> QED
  BY <1>1, Invariance, PTL DEF Spec, TerminalIsFinal

(* A cancelled submission is not handed to the executor, nor retried. *)
THEOREM CancelledStaysUnstarted == Spec => CancelledNeverStarts
<1> DEFINE Step == \A s \in Ids :
                     state[s] = "cancelled" =>
                       ~(worker # "executing" /\ worker' = "executing" /\ job' = s)
<1>1. IInv /\ [Next]_vars => [Step]_vars
  <2> SUFFICES ASSUME IInv, Next, NEW s \in Ids, state[s] = "cancelled",
                      worker # "executing", worker' = "executing", job' = s
               PROVE  FALSE
    BY DEF vars
  <2>1. WorkerStart \/ WorkerRetry
    BY DEF Next, Submitting, Worker, SubmitExisting, SubmitLookup, SubmitRegister, SubmitSend,
       SubmitQueueFull, RollbackRecord, RollbackIndex, Disconnect, Cancel, WorkerReceive,
       WorkerSkip, ExecutorReturns, WorkerSign, StoreWorkerError, StoreAuthenticated,
       Receive, workers
  <2> QED
    BY <2>1 DEF WorkerStart, WorkerRetry, MayRetry, IInv, RecordInv
<1> QED
  BY <1>1, Invariance, PTL DEF Spec, CancelledNeverStarts

-----------------------------------------------------------------------------
(* The refinement. *)

(* Seen from outside every step of the service is a step of the lifecycle: *)
(* submissions wait, run one at a time, and end once.                      *)
THEOREM Refinement == Spec => ImplementsLifecycle
<1> DEFINE phase == [s \in Ids |-> Phase(s)]
<1>1. Init => Lifecycle!Init
  BY DEF Init, Lifecycle!Init, Phase
<1>2. IInv /\ [Next]_vars => [Lifecycle!Next]_phase
  <2> SUFFICES ASSUME IInv, [Next]_vars
               PROVE  [Lifecycle!Next]_phase
    OBVIOUS
  <2>1. ASSUME NEW s \in Ids, NEW p,
               \A t \in Ids \ {s} : Phase(t)' = Phase(t), Phase(s)' = p
        PROVE  Lifecycle!Move(s, p)
    BY <2>1 DEF Lifecycle!Move
  <2>2. ASSUME \A t \in Ids : Phase(t)' = Phase(t)
        PROVE  phase' = phase
    BY <2>2
  <2>3. CASE UNCHANGED <<state, key>>
    BY <2>2, <2>3 DEF Phase
  <2>4. ASSUME NEW r \in Requests, SubmitRegister(r)
        PROVE  [Lifecycle!Next]_phase
    <3>1. PICK s \in Fresh : /\ state' = [state EXCEPT ![s] = "queued"]
                             /\ key' = [key EXCEPT ![s] = want[r]]
      BY <2>4 DEF SubmitRegister
    <3>2. s \in Ids /\ Phase(s) = "none" /\ Phase(s)' = "waiting"
      BY <3>1 DEF Fresh, IInv, TypeOK, RecordInv, Phase
    <3>3. \A t \in Ids \ {s} : Phase(t)' = Phase(t)
      BY <3>1, <3>2 DEF IInv, TypeOK, Phase
    <3>4. Lifecycle!Accept(s)
      BY <2>1, <3>2, <3>3 DEF Lifecycle!Accept
    <3> QED
      BY <3>2, <3>4 DEF Lifecycle!Next
  <2>5. ASSUME NEW s \in Ids, NEW v, state' = [state EXCEPT ![s] = v], UNCHANGED key
        PROVE  \A t \in Ids \ {s} : Phase(t)' = Phase(t)
    BY <2>5 DEF IInv, TypeOK, Phase
  <2>6. ASSUME NEW r \in Requests, RollbackRecord(r)
        PROVE  [Lifecycle!Next]_phase
    <3>1. PICK s \in Ids :
             /\ key[s] # None /\ state[s] \in {"queued", "cancelled"}
             /\ state' = [state EXCEPT ![s] = "absent"] /\ UNCHANGED key
      BY <2>6 DEF RollbackRecord, IInv, RequestInv, Holding
    <3>2. Phase(s) \in {"waiting", "cancelled"} /\ Phase(s)' = "withdrawn"
      BY <3>1 DEF IInv, TypeOK, Phase
    <3>3. Lifecycle!Withdraw(s)
      BY <2>1, <2>5, <3>1, <3>2 DEF Lifecycle!Withdraw
    <3> QED
      BY <3>1, <3>3 DEF Lifecycle!Next
  <2>7. ASSUME NEW u \in Users, NEW s \in Ids, Cancel(u, s)
        PROVE  [Lifecycle!Next]_phase
    <3>1. Phase(s) \in {"waiting", "running"} /\ Phase(s)' = "cancelled"
      BY <2>7 DEF Cancel, IInv, TypeOK, Phase
    <3>2. Lifecycle!Cancel(s)
      BY <2>1, <2>5, <2>7, <3>1 DEF Lifecycle!Cancel, Cancel
    <3> QED
      BY <3>2 DEF Lifecycle!Next
  <2>8. CASE WorkerSkip
    <3>1. job \in Ids /\ state[job] = "cancelled"
      BY <2>8, ConstantsAssumption DEF WorkerSkip, IInv, TypeOK, RecordInv, WorkerInv
    <3>2. state' = [state EXCEPT ![job] = "cancelled"] /\ UNCHANGED key
      BY <2>8, <3>1 DEF WorkerSkip
    <3>3. state' = state
      BY <3>1, <3>2 DEF IInv, TypeOK
    <3> QED
      BY <2>3, <3>2, <3>3
  <2>9. CASE WorkerStart
    <3>1. PICK s \in Ids : /\ s = job /\ state[s] = "queued" /\ UNCHANGED key
                           /\ state' = [state EXCEPT ![s] = "running"]
      BY <2>9, ConstantsAssumption DEF WorkerStart, IInv, TypeOK, WorkerInv
    <3>2. Phase(s) = "waiting" /\ Phase(s)' = "running"
      BY <3>1 DEF IInv, TypeOK, Phase
    <3>3. \A t \in Ids : Phase(t) # "running"
      BY <3>1 DEF IInv, RecordInv, Phase
    <3>4. Lifecycle!Begin(s)
      BY <2>1, <2>5, <3>1, <3>2, <3>3 DEF Lifecycle!Begin
    <3> QED
      BY <3>1, <3>4 DEF Lifecycle!Next
  <2>10. ASSUME NEW s \in Ids, NEW v \in Verdict, state[s] = "running", UNCHANGED key,
                state' = [state EXCEPT ![s] = v]
         PROVE  [Lifecycle!Next]_phase
    <3>1. Phase(s) = "running" /\ Phase(s)' = v
      BY <2>10 DEF IInv, TypeOK, Phase, Verdict
    <3>2. Lifecycle!Settle(s)
      BY <2>1, <2>5, <2>10, <3>1 DEF Lifecycle!Settle, Lifecycle!Verdicts, Verdict
    <3> QED
      BY <2>10, <3>2 DEF Lifecycle!Next
  <2>11. CASE StoreWorkerError
    <3>1. CASE state[job] \in {"absent", "cancelled"}
      BY <2>3, <2>11, <3>1 DEF StoreWorkerError
    <3>2. CASE state[job] \notin {"absent", "cancelled"}
      BY <2>10, <2>11, <3>2, ConstantsAssumption
      DEF StoreWorkerError, IInv, TypeOK, WorkerInv, Verdict
    <3> QED
      BY <3>1, <3>2
  <2>12. CASE StoreAuthenticated
    <3>1. CASE state[job] \in {"absent", "cancelled"}
      BY <2>3, <2>12, <3>1 DEF StoreAuthenticated
    <3>2. CASE state[job] \notin {"absent", "cancelled"}
      <4>1. job \in Ids /\ SubmissionStateOf(evidence[2]) \in Verdict
        BY <2>12, <3>2, VerdictFacts
      <4>2. /\ state[job] = "running" /\ UNCHANGED key
            /\ state' = [state EXCEPT ![job] = SubmissionStateOf(evidence[2])]
        BY <2>12, <3>2 DEF StoreAuthenticated, IInv, WorkerInv
      <4> QED
        BY <2>10, <4>1, <4>2
    <3> QED
      BY <3>1, <3>2
  <2>13. CASE \/ UNCHANGED vars
              \/ \E r \in Requests, k \in Keys : SubmitExisting(r, k) \/ SubmitLookup(r, k)
              \/ \E r \in Requests : \/ SubmitSend(r) \/ SubmitQueueFull(r)
                                     \/ RollbackIndex(r) \/ Disconnect(r)
              \/ WorkerReceive \/ ExecutorReturns \/ WorkerRetry \/ WorkerSign
    <3>1. UNCHANGED <<state, key>>
      BY <2>13 DEF vars, records, SubmitExisting, SubmitLookup, SubmitSend, SubmitQueueFull,
         RollbackIndex, Disconnect, WorkerReceive, ExecutorReturns, WorkerRetry, WorkerSign
    <3> QED
      BY <2>3, <3>1
  <2> QED
    BY <2>4, <2>6, <2>7, <2>8, <2>9, <2>11, <2>12, <2>13 DEF Next, Submitting, Worker
<1> QED
  BY <1>1, <1>2, Invariance, PTL DEF Spec, ImplementsLifecycle, Lifecycle!Spec



-----------------------------------------------------------------------------
(* The index of deduplication *)

(* Steps of the owner and of the worker: no record comes, goes or revives. *)
LEMMA RecordsKeepIndex ==
  ASSUME IInv, IndexInv,
         UNCHANGED <<key, deduplication, pc, want, target, acknowledged>>,
         \A s \in Ids : state[s] = "absent" <=> state'[s] = "absent",
         \A s \in Ids : state[s] = "cancelled" => state'[s] = "cancelled"
  PROVE  IndexInv'
<1>1. \A s \in Ids : Active(s)' => Active(s)
  BY DEF Active
<1>2. NoneWithdrawn' => NoneWithdrawn
  BY DEF NoneWithdrawn
<1>3. (\A r \in Requests :
         /\ Holding(r) => key[target[r]] = want[r]
         /\ pc[r] = "unindexing" => state[target[r]] = "absent")'
  BY DEF IndexInv, Holding, IInv, RequestInv
<1> QED BY <1>1, <1>2, <1>3 DEF IndexInv

(* Steps that only move a request, and register nothing. *)
LEMMA RequestsKeepIndex ==
  ASSUME IInv, IndexInv, NEW r \in Requests,
         UNCHANGED <<key, deduplication, state>>,
         \A q \in Requests \ {r} :
           pc'[q] = pc[q] /\ want'[q] = want[q] /\ target'[q] = target[q],
         \/ pc'[r] = "idle"
         \/ pc'[r] = "removing" /\ pc[r] = "sending" /\ want'[r] = want[r] /\ target'[r] = target[r],
         \A a \in acknowledged' : a \in acknowledged \/
           (key[a[2]] # None /\ key[a[2]][1] = a[1])
  PROVE  IndexInv'
<1>1. \A s \in Ids : Active(s)' <=> Active(s)
  BY DEF Active
<1>2. NoneWithdrawn' <=> NoneWithdrawn
  BY DEF NoneWithdrawn
<1>3. \A q \in Requests : Holding(q)' => Holding(q) /\ target'[q] = target[q] /\ want'[q] = want[q]
  BY DEF Holding
<1>4. \A q \in Requests : pc'[q] = "unindexing" => pc[q] = "unindexing" /\ target'[q] = target[q]
  OBVIOUS
<1>5. \A q \in Requests : pc'[q] = "registering" => pc[q] = "registering" /\ want'[q] = want[q]
  OBVIOUS
<1> QED BY <1>1, <1>2, <1>3, <1>4, <1>5 DEF IndexInv

(* The look-up finds no active submission of the key, and takes the mutex. *)
LEMMA SubmitLookupKeepsIndex ==
  ASSUME IInv, IndexInv, NEW r \in Requests, NEW k \in Keys, SubmitLookup(r, k)
  PROVE  IndexInv'
<1>1. /\ UNCHANGED <<state, key, deduplication, target, acknowledged>>
      /\ pc'[r] = "registering" /\ want'[r] = k
      /\ \A q \in Requests \ {r} : pc'[q] = pc[q] /\ want'[q] = want[q]
  BY DEF SubmitLookup, records, IInv, TypeOK
<1>2. ASSUME NoneWithdrawn, NEW s \in Ids, Active(s), key[s] = k
      PROVE  FALSE
  <2>1. deduplication[k] = s /\ s # None
    BY <1>2, ConstantsAssumption DEF IndexInv
  <2>2. Reusable(k)
    BY <1>2, <2>1 DEF Reusable, Active
  <2> QED BY <2>2 DEF SubmitLookup
<1>3. \A q \in Requests : Holding(q)' => q # r /\ Holding(q) /\ want'[q] = want[q]
  BY <1>1 DEF Holding
<1>4. (\A q \in Requests :
         /\ Holding(q) => key[target[q]] = want[q]
         /\ pc[q] = "unindexing" => state[target[q]] = "absent")'
  BY <1>1, <1>3 DEF IndexInv
<1>5. \A s \in Ids : Active(s)' <=> Active(s)
  BY <1>1 DEF Active
<1>6. NoneWithdrawn' <=> NoneWithdrawn
  BY <1>1 DEF NoneWithdrawn
<1>7. (NoneWithdrawn =>
         /\ \A s \in Ids : Active(s) => deduplication[key[s]] = s
         /\ \A q \in Requests, s \in Ids :
              pc[q] = "registering" /\ Active(s) => key[s] # want[q])'
  BY <1>1, <1>2, <1>5, <1>6 DEF IndexInv
<1> QED BY <1>1, <1>4, <1>7 DEF IndexInv

(* The new submission takes the entry of its key, which no active one needs. *)
LEMMA SubmitRegisterKeepsIndex ==
  ASSUME IInv, IndexInv, NEW r \in Requests, SubmitRegister(r)
  PROVE  IndexInv'
<1>1. PICK s \in Fresh : /\ state' = [state EXCEPT ![s] = "queued"]
                         /\ key' = [key EXCEPT ![s] = want[r]]
                         /\ deduplication' = [deduplication EXCEPT ![want[r]] = s]
                         /\ target' = [target EXCEPT ![r] = s]
  BY DEF SubmitRegister
<1>2. /\ TypeOK /\ pc[r] = "registering" /\ want[r] \in Keys /\ want[r] # None
      /\ s \in Ids /\ key[s] = None /\ state[s] = "absent"
  BY <1>1, ConstantsAssumption DEF Fresh, IInv, RecordInv, RequestInv, SubmitRegister, Keys
<1>3. /\ state'[s] = "queued" /\ key'[s] = want[r]
      /\ deduplication'[want[r]] = s /\ target'[r] = s /\ pc'[r] = "sending"
      /\ \A t \in Ids \ {s} : state'[t] = state[t] /\ key'[t] = key[t]
      /\ \A k \in Keys \ {want[r]} : deduplication'[k] = deduplication[k]
      /\ \A q \in Requests \ {r} : pc'[q] = pc[q] /\ target'[q] = target[q]
      /\ want' = want /\ acknowledged' = acknowledged
  BY <1>1, <1>2 DEF TypeOK, SubmitRegister
<1>4. \A q \in Requests \ {r} : pc'[q] # "registering"
  BY <1>2, <1>3 DEF IInv, LockInv
<1>5. \A q \in Requests \ {r} : Holding(q)' => Holding(q) /\ target[q] # s
  BY <1>2, <1>3 DEF Holding, IInv, RequestInv
<1>6. \A k \in Keys : deduplication'[k] # None => key'[deduplication'[k]] = k
  <2> SUFFICES ASSUME NEW k \in Keys, deduplication'[k] # None
               PROVE  key'[deduplication'[k]] = k
    OBVIOUS
  <2>1. CASE k = want[r]
    BY <1>3, <2>1
  <2>2. CASE k # want[r]
    <3>1. deduplication'[k] = deduplication[k] /\ deduplication[k] \in Ids
      BY <1>2, <1>3, <2>2 DEF TypeOK
    <3>2. key[deduplication[k]] = k /\ k # None
      BY <3>1, ConstantsAssumption DEF IndexInv, Keys
    <3>3. deduplication[k] # s
      BY <1>2, <3>2
    <3> QED BY <1>3, <3>1, <3>2, <3>3
  <2> QED BY <2>1, <2>2
<1>7. (\A q \in Requests :
         /\ Holding(q) => key[target[q]] = want[q]
         /\ pc[q] = "unindexing" => state[target[q]] = "absent")'
  <2> SUFFICES ASSUME NEW q \in Requests
               PROVE  /\ Holding(q)' => key'[target'[q]] = want'[q]
                      /\ pc'[q] = "unindexing" => state'[target'[q]] = "absent"
    BY DEF Holding
  <2>1. CASE q = r
    BY <1>3, <2>1
  <2>2. CASE q # r
    <3>1. Holding(q) => target[q] \in Ids
      BY DEF IInv, RequestInv
    <3>2. Holding(q)' => key'[target'[q]] = want'[q]
      BY <1>3, <1>5, <2>2, <3>1 DEF IndexInv
    <3>3. pc'[q] = "unindexing" => state'[target'[q]] = "absent"
      BY <1>3, <1>5, <2>2, <3>1 DEF IndexInv, Holding
    <3> QED BY <3>2, <3>3
  <2> QED BY <2>1, <2>2
<1>8. \A a \in acknowledged' : key'[a[2]] # None /\ key'[a[2]][1] = a[1]
  <2> SUFFICES ASSUME NEW a \in acknowledged
               PROVE  key'[a[2]] # None /\ key'[a[2]][1] = a[1]
    BY <1>3
  <2>1. a[2] \in Ids /\ key[a[2]] # None /\ key[a[2]][1] = a[1]
    BY <1>2 DEF IndexInv, TypeOK
  <2> QED BY <1>2, <1>3, <2>1
<1>9. ASSUME NoneWithdrawn'
      PROVE  \A t \in Ids : Active(t)' => deduplication'[key'[t]] = t
  <2>1. NoneWithdrawn
    BY <1>2, <1>3, <1>9 DEF NoneWithdrawn
  <2> SUFFICES ASSUME NEW t \in Ids, Active(t)'
               PROVE  deduplication'[key'[t]] = t
    OBVIOUS
  <2>2. CASE t = s
    BY <1>3, <2>2
  <2>3. CASE t # s
    <3>1. Active(t) /\ key'[t] = key[t]
      BY <1>3, <2>3 DEF Active
    <3>2. key[t] # want[r] /\ deduplication[key[t]] = t
      BY <1>2, <2>1, <3>1 DEF IndexInv
    <3>3. key[t] \in Keys
      BY <1>2, <3>1 DEF IInv, RecordInv, TypeOK, Active
    <3> QED BY <1>3, <3>1, <3>2, <3>3
  <2> QED BY <2>2, <2>3
<1>10. \A q \in Requests : pc'[q] # "registering"
  BY <1>3, <1>4
<1> QED BY <1>6, <1>7, <1>8, <1>9, <1>10 DEF IndexInv

(* What is sent is acknowledged to its owner. *)
LEMMA SubmitSendKeepsIndex ==
  ASSUME IInv, IndexInv, NEW r \in Requests, SubmitSend(r)
  PROVE  IndexInv'
<1>1. /\ pc'[r] = "idle" /\ UNCHANGED <<key, deduplication, state>>
      /\ \A q \in Requests \ {r} :
           pc'[q] = pc[q] /\ want'[q] = want[q] /\ target'[q] = target[q]
  BY DEF SubmitSend, Finish, records, index, IInv, TypeOK
<1>2. /\ key[target[r]] = want[r] /\ key[target[r]] # None
      /\ acknowledged' = acknowledged \cup {<<want[r][1], target[r]>>}
  BY DEF SubmitSend, IndexInv, IInv, RequestInv, Holding
<1>3. \A a \in acknowledged' : a \in acknowledged \/
        (key[a[2]] # None /\ key[a[2]][1] = a[1])
  BY <1>2
<1> QED BY <1>1, <1>3, RequestsKeepIndex

(* A withdrawn submission keeps its key, and from then on nothing is promised. *)
LEMMA RollbackRecordKeepsIndex ==
  ASSUME IInv, IndexInv, NEW r \in Requests, RollbackRecord(r)
  PROVE  IndexInv'
<1>1. /\ TypeOK /\ target[r] \in Ids /\ key[target[r]] # None /\ Holding(r)
      /\ \A q \in Requests : Holding(q) /\ target[q] = target[r] => q = r
  BY DEF RollbackRecord, IInv, RequestInv, Holding
<1>2. /\ state'[target[r]] = "absent"
      /\ \A s \in Ids \ {target[r]} : state'[s] = state[s]
      /\ pc'[r] = "unindexing" /\ \A q \in Requests \ {r} : pc'[q] = pc[q]
      /\ UNCHANGED <<key, deduplication, want, target, acknowledged>>
  BY <1>1 DEF RollbackRecord, TypeOK, index
<1>3. ~NoneWithdrawn'
  BY <1>1, <1>2 DEF NoneWithdrawn
<1>4. (\A q \in Requests :
         /\ Holding(q) => key[target[q]] = want[q]
         /\ pc[q] = "unindexing" => state[target[q]] = "absent")'
  <2> SUFFICES ASSUME NEW q \in Requests
               PROVE  /\ Holding(q)' => key'[target'[q]] = want'[q]
                      /\ pc'[q] = "unindexing" => state'[target'[q]] = "absent"
    BY DEF Holding
  <2>1. CASE q = r
    BY <1>1, <1>2, <2>1 DEF IndexInv
  <2>2. CASE q # r
    <3>1. Holding(q) => target[q] \in Ids
      BY DEF IInv, RequestInv
    <3> QED BY <1>1, <1>2, <2>2, <3>1 DEF IndexInv, Holding
  <2> QED BY <2>1, <2>2
<1> QED BY <1>2, <1>3, <1>4 DEF IndexInv

LEMMA RollbackIndexKeepsIndex ==
  ASSUME IInv, IndexInv, NEW r \in Requests, RollbackIndex(r)
  PROVE  IndexInv'
<1>1. /\ TypeOK /\ target[r] \in Ids /\ key[target[r]] # None
      /\ state[target[r]] = "absent" /\ want[r] \in Keys
  BY DEF RollbackIndex, IInv, RequestInv, IndexInv, Holding
<1>2. /\ UNCHANGED <<state, key, acknowledged>> /\ pc'[r] = "idle"
      /\ \A q \in Requests \ {r} :
           pc'[q] = pc[q] /\ want'[q] = want[q] /\ target'[q] = target[q]
      /\ deduplication' = [deduplication EXCEPT ![want[r]] = None]
  BY <1>1 DEF RollbackIndex, Finish, TypeOK, records
<1>3. ~NoneWithdrawn'
  BY <1>1, <1>2 DEF NoneWithdrawn
<1>4. \A k \in Keys : deduplication'[k] # None => deduplication'[k] = deduplication[k]
  BY <1>1, <1>2 DEF TypeOK
<1>5. \A q \in Requests : Holding(q)' => q # r /\ Holding(q)
  BY <1>2 DEF Holding
<1> QED BY <1>2, <1>3, <1>4, <1>5 DEF IndexInv

LEMMA InitIndexInv == Init => IndexInv
BY DEF Init, IndexInv, Holding, Active, NoneWithdrawn

LEMMA StepIndexInv == IInv /\ IndexInv /\ [Next]_vars => IndexInv'
<1> SUFFICES ASSUME IInv, IndexInv, [Next]_vars PROVE IndexInv'
  OBVIOUS
<1>0. TypeOK
  BY DEF IInv
<1>1. ASSUME NEW r \in Requests, NEW k \in Keys, SubmitExisting(r, k) PROVE IndexInv'
  <2>1. /\ UNCHANGED <<key, deduplication, state, pc, want, target>>
        /\ acknowledged' = acknowledged \cup {<<k[1], deduplication[k]>>}
        /\ deduplication[k] # None /\ state[deduplication[k]] # "absent"
        /\ key[deduplication[k]][1] = k[1]
    BY <1>1 DEF SubmitExisting, Reusable, records, index
  <2>2. key[deduplication[k]] = k /\ k # None
    BY <2>1, ConstantsAssumption DEF IndexInv, Keys
  <2>3. \A a \in acknowledged' : key[a[2]] # None /\ key[a[2]][1] = a[1]
    BY <2>1, <2>2 DEF IndexInv
  <2> QED BY <2>1, <2>3 DEF IndexInv, Holding, Active, NoneWithdrawn
<1>2. ASSUME NEW r \in Requests, NEW k \in Keys, SubmitLookup(r, k) PROVE IndexInv'
  BY <1>2, SubmitLookupKeepsIndex
<1>3. ASSUME NEW r \in Requests, Submitting(r) PROVE IndexInv'
  <2>1. CASE SubmitQueueFull(r)
    <3>1. /\ UNCHANGED <<key, deduplication, state, want, target, acknowledged>>
          /\ pc[r] = "sending" /\ pc'[r] = "removing"
          /\ \A q \in Requests \ {r} : pc'[q] = pc[q]
      BY <1>0, <2>1 DEF SubmitQueueFull, records, index, TypeOK
    <3> QED BY <3>1, RequestsKeepIndex
  <2> QED BY <1>3, <2>1, SubmitRegisterKeepsIndex, SubmitSendKeepsIndex,
             RollbackRecordKeepsIndex, RollbackIndexKeepsIndex DEF Submitting
<1>4. ASSUME NEW r \in Requests, Disconnect(r) PROVE IndexInv'
  <2>1. /\ UNCHANGED <<key, deduplication, state, acknowledged>> /\ pc'[r] = "idle"
        /\ \A q \in Requests \ {r} :
             pc'[q] = pc[q] /\ want'[q] = want[q] /\ target'[q] = target[q]
    BY <1>0, <1>4 DEF Disconnect, Finish, records, TypeOK
  <2> QED BY <2>1, RequestsKeepIndex
<1>5. ASSUME NEW u \in Users, NEW s \in Ids, Cancel(u, s) PROVE IndexInv'
  <2>1. /\ UNCHANGED <<key, deduplication, pc, want, target, acknowledged>>
        /\ \A t \in Ids : state[t] = "absent" <=> state'[t] = "absent"
        /\ \A t \in Ids : state[t] = "cancelled" => state'[t] = "cancelled"
    BY <1>0, <1>5 DEF Cancel, index, requests, TypeOK
  <2> QED BY <2>1, RecordsKeepIndex
<1>6. CASE Worker
  <2>1. UNCHANGED <<key, deduplication, pc, want, target, acknowledged>>
    BY <1>6 DEF Worker, WorkerReceive, WorkerSkip, WorkerStart, ExecutorReturns, WorkerRetry,
       WorkerSign, StoreWorkerError, StoreAuthenticated, index, requests
  <2>2. \A t \in Ids : /\ state[t] = "absent" <=> state'[t] = "absent"
                       /\ state[t] = "cancelled" => state'[t] = "cancelled"
    <3>1. CASE StoreAuthenticated
      <4>1. SubmissionStateOf(evidence[2]) # "absent"
        <5>1. evidence[2] \in RunnerClassification
          BY <3>1 DEF StoreAuthenticated, IInv, WorkerInv, Evidence
        <5> QED BY <5>1 DEF SubmissionStateOf, RunnerClassification
      <4> QED BY <1>0, <3>1, <4>1 DEF StoreAuthenticated, TypeOK
    <3>2. CASE WorkerReceive \/ ExecutorReturns \/ WorkerRetry \/ WorkerSign
      BY <3>2 DEF WorkerReceive, ExecutorReturns, WorkerRetry, WorkerSign, records
    <3>3. CASE WorkerSkip \/ WorkerStart \/ StoreWorkerError
      BY <1>0, <3>3 DEF WorkerSkip, WorkerStart, StoreWorkerError, TypeOK
    <3> QED BY <1>6, <3>1, <3>2, <3>3 DEF Worker
  <2> QED BY <2>1, <2>2, RecordsKeepIndex
<1>7. CASE UNCHANGED vars
  <2>1. UNCHANGED <<key, deduplication, pc, want, target, acknowledged, state>>
    BY <1>7 DEF vars, records, index, requests
  <2> QED BY <2>1, RecordsKeepIndex
<1> QED BY <1>1, <1>2, <1>3, <1>4, <1>5, <1>6, <1>7 DEF Next

(* Until a submission has been withdrawn for a full queue, a user has at most    *)
(* one submission per source that is not cancelled, and every answer of submit   *)
(* is the user's own, for any number of requests, users, sources and ids.       *)
THEOREM DeduplicatesUntilFull == Spec => []DeduplicatedUntilFull
<1>1. IInv /\ IndexInv => DeduplicatedUntilFull
  <2> SUFFICES ASSUME IInv, IndexInv PROVE DeduplicatedUntilFull
    OBVIOUS
  <2>1. ASSUME NeverFull, NEW s \in Ids, NEW t \in Ids, Active(s), Active(t), key[s] = key[t]
        PROVE  s = t
    <3>1. NoneWithdrawn
      BY <2>1 DEF NeverFull, NoneWithdrawn
    <3> QED BY <2>1, <3>1 DEF IndexInv
  <2> QED BY <2>1 DEF DeduplicatedUntilFull, OneActivePerKey, IndexInv
<1> QED BY <1>1, InitIndexInv, StepIndexInv, Invariance, PTL DEF Spec
=============================================================================
