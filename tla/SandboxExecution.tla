-------------------------- MODULE SandboxExecution --------------------------
(***************************************************************************)
(* One call of DockerSandboxExecutor::execute (src/src/runner/docker.rs):   *)
(* the executor task, its two reader tasks, the docker client it spawned    *)
(* and the container behind it, the wall timer and the owner's cancellation.*)
(*                                                                         *)
(* Output is a sequence of pieces: "text", or one result line of the        *)
(* harness, named by what it says.  Limit, Buffer and the lengths count     *)
(* pieces where the code counts bytes.                                     *)
(***************************************************************************)
EXTENDS Naturals, Sequences

CONSTANTS
  Limit,          \* limits.max_output_bytes
  Buffer,         \* what one read returns at most
  MaxWritten,     \* bound: pieces the program writes to each stream
  RemovalMayFail, \* docker rm may fail, or outlast its two seconds
  None            \* "no value"

Streams == {"stdout", "stderr"}

(* The harness' result lines; "unsound" is one whose version, counts or      *)
(* cases do not fit.  source-limit and the import denials are treated as     *)
(* compile-error throughout.                                               *)
Results == {"passed", "failed", "compile-error", "timeout", "unsound"}
Pieces == Results \cup {"text"}

(* Exit codes told apart; 125 stands for every other way the client ends. *)
Codes == {0, 1, 2, 124, 125, 137}

Classes ==
  {"passed", "failed", "compile-error", "timeout", "output-limit",
   "resource-limit", "isolation-error", "worker-lost", "cancelled"}

(* A reader's chunk, with what the counter held before it. *)
Chunks == [previous : Nat, data : Seq(Pieces)]

Answers == [class : Classes, truncated : BOOLEAN, bytes : Nat]

Terminations == {"exited", "wait-failed", "timeout", "output-limit", "cancelled", "worker-lost"}

ASSUME SandboxAssumption ==
  /\ Limit \in Nat
  /\ Buffer \in Nat \ {0}
  /\ MaxWritten \in Nat
  /\ RemovalMayFail \in BOOLEAN
  /\ None \notin Terminations \cup Classes
  /\ None \notin Codes
  /\ None \notin Chunks
  /\ None \notin Answers

VARIABLES
  channel,      \* the watch channel: "open", "cancelled", or its sender dropped
  pc,           \* where execute_inner is
  termination,  \* what ended the select
  container,    \* the container, as the daemon knows it
  status,       \* exit code of the docker client, once it exited
  written,      \* what the program wrote, per stream
  taken,        \* how much of it was read
  total,        \* total_bytes
  pending,      \* a reader's chunk between its fetch_add and its use
  reader,       \* the reader tasks
  captured,     \* StreamCapture.bytes
  signalled,    \* a message waits in limit_rx
  evidence      \* the answer

program == <<container, status, written>>
readers == <<taken, total, pending, reader, captured, signalled>>
executor == <<pc, termination, evidence>>
vars == <<channel, program, readers, executor>>

Smaller(a, b) == IF a < b THEN a ELSE b

Init ==
  /\ channel \in {"open", "cancelled"}
  /\ pc = "checking"
  /\ termination = None
  /\ container = "none"
  /\ status = None
  /\ written = [s \in Streams |-> <<>>]
  /\ taken = [s \in Streams |-> 0]
  /\ total = 0
  /\ pending = [s \in Streams |-> None]
  /\ reader = [s \in Streams |-> "reading"]
  /\ captured = [s \in Streams |-> <<>>]
  /\ signalled = FALSE
  /\ evidence = None

-----------------------------------------------------------------------------
(* The owner *)

CancelRequested ==
  /\ channel = "open"
  /\ channel' = "cancelled"
  /\ UNCHANGED <<program, readers, executor>>

(* No caller in src/ drops the sender while it waits; the select provides   *)
(* for one that does.                                                      *)
SenderDropped ==
  /\ channel = "open"
  /\ channel' = "closed"
  /\ UNCHANGED <<program, readers, executor>>

-----------------------------------------------------------------------------
(* Before the container: empty_evidence and return *)

Return(class) ==
  /\ pc' = "done"
  /\ evidence' = [class |-> class, truncated |-> FALSE, bytes |-> 0]
  /\ UNCHANGED <<channel, program, readers, termination>>

JobInvalid == pc = "checking" /\ Return("isolation-error")

CancelledBefore == pc = "checking" /\ channel = "cancelled" /\ Return("cancelled")

Stage ==
  /\ pc = "checking" /\ channel # "cancelled"
  /\ pc' = "staging"
  /\ UNCHANGED <<channel, program, readers, termination, evidence>>

(* stage_job or spawn fails *)
StartFails == pc = "staging" /\ Return("worker-lost")

(* The client runs and asks the daemon for the container; the readers run. *)
Spawn ==
  /\ pc = "staging"
  /\ pc' = "selecting"
  /\ container' = "requested"
  /\ UNCHANGED <<channel, status, written, readers, termination, evidence>>

-----------------------------------------------------------------------------
(* The daemon, the client and the program *)

DaemonCreates ==
  /\ container = "requested" /\ status = None
  /\ container' = "created"
  /\ UNCHANGED <<channel, status, written, readers, executor>>

DaemonStarts ==
  /\ container = "created" /\ status = None
  /\ container' = "running"
  /\ UNCHANGED <<channel, status, written, readers, executor>>

(* No image, a name in use, no daemon: the client ends without a program. *)
DaemonRefuses ==
  /\ container \in {"requested", "created"} /\ status = None
  /\ container' = "gone"
  /\ status' = 125
  /\ UNCHANGED <<channel, written, readers, executor>>

Write(s, piece) ==
  /\ container = "running" /\ status = None
  /\ Len(written[s]) < MaxWritten
  /\ written' = [written EXCEPT ![s] = Append(@, piece)]
  /\ UNCHANGED <<channel, container, status, readers, executor>>

WriteText(s) == Write(s, "text")

(* emit: one result line, on stdout. *)
WriteResult ==
  /\ \A i \in 1..Len(written["stdout"]) : written["stdout"][i] = "text"
  /\ \E result \in Results : Write("stdout", result)

ProgramExits ==
  /\ container = "running" /\ status = None
  /\ container' = "gone"
  /\ status' \in Codes
  /\ UNCHANGED <<channel, written, readers, executor>>

(* The client is lost; the daemon goes on running the container. *)
ClientDies ==
  /\ container = "running" /\ status = None
  /\ status' = 125
  /\ UNCHANGED <<channel, container, written, readers, executor>>

(* The container of a lost client ends on its own. *)
OrphanExits ==
  /\ container = "running" /\ status # None
  /\ container' = "gone"
  /\ UNCHANGED <<channel, status, written, readers, executor>>

-----------------------------------------------------------------------------
(* read_bounded, one per stream *)

(* A chunk is read and counted: fetch_add tells what was counted before. *)
ReadChunk(s) ==
  /\ reader[s] = "reading" /\ pending[s] = None
  /\ \E n \in 1..Buffer :
       /\ taken[s] + n <= Len(written[s])
       /\ pending' = [pending EXCEPT ![s] =
                        [previous |-> total,
                         data |-> SubSeq(written[s], taken[s] + 1, taken[s] + n)]]
       /\ taken' = [taken EXCEPT ![s] = @ + n]
       /\ total' = total + n
  /\ UNCHANGED <<channel, program, executor, reader, captured, signalled>>

Retained(chunk) ==
  IF chunk.previous < Limit
  THEN Smaller(Limit - chunk.previous, Len(chunk.data))
  ELSE 0

(* Mutant: the limit counts as exceeded when it is only reached. *)
MutantSignalAtLimit(s) ==
  /\ pending[s] # None
  /\ captured' = [captured EXCEPT ![s] =
                    @ \o SubSeq(pending[s].data, 1, Retained(pending[s]))]
  /\ signalled' = (signalled \/ pending[s].previous + Len(pending[s].data) >= Limit)
  /\ pending' = [pending EXCEPT ![s] = None]
  /\ UNCHANGED <<channel, program, executor, taken, total, reader>>

(* Mutant: every reader takes the whole limit for itself. *)
MutantLimitPerStream(s) ==
  /\ pending[s] # None
  /\ captured' = [captured EXCEPT ![s] =
                    @ \o SubSeq(pending[s].data, 1, Smaller(Limit, Len(pending[s].data)))]
  /\ signalled' = (signalled \/ pending[s].previous + Len(pending[s].data) > Limit)
  /\ pending' = [pending EXCEPT ![s] = None]
  /\ UNCHANGED <<channel, program, executor, taken, total, reader>>

(* It is kept up to the limit, and the executor told when it goes beyond. *)
UseChunk(s) ==
  /\ pending[s] # None
  /\ captured' = [captured EXCEPT ![s] =
                    @ \o SubSeq(pending[s].data, 1, Retained(pending[s]))]
  /\ signalled' = (signalled \/ pending[s].previous + Len(pending[s].data) > Limit)
  /\ pending' = [pending EXCEPT ![s] = None]
  /\ UNCHANGED <<channel, program, executor, taken, total, reader>>

(* End of file: the client is gone and the pipe is drained. *)
ReadEnds(s) ==
  /\ reader[s] = "reading" /\ pending[s] = None
  /\ status # None /\ taken[s] = Len(written[s])
  /\ reader' = [reader EXCEPT ![s] = "ended"]
  /\ UNCHANGED <<channel, program, executor, taken, total, pending, captured, signalled>>

ReadFails(s) ==
  /\ reader[s] = "reading" /\ pending[s] = None
  /\ container # "none"
  /\ reader' = [reader EXCEPT ![s] = "failed"]
  /\ UNCHANGED <<channel, program, executor, taken, total, pending, captured, signalled>>

-----------------------------------------------------------------------------
(* The select, and what follows it *)

Terminate(how) ==
  /\ pc = "selecting"
  /\ termination' = how
  /\ pc' = IF how = "exited" THEN "joining" ELSE "removing"
  /\ UNCHANGED <<channel, program, evidence, taken, total, pending, reader, captured>>

SelectExit == status # None /\ Terminate("exited") /\ UNCHANGED signalled

(* wait fails *)
SelectWaitFails == Terminate("wait-failed") /\ UNCHANGED signalled

(* Mutant: the wall timer starts over with every read, and a program that     *)
(* writes is never timed out.                                               *)
MutantTimerRestarts ==
  /\ total = 0
  /\ Terminate("timeout") /\ UNCHANGED signalled

(* Eight seconds may always have passed. *)
SelectTimeout == Terminate("timeout") /\ UNCHANGED signalled

SelectLimit == signalled /\ Terminate("output-limit") /\ signalled' = FALSE

(* Mutant: a change is taken for a cancellation without a look at it. *)
MutantChangedIsCancelled ==
  /\ channel # "open"
  /\ Terminate("cancelled")
  /\ UNCHANGED signalled

SelectCancelled == channel = "cancelled" /\ Terminate("cancelled") /\ UNCHANGED signalled

SelectSenderDropped == channel = "closed" /\ Terminate("worker-lost") /\ UNCHANGED signalled

(* cleanup_container finds the container: it is killed, and its client ends. *)
(* A container not yet created is not found.                                *)
RemoveContainer ==
  /\ pc = "removing"
  /\ container \in {"created", "running"}
  /\ container' = "gone"
  /\ status' = IF status = None THEN 137 ELSE status
  /\ pc' = "waiting"
  /\ UNCHANGED <<channel, written, readers, termination, evidence>>

RemoveNothing ==
  /\ pc = "removing"
  /\ container \in {"requested", "gone"} \/ RemovalMayFail
  /\ pc' = "waiting"
  /\ UNCHANGED <<channel, program, readers, termination, evidence>>

(* Mutant: the second wait for the child is not awaited. *)
MutantNoSecondWait ==
  /\ pc = "waiting"
  /\ pc' = "joining"
  /\ UNCHANGED <<channel, program, readers, termination, evidence>>

(* The second wait: it has no time limit, and fails if the first one did. *)
WaitChild ==
  /\ pc = "waiting"
  /\ status # None \/ termination = "wait-failed"
  /\ pc' = "joining"
  /\ UNCHANGED <<channel, program, readers, termination, evidence>>

-----------------------------------------------------------------------------
(* evidence_from_exit *)

(* parse_harness_result: one line of the output is the result. *)
Says(out, result) ==
  \E i \in DOMAIN out :
    out[i] = result /\ \A j \in DOMAIN out \ {i} : out[j] = "text"

(* validate_harness_result *)
FitsCode(result, code) ==
  \/ result = "passed" /\ code = 0
  \/ result = "failed" /\ code = 1
  \/ result = "compile-error" /\ code = 2

ClassOfExit(out, code) ==
  CASE code = 137 -> "resource-limit"
    [] code = 124 -> "timeout"
    [] code \notin {137, 124} ->
         IF \E result \in Results : Says(out, result) /\ FitsCode(result, code)
         THEN CHOOSE result \in Results : Says(out, result) /\ FitsCode(result, code)
         ELSE "isolation-error"

(* Output cut at the limit may end inside a character, and then nothing of  *)
(* it is read.                                                            *)
ClassesOfExit ==
  {ClassOfExit(captured["stdout"], status)} \cup
    (IF Len(captured["stdout"]) < Len(written["stdout"])
     THEN {ClassOfExit(<<>>, status)} ELSE {})

ClassesOf(how) ==
  CASE how = "exited" -> ClassesOfExit
    [] how = "wait-failed" -> {"worker-lost"}
    [] OTHER -> {how}

(* Mutant: the exit is answered before the readers have drained the pipes. *)
MutantAnswerUnjoined ==
  /\ pc = "joining"
  /\ \E class \in ClassesOf(termination) :
       evidence' = [class |-> class,
                    truncated |-> total > Limit \/ termination = "output-limit",
                    bytes |-> Smaller(total, Limit + 1)]
  /\ pc' = "done"
  /\ UNCHANGED <<channel, program, readers, termination>>

Answer ==
  /\ pc = "joining"
  /\ \A s \in Streams : reader[s] # "reading"
  /\ \E class \in ClassesOf(termination) :
       evidence' = [class |-> class,
                    truncated |-> total > Limit \/ termination = "output-limit",
                    bytes |-> Smaller(total, Limit + 1)]
  /\ pc' = "done"
  /\ UNCHANGED <<channel, program, readers, termination>>

-----------------------------------------------------------------------------
Owner == CancelRequested \/ SenderDropped

Starting == JobInvalid \/ CancelledBefore \/ Stage \/ StartFails \/ Spawn

Daemon == DaemonCreates \/ DaemonStarts \/ DaemonRefuses

Program ==
  \/ (\E s \in Streams : WriteText(s)) \/ WriteResult
  \/ ProgramExits \/ ClientDies \/ OrphanExits

Reader(s) == ReadChunk(s) \/ UseChunk(s) \/ ReadEnds(s) \/ ReadFails(s)

Select ==
  \/ SelectExit \/ SelectWaitFails \/ SelectTimeout \/ SelectLimit
  \/ SelectCancelled \/ SelectSenderDropped

Ending == RemoveContainer \/ RemoveNothing \/ WaitChild \/ Answer

Next ==
  \/ Owner \/ Starting \/ Daemon \/ Program
  \/ \E s \in Streams : Reader(s)
  \/ Select \/ Ending

Spec == Init /\ [][Next]_vars

(* The executor's and the readers' tasks are polled, the timer fires, and    *)
(* the daemon serves its clients.  A program owes nothing, and no wait owes  *)
(* a failure.                                                              *)
Fairness ==
  /\ WF_vars(Starting) /\ WF_vars(SelectExit \/ SelectTimeout) /\ WF_vars(Ending)
  /\ \A s \in Streams : WF_vars(Reader(s))
  /\ WF_vars(Daemon)

FairSpec == Spec /\ Fairness
-----------------------------------------------------------------------------
(* Properties *)

TypeOK ==
  /\ channel \in {"open", "cancelled", "closed"}
  /\ pc \in {"checking", "staging", "selecting", "removing", "waiting", "joining", "done"}
  /\ termination \in Terminations \cup {None}
  /\ container \in {"none", "requested", "created", "running", "gone"}
  /\ status \in Codes \cup {None}
  /\ written \in [Streams -> Seq(Pieces)]
  /\ taken \in [Streams -> Nat]
  /\ total \in Nat
  /\ pending \in [Streams -> Chunks \cup {None}]
  /\ reader \in [Streams -> {"reading", "ended", "failed"}]
  /\ captured \in [Streams -> Seq(Pieces)]
  /\ signalled \in BOOLEAN
  /\ evidence \in Answers \cup {None}

(* What a stream will have kept once its reader has used its chunk. *)
Kept(s) == Len(captured[s]) + (IF pending[s] = None THEN 0 ELSE Retained(pending[s]))

(* The two readers share one budget: together they keep exactly the first   *)
(* Limit pieces counted, whatever the order of their counting and keeping   *)
(* (read_bounded's fetch_add).                                             *)
CaptureAccounting ==
  /\ total = taken["stdout"] + taken["stderr"]
  /\ Kept("stdout") + Kept("stderr") = Smaller(total, Limit)

Verdicts == {"passed", "failed", "compile-error"}

(* A learner's verdict comes from a program that ended by itself, and is     *)
(* what the harness wrote, with the exit code that goes with it; and unless  *)
(* output was cut or a pipe broke, the answer to an exit is what the whole   *)
(* output says, however late the readers were (execute_inner joins them).   *)
VerdictReflectsProgram ==
  /\ evidence # None /\ evidence.class \in Verdicts =>
       /\ termination = "exited"
       /\ Says(written["stdout"], evidence.class)
       /\ FitsCode(evidence.class, status)
  /\ pc = "done" /\ termination = "exited" /\ ~evidence.truncated
       /\ reader["stdout"] # "failed" =>
         evidence.class = ClassOfExit(written["stdout"], status)

(* output-limit is answered only for a program that wrote more than the      *)
(* limit: one that fills it exactly keeps its verdict (read_bounded).       *)
OutputLimitIsReal ==
  evidence # None /\ evidence.class = "output-limit" =>
    Len(written["stdout"]) + Len(written["stderr"]) > Limit

(* When an execution is answered its docker client is gone, so that a retry, *)
(* which uses the same container name, does not meet it; a failed wait is    *)
(* the one exception (the second wait and the joins of execute_inner).      *)
ClientGoneAtAnswer ==
  pc = "done" /\ container # "none" /\ status = None => termination = "wait-failed"

Contract == INSTANCE Executor
              WITH requested <- channel = "cancelled",
                   answer <- IF evidence = None THEN None ELSE evidence.class

(* The executor keeps the contract the submission service relies on: one    *)
(* answer, and `cancelled` only on request.                                *)
ImplementsExecutor == Contract!Spec

(* A program that runs while its exit is awaited is stopped at the latest by *)
(* the wall timer, and its execution answered; only a docker rm that fails   *)
(* can leave the executor waiting for a program that still runs.            *)
RunningProgramIsStopped ==
  (pc = "selecting" /\ container = "running")
    ~> (pc = "done" \/ (pc = "waiting" /\ container = "running"))

(* The wall timeout of docs/runner-operations.md: every execution is        *)
(* answered.                                                               *)
EveryExecutionReturns == <>(pc = "done")
-----------------------------------------------------------------------------
(* The inductive invariant behind the safety properties. *)

(* The budget, what each task knows of it, and that nothing is read that was *)
(* not written.                                                            *)
BudgetInv ==
  /\ CaptureAccounting
  /\ \A s \in Streams : taken[s] <= Len(written[s])
  /\ \A s \in Streams : pending[s] # None =>
       pending[s].previous + Len(pending[s].data) <= total
  /\ signalled \/ termination = "output-limit" => total > Limit

(* Where the executor is, and what it knows there. *)
PhaseInv ==
  /\ evidence # None <=> pc = "done"
  /\ pc \in {"checking", "staging"} => container = "none"
  /\ pc \in {"removing", "waiting", "joining"} => termination # None
  /\ pc \in {"joining", "done"} /\ container # "none" /\ status = None =>
       termination = "wait-failed"
  /\ termination = "exited" => status # None
  /\ termination = "cancelled" => channel = "cancelled"
  /\ pc = "done" /\ evidence.class = "cancelled" => channel = "cancelled"
  /\ pc = "done" /\ evidence.class = "output-limit" => total > Limit

(* What a stream has captured begins what was written to it; it falls short of  *)
(* what was read only if the limit has been passed, and then nothing is added.   *)
(* A chunk between its count and its use is what was read last.                *)
StreamInv(s) ==
  /\ Len(captured[s]) <= taken[s]
  /\ \A i \in 1..Len(captured[s]) : captured[s][i] = written[s][i]
  /\ pending[s] = None /\ Len(captured[s]) # taken[s] => total > Limit
  /\ pending[s] # None =>
       LET data == pending[s].data IN
         /\ reader[s] = "reading"
         /\ Len(captured[s]) + Len(data) <= taken[s]
         /\ Len(captured[s]) + Len(data) # taken[s] => pending[s].previous > Limit
         /\ \A i \in 1..Len(data) : data[i] = written[s][taken[s] - Len(data) + i]
  /\ reader[s] = "ended" => status # None /\ taken[s] = Len(written[s])

(* The program wrote one result line at most, and the answer waits for the      *)
(* readers.                                                                *)
OutputInv ==
  /\ \A s \in Streams : StreamInv(s)
  /\ \A i, j \in DOMAIN written["stdout"] :
       written["stdout"][i] # "text" /\ written["stdout"][j] # "text" => i = j
  /\ pc \in {"checking", "staging", "selecting"} => termination = None
  /\ pc = "done" /\ termination # None => \A s \in Streams : reader[s] # "reading"
  /\ VerdictReflectsProgram

(* Every part, checked on the instance before it is proved inductive. *)
IInv == TypeOK /\ BudgetInv /\ PhaseInv
=============================================================================
