----------------------- MODULE SandboxExecutionProofs -----------------------
(***************************************************************************)
(* The safety of one sandbox execution, for every limit and buffer: the     *)
(* invariant IInv of SandboxExecution is inductive, and what the runs check *)
(* of the budget, the client and the executor's contract follows from it.   *)
(***************************************************************************)
EXTENDS SandboxExecution, SequenceTheorems, TLAPS

USE SandboxAssumption

(* What is kept of a chunk fits the chunk. *)
LEMMA RetainedBounds ==
  ASSUME NEW chunk \in Chunks
  PROVE  Retained(chunk) \in 0..Len(chunk.data)
BY DEF Retained, Smaller, Chunks

(* Counting a chunk reserves for it exactly what the limit leaves. *)
LEMMA BudgetGrows ==
  ASSUME NEW chunk \in Chunks
  PROVE  Smaller(chunk.previous, Limit) + Retained(chunk)
           = Smaller(chunk.previous + Len(chunk.data), Limit)
BY DEF Retained, Smaller, Chunks

LEMMA KeptIsNat ==
  ASSUME TypeOK, NEW s \in Streams
  PROVE  Kept(s) \in Nat
<1>1. Len(captured[s]) \in Nat
  BY DEF TypeOK
<1>2. CASE pending[s] = None
  BY <1>1, <1>2 DEF Kept
<1>3. CASE pending[s] # None
  <2>1. pending[s] \in Chunks
    BY <1>3 DEF TypeOK
  <2>2. Retained(pending[s]) \in Nat
    <3>1. Len(pending[s].data) \in Nat
      BY <2>1 DEF Chunks
    <3> QED BY <2>1, <3>1, RetainedBounds
  <2> QED BY <1>1, <1>3, <2>2 DEF Kept
<1> QED BY <1>2, <1>3

LEMMA InitIInv == Init => IInv
<1> SUFFICES ASSUME Init PROVE IInv
  OBVIOUS
<1>1. TypeOK
  <2>1. <<>> \in Seq(Pieces)
    OBVIOUS
  <2> QED BY <2>1 DEF Init, TypeOK
<1>2. BudgetInv
  <2>1. \A s \in Streams : /\ Kept(s) = 0 /\ pending[s] = None
                           /\ taken[s] = 0 /\ Len(written[s]) = 0
    BY DEF Init, Kept
  <2>2. total = 0 /\ ~signalled /\ termination = None
    BY DEF Init
  <2> QED BY <2>1, <2>2 DEF BudgetInv, CaptureAccounting, Smaller, Streams, Terminations
<1>3. PhaseInv
  BY DEF Init, PhaseInv, Terminations
<1> QED BY <1>1, <1>2, <1>3 DEF IInv

-----------------------------------------------------------------------------
(* The budget does not depend on what leaves the counts and chunks alone.   *)
LEMMA BudgetStutter ==
  ASSUME IInv,
         UNCHANGED <<taken, total, pending, captured>>,
         \A s \in Streams : Len(written[s]) <= Len(written'[s])
                             /\ Len(written'[s]) \in Nat,
         signalled' => signalled,
         termination' # termination /\ termination' = "output-limit" => signalled
  PROVE  BudgetInv'
<1>1. CaptureAccounting'
  BY DEF IInv, BudgetInv, CaptureAccounting, Kept, Retained
<1>2. \A s \in Streams : taken'[s] <= Len(written'[s])
  BY DEF IInv, BudgetInv, TypeOK
<1>3. \A s \in Streams : pending'[s] # None =>
        pending'[s].previous + Len(pending'[s].data) <= total'
  BY DEF IInv, BudgetInv
<1>4. (signalled \/ termination = "output-limit" => total > Limit)'
  BY DEF IInv, BudgetInv
<1> QED BY <1>1, <1>2, <1>3, <1>4 DEF BudgetInv

(* An early return answers without a container; it says neither             *)
(* output-limit nor, without a request, cancelled.                         *)
LEMMA ReturnStep ==
  ASSUME IInv, pc \in {"checking", "staging"},
         NEW class \in Classes, Return(class),
         class # "output-limit", class = "cancelled" => channel = "cancelled"
  PROVE  IInv'
<1>1. evidence' \in Answers /\ evidence'.class = class
  BY DEF Return, Answers
<1>2. TypeOK'
  BY <1>1 DEF IInv, TypeOK, Return, program, readers
<1>3. BudgetInv'
  BY DEF IInv, BudgetInv, CaptureAccounting, Kept, Retained, Return, program, readers
<1>4. PhaseInv'
  BY <1>1 DEF IInv, PhaseInv, Return, program, readers
<1> QED BY <1>2, <1>3, <1>4 DEF IInv

(* Counting a chunk: the reservation of the other stream stands. *)
LEMMA ReadChunkStep ==
  ASSUME IInv, NEW s \in Streams, ReadChunk(s)
  PROVE  IInv'
<1>1. PICK n \in 1..Buffer :
        /\ taken[s] + n <= Len(written[s])
        /\ pending' = [pending EXCEPT ![s] =
                         [previous |-> total,
                          data |-> SubSeq(written[s], taken[s] + 1, taken[s] + n)]]
        /\ taken' = [taken EXCEPT ![s] = @ + n]
        /\ total' = total + n
  BY DEF ReadChunk
<1> DEFINE chunk == [previous |-> total,
                     data |-> SubSeq(written[s], taken[s] + 1, taken[s] + n)]
<1>2. TypeOK /\ n \in Nat
  BY <1>1 DEF IInv
<1>3. chunk.data \in Seq(Pieces) /\ Len(chunk.data) = n
  <2>1. written[s] \in Seq(Pieces) /\ taken[s] \in Nat
    BY <1>2 DEF TypeOK
  <2>2. \A i \in (taken[s] + 1)..(taken[s] + n) : written[s][i] \in Pieces
    BY <1>1, <1>2, <2>1
  <2> QED BY <1>2, <2>1, <2>2, SubSeqProperties
<1>4. chunk \in Chunks /\ chunk.previous = total
  BY <1>2, <1>3 DEF TypeOK, Chunks
<1>5. TypeOK'
  <2>1. /\ pending' = [pending EXCEPT ![s] = chunk]
        /\ taken' = [taken EXCEPT ![s] = taken[s] + n]
        /\ total' = total + n
        /\ UNCHANGED <<channel, program, executor, reader, captured, signalled>>
    BY <1>1 DEF ReadChunk
  <2> HIDE DEF chunk
  <2>2. pending' \in [Streams -> Chunks \cup {None}]
    BY <1>2, <1>4, <2>1 DEF TypeOK
  <2>3. taken' \in [Streams -> Nat] /\ total' \in Nat
    BY <1>2, <2>1 DEF TypeOK
  <2> QED BY <1>2, <2>1, <2>2, <2>3 DEF TypeOK, program, executor
<1> HIDE DEF chunk
<1>6. BudgetInv'
  <2>1. pending' = [pending EXCEPT ![s] = chunk] /\ pending[s] = None
    BY <1>1 DEF ReadChunk, chunk
  <2>2. captured' = captured /\ signalled' = signalled /\ termination' = termination
          /\ written' = written
    BY DEF ReadChunk, program, executor
  <2>3. Kept(s)' = Kept(s) + Retained(chunk)
    <3>1. Kept(s) = Len(captured[s]) /\ Len(captured[s]) \in Nat
      BY <1>2, <2>1 DEF Kept, TypeOK
    <3>2. pending'[s] = chunk /\ chunk # None
      BY <1>2, <1>4, <2>1 DEF TypeOK
    <3>3. Retained(chunk) \in Nat
      BY <1>4, <1>3, RetainedBounds
    <3> QED BY <2>2, <3>1, <3>2, <3>3 DEF Kept, Retained
  <2>4. \A t \in Streams \ {s} : Kept(t)' = Kept(t)
    BY <1>2, <2>1, <2>2 DEF Kept, Retained, TypeOK
  <2>5. Smaller(total, Limit) + Retained(chunk) = Smaller(total + n, Limit)
    BY <1>3, <1>4, BudgetGrows
  <2>6. /\ Retained(chunk) \in Nat
        /\ \A t \in Streams : Kept(t) \in Nat
        /\ Smaller(total, Limit) \in Nat /\ Smaller(total + n, Limit) \in Nat
    BY <1>2, <1>3, <1>4, RetainedBounds, KeptIsNat DEF TypeOK, Smaller
  <2>7. (Kept("stdout") + Kept("stderr"))' = Smaller(total', Limit)
    <3>1. Kept("stdout") + Kept("stderr") = Smaller(total, Limit)
      BY DEF IInv, BudgetInv, CaptureAccounting
    <3>2. CASE s = "stdout"
      BY <1>1, <2>3, <2>4, <2>5, <2>6, <3>1, <3>2 DEF Streams
    <3>3. CASE s = "stderr"
      BY <1>1, <2>3, <2>4, <2>5, <2>6, <3>1, <3>3 DEF Streams
    <3> QED BY <3>2, <3>3 DEF Streams
  <2>8. (total = taken["stdout"] + taken["stderr"])'
    <3>1. taken["stdout"] \in Nat /\ taken["stderr"] \in Nat /\ total \in Nat
            /\ total = taken["stdout"] + taken["stderr"]
      BY <1>2 DEF IInv, BudgetInv, CaptureAccounting, TypeOK, Streams
    <3>2. taken'[s] = taken[s] + n /\ \A t \in Streams \ {s} : taken'[t] = taken[t]
      BY <1>1, <1>2 DEF TypeOK
    <3> QED BY <1>1, <1>2, <3>1, <3>2 DEF Streams
  <2>9. \A t \in Streams : taken'[t] <= Len(written'[t])
    BY <1>1, <1>2, <2>2 DEF IInv, BudgetInv, TypeOK
  <2>10. \A t \in Streams : pending'[t] # None =>
           pending'[t].previous + Len(pending'[t].data) <= total'
    <3> SUFFICES ASSUME NEW t \in Streams, pending'[t] # None
                 PROVE  pending'[t].previous + Len(pending'[t].data) <= total'
      OBVIOUS
    <3>1. CASE t = s
      <4>1. pending'[t] = chunk
        BY <1>2, <2>1, <3>1 DEF TypeOK
      <4>2. chunk.previous = total /\ Len(chunk.data) = n
        BY <1>3, <1>4 DEF chunk
      <4>3. total' = total + n /\ total \in Nat
        BY <1>1, <1>2 DEF TypeOK
      <4> QED BY <1>2, <4>1, <4>2, <4>3
    <3>2. CASE t # s
      <4>1. pending'[t] = pending[t] /\ pending[t] \in Chunks
        BY <1>2, <2>1, <3>2 DEF TypeOK
      <4>2. pending[t].previous \in Nat /\ Len(pending[t].data) \in Nat
        BY <4>1 DEF Chunks
      <4>3. pending[t].previous + Len(pending[t].data) <= total
        BY <4>1 DEF IInv, BudgetInv
      <4>4. total' = total + n /\ total \in Nat /\ n \in Nat
        BY <1>1, <1>2 DEF TypeOK
      <4> QED BY <4>1, <4>2, <4>3, <4>4
    <3> QED BY <3>1, <3>2
  <2>11. (signalled \/ termination = "output-limit" => total > Limit)'
    BY <1>1, <1>2, <2>2 DEF IInv, BudgetInv, TypeOK
  <2> QED BY <2>7, <2>8, <2>9, <2>10, <2>11 DEF BudgetInv, CaptureAccounting
<1>7. PhaseInv'
  BY <1>1, <1>2 DEF IInv, PhaseInv, TypeOK, ReadChunk, program, executor
<1> QED BY <1>5, <1>6, <1>7 DEF IInv

(* Using a chunk: what was reserved for it is kept, and the signal is only  *)
(* given beyond the limit.                                                 *)
LEMMA UseChunkStep ==
  ASSUME IInv, NEW s \in Streams, UseChunk(s)
  PROVE  IInv'
<1> DEFINE chunk == pending[s]
           kept == SubSeq(chunk.data, 1, Retained(chunk))
<1>1. TypeOK /\ chunk \in Chunks
  BY DEF IInv, TypeOK, UseChunk
<1>2. Retained(chunk) \in 0..Len(chunk.data)
  BY <1>1, RetainedBounds
<1>3. kept \in Seq(Pieces) /\ Len(kept) = Retained(chunk)
  <2>1. chunk.data \in Seq(Pieces) /\ Len(chunk.data) \in Nat
    BY <1>1 DEF Chunks
  <2>2. \A i \in 1..Retained(chunk) : chunk.data[i] \in Pieces
    BY <1>2, <2>1
  <2> QED BY <1>2, <2>1, <2>2, SubSeqProperties
<1>4. /\ captured[s] \o kept \in Seq(Pieces)
      /\ Len(captured[s] \o kept) = Len(captured[s]) + Retained(chunk)
  <2>1. captured[s] \in Seq(Pieces)
    BY <1>1 DEF TypeOK
  <2> QED BY <1>3, <2>1, ConcatProperties
<1>5. /\ captured' = [captured EXCEPT ![s] = @ \o kept]
      /\ pending' = [pending EXCEPT ![s] = None]
      /\ pending[s] # None
      /\ signalled' = (signalled \/ chunk.previous + Len(chunk.data) > Limit)
      /\ UNCHANGED <<channel, program, executor, taken, total, reader>>
  BY DEF UseChunk
<1>6. TypeOK'
  <2> HIDE DEF chunk, kept
  <2>1. captured' \in [Streams -> Seq(Pieces)]
    BY <1>1, <1>4, <1>5 DEF TypeOK
  <2>2. pending' \in [Streams -> Chunks \cup {None}] /\ signalled' \in BOOLEAN
    BY <1>1, <1>5 DEF TypeOK
  <2> QED BY <1>1, <1>5, <2>1, <2>2 DEF TypeOK, program, executor
<1>7. BudgetInv'
  <2>1. Kept(s)' = Kept(s)
    <3>1. Kept(s) = Len(captured[s]) + Retained(chunk)
      BY <1>5 DEF Kept
    <3>2. Kept(s)' = Len(captured'[s]) /\ captured'[s] = captured[s] \o kept
      <4>1. captured'[s] = captured[s] \o kept /\ pending'[s] = None
        BY <1>1, <1>5 DEF TypeOK
      <4>2. Len(captured'[s]) \in Nat
        BY <1>4, <4>1
      <4> HIDE DEF kept, chunk
      <4> QED BY <4>1, <4>2 DEF Kept
    <3> QED BY <1>4, <3>1, <3>2
  <2>2. \A t \in Streams \ {s} : Kept(t)' = Kept(t)
    BY <1>1, <1>5 DEF Kept, Retained, TypeOK
  <2>3. CaptureAccounting'
    <3>1. Kept("stdout")' = Kept("stdout") /\ Kept("stderr")' = Kept("stderr")
      BY <2>1, <2>2 DEF Streams
    <3> QED BY <1>5, <3>1 DEF IInv, BudgetInv, CaptureAccounting
  <2>4. (signalled \/ termination = "output-limit" => total > Limit)'
    <3>1. chunk.previous + Len(chunk.data) <= total
      BY <1>5 DEF IInv, BudgetInv
    <3>2. chunk.previous \in Nat /\ Len(chunk.data) \in Nat /\ total \in Nat
      BY <1>1 DEF TypeOK, Chunks
    <3>3. signalled \/ termination = "output-limit" => total > Limit
      BY DEF IInv, BudgetInv
    <3>4. total' = total /\ termination' = termination
      BY <1>5 DEF executor
    <3>5. signalled' => signalled \/ chunk.previous + Len(chunk.data) > Limit
      BY <1>5
    <3> HIDE DEF chunk
    <3> QED BY <3>1, <3>2, <3>3, <3>4, <3>5
  <2>5. \A t \in Streams : taken'[t] <= Len(written'[t])
    BY <1>5 DEF IInv, BudgetInv, program
  <2>6. \A t \in Streams : pending'[t] # None =>
          pending'[t].previous + Len(pending'[t].data) <= total'
    BY <1>1, <1>5 DEF IInv, BudgetInv, TypeOK
  <2> QED BY <2>3, <2>4, <2>5, <2>6 DEF BudgetInv
<1>8. PhaseInv'
  BY <1>5 DEF IInv, PhaseInv, program, executor
<1> QED BY <1>6, <1>7, <1>8 DEF IInv

(* The class of an exit is a verdict, a limit or isolation-error. *)
LEMMA ClassOfExitFacts ==
  ASSUME NEW out, NEW code \in Codes
  PROVE  ClassOfExit(out, code) \in Verdicts \cup {"resource-limit", "timeout", "isolation-error"}
<1>1. CASE code \in {124, 137}
  BY <1>1 DEF ClassOfExit, Codes
<1>2. CASE code \notin {124, 137}
  BY <1>2 DEF ClassOfExit, FitsCode, Verdicts, Codes
<1> QED BY <1>1, <1>2

(* The answer: its class is the termination's, and a verdict needs an exit. *)
LEMMA AnswerStep ==
  ASSUME IInv, Answer
  PROVE  IInv'
<1>1. PICK class \in ClassesOf(termination) :
        evidence' = [class |-> class,
                     truncated |-> total > Limit \/ termination = "output-limit",
                     bytes |-> Smaller(total, Limit + 1)]
  BY DEF Answer
<1>2. TypeOK /\ termination \in Terminations
  BY DEF IInv, TypeOK, PhaseInv, Answer
<1>3. /\ class \in Classes
      /\ class \in {"output-limit", "cancelled"} => termination = class
  <2>1. CASE termination = "exited"
    <3>1. status \in Codes
      BY <1>2, <2>1 DEF IInv, PhaseInv, TypeOK
    <3>2. class \in ClassesOfExit
      BY <1>1, <2>1 DEF ClassesOf
    <3>3. class \in Verdicts \cup {"resource-limit", "timeout", "isolation-error"}
      BY <3>1, <3>2, ClassOfExitFacts DEF ClassesOfExit
    <3> QED BY <2>1, <3>3 DEF Verdicts, Classes
  <2>2. CASE termination = "wait-failed"
    BY <1>1, <2>2 DEF ClassesOf, Classes
  <2>3. CASE termination \in Terminations \ {"exited", "wait-failed"}
    BY <1>1, <2>3 DEF ClassesOf, Classes, Terminations
  <2> QED BY <1>2, <2>1, <2>2, <2>3
<1>4. evidence' \in Answers /\ evidence'.class = class
  <2>1. Smaller(total, Limit + 1) \in Nat
    BY <1>2 DEF TypeOK, Smaller
  <2>2. (total > Limit \/ termination = "output-limit") \in BOOLEAN
    OBVIOUS
  <2> QED BY <1>1, <1>3, <2>1, <2>2 DEF Answers
<1>5. TypeOK'
  BY <1>2, <1>4 DEF TypeOK, Answer, program, readers
<1>6. BudgetInv'
  BY DEF IInv, BudgetInv, CaptureAccounting, Kept, Retained, Answer, program, readers
<1>7. PhaseInv'
  BY <1>2, <1>3, <1>4 DEF IInv, PhaseInv, BudgetInv, Answer, program, readers
<1> QED BY <1>5, <1>6, <1>7 DEF IInv

(* Every step preserves the invariant: one case per action, and under it     *)
(* one step per conjunct that the action can disturb.                       *)
LEMMA StepIInv == IInv /\ [Next]_vars => IInv'
<1> SUFFICES ASSUME IInv, [Next]_vars PROVE IInv'
  OBVIOUS
<1>0. TypeOK /\ \A s \in Streams : Len(written[s]) \in Nat
  BY DEF IInv, TypeOK
<1>1. CASE CancelRequested
  <2>1. TypeOK'
    BY <1>1, <1>0 DEF TypeOK, CancelRequested, program, readers, executor
  <2>2. BudgetInv'
    BY <1>1, <1>0, BudgetStutter DEF CancelRequested, program, readers, executor
  <2>3. PhaseInv'
    BY <1>1, <1>0 DEF IInv, TypeOK, PhaseInv, CancelRequested, Codes, program, readers, executor
  <2> QED BY <2>1, <2>2, <2>3 DEF IInv
<1>2. CASE SenderDropped
  <2>1. TypeOK'
    BY <1>2, <1>0 DEF TypeOK, SenderDropped, program, readers, executor
  <2>2. BudgetInv'
    BY <1>2, <1>0, BudgetStutter DEF SenderDropped, program, readers, executor
  <2>3. PhaseInv'
    BY <1>2, <1>0 DEF IInv, TypeOK, PhaseInv, SenderDropped, Codes, program, readers, executor
  <2> QED BY <2>1, <2>2, <2>3 DEF IInv
<1>3. CASE JobInvalid
  BY <1>3, ReturnStep DEF JobInvalid, Classes
<1>4. CASE CancelledBefore
  BY <1>4, ReturnStep DEF CancelledBefore, Classes
<1>5. CASE Stage
  <2>1. TypeOK'
    BY <1>5, <1>0 DEF TypeOK, Stage, program, readers, executor
  <2>2. BudgetInv'
    BY <1>5, <1>0, BudgetStutter DEF Stage, program, readers, executor
  <2>3. PhaseInv'
    BY <1>5, <1>0 DEF IInv, TypeOK, PhaseInv, Stage, Codes, program, readers, executor
  <2> QED BY <2>1, <2>2, <2>3 DEF IInv
<1>6. CASE StartFails
  BY <1>6, ReturnStep DEF StartFails, Classes
<1>7. CASE Spawn
  <2>1. TypeOK'
    BY <1>7, <1>0 DEF TypeOK, Spawn, program, readers, executor
  <2>2. BudgetInv'
    BY <1>7, <1>0, BudgetStutter DEF Spawn, program, readers, executor
  <2>3. PhaseInv'
    BY <1>7, <1>0 DEF IInv, TypeOK, PhaseInv, Spawn, Codes, program, readers, executor
  <2> QED BY <2>1, <2>2, <2>3 DEF IInv
<1>8. CASE DaemonCreates
  <2>1. TypeOK'
    BY <1>8, <1>0 DEF TypeOK, DaemonCreates, program, readers, executor
  <2>2. BudgetInv'
    BY <1>8, <1>0, BudgetStutter DEF DaemonCreates, program, readers, executor
  <2>3. PhaseInv'
    BY <1>8, <1>0 DEF IInv, TypeOK, PhaseInv, DaemonCreates, Codes, program, readers, executor
  <2> QED BY <2>1, <2>2, <2>3 DEF IInv
<1>9. CASE DaemonStarts
  <2>1. TypeOK'
    BY <1>9, <1>0 DEF TypeOK, DaemonStarts, program, readers, executor
  <2>2. BudgetInv'
    BY <1>9, <1>0, BudgetStutter DEF DaemonStarts, program, readers, executor
  <2>3. PhaseInv'
    BY <1>9, <1>0 DEF IInv, TypeOK, PhaseInv, DaemonStarts, Codes, program, readers, executor
  <2> QED BY <2>1, <2>2, <2>3 DEF IInv
<1>10. CASE DaemonRefuses
  <2>1. TypeOK'
    BY <1>10, <1>0 DEF TypeOK, DaemonRefuses, Codes, program, readers, executor
  <2>2. BudgetInv'
    BY <1>10, <1>0, BudgetStutter DEF DaemonRefuses, program, readers, executor
  <2>3. PhaseInv'
    BY <1>10, <1>0 DEF IInv, TypeOK, PhaseInv, DaemonRefuses, Codes, program, readers, executor
  <2> QED BY <2>1, <2>2, <2>3 DEF IInv
<1>11. ASSUME NEW s \in Streams, WriteText(s) PROVE IInv'
  <2>1. TypeOK'
    BY <1>11, <1>0 DEF TypeOK, WriteText, Write, Pieces, Results, program, readers, executor
  <2>2. BudgetInv'
    BY <1>11, <1>0, BudgetStutter DEF WriteText, Write, TypeOK, program, readers, executor
  <2>3. PhaseInv'
    BY <1>11, <1>0 DEF IInv, TypeOK, PhaseInv, WriteText, Write, Pieces, Results, program, readers, executor
  <2> QED BY <2>1, <2>2, <2>3 DEF IInv
<1>12. CASE WriteResult
  <2>1. PICK result \in Results : Write("stdout", result)
    BY <1>12 DEF WriteResult
  <2>2. "stdout" \in Streams /\ result \in Pieces
    BY DEF Streams, Pieces
  <2>3. TypeOK'
    BY <1>0, <2>1, <2>2 DEF TypeOK, Write, readers, executor
  <2>4. BudgetInv'
    BY <1>0, <2>1, <2>2, BudgetStutter DEF Write, TypeOK, readers, executor
  <2>5. PhaseInv'
    BY <1>0, <2>1 DEF IInv, PhaseInv, Write, readers, executor
  <2> QED BY <2>3, <2>4, <2>5 DEF IInv
<1>13. CASE ProgramExits
  <2>1. TypeOK'
    BY <1>13, <1>0 DEF TypeOK, ProgramExits, program, readers, executor
  <2>2. BudgetInv'
    BY <1>13, <1>0, BudgetStutter DEF ProgramExits, program, readers, executor
  <2>3. PhaseInv'
    BY <1>13, <1>0 DEF IInv, TypeOK, PhaseInv, ProgramExits, Codes, program, readers, executor
  <2> QED BY <2>1, <2>2, <2>3 DEF IInv
<1>14. CASE ClientDies
  <2>1. TypeOK'
    BY <1>14, <1>0 DEF TypeOK, ClientDies, Codes, program, readers, executor
  <2>2. BudgetInv'
    BY <1>14, <1>0, BudgetStutter DEF ClientDies, program, readers, executor
  <2>3. PhaseInv'
    BY <1>14, <1>0 DEF IInv, TypeOK, PhaseInv, ClientDies, Codes, program, readers, executor
  <2> QED BY <2>1, <2>2, <2>3 DEF IInv
<1>15. CASE OrphanExits
  <2>1. TypeOK'
    BY <1>15, <1>0 DEF TypeOK, OrphanExits, program, readers, executor
  <2>2. BudgetInv'
    BY <1>15, <1>0, BudgetStutter DEF OrphanExits, program, readers, executor
  <2>3. PhaseInv'
    BY <1>15, <1>0 DEF IInv, TypeOK, PhaseInv, OrphanExits, Codes, program, readers, executor
  <2> QED BY <2>1, <2>2, <2>3 DEF IInv
<1>16. ASSUME NEW s \in Streams, ReadChunk(s) PROVE IInv'
  BY <1>16, ReadChunkStep
<1>17. ASSUME NEW s \in Streams, UseChunk(s) PROVE IInv'
  BY <1>17, UseChunkStep
<1>18. ASSUME NEW s \in Streams, ReadEnds(s) PROVE IInv'
  <2>1. TypeOK'
    BY <1>18, <1>0 DEF TypeOK, ReadEnds, program, readers, executor
  <2>2. BudgetInv'
    BY <1>18, <1>0, BudgetStutter DEF ReadEnds, program, readers, executor
  <2>3. PhaseInv'
    BY <1>18, <1>0 DEF IInv, TypeOK, PhaseInv, ReadEnds, Codes, program, readers, executor
  <2> QED BY <2>1, <2>2, <2>3 DEF IInv
<1>19. ASSUME NEW s \in Streams, ReadFails(s) PROVE IInv'
  <2>1. TypeOK'
    BY <1>19, <1>0 DEF TypeOK, ReadFails, program, readers, executor
  <2>2. BudgetInv'
    BY <1>19, <1>0, BudgetStutter DEF ReadFails, program, readers, executor
  <2>3. PhaseInv'
    BY <1>19, <1>0 DEF IInv, TypeOK, PhaseInv, ReadFails, Codes, program, readers, executor
  <2> QED BY <2>1, <2>2, <2>3 DEF IInv
<1>20. CASE SelectExit
  <2>1. TypeOK'
    BY <1>20, <1>0 DEF TypeOK, SelectExit, Terminate, Terminations, program, readers, executor
  <2>2. BudgetInv'
    BY <1>20, <1>0, BudgetStutter DEF SelectExit, Terminate, program, readers, executor
  <2>3. PhaseInv'
    BY <1>20, <1>0 DEF IInv, TypeOK, PhaseInv, SelectExit, Terminate, Terminations, program, readers, executor
  <2> QED BY <2>1, <2>2, <2>3 DEF IInv
<1>21. CASE SelectWaitFails
  <2>1. TypeOK'
    BY <1>21, <1>0 DEF TypeOK, SelectWaitFails, Terminate, Terminations, program, readers, executor
  <2>2. BudgetInv'
    BY <1>21, <1>0, BudgetStutter DEF SelectWaitFails, Terminate, program, readers, executor
  <2>3. PhaseInv'
    BY <1>21, <1>0 DEF IInv, TypeOK, PhaseInv, SelectWaitFails, Terminate, Terminations, program, readers, executor
  <2> QED BY <2>1, <2>2, <2>3 DEF IInv
<1>22. CASE SelectTimeout
  <2>1. TypeOK'
    BY <1>22, <1>0 DEF TypeOK, SelectTimeout, Terminate, Terminations, program, readers, executor
  <2>2. BudgetInv'
    BY <1>22, <1>0, BudgetStutter DEF SelectTimeout, Terminate, program, readers, executor
  <2>3. PhaseInv'
    BY <1>22, <1>0 DEF IInv, TypeOK, PhaseInv, SelectTimeout, Terminate, Terminations, program, readers, executor
  <2> QED BY <2>1, <2>2, <2>3 DEF IInv
<1>23. CASE SelectLimit
  <2>1. TypeOK'
    BY <1>23, <1>0 DEF TypeOK, SelectLimit, Terminate, Terminations, program, readers, executor
  <2>2. BudgetInv'
    BY <1>23, <1>0, BudgetStutter DEF SelectLimit, Terminate, program, readers, executor
  <2>3. PhaseInv'
    BY <1>23, <1>0 DEF IInv, TypeOK, PhaseInv, SelectLimit, Terminate, Terminations, program, readers, executor
  <2> QED BY <2>1, <2>2, <2>3 DEF IInv
<1>24. CASE SelectCancelled
  <2>1. TypeOK'
    BY <1>24, <1>0 DEF TypeOK, SelectCancelled, Terminate, Terminations, program, readers, executor
  <2>2. BudgetInv'
    BY <1>24, <1>0, BudgetStutter DEF SelectCancelled, Terminate, program, readers, executor
  <2>3. PhaseInv'
    BY <1>24, <1>0 DEF IInv, TypeOK, PhaseInv, SelectCancelled, Terminate, Terminations, program, readers, executor
  <2> QED BY <2>1, <2>2, <2>3 DEF IInv
<1>25. CASE SelectSenderDropped
  <2>1. TypeOK'
    BY <1>25, <1>0 DEF TypeOK, SelectSenderDropped, Terminate, Terminations, program, readers, executor
  <2>2. BudgetInv'
    BY <1>25, <1>0, BudgetStutter DEF SelectSenderDropped, Terminate, program, readers, executor
  <2>3. PhaseInv'
    BY <1>25, <1>0 DEF IInv, TypeOK, PhaseInv, SelectSenderDropped, Terminate, Terminations, program, readers, executor
  <2> QED BY <2>1, <2>2, <2>3 DEF IInv
<1>26. CASE RemoveContainer
  <2>1. TypeOK'
    BY <1>26, <1>0 DEF TypeOK, RemoveContainer, Codes, program, readers, executor
  <2>2. BudgetInv'
    BY <1>26, <1>0, BudgetStutter DEF RemoveContainer, program, readers, executor
  <2>3. PhaseInv'
    BY <1>26, <1>0 DEF IInv, TypeOK, PhaseInv, RemoveContainer, Codes, program, readers, executor
  <2> QED BY <2>1, <2>2, <2>3 DEF IInv
<1>27. CASE RemoveNothing
  <2>1. TypeOK'
    BY <1>27, <1>0 DEF TypeOK, RemoveNothing, program, readers, executor
  <2>2. BudgetInv'
    BY <1>27, <1>0, BudgetStutter DEF RemoveNothing, program, readers, executor
  <2>3. PhaseInv'
    BY <1>27, <1>0 DEF IInv, TypeOK, PhaseInv, RemoveNothing, Codes, program, readers, executor
  <2> QED BY <2>1, <2>2, <2>3 DEF IInv
<1>28. CASE WaitChild
  <2>1. TypeOK'
    BY <1>28, <1>0 DEF TypeOK, WaitChild, program, readers, executor
  <2>2. BudgetInv'
    BY <1>28, <1>0, BudgetStutter DEF WaitChild, program, readers, executor
  <2>3. PhaseInv'
    BY <1>28, <1>0 DEF IInv, TypeOK, PhaseInv, WaitChild, Codes, program, readers, executor
  <2> QED BY <2>1, <2>2, <2>3 DEF IInv
<1>29. CASE Answer
  BY <1>29, AnswerStep
<1>30. CASE UNCHANGED vars
  <2> USE <1>30 DEF vars, program, readers, executor
  <2>1. TypeOK'
    BY <1>0 DEF TypeOK
  <2>2. BudgetInv'
    BY <1>0, BudgetStutter
  <2>3. PhaseInv'
    BY DEF IInv, PhaseInv
  <2> QED BY <2>1, <2>2, <2>3 DEF IInv
<1> QED
  BY <1>1, <1>2, <1>3, <1>4, <1>5, <1>6, <1>7, <1>8, <1>9, <1>10, <1>11, <1>12, <1>13, <1>14, <1>15, <1>16, <1>17, <1>18, <1>19, <1>20, <1>21, <1>22, <1>23, <1>24, <1>25, <1>26, <1>27, <1>28, <1>29, <1>30 DEF Next, Owner, Starting, Daemon, Program, Reader, Select, Ending

-----------------------------------------------------------------------------
(* The invariant of one execution, for every limit and buffer size: the     *)
(* budget of the readers and what each phase of execute_inner knows.        *)
THEOREM Invariance == Spec => []IInv
BY InitIInv, StepIInv, PTL DEF Spec

(* Type correctness of execute_inner and its readers. *)
THEOREM TypeCorrect == Spec => []TypeOK
<1>1. IInv => TypeOK
  BY DEF IInv
<1> QED BY <1>1, Invariance, PTL

(* The readers together keep exactly the first Limit pieces that were       *)
(* counted, however their counting and keeping interleave (read_bounded).   *)
THEOREM BudgetIsExact == Spec => []CaptureAccounting
<1>1. IInv => CaptureAccounting
  BY DEF IInv, BudgetInv
<1> QED BY <1>1, Invariance, PTL

LEMMA BoundedSum ==
  ASSUME NEW a \in Nat, NEW b \in Nat, NEW m \in Nat, NEW n \in Nat,
         a <= m, b <= n, a + b > Limit
  PROVE  m + n > Limit
OBVIOUS

(* output-limit is answered only of a program that wrote beyond the limit.  *)
THEOREM OutputLimitIsEarned == Spec => []OutputLimitIsReal
<1>1. IInv => OutputLimitIsReal
  <2> SUFFICES ASSUME IInv, evidence # None, evidence.class = "output-limit"
               PROVE  Len(written["stdout"]) + Len(written["stderr"]) > Limit
    BY DEF OutputLimitIsReal
  <2>1. total > Limit /\ total = taken["stdout"] + taken["stderr"]
    BY DEF IInv, PhaseInv, BudgetInv, CaptureAccounting
  <2>2. \A s \in Streams : taken[s] <= Len(written[s]) /\ taken[s] \in Nat
                             /\ Len(written[s]) \in Nat
    BY DEF IInv, TypeOK, BudgetInv
  <2>3. /\ taken["stdout"] <= Len(written["stdout"]) /\ taken["stdout"] \in Nat
        /\ taken["stderr"] <= Len(written["stderr"]) /\ taken["stderr"] \in Nat
        /\ Len(written["stdout"]) \in Nat /\ Len(written["stderr"]) \in Nat
    BY <2>2 DEF Streams
  <2> QED BY <2>1, <2>3, BoundedSum
<1> QED BY <1>1, Invariance, PTL

(* An execution is answered when its docker client is gone (the second wait *)
(* of execute_inner), but for a wait that failed.                          *)
THEOREM AnswersAfterClient == Spec => []ClientGoneAtAnswer
<1>1. IInv => ClientGoneAtAnswer
  BY DEF IInv, PhaseInv, ClientGoneAtAnswer
<1> QED BY <1>1, Invariance, PTL

(* Only the owner's steps touch the channel, and an answer is given once. *)
LEMMA ChannelAndAnswer ==
  ASSUME IInv, [Next]_vars
  PROVE  \/ channel = "open" /\ evidence' = evidence
         \/ channel' = channel /\ (evidence' = evidence \/ evidence = None)
<1> USE DEF program, readers, executor
<1>1. CASE Owner
  BY <1>1 DEF Owner, CancelRequested, SenderDropped
<1>2. CASE Starting
  <2>1. evidence = None
    BY <1>2 DEF IInv, PhaseInv, Starting, JobInvalid, CancelledBefore, Stage, StartFails, Spawn
  <2> QED BY <1>2, <2>1 DEF Starting, JobInvalid, CancelledBefore, Stage, StartFails, Spawn, Return
<1>3. CASE Daemon
  BY <1>3 DEF Daemon, DaemonCreates, DaemonStarts, DaemonRefuses
<1>4. CASE Program
  BY <1>4 DEF Program, WriteText, WriteResult, Write, ProgramExits, ClientDies, OrphanExits
<1>5. ASSUME NEW s \in Streams, Reader(s)
      PROVE  channel' = channel /\ evidence' = evidence
  BY <1>5 DEF Reader, ReadChunk, UseChunk, ReadEnds, ReadFails
<1>6. CASE Select
  BY <1>6 DEF Select, Terminate, SelectExit, SelectWaitFails, SelectTimeout, SelectLimit,
              SelectCancelled, SelectSenderDropped
<1>7. CASE Ending
  <2>1. evidence = None
    BY <1>7 DEF IInv, PhaseInv, Ending, RemoveContainer, RemoveNothing, WaitChild, Answer
  <2> QED BY <1>7, <2>1 DEF Ending, RemoveContainer, RemoveNothing, WaitChild, Answer
<1>8. CASE UNCHANGED vars
  BY <1>8 DEF vars
<1> QED BY <1>1, <1>2, <1>3, <1>4, <1>5, <1>6, <1>7, <1>8 DEF Next

(* The executor implements the contract RunnerService relies on: each call  *)
(* answered at most once, `cancelled` only after a request.                 *)
THEOREM KeepsContract == Spec => ImplementsExecutor
<1> DEFINE asked == channel = "cancelled"
           answerOf == IF evidence = None THEN None ELSE evidence.class
<1>1. Init => Contract!Init
  BY DEF Init, Contract!Init
<1>2. IInv /\ IInv' /\ [Next]_vars => [Contract!Next]_<<asked, answerOf>>
  <2> SUFFICES ASSUME IInv, IInv', [Next]_vars
               PROVE  [Contract!Next]_<<asked, answerOf>>
    OBVIOUS
  <2>1. CASE channel' = channel /\ evidence' = evidence
    BY <2>1
  <2>2. CASE channel = "open" /\ evidence' = evidence
    <3>1. CASE channel' = "cancelled"
      BY <2>2, <3>1 DEF Contract!Next, Contract!Request
    <3>2. CASE channel' # "cancelled"
      BY <2>2, <3>2
    <3> QED BY <3>1, <3>2
  <2>3. CASE channel' = channel /\ evidence = None /\ evidence' # None
    <3>1. evidence' \in Answers /\ pc' = "done"
      BY <2>3 DEF IInv, TypeOK, PhaseInv
    <3>2. evidence'.class \in Classes /\ (evidence'.class = "cancelled" => channel' = "cancelled")
      BY <3>1 DEF IInv, PhaseInv, Answers
    <3> QED BY <2>3, <3>2 DEF Contract!Next, Contract!Answer
  <2> QED BY <2>1, <2>2, <2>3, ChannelAndAnswer
<1> QED BY <1>1, <1>2, Invariance, PTL DEF Spec, ImplementsExecutor, Contract!Spec
-----------------------------------------------------------------------------
(* What the program wrote and what was captured of it *)

(* A chunk that does not start beyond the limit is cut only by it. *)
LEMMA RetainedCuts ==
  ASSUME NEW chunk \in Chunks
  PROVE  /\ chunk.previous > Limit => Retained(chunk) = 0
         /\ Retained(chunk) # Len(chunk.data) /\ chunk.previous <= Limit
              => chunk.previous + Len(chunk.data) > Limit
BY DEF Retained, Smaller, Chunks

(* The types of one stream, spelled out. *)
LEMMA StreamTypes ==
  ASSUME TypeOK, NEW s \in Streams
  PROVE  /\ captured[s] \in Seq(Pieces) /\ written[s] \in Seq(Pieces)
         /\ Len(captured[s]) \in Nat /\ Len(written[s]) \in Nat
         /\ taken[s] \in Nat /\ total \in Nat
         /\ pending[s] # None =>
              /\ pending[s] \in Chunks /\ pending[s].previous \in Nat
              /\ pending[s].data \in Seq(Pieces) /\ Len(pending[s].data) \in Nat
BY DEF TypeOK, Chunks

(* Places of the last d of the first t, and of the n after them. *)
LEMMA Places ==
  ASSUME NEW t \in Nat, NEW w \in Nat, t <= w
  PROVE  /\ \A c, d \in Nat : c + d <= t => \A i \in 1..d : t - d + i \in 1..w
         /\ \A n \in Nat : (t + n) - (t + 1) + 1 = n
                              /\ \A i \in 1..n : (t + 1) + i - 1 = t + i
OBVIOUS

(* A stream whose reader does nothing, while the program may write more. *)
LEMMA StreamStutter ==
  ASSUME IInv, NEW s \in Streams, StreamInv(s),
         taken'[s] = taken[s], pending'[s] = pending[s], captured'[s] = captured[s],
         reader'[s] = reader[s], total' \in Nat, total' >= total,
         status # None => status' = status /\ written'[s] = written[s],
         Len(written'[s]) \in Nat, Len(written[s]) <= Len(written'[s]),
         \A i \in 1..Len(written[s]) : written'[s][i] = written[s][i]
  PROVE  StreamInv(s)'
<1>1. TypeOK /\ taken[s] <= Len(written[s])
  BY DEF IInv, BudgetInv
<1>2. Len(captured[s]) <= taken[s]
  BY DEF StreamInv
<1>3. \A i \in 1..Len(captured[s]) : captured[s][i] = written'[s][i]
  BY <1>1, <1>2, StreamTypes DEF StreamInv
<1>4. pending[s] = None /\ Len(captured[s]) # taken[s] => total' > Limit
  BY <1>1, StreamTypes DEF StreamInv
<1>5. ASSUME pending[s] # None
      PROVE  LET data == pending[s].data IN
               \A i \in 1..Len(data) : data[i] = written'[s][taken[s] - Len(data) + i]
  <2> DEFINE data == pending[s].data
  <2>1. Len(captured[s]) + Len(data) <= taken[s]
    BY <1>5 DEF StreamInv
  <2>2. \A i \in 1..Len(data) : data[i] = written[s][taken[s] - Len(data) + i]
    BY <1>5 DEF StreamInv
  <2>3. Len(data) \in Nat /\ Len(captured[s]) \in Nat /\ taken[s] \in Nat
          /\ Len(written[s]) \in Nat
    BY <1>1, <1>5, StreamTypes
  <2> HIDE DEF data
  <2>4. \A i \in 1..Len(data) : taken[s] - Len(data) + i \in 1..Len(written[s])
    <3>1. taken[s] <= Len(written[s])
      BY <1>1
    <3> QED BY <2>1, <2>3, <3>1, Places, Zenon
  <2>5. \A i \in 1..Len(data) : data[i] = written'[s][taken[s] - Len(data) + i]
    BY <2>2, <2>4
  <2> QED BY <2>5 DEF data
<1>6. reader[s] = "ended" => status' # None /\ taken[s] = Len(written'[s])
  BY DEF StreamInv
<1>7. pending[s] # None =>
        LET data == pending[s].data IN
          /\ reader[s] = "reading"
          /\ Len(captured[s]) + Len(data) <= taken[s]
          /\ Len(captured[s]) + Len(data) # taken[s] => pending[s].previous > Limit
  BY DEF StreamInv
<1> QED BY <1>2, <1>3, <1>4, <1>5, <1>6, <1>7 DEF StreamInv

(* A chunk that is read follows what was read before it. *)
LEMMA ReadChunkKeepsStream ==
  ASSUME IInv, NEW s \in Streams, StreamInv(s), ReadChunk(s)
  PROVE  StreamInv(s)'
<1>1. PICK n \in 1..Buffer :
        /\ taken[s] + n <= Len(written[s])
        /\ pending' = [pending EXCEPT ![s] =
                         [previous |-> total,
                          data |-> SubSeq(written[s], taken[s] + 1, taken[s] + n)]]
        /\ taken' = [taken EXCEPT ![s] = @ + n]
        /\ total' = total + n
  BY DEF ReadChunk
<1> DEFINE data == SubSeq(written[s], taken[s] + 1, taken[s] + n)
<1>2. TypeOK /\ n \in Nat /\ pending[s] = None /\ reader[s] = "reading"
  BY <1>1 DEF IInv, ReadChunk
<1>3. /\ Len(captured[s]) \in Nat /\ Len(written[s]) \in Nat /\ taken[s] \in Nat
      /\ total \in Nat /\ written[s] \in Seq(Pieces)
  BY <1>2, StreamTypes
<1>4. /\ Len(data) = n
      /\ \A i \in 1..n : data[i] = written[s][taken[s] + i]
  <2> DEFINE from == taken[s] + 1
             to == taken[s] + n
  <2>1. /\ from \in Nat /\ to \in Nat /\ 1 <= from /\ from <= to /\ to <= Len(written[s])
        /\ to - from + 1 = n /\ \A i \in 1..n : from + i - 1 = taken[s] + i
    <3>1. n \in 1..Buffer /\ taken[s] + n <= Len(written[s])
      BY <1>1
    <3>2. from \in Nat /\ to \in Nat /\ 1 <= from /\ from <= to /\ to <= Len(written[s])
      BY <1>2, <1>3, <3>1
    <3>3. taken[s] <= Len(written[s])
      BY <1>2, <1>3, <3>1
    <3>4. to - from + 1 = n /\ \A i \in 1..n : from + i - 1 = taken[s] + i
      BY <1>2, <1>3, <3>3, Places, Zenon
    <3> QED BY <3>2, <3>4
  <2> HIDE DEF from, to
  <2>2. \A i \in from..to : written[s][i] \in Pieces
    BY <1>3, <2>1
  <2>3. /\ Len(SubSeq(written[s], from, to)) = IF from <= to THEN to - from + 1 ELSE 0
        /\ \A i \in 1..(to - from + 1) : SubSeq(written[s], from, to)[i] = written[s][from + i - 1]
    BY <2>1, <2>2, SubSeqProperties
  <2>4. data = SubSeq(written[s], from, to)
    BY DEF from, to
  <2> HIDE DEF data
  <2>5. Len(data) = n
    BY <2>1, <2>3, <2>4
  <2>6. \A i \in 1..n : data[i] = written[s][taken[s] + i]
    BY <2>1, <2>3, <2>4, Zenon
  <2> QED BY <2>5, <2>6
<1>5. /\ pending'[s] = [previous |-> total, data |-> data]
      /\ taken'[s] = taken[s] + n
      /\ captured' = captured /\ reader' = reader /\ written' = written
  BY <1>1, <1>2 DEF ReadChunk, TypeOK, program
<1> HIDE DEF data
<1>6. pending'[s].data = data /\ pending'[s].previous = total
  BY <1>5
<1>7. Len(captured[s]) <= taken[s] /\ (Len(captured[s]) # taken[s] => total > Limit)
  BY <1>2 DEF StreamInv
<1>8. taken'[s] - Len(data) = taken[s]
  BY <1>2, <1>3, <1>4, <1>5
<1>9. /\ Len(captured[s]) <= taken'[s]
      /\ Len(captured[s]) + Len(data) <= taken'[s]
      /\ Len(captured[s]) + Len(data) # taken'[s] => total > Limit
  BY <1>2, <1>3, <1>4, <1>5, <1>7
<1>10. \A i \in 1..Len(data) : data[i] = written[s][taken'[s] - Len(data) + i]
  BY <1>4, <1>8
<1>11. pending'[s] # None
  <2>1. data \in Seq(Pieces)
    <3>1. \A i \in (taken[s] + 1)..(taken[s] + n) : written[s][i] \in Pieces
      <4>1. taken[s] + n <= Len(written[s])
        BY <1>1
      <4> QED BY <1>2, <1>3, <4>1
    <3> QED BY <1>2, <1>3, <3>1, SubSeqProperties DEF data
  <2>2. pending'[s] \in Chunks
    BY <1>3, <1>5, <2>1 DEF Chunks
  <2> QED BY <2>2
<1>12. \A i \in 1..Len(captured[s]) : captured[s][i] = written[s][i]
  BY DEF StreamInv
<1> QED BY <1>2, <1>5, <1>6, <1>9, <1>10, <1>11, <1>12 DEF StreamInv

(* A chunk that is used is added where its stream was not cut before. *)
LEMMA UseChunkKeepsStream ==
  ASSUME IInv, NEW s \in Streams, StreamInv(s), UseChunk(s)
  PROVE  StreamInv(s)'
<1> DEFINE data == pending[s].data
           m == Retained(pending[s])
           kept == SubSeq(data, 1, m)
<1>1. TypeOK /\ pending[s] # None
  BY DEF IInv, UseChunk
<1>2. /\ pending[s] \in Chunks /\ pending[s].previous \in Nat
      /\ data \in Seq(Pieces) /\ Len(data) \in Nat
      /\ captured[s] \in Seq(Pieces) /\ Len(captured[s]) \in Nat
      /\ taken[s] \in Nat /\ total \in Nat
  BY <1>1, StreamTypes
<1>3. m \in 0..Len(data)
  BY <1>2, RetainedBounds
<1>4. /\ kept \in Seq(Pieces) /\ Len(kept) = m
      /\ \A i \in 1..m : kept[i] = data[i]
  <2>1. \A i \in 1..m : data[i] \in Pieces
    BY <1>2, <1>3
  <2> HIDE DEF m
  <2>2. 1 \in Int /\ m \in Int
    BY <1>3
  <2>3. /\ kept \in Seq(Pieces)
        /\ Len(kept) = IF 1 <= m THEN m - 1 + 1 ELSE 0
        /\ \A i \in 1..(m - 1 + 1) : kept[i] = data[1 + i - 1]
    BY <1>2, <1>3, <2>1, <2>2, SubSeqProperties
  <2> HIDE DEF kept, data
  <2> QED BY <1>3, <2>3
<1>5. /\ captured'[s] = captured[s] \o kept /\ pending'[s] = None
      /\ taken' = taken /\ total' = total /\ reader' = reader
      /\ written' = written /\ status' = status
  BY <1>1, <1>2 DEF UseChunk, TypeOK, program
<1>6. /\ Len(captured'[s]) = Len(captured[s]) + m
      /\ \A i \in 1..Len(captured[s]) : captured'[s][i] = captured[s][i]
      /\ \A i \in 1..m : captured'[s][Len(captured[s]) + i] = kept[i]
  <2> HIDE DEF kept, m
  <2>1. m \in Nat
    BY <1>2, <1>3
  <2>2. captured[s] \in Seq(Pieces) /\ kept \in Seq(Pieces) /\ Len(kept) = m
    BY <1>2, <1>4
  <2> DEFINE longer == captured[s] \o kept
             c == Len(captured[s])
  <2>3. /\ Len(longer) = c + Len(kept)
        /\ \A i \in 1..c : longer[i] = captured[s][i]
        /\ \A i \in 1..Len(kept) : longer[c + i] = kept[i]
    BY <2>2
  <2>4. captured'[s] = longer
    BY <1>5
  <2> HIDE DEF longer
  <2> QED BY <2>2, <2>3, <2>4
<1>7. /\ Len(captured[s]) + Len(data) <= taken[s]
      /\ Len(captured[s]) + Len(data) # taken[s] => pending[s].previous > Limit
      /\ \A i \in 1..Len(data) : data[i] = written[s][taken[s] - Len(data) + i]
      /\ \A i \in 1..Len(captured[s]) : captured[s][i] = written[s][i]
      /\ reader[s] = "reading"
  BY <1>1 DEF StreamInv
<1>8. pending[s].previous + Len(data) <= total
  BY <1>1 DEF IInv, BudgetInv
<1>9. /\ pending[s].previous > Limit => m = 0
      /\ m # Len(data) /\ pending[s].previous <= Limit => pending[s].previous + Len(data) > Limit
  BY <1>2, RetainedCuts
<1> HIDE DEF data, m, kept
<1>10. Len(captured'[s]) <= taken[s]
  BY <1>2, <1>3, <1>6, <1>7
<1>11. Len(captured'[s]) # taken[s] => total > Limit
  <2>1. Limit \in Nat
    BY SandboxAssumption
  <2> SUFFICES ASSUME Len(captured[s]) + m # taken[s] PROVE total > Limit
    BY <1>6
  <2>2. CASE pending[s].previous > Limit
    BY <1>2, <1>8, <2>1, <2>2
  <2>3. CASE pending[s].previous <= Limit
    <3>1. Len(captured[s]) + Len(data) = taken[s]
      BY <1>7, <2>1, <2>3, <1>2
    <3>2. m # Len(data)
      BY <3>1
    <3>3. pending[s].previous + Len(data) > Limit
      BY <1>9, <2>3, <3>2
    <3> QED BY <1>2, <1>8, <2>1, <3>3
  <2> QED BY <1>2, <2>1, <2>2, <2>3
<1>12. \A i \in 1..Len(captured'[s]) : captured'[s][i] = written[s][i]
  <2> SUFFICES ASSUME NEW i \in 1..Len(captured'[s]) PROVE captured'[s][i] = written[s][i]
    OBVIOUS
  <2>1. CASE i <= Len(captured[s])
    BY <1>2, <1>3, <1>6, <1>7, <2>1
  <2>2. CASE i > Len(captured[s])
    <3> DEFINE k == i - Len(captured[s])
    <3>1. k \in 1..m /\ i = Len(captured[s]) + k /\ k \in 1..Len(data)
      BY <1>2, <1>3, <1>6, <2>2
    <3>2. taken[s] - Len(data) = Len(captured[s])
      BY <1>2, <1>3, <1>7, <1>9, <3>1
    <3> HIDE DEF k
    <3>3. captured'[s][i] = kept[k] /\ kept[k] = data[k]
      BY <1>4, <1>6, <3>1
    <3>4. data[k] = written[s][taken[s] - Len(data) + k]
      BY <1>7, <3>1
    <3> QED BY <3>1, <3>2, <3>3, <3>4
  <2> QED BY <1>2, <1>3, <1>6, <2>1, <2>2
<1> QED BY <1>5, <1>7, <1>10, <1>11, <1>12 DEF StreamInv
(* A verdict is what one line says, and every output gives one class. *)
LEMMA VerdictIsSaid ==
  ASSUME NEW out, NEW code \in Codes, ClassOfExit(out, code) \in Verdicts
  PROVE  Says(out, ClassOfExit(out, code)) /\ FitsCode(ClassOfExit(out, code), code)
<1>1. code \notin {137, 124}
  <2>1. code = 137 => ClassOfExit(out, code) = "resource-limit"
    BY DEF ClassOfExit
  <2>2. code = 124 => ClassOfExit(out, code) = "timeout"
    BY DEF ClassOfExit
  <2> QED BY <2>1, <2>2 DEF Verdicts
<1>2. PICK result \in Results : Says(out, result) /\ FitsCode(result, code)
  BY <1>1 DEF ClassOfExit, Verdicts
<1>3. ClassOfExit(out, code)
        = CHOOSE r \in Results : Says(out, r) /\ FitsCode(r, code)
  BY <1>1, <1>2 DEF ClassOfExit
<1> QED BY <1>2, <1>3

(* What the beginning of an output with one result line says, the whole says. *)
LEMMA BeginningSays ==
  ASSUME NEW part \in Seq(Pieces), NEW all \in Seq(Pieces), NEW result \in Verdicts,
         Len(part) <= Len(all), \A i \in 1..Len(part) : part[i] = all[i],
         \A i, j \in DOMAIN all : all[i] # "text" /\ all[j] # "text" => i = j,
         Says(part, result)
  PROVE  Says(all, result)
<1>1. PICK i \in DOMAIN part : part[i] = result
  BY DEF Says
<1>2. i \in DOMAIN all /\ all[i] = result /\ result # "text"
  BY <1>1 DEF Verdicts
<1> QED BY <1>2 DEF Says

(* The answer: what is captured of an exit begins what was written, and is all *)
(* of it unless it was cut or the pipe broke.                              *)
LEMMA AnswerReflects ==
  ASSUME IInv, OutputInv, Answer
  PROVE  VerdictReflectsProgram'
<1>1. PICK class \in ClassesOf(termination) :
        evidence' = [class |-> class,
                     truncated |-> total > Limit \/ termination = "output-limit",
                     bytes |-> Smaller(total, Limit + 1)]
  BY DEF Answer
<1>2. /\ evidence'.class = class
      /\ evidence'.truncated <=> total > Limit \/ termination = "output-limit"
      /\ UNCHANGED <<written, status, reader, termination>>
  BY <1>1 DEF Answer, program, readers
<1>3. /\ TypeOK /\ termination \in Terminations /\ "stdout" \in Streams
      /\ \A s \in Streams : reader[s] # "reading"
  BY DEF IInv, TypeOK, PhaseInv, Answer, Streams
<1> DEFINE out == captured["stdout"]
           all == written["stdout"]
<1>4. /\ out \in Seq(Pieces) /\ all \in Seq(Pieces)
      /\ Len(out) \in Nat /\ Len(all) \in Nat /\ taken["stdout"] \in Nat /\ total \in Nat
  BY <1>3, StreamTypes
<1>5. StreamInv("stdout") /\ pending["stdout"] = None
  BY <1>3 DEF OutputInv, StreamInv
<1>6. taken["stdout"] <= Len(all)
  BY <1>3 DEF IInv, BudgetInv
<1>7. Len(out) <= Len(all) /\ \A i \in 1..Len(out) : out[i] = all[i]
  BY <1>4, <1>5, <1>6 DEF StreamInv
<1>8. ASSUME class \in Verdicts
      PROVE  /\ termination = "exited" /\ Says(all, class) /\ FitsCode(class, status)
  <2>1. termination = "exited"
    BY <1>1, <1>3, <1>8 DEF ClassesOf, Terminations, Verdicts
  <2>2. status \in Codes
    BY <1>3, <2>1 DEF IInv, PhaseInv, TypeOK
  <2>3. PICK o \in {out, <<>>} : class = ClassOfExit(o, status)
    BY <1>1, <2>1 DEF ClassesOf, ClassesOfExit
  <2>4. Says(o, class) /\ FitsCode(class, status)
    BY <1>8, <2>2, <2>3, VerdictIsSaid
  <2>5. o = out
    BY <2>3, <2>4 DEF Says
  <2>6. \A i, j \in DOMAIN all : all[i] # "text" /\ all[j] # "text" => i = j
    BY DEF OutputInv
  <2> HIDE DEF out, all
  <2>7. Says(all, class)
    BY <1>4, <1>7, <1>8, <2>4, <2>5, <2>6, BeginningSays
  <2> QED BY <2>1, <2>4, <2>7
<1>9. ASSUME termination = "exited", total <= Limit, reader["stdout"] # "failed"
      PROVE  class = ClassOfExit(all, status)
  <2>1. reader["stdout"] = "ended"
    BY <1>3, <1>9 DEF TypeOK
  <2>2. Len(out) = Len(all)
    BY <1>4, <1>5, <1>9, <2>1 DEF StreamInv
  <2>3. out = all
    <3> HIDE DEF out, all
    <3> QED BY <1>4, <1>7, <2>2, SeqEqual
  <2>4. ClassesOfExit = {ClassOfExit(all, status)}
    BY <1>4, <2>2, <2>3 DEF ClassesOfExit
  <2> QED BY <1>1, <1>9, <2>4 DEF ClassesOf
<1>10. (evidence # None /\ evidence.class \in Verdicts =>
          /\ termination = "exited"
          /\ Says(written["stdout"], evidence.class)
          /\ FitsCode(evidence.class, status))'
  BY <1>2, <1>8
<1>11. (pc = "done" /\ termination = "exited" /\ ~evidence.truncated
          /\ reader["stdout"] # "failed" =>
            evidence.class = ClassOfExit(written["stdout"], status))'
  <2>1. ~evidence'.truncated => total <= Limit
    BY <1>2, <1>4
  <2> QED BY <1>2, <1>9, <2>1
<1> QED BY <1>10, <1>11 DEF VerdictReflectsProgram

(* The steps that leave the streams' readers alone. *)
LEMMA OtherStepsKeepOutput ==
  ASSUME IInv, IInv', OutputInv,
         UNCHANGED <<taken, total, pending, captured, reader>>,
         status # None => status' = status,
         pc' = "done" => pc = "done" /\ UNCHANGED <<termination, evidence>>,
         pc' \in {"checking", "staging", "selecting"} =>
           pc \in {"checking", "staging", "selecting"} /\ termination' = termination,
         written' = written
  PROVE  OutputInv'
<1>1. \A s \in Streams : StreamInv(s)'
  <2> SUFFICES ASSUME NEW s \in Streams PROVE StreamInv(s)'
    OBVIOUS
  <2>1. StreamInv(s) /\ TypeOK
    BY DEF OutputInv, IInv
  <2> QED BY <2>1, StreamTypes, StreamStutter
<1>2. (pc \in {"checking", "staging", "selecting"} => termination = None)'
  BY DEF OutputInv
<1>3. (pc = "done" /\ termination # None => \A s \in Streams : reader[s] # "reading")'
  BY DEF OutputInv
<1>4. VerdictReflectsProgram'
  <2>1. CASE pc' = "done"
    <3>1. evidence' = evidence /\ termination' = termination /\ pc = "done"
      BY <2>1
    <3>2. termination = "exited" => status' = status
      BY DEF IInv, PhaseInv
    <3> QED BY <3>1, <3>2 DEF OutputInv, VerdictReflectsProgram
  <2>2. CASE pc' # "done"
    BY <2>2 DEF IInv, PhaseInv, VerdictReflectsProgram
  <2> QED BY <2>1, <2>2
<1> QED BY <1>1, <1>2, <1>3, <1>4 DEF OutputInv

(* One more piece is written, a result line only if there was none. *)
LEMMA WriteKeepsOutput ==
  ASSUME IInv, OutputInv, NEW s \in Streams, NEW piece \in Pieces, Write(s, piece),
         piece = "text" \/ \A i \in 1..Len(written[s]) : written[s][i] = "text"
  PROVE  OutputInv'
<1>1. /\ TypeOK /\ status = None
      /\ written' = [written EXCEPT ![s] = Append(@, piece)]
      /\ UNCHANGED <<channel, container, status, readers, executor>>
  BY DEF IInv, Write
<1>2. \A t \in Streams :
        /\ written[t] \in Seq(Pieces) /\ Len(written[t]) \in Nat
        /\ written'[t] = IF t = s THEN Append(written[t], piece) ELSE written[t]
  BY <1>1, StreamTypes DEF TypeOK
<1>3. \A t \in Streams :
        /\ Len(written'[t]) \in Nat /\ Len(written[t]) <= Len(written'[t])
        /\ \A i \in 1..Len(written[t]) : written'[t][i] = written[t][i]
  <2> SUFFICES ASSUME NEW t \in Streams
               PROVE  /\ Len(written'[t]) \in Nat /\ Len(written[t]) <= Len(written'[t])
                      /\ \A i \in 1..Len(written[t]) : written'[t][i] = written[t][i]
    OBVIOUS
  <2>1. written[t] \in Seq(Pieces)
    BY <1>2
  <2>2. CASE t = s
    <3>1. written'[t] = Append(written[t], piece)
      BY <1>2, <2>2
    <3> QED BY <2>1, <3>1
  <2>3. CASE t # s
    BY <1>2, <2>1, <2>3
  <2> QED BY <2>2, <2>3
<1>4. \A t \in Streams : StreamInv(t)'
  <2> SUFFICES ASSUME NEW t \in Streams PROVE StreamInv(t)'
    OBVIOUS
  <2>1. StreamInv(t)
    BY DEF OutputInv
  <2>2. /\ taken'[t] = taken[t] /\ pending'[t] = pending[t] /\ captured'[t] = captured[t]
        /\ reader'[t] = reader[t] /\ total' = total /\ total \in Nat
    BY <1>1 DEF readers, TypeOK
  <2> QED BY <1>1, <1>3, <2>1, <2>2, StreamStutter
<1>5. (\A i, j \in DOMAIN written["stdout"] :
         written["stdout"][i] # "text" /\ written["stdout"][j] # "text" => i = j)'
  <2> DEFINE all == written["stdout"]
  <2>1. all \in Seq(Pieces) /\ ((all' = Append(all, piece) /\ s = "stdout") \/ all' = all)
    BY <1>2 DEF Streams
  <2>2. \A i, j \in DOMAIN all : all[i] # "text" /\ all[j] # "text" => i = j
    BY DEF OutputInv
  <2>3. piece = "text" \/ s # "stdout" \/ \A i \in 1..Len(all) : all[i] = "text"
    OBVIOUS
  <2> SUFFICES \A i, j \in DOMAIN all' : all'[i] # "text" /\ all'[j] # "text" => i = j
    OBVIOUS
  <2> HIDE DEF all
  <2>4. CASE all' = all
    BY <2>2, <2>4
  <2>5. CASE all' = Append(all, piece) /\ s = "stdout"
    <3>1. /\ DOMAIN all' = 1..(Len(all) + 1) /\ Len(all) \in Nat
          /\ all'[Len(all) + 1] = piece
          /\ \A i \in 1..Len(all) : all'[i] = all[i]
      BY <2>1, <2>5
    <3>2. DOMAIN all = 1..Len(all)
      BY <2>1
    <3> QED BY <2>2, <2>3, <2>5, <3>1, <3>2
  <2> QED BY <2>1, <2>4, <2>5
<1>6. pc # "done" \/ termination # "exited"
  BY <1>1 DEF IInv, PhaseInv
<1>7. VerdictReflectsProgram'
  BY <1>1, <1>6 DEF OutputInv, VerdictReflectsProgram, IInv, PhaseInv, readers, executor
<1> QED BY <1>1, <1>4, <1>5, <1>7 DEF OutputInv, readers, executor

(* A reader's own step. *)
LEMMA ReaderKeepsOutput ==
  ASSUME IInv, IInv', OutputInv, NEW s \in Streams, Reader(s)
  PROVE  OutputInv'
<1>1. TypeOK /\ TypeOK' /\ StreamInv(s)
  BY DEF IInv, OutputInv
<1>2. UNCHANGED <<channel, program, executor>>
  BY DEF Reader, ReadChunk, UseChunk, ReadEnds, ReadFails
<1>3. StreamInv(s)'
  <2>1. CASE ReadChunk(s)
    BY <1>1, <2>1, ReadChunkKeepsStream
  <2>2. CASE UseChunk(s)
    BY <1>1, <2>2, UseChunkKeepsStream
  <2>3. CASE ReadEnds(s)
    BY <1>1, <2>3 DEF ReadEnds, StreamInv, TypeOK, program
  <2>4. CASE ReadFails(s)
    BY <1>1, <2>4 DEF ReadFails, StreamInv, TypeOK, program
  <2> QED BY <2>1, <2>2, <2>3, <2>4 DEF Reader
<1>4. total' \in Nat /\ total' >= total
  <2>1. CASE ReadChunk(s)
    BY <1>1, <2>1 DEF ReadChunk, TypeOK
  <2>2. CASE ~ReadChunk(s)
    BY <1>1, <2>2 DEF Reader, UseChunk, ReadEnds, ReadFails, TypeOK
  <2> QED BY <2>1, <2>2
<1>5. \A t \in Streams \ {s} :
        /\ taken'[t] = taken[t] /\ pending'[t] = pending[t]
        /\ captured'[t] = captured[t] /\ reader'[t] = reader[t]
  BY <1>1 DEF Reader, ReadChunk, UseChunk, ReadEnds, ReadFails, TypeOK
<1>6. \A t \in Streams \ {s} : StreamInv(t)'
  <2> SUFFICES ASSUME NEW t \in Streams \ {s} PROVE StreamInv(t)'
    OBVIOUS
  <2>1. StreamInv(t) /\ Len(written[t]) \in Nat
    BY <1>1, StreamTypes DEF OutputInv
  <2>2. written' = written /\ status' = status
    BY <1>2 DEF program
  <2> QED BY <1>4, <1>5, <2>1, <2>2, StreamStutter
<1>7. pending[s] # None => reader[s] = "reading"
  BY <1>1 DEF StreamInv
<1>8. reader[s] = "reading"
  BY <1>7 DEF Reader, ReadChunk, UseChunk, ReadEnds, ReadFails
<1>9. ~(pc = "done" /\ termination # None)
  BY <1>8 DEF OutputInv
<1>10. (pc = "done" /\ termination # None => \A t \in Streams : reader[t] # "reading")'
  BY <1>2, <1>9 DEF executor
<1>11. VerdictReflectsProgram'
  <2>1. termination # "exited" \/ pc # "done"
    BY <1>9 DEF Terminations
  <2> QED BY <1>2, <2>1 DEF OutputInv, VerdictReflectsProgram, IInv, PhaseInv, program, executor
<1> QED BY <1>2, <1>3, <1>6, <1>10, <1>11 DEF OutputInv, program, executor

LEMMA StepOutputInv == IInv /\ IInv' /\ OutputInv /\ [Next]_vars => OutputInv'
<1> SUFFICES ASSUME IInv, IInv', OutputInv, [Next]_vars PROVE OutputInv'
  OBVIOUS
<1>1. CASE Owner
  BY <1>1, OtherStepsKeepOutput
     DEF Owner, CancelRequested, SenderDropped, program, readers, executor
<1>2. ASSUME NEW class \in Classes, pc \in {"checking", "staging"}, Return(class),
             class \notin Verdicts
      PROVE  OutputInv'
  <2>1. /\ termination' = None /\ termination = None /\ pc' = "done"
        /\ evidence'.class = class
    BY <1>2 DEF OutputInv, Return
  <2>2. \A s \in Streams : StreamInv(s)'
    <3> SUFFICES ASSUME NEW s \in Streams PROVE StreamInv(s)'
      OBVIOUS
    <3>1. StreamInv(s) /\ TypeOK
      BY DEF OutputInv, IInv
    <3>2. UNCHANGED <<program, readers>>
      BY <1>2 DEF Return
    <3> QED BY <3>1, <3>2, StreamTypes, StreamStutter DEF program, readers
  <2>3. VerdictReflectsProgram'
    BY <1>2, <2>1 DEF VerdictReflectsProgram, Terminations
  <2> QED BY <1>2, <2>1, <2>2, <2>3 DEF OutputInv, Return, program, readers
<1>3. CASE Starting
  <2>1. CASE JobInvalid
    BY <1>2, <2>1 DEF JobInvalid, Classes, Verdicts
  <2>2. CASE CancelledBefore
    BY <1>2, <2>2 DEF CancelledBefore, Classes, Verdicts
  <2>3. CASE StartFails
    BY <1>2, <2>3 DEF StartFails, Classes, Verdicts
  <2>4. CASE Stage
    BY <2>4, OtherStepsKeepOutput DEF Stage, program, readers
  <2>5. CASE Spawn
    BY <2>5, OtherStepsKeepOutput DEF Spawn, readers
  <2> QED BY <1>3, <2>1, <2>2, <2>3, <2>4, <2>5 DEF Starting
<1>4. CASE Daemon
  BY <1>4, OtherStepsKeepOutput
     DEF Daemon, DaemonCreates, DaemonStarts, DaemonRefuses, readers, executor
<1>5. CASE Program
  <2>1. ASSUME NEW s \in Streams, WriteText(s) PROVE OutputInv'
    BY <2>1, WriteKeepsOutput DEF WriteText, Pieces
  <2>2. CASE WriteResult
    <3>1. PICK result \in Results : Write("stdout", result)
      BY <2>2 DEF WriteResult
    <3> QED BY <2>2, <3>1, WriteKeepsOutput DEF WriteResult, Streams, Pieces
  <2>3. CASE ProgramExits \/ ClientDies \/ OrphanExits
    BY <2>3, OtherStepsKeepOutput
       DEF ProgramExits, ClientDies, OrphanExits, readers, executor
  <2> QED BY <1>5, <2>1, <2>2, <2>3 DEF Program
<1>6. ASSUME NEW s \in Streams, Reader(s) PROVE OutputInv'
  BY <1>6, ReaderKeepsOutput
<1>7. CASE Select
  BY <1>7, OtherStepsKeepOutput
     DEF Select, SelectExit, SelectWaitFails, SelectTimeout, SelectLimit, SelectCancelled,
         SelectSenderDropped, Terminate, program
<1>8. CASE Ending
  <2>1. CASE Answer
    <3>1. VerdictReflectsProgram'
      BY <2>1, AnswerReflects
    <3>2. \A s \in Streams : StreamInv(s)'
      <4> SUFFICES ASSUME NEW s \in Streams PROVE StreamInv(s)'
        OBVIOUS
      <4>1. StreamInv(s) /\ TypeOK
        BY DEF OutputInv, IInv
      <4> QED BY <2>1, <4>1, StreamTypes, StreamStutter DEF Answer, program, readers
    <3> QED BY <2>1, <3>1, <3>2 DEF OutputInv, Answer, program, readers
  <2>2. CASE RemoveContainer \/ RemoveNothing \/ WaitChild
    BY <2>2, OtherStepsKeepOutput DEF RemoveContainer, RemoveNothing, WaitChild, program, readers
  <2> QED BY <1>8, <2>1, <2>2 DEF Ending
<1>9. CASE UNCHANGED vars
  BY <1>9, OtherStepsKeepOutput DEF vars, program, readers, executor
<1> QED BY <1>1, <1>3, <1>4, <1>5, <1>6, <1>7, <1>8, <1>9 DEF Next

LEMMA InitOutputInv == Init => OutputInv
<1> SUFFICES ASSUME Init PROVE OutputInv
  OBVIOUS
<1>1. \A s \in Streams : StreamInv(s)
  BY DEF Init, StreamInv
<1>2. VerdictReflectsProgram
  BY DEF Init, VerdictReflectsProgram
<1> QED BY <1>1, <1>2 DEF Init, OutputInv, Streams

(* A learner's verdict is what the harness wrote, with the exit code that goes  *)
(* with it, and the answer to an exit is what the whole output says unless it    *)
(* was cut or a pipe broke: for every limit, every size of a read, and every    *)
(* order of the readers (execute_inner, read_bounded, evidence_from_exit).     *)
THEOREM VerdictsReflectPrograms == Spec => []VerdictReflectsProgram
<1>1. OutputInv => VerdictReflectsProgram
  BY DEF OutputInv
<1> QED BY <1>1, InitOutputInv, StepOutputInv, Invariance, PTL DEF Spec
=============================================================================
