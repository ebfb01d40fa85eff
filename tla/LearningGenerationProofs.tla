----------------------- MODULE LearningGenerationProofs -----------------------
(***************************************************************************)
(* The safety of LearningGeneration for any requests, drafts and gate: the   *)
(* invariant behind its properties, action by action.                        *)
(***************************************************************************)
EXTENDS LearningGeneration, FiniteSetTheorems, TLAPS

-----------------------------------------------------------------------------
(* Modules, lesson by lesson *)

(* A draft that passes against the lessons so far leaves them a valid module    *)
(* (generate_learning_module, build_learning_module_from_compact_ai).         *)
LEMMA AppendKeepsValid ==
  ASSUME NEW t, NEW lessons \in Seq(LessonDrafts), NEW draft \in LessonDrafts,
         ValidModule(t, lessons), Passes(t, Len(lessons), draft, lessons)
  PROVE  ValidModule(t, Append(lessons, draft))
<1> DEFINE more == Append(lessons, draft)
           N == Len(lessons)
<1>1. /\ N \in Nat /\ Len(more) = N + 1 /\ DOMAIN more = 1..(N + 1) /\ DOMAIN lessons = 1..N
      /\ more \in Seq(LessonDrafts)
  OBVIOUS
<1>2. \A n \in 1..N : more[n] = lessons[n]
  OBVIOUS
<1>3. more[N + 1] = draft
  OBVIOUS
<1>4. \A n \in 1..N : SubSeq(more, 1, n - 1) = SubSeq(lessons, 1, n - 1)
  OBVIOUS
<1>5. SubSeq(more, 1, N) = lessons
  OBVIOUS
<1>6. ASSUME NEW n \in DOMAIN more
      PROVE  Passes(t, n - 1, more[n], SubSeq(more, 1, n - 1))
  <2>1. CASE n \in 1..N
    <3>1. Passes(t, n - 1, lessons[n], SubSeq(lessons, 1, n - 1))
      BY <1>1, <2>1 DEF ValidModule
    <3> QED  BY <3>1, <1>2, <1>4, <2>1
  <2>2. CASE n = N + 1
    <3>1. n - 1 = N
      BY <2>2, <1>1
    <3> QED  BY <3>1, <2>2, <1>3, <1>5
  <2> QED  BY <1>1, <2>1, <2>2
<1> QED  BY <1>6 DEF ValidModule

(* No lessons are a valid module, so far.                                     *)
LEMMA EmptyIsValid == ASSUME NEW t PROVE ValidModule(t, <<>>)
  BY DEF ValidModule

-----------------------------------------------------------------------------
(* What a step leaves alone *)

Same(o) ==
  /\ keyed' = keyed
  /\ kind'[o] = kind[o] /\ input'[o] = input[o] /\ index'[o] = index[o]
  /\ priors'[o] = priors[o] /\ pc'[o] = pc[o] /\ repair'[o] = repair[o]
  /\ made'[o] = made[o] /\ answer'[o] = answer[o] /\ calls'[o] = calls[o]
  /\ sessions'[o] = sessions[o]
  /\ o \in runs' <=> o \in runs
  /\ enrolled => enrolled'
  /\ \A command \in Changes : <<o, command>> \in flying' <=> <<o, command>> \in flying

(* A request keeps its invariant while others move.                           *)
LEMMA OthersAreKept ==
  ASSUME NEW o \in Requests, RequestInv(o), Same(o)
  PROVE  RequestInv(o)'
<1> USE DEF Same, RequestInv
<1>1. HandlerInv(o)'
  BY DEF HandlerInv, MayCall, Final
<1>2. MadeInv(o)'
  BY DEF MadeInv
<1>3. KeptInv(o)'
  BY DEF KeptInv
<1>4. Shown(o)'
  BY DEF Shown
<1>5. Retried(o)'
  BY DEF Retried, Final
<1>6. Kept(o)'
  BY DEF Kept
<1> QED  BY <1>1, <1>2, <1>3, <1>4, <1>5, <1>6

(* The counts are kept by a step that neither changes the runs nor their       *)
(* count, and by a disturbance.                                              *)
LEMMA CountsAreKept ==
  ASSUME CountInv, CountsFollowRuns, runs' = runs, counts' = counts, seen' = seen,
         disturbed => disturbed',
         ~disturbed' =>
           \A o \in Requests :
             /\ pc'[o] = "recount" => pc[o] = "recount"
             /\ pc[o] \in {"count", "recount"} => pc'[o] = pc[o]
             /\ \A command \in Changes \ {"store"} :
                  <<o, command>> \in flying' => <<o, command>> \in flying
  PROVE  CountInv' /\ CountsFollowRuns'
<1>1. CountInv'
  BY DEF CountInv
<1>2. CountsFollowRuns'
  <2>1. counts' <= Cardinality(runs')
    BY DEF CountsFollowRuns
  <2>2. ASSUME ~disturbed', \A r \in Requests : pc'[r] \notin {"count", "recount"}
        PROVE  counts' = Cardinality(runs')
    <3>1. ~disturbed /\ \A r \in Requests : pc[r] \notin {"count", "recount"}
      BY <2>2, Zenon
    <3> QED  BY <3>1 DEF CountsFollowRuns
  <2> QED  BY <2>1, <2>2 DEF CountsFollowRuns
<1> QED  BY <1>1, <1>2

LEMMA InitIInv == Init => IInv
<1> SUFFICES ASSUME Init PROVE IInv
  OBVIOUS
<1>1. TypeOK
  <2>1. <<>> \in Seq(LessonDrafts) /\ <<>> \in Seq(Outcomes)
    OBVIOUS
  <2>2. /\ made \in [Requests -> Seq(LessonDrafts)]
        /\ calls \in [Requests -> Seq(Outcomes)]
    BY <2>1 DEF Init, OfRequests
  <2>3. /\ kind \in [Requests -> Kinds \cup {None}]
        /\ input \in [Requests -> LessonTopics \cup {None}]
        /\ index \in [Requests -> Nat] /\ priors \in [Requests -> Priors \cup {<<>>}]
        /\ pc \in [Requests -> {"idle", "asking", "built", "done"} \cup ModuleSteps
                                \cup QuestSteps]
    BY DEF Init, OfRequests
  <2>4. /\ repair \in [Requests -> BOOLEAN] /\ found \in [Requests -> BOOLEAN]
        /\ seen \in [Requests -> Nat] /\ answer \in [Requests -> Answers \cup {None}]
        /\ DOMAIN sessions = Requests
    BY DEF Init, OfRequests
  <2> QED  BY <2>2, <2>3, <2>4 DEF Init, TypeOK
<1>2. ASSUME NEW r \in Requests PROVE RequestInv(r)
  <2>1. /\ kind[r] = None /\ pc[r] = "idle" /\ ~repair[r] /\ made[r] = <<>> /\ answer[r] = None
        /\ sessions[r] = None /\ calls[r] = <<>> /\ runs = {} /\ flying = {}
    BY DEF Init, OfRequests
  <2>2. kind[r] \notin Kinds /\ answer[r] \notin Answers
    BY <2>1, GenerationAssumption
  <2>3. HandlerInv(r)
    BY <2>1 DEF HandlerInv, ModuleSteps, QuestSteps
  <2>4. MadeInv(r)
    BY <2>1, <2>2 DEF MadeInv, Kinds
  <2>5. KeptInv(r)
    BY <2>1 DEF KeptInv
  <2>6. Shown(r)
    BY <2>2 DEF Shown, Kinds
  <2>7. Retried(r)
    BY <2>1, <2>2 DEF Retried, Answers
  <2>8. Kept(r)
    BY <2>1, <2>2 DEF Kept, Answers
  <2> QED  BY <2>3, <2>4, <2>5, <2>6, <2>7, <2>8 DEF RequestInv
<1>3. CountInv /\ CountsFollowRuns
  <2>1. runs = {} /\ Cardinality(runs) = 0 /\ counts = 0 /\ flying = {}
    BY FS_EmptySet DEF Init
  <2>2. \A r \in Requests : seen[r] = 0 /\ pc[r] = "idle"
    BY DEF Init, OfRequests
  <2> QED  BY <2>1, <2>2 DEF CountInv, CountsFollowRuns
<1> QED  BY <1>1, <1>2, <1>3 DEF IInv

(* A step of one request keeps the invariant if it keeps that request's, the   *)
(* types and the counts, and leaves the others alone.                         *)
LEMMA StepKeepsIInv ==
  ASSUME IInv, NEW r \in Requests, \A o \in Requests \ {r} : Same(o),
         TypeOK', RequestInv(r)', CountInv' /\ CountsFollowRuns'
  PROVE  IInv'
<1>1. ASSUME NEW o \in Requests PROVE RequestInv(o)'
  <2>1. CASE o = r
    BY <2>1
  <2>2. CASE o # r
    BY <2>2, OthersAreKept DEF IInv
  <2> QED  BY <2>1, <2>2
<1> QED  BY <1>1 DEF IInv

-----------------------------------------------------------------------------
(* A request comes *)

LEMMA ArriveKeeps ==
  ASSUME IInv, NEW r \in Requests, Arrive(r)
  PROVE  IInv'
<1> USE DEF IInv
<1>1. PICK k \in KindsOf[r], t \in LessonTopics \cup {None}, vague \in BOOLEAN,
           n \in 0..ModuleLength, p \in Priors \cup {<<>>} :
        /\ t = None <=> k \notin {"module", "lesson"}
        /\ k # "lesson" => n = 0 /\ p = <<>>
        /\ kind' = [kind EXCEPT ![r] = k]
        /\ input' = [input EXCEPT ![r] = t]
        /\ index' = [index EXCEPT ![r] = n]
        /\ priors' = [priors EXCEPT ![r] = p]
        /\ IF Refused(vague, n) THEN Answered(r, "refused")
           ELSE /\ pc' = [pc EXCEPT ![r] = "asking"]
                /\ UNCHANGED answer
  BY Zenon DEF Arrive
<1>2. /\ pc[r] = "idle"
      /\ UNCHANGED <<keyed, configured, work, found, seen, database, flying, calls, disturbed>>
  BY DEF Arrive
<1>3. /\ \/ pc' = [pc EXCEPT ![r] = "asking"] /\ answer' = answer
         \/ pc' = [pc EXCEPT ![r] = "done"] /\ answer' = [answer EXCEPT ![r] = "refused"]
  BY <1>1 DEF Answered
<1>4. k \in Kinds /\ None \notin Kinds /\ None \notin Answers /\ ModuleLength \in Nat \ {0}
  BY GenerationAssumption
<1>5. \A o \in Requests \ {r} : Same(o)
  BY <1>1, <1>2, <1>3 DEF Same, TypeOK, work, database
<1>6. TypeOK'
  <2>1. /\ kind' \in [Requests -> Kinds \cup {None}]
        /\ input' \in [Requests -> LessonTopics \cup {None}]
        /\ index' \in [Requests -> Nat] /\ priors' \in [Requests -> Priors \cup {<<>>}]
    BY <1>1, <1>4 DEF TypeOK
  <2>2. /\ pc' \in [Requests -> {"idle", "asking", "built", "done"} \cup ModuleSteps
                                 \cup QuestSteps]
        /\ answer' \in [Requests -> Answers \cup {None}]
    BY <1>3 DEF TypeOK, Answers
  <2> QED  BY <1>2, <2>1, <2>2 DEF TypeOK, work, database
<1>7. RequestInv(r)'
  <2>1. /\ kind'[r] = k /\ pc'[r] \in {"asking", "done"} /\ repair'[r] = repair[r]
        /\ pc'[r] = "asking" => answer'[r] = answer[r]
        /\ pc'[r] = "done" => answer'[r] = "refused"
        /\ made'[r] = made[r] /\ calls'[r] = calls[r] /\ sessions' = sessions
        /\ runs' = runs /\ flying' = flying
    BY <1>1, <1>2, <1>3 DEF TypeOK, work, database
  <2>2. /\ kind[r] = None /\ ~repair[r] /\ made[r] = <<>> /\ answer[r] = None
        /\ sessions[r] = None /\ calls[r] = <<>> /\ r \notin runs
        /\ \A command \in Changes : <<r, command>> \notin flying
    BY <1>2, <1>4 DEF RequestInv, HandlerInv, MadeInv, KeptInv, Kinds
  <2>3. HandlerInv(r)'
    BY <2>1, <2>2, <1>4 DEF HandlerInv, MayCall, ModuleSteps, QuestSteps
  <2>4. MadeInv(r)'
    BY <2>1, <2>2, <1>4, EmptyIsValid DEF MadeInv
  <2>5. KeptInv(r)'
    BY <2>1, <2>2 DEF KeptInv
  <2>6. Shown(r)'
    BY <2>1, <2>2, <1>4 DEF Shown, Answers
  <2>7. Retried(r)'
    BY <2>1, <2>2, <1>4 DEF Retried, Answers
  <2>8. Kept(r)'
    BY <2>1, <2>2, <1>4 DEF Kept, Answers
  <2> QED  BY <2>3, <2>4, <2>5, <2>6, <2>7, <2>8 DEF RequestInv
<1>8. CountInv' /\ CountsFollowRuns'
  BY <1>2, <1>3, CountsAreKept DEF database, TypeOK
<1> QED  BY <1>5, <1>6, <1>7, <1>8, StepKeepsIInv

-----------------------------------------------------------------------------
(* The provider *)

(* A call's outcome is added to a history that allowed it.                     *)
LEMMA CallsAreAllowed ==
  ASSUME NEW r \in Requests, TypeOK, RequestInv(r), pc[r] = "asking",
         NEW outcome, calls'[r] = Append(calls[r], outcome), kind' = kind
  PROVE  \A i \in 1..(Len(calls'[r]) - 1) : ~Final(r, i)'
<1> DEFINE N == Len(calls[r])
<1>1. calls[r] \in Seq(Outcomes) /\ N \in Nat
  BY DEF TypeOK
<1>2. Len(calls'[r]) = N + 1 /\ \A i \in 1..N : calls'[r][i] = calls[r][i]
  BY <1>1
<1>3. MayCall(r) /\ Retried(r)
  BY DEF RequestInv, HandlerInv
<1> SUFFICES ASSUME NEW i \in 1..N
             PROVE  ~Final(r, i)
  BY <1>1, <1>2 DEF Final
<1>4. CASE i < N
  BY <1>1, <1>3, <1>4 DEF Retried
<1>5. CASE i = N
  BY <1>1, <1>3, <1>5 DEF MayCall
<1> QED  BY <1>1, <1>4, <1>5

LEMMA WithoutKeyKeeps ==
  ASSUME IInv, NEW r \in Requests, WithoutKey(r)
  PROVE  IInv'
<1> USE DEF IInv
<1>1. /\ pc[r] = "asking" /\ ~keyed
      /\ pc' = [pc EXCEPT ![r] = "done"] /\ answer' = [answer EXCEPT ![r] = "error"]
      /\ UNCHANGED <<keyed, configured, request, work, found, seen, database, flying, calls,
                     disturbed>>
  BY DEF WithoutKey, Answered
<1>2. \A o \in Requests \ {r} : Same(o)
  BY <1>1 DEF Same, TypeOK, request, work, database
<1>3. TypeOK'
  BY <1>1 DEF TypeOK, Answers, request, work, database
<1>4. RequestInv(r)'
  <2>1. /\ pc'[r] = "done" /\ answer'[r] = "error" /\ kind' = kind /\ calls' = calls
        /\ made' = made /\ sessions' = sessions /\ runs' = runs /\ flying' = flying
        /\ keyed' = keyed /\ enrolled' = enrolled /\ input' = input
    BY <1>1 DEF TypeOK, request, work, database
  <2>2. /\ kind[r] # None /\ sessions[r] = None /\ calls[r] = <<>> /\ r \notin runs
        /\ \A command \in Changes : <<r, command>> \notin flying
    BY <1>1 DEF RequestInv, HandlerInv, KeptInv
  <2>3. HandlerInv(r)'
    BY <2>1, <2>2 DEF HandlerInv, ModuleSteps, QuestSteps
  <2>4. MadeInv(r)'
    BY <2>1 DEF MadeInv, RequestInv
  <2>5. KeptInv(r)'
    BY <2>1, <2>2 DEF KeptInv
  <2>6. Shown(r)'
    BY <2>1 DEF Shown
  <2>7. Retried(r)'
    BY <2>1, <2>2, <1>1 DEF Retried
  <2>8. Kept(r)'
    BY <2>1, <2>2 DEF Kept
  <2> QED  BY <2>3, <2>4, <2>5, <2>6, <2>7, <2>8 DEF RequestInv
<1>5. CountInv' /\ CountsFollowRuns'
  BY <1>1, CountsAreKept DEF database, TypeOK
<1> QED  BY <1>2, <1>3, <1>4, <1>5, StepKeepsIInv

(* What every call leaves alone.                                              *)
LEMMA CallsLeaveOthers ==
  ASSUME TypeOK, NEW r \in Requests, NEW outcome \in Outcomes, Called(r, outcome),
         NEW said \in Answers \cup {None}, NEW next \in {"asking", "built", "profile", "done"},
         pc' = [pc EXCEPT ![r] = next], answer' = [answer EXCEPT ![r] = said],
         repair' \in [Requests -> BOOLEAN],
         \A o \in Requests \ {r} : repair'[o] = repair[o],
         NEW lessons \in Seq(LessonDrafts), made' = [made EXCEPT ![r] = lessons]
  PROVE  /\ \A o \in Requests \ {r} : Same(o)
         /\ TypeOK'
         /\ pc'[r] = next /\ answer'[r] = said /\ made'[r] = lessons
         /\ calls'[r] = Append(calls[r], outcome)
         /\ UNCHANGED <<keyed, kind, input, index, priors, sessions, runs, flying, enrolled>>
<1>1. /\ calls' = [calls EXCEPT ![r] = Append(@, outcome)]
      /\ UNCHANGED <<keyed, configured, kind, input, index, priors, found, seen, sessions,
                     enrolled, counts, runs, flying, disturbed>>
  BY DEF Called, request, database
<1>2. \A o \in Requests \ {r} : Same(o)
  BY <1>1 DEF Same, TypeOK
<1>3. calls' \in [Requests -> Seq(Outcomes)] /\ made' \in [Requests -> Seq(LessonDrafts)]
  BY <1>1 DEF TypeOK
<1>4. /\ pc' \in [Requests -> {"idle", "asking", "built", "done"} \cup ModuleSteps
                               \cup QuestSteps]
      /\ answer' \in [Requests -> Answers \cup {None}]
  BY DEF TypeOK, QuestSteps
<1>5. TypeOK'
  BY <1>1, <1>3, <1>4 DEF TypeOK
<1> QED  BY <1>1, <1>2, <1>5 DEF TypeOK

(* A call changes no count.                                                   *)
LEMMA CallsKeepCounts ==
  ASSUME IInv, NEW r \in Requests, NEW outcome, Called(r, outcome),
         NEW next \in {"asking", "built", "profile", "done"}, pc' = [pc EXCEPT ![r] = next]
  PROVE  CountInv' /\ CountsFollowRuns'
<1>1. /\ pc[r] = "asking" /\ UNCHANGED <<seen, counts, runs, flying, disturbed>>
  BY DEF Called, database
<1>2. \A o \in Requests : /\ pc'[o] = "recount" => pc[o] = "recount"
                         /\ pc[o] \in {"count", "recount"} => pc'[o] = pc[o]
  BY <1>1 DEF IInv, TypeOK
<1> QED  BY <1>1, <1>2, CountsAreKept DEF IInv

(* What holds of a request that may call the provider.                         *)
LEMMA AskingIs ==
  ASSUME IInv, NEW r \in Requests, pc[r] = "asking"
  PROVE  /\ kind[r] # None /\ answer[r] = None /\ sessions[r] = None /\ r \notin runs
         /\ \A command \in Changes : <<r, command>> \notin flying
         /\ MayCall(r)
         /\ calls[r] \in Seq(Outcomes) /\ Len(calls[r]) \in Nat
         /\ made[r] \in Seq(LessonDrafts) /\ Len(made[r]) \in Nat
         /\ repair[r] \in BOOLEAN
         /\ kind[r] = "module" => ValidModule(input[r], made[r]) /\ Len(made[r]) < ModuleLength
         /\ kind[r] # "module" => made[r] = <<>>
<1>1. TypeOK /\ HandlerInv(r) /\ MadeInv(r) /\ KeptInv(r)
  BY DEF IInv, RequestInv
<1>2. /\ kind[r] # None /\ answer[r] = None /\ MayCall(r)
  BY <1>1 DEF HandlerInv
<1>3. /\ sessions[r] = None /\ r \notin runs
      /\ \A command \in Changes : <<r, command>> \notin flying
  BY <1>1 DEF KeptInv
<1>4. /\ calls[r] \in Seq(Outcomes) /\ Len(calls[r]) \in Nat
      /\ made[r] \in Seq(LessonDrafts) /\ Len(made[r]) \in Nat
      /\ repair[r] \in BOOLEAN
  BY <1>1 DEF TypeOK
<1>5. /\ kind[r] = "module" => ValidModule(input[r], made[r]) /\ Len(made[r]) < ModuleLength
      /\ kind[r] # "module" => made[r] = <<>>
  BY <1>1 DEF MadeInv
<1> QED  BY <1>2, <1>3, <1>4, <1>5

(* A call that ends its request in an error keeps the invariant if the error    *)
(* may end it.                                                               *)
LEMMA ErrorsKeep ==
  ASSUME IInv, NEW r \in Requests, NEW outcome \in Outcomes, Called(r, outcome),
         Answered(r, "error"), UNCHANGED work,
         keyed, Final(r, Len(calls[r]))'
  PROVE  IInv'
<1>1. /\ pc[r] = "asking"
      /\ pc' = [pc EXCEPT ![r] = "done"] /\ answer' = [answer EXCEPT ![r] = "error"]
      /\ repair' = repair /\ made' = [made EXCEPT ![r] = made[r]]
  BY DEF Called, Answered, work, IInv, TypeOK
<1>2. /\ kind[r] # None /\ answer[r] = None /\ sessions[r] = None /\ r \notin runs
      /\ \A command \in Changes : <<r, command>> \notin flying
      /\ MayCall(r) /\ calls[r] \in Seq(Outcomes)
      /\ made[r] \in Seq(LessonDrafts) /\ repair[r] \in BOOLEAN
      /\ kind[r] = "module" => ValidModule(input[r], made[r])
  BY <1>1, AskingIs
<1>3. /\ \A o \in Requests \ {r} : Same(o)
      /\ TypeOK'
      /\ pc'[r] = "done" /\ answer'[r] = "error" /\ made'[r] = made[r]
      /\ calls'[r] = Append(calls[r], outcome)
      /\ UNCHANGED <<keyed, kind, input, index, priors, sessions, runs, flying, enrolled>>
  <2>1. TypeOK /\ "error" \in Answers \cup {None} /\ repair' \in [Requests -> BOOLEAN]
    BY <1>1 DEF IInv, Answers, TypeOK
  <2> QED  BY <1>1, <1>2, <2>1, CallsLeaveOthers
<1>4. RequestInv(r)'
  <2>1. HandlerInv(r)'
    BY <1>2, <1>3 DEF HandlerInv, ModuleSteps, QuestSteps
  <2>2. MadeInv(r)'
    BY <1>2, <1>3 DEF MadeInv
  <2>3. KeptInv(r)'
    BY <1>2, <1>3 DEF KeptInv
  <2>4. Shown(r)' /\ Kept(r)'
    BY <1>2, <1>3 DEF Shown, Kept
  <2>5. Retried(r)'
    <3>1. Len(calls'[r]) = Len(calls[r]) + 1 /\ Len(calls[r]) \in Nat
      BY <1>2, <1>3
    <3>2. \A i \in 1..(Len(calls'[r]) - 1) : ~Final(r, i)'
      BY <1>1, <1>3, CallsAreAllowed DEF IInv
    <3> QED  BY <1>3, <3>1, <3>2 DEF Retried, Final
  <2> QED  BY <2>1, <2>2, <2>3, <2>4, <2>5 DEF RequestInv
<1>5. CountInv' /\ CountsFollowRuns'
  BY <1>1, CallsKeepCounts
<1> QED  BY <1>3, <1>4, <1>5, StepKeepsIInv

LEMMA ProviderFailsKeeps ==
  ASSUME IInv, NEW r \in Requests, ProviderFails(r)
  PROVE  IInv'
<1>1. /\ Called(r, "failed") /\ Answered(r, "error") /\ UNCHANGED work
      /\ pc[r] = "asking" /\ keyed /\ "failed" \in Outcomes
      /\ calls' = [calls EXCEPT ![r] = Append(@, "failed")]
  BY DEF ProviderFails, Called, Outcomes
<1>2. calls[r] \in Seq(Outcomes) /\ Len(calls[r]) \in Nat
  BY <1>1, AskingIs
<1>3. Final(r, Len(calls[r]))'
  <2>1. calls'[r] = Append(calls[r], "failed")
    BY <1>1 DEF IInv, TypeOK
  <2> QED  BY <1>2, <2>1 DEF Final
<1> QED  BY <1>1, <1>3, ErrorsKeep

LEMMA RejectKeeps ==
  ASSUME IInv, NEW r \in Requests, Reject(r)
  PROVE  IInv'
<1>1. PICK outcome \in Refusals(r) :
         /\ Called(r, outcome)
         /\ IF Repairs(r, outcome)
            THEN /\ repair' = [repair EXCEPT ![r] = TRUE]
                 /\ UNCHANGED <<pc, answer, made>>
            ELSE /\ Answered(r, "error")
                 /\ UNCHANGED work
  BY DEF Reject
<1>2. /\ pc[r] = "asking" /\ keyed /\ outcome \in Outcomes
      /\ outcome \in {"rejected", "unreadable"}
  BY <1>1 DEF Called, Outcomes, Refusals, Rejections
<1>3. /\ kind[r] # None /\ answer[r] = None /\ sessions[r] = None /\ r \notin runs
      /\ \A command \in Changes : <<r, command>> \notin flying
      /\ MayCall(r) /\ calls[r] \in Seq(Outcomes) /\ Len(calls[r]) \in Nat
      /\ made[r] \in Seq(LessonDrafts) /\ repair[r] \in BOOLEAN
      /\ kind[r] = "module" => ValidModule(input[r], made[r]) /\ Len(made[r]) < ModuleLength
      /\ kind[r] # "module" => made[r] = <<>>
  BY <1>2, AskingIs
<1>4. CASE Repairs(r, outcome)
  <2> kind[r] # "tutor" /\ ~repair[r] /\ outcome = "rejected"
    BY <1>4 DEF Repairs
  <2>1. /\ repair' = [repair EXCEPT ![r] = TRUE] /\ pc' = [pc EXCEPT ![r] = "asking"]
        /\ answer' = [answer EXCEPT ![r] = None] /\ made' = [made EXCEPT ![r] = made[r]]
        /\ repair' \in [Requests -> BOOLEAN] /\ repair'[r]
        /\ \A o \in Requests \ {r} : repair'[o] = repair[o]
    BY <1>1, <1>2, <1>3, <1>4 DEF IInv, TypeOK
  <2>2. /\ \A o \in Requests \ {r} : Same(o)
        /\ TypeOK'
        /\ pc'[r] = "asking" /\ answer'[r] = None /\ made'[r] = made[r] /\ repair'[r]
        /\ calls'[r] = Append(calls[r], outcome)
        /\ UNCHANGED <<keyed, kind, input, index, priors, sessions, runs, flying, enrolled>>
    BY <1>1, <1>2, <1>3, <2>1, CallsLeaveOthers DEF IInv
  <2>3. None \notin Answers
    BY GenerationAssumption
  <2>4. HandlerInv(r)'
    <3>1. MayCall(r)'
      BY <1>3, <2>2 DEF MayCall, Final
    <3> QED  BY <1>1, <1>2, <1>3, <2>2, <3>1 DEF HandlerInv, ModuleSteps, QuestSteps
  <2>5. MadeInv(r)'
    BY <1>3, <2>2 DEF MadeInv
  <2>6. KeptInv(r)'
    BY <1>3, <2>2 DEF KeptInv
  <2>7. Shown(r)' /\ Kept(r)'
    BY <1>3, <2>2, <2>3 DEF Shown, Kept, Answers
  <2>8. Retried(r)'
    <3>1. \A i \in 1..(Len(calls'[r]) - 1) : ~Final(r, i)'
      BY <1>1, <1>2, <2>2, CallsAreAllowed DEF IInv
    <3> QED  BY <2>2, <2>3, <3>1 DEF Retried, Answers
  <2>9. CountInv' /\ CountsFollowRuns'
    BY <1>1, <1>2, <2>1, CallsKeepCounts
  <2>10. RequestInv(r)'
    BY <2>4, <2>5, <2>6, <2>7, <2>8 DEF RequestInv
  <2> QED  BY <2>2, <2>9, <2>10, StepKeepsIInv
<1>5. CASE ~Repairs(r, outcome)
  <2>1. /\ Answered(r, "error") /\ UNCHANGED work
        /\ calls' = [calls EXCEPT ![r] = Append(@, outcome)] /\ kind' = kind
    BY <1>1, <1>5 DEF Called, request
  <2>2. Final(r, Len(calls[r]))'
    <3>1. calls'[r] = Append(calls[r], outcome)
      BY <2>1 DEF IInv, TypeOK
    <3>2. CASE outcome = "unreadable" \/ kind[r] = "tutor"
      BY <1>2, <1>3, <2>1, <3>1, <3>2 DEF Final
    <3>3. CASE outcome = "rejected" /\ repair[r]
      <4>1. Len(calls[r]) > 0 /\ calls[r][Len(calls[r])] = "rejected"
        BY <1>3, <3>3 DEF MayCall
      <4> QED  BY <1>3, <3>1, <3>3, <4>1 DEF Final
    <3> QED  BY <1>2, <1>3, <1>5, <3>2, <3>3 DEF Repairs
  <2> QED  BY <1>1, <1>2, <2>1, <2>2, ErrorsKeep
<1> QED  BY <1>4, <1>5

(* An accepted reply that is shown and not kept keeps the invariant.           *)
LEMMA UnsavedKeeps ==
  ASSUME IInv, NEW r \in Requests, Called(r, "accepted"), Answered(r, "unsaved"),
         kind[r] # "module",
         repair' \in [Requests -> BOOLEAN],
         \A o \in Requests \ {r} : repair'[o] = repair[o],
         NEW lessons \in Seq(LessonDrafts), made' = [made EXCEPT ![r] = lessons],
         kind[r] = "lesson" =>
           Len(lessons) = 1 /\ Passes(input[r], index[r], lessons[1], priors[r])
  PROVE  IInv'
<1>1. /\ pc[r] = "asking" /\ keyed
      /\ pc' = [pc EXCEPT ![r] = "done"] /\ answer' = [answer EXCEPT ![r] = "unsaved"]
  BY DEF Called, Answered
<1>2. /\ kind[r] # None /\ answer[r] = None /\ sessions[r] = None /\ r \notin runs
      /\ \A command \in Changes : <<r, command>> \notin flying
      /\ MayCall(r) /\ calls[r] \in Seq(Outcomes)
  BY <1>1, AskingIs
<1>3. /\ \A o \in Requests \ {r} : Same(o)
      /\ TypeOK'
      /\ pc'[r] = "done" /\ answer'[r] = "unsaved" /\ made'[r] = lessons
      /\ calls'[r] = Append(calls[r], "accepted")
      /\ UNCHANGED <<keyed, kind, input, index, priors, sessions, runs, flying, enrolled>>
  <2>1. TypeOK /\ "unsaved" \in Answers \cup {None} /\ "accepted" \in Outcomes
    BY DEF IInv, Answers, Outcomes
  <2> QED  BY <1>1, <2>1, CallsLeaveOthers
<1>4. RequestInv(r)'
  <2>1. HandlerInv(r)'
    BY <1>1, <1>2, <1>3 DEF HandlerInv, ModuleSteps, QuestSteps
  <2>2. MadeInv(r)'
    BY <1>2, <1>3 DEF MadeInv
  <2>3. KeptInv(r)'
    BY <1>2, <1>3 DEF KeptInv
  <2>4. Shown(r)' /\ Kept(r)'
    BY <1>2, <1>3 DEF Shown, Kept
  <2>5. Retried(r)'
    <3>1. \A i \in 1..(Len(calls'[r]) - 1) : ~Final(r, i)'
      BY <1>1, <1>3, CallsAreAllowed DEF IInv
    <3> QED  BY <1>3, <3>1 DEF Retried
  <2> QED  BY <2>1, <2>2, <2>3, <2>4, <2>5 DEF RequestInv
<1>5. CountInv' /\ CountsFollowRuns'
  BY <1>1, CallsKeepCounts
<1> QED  BY <1>3, <1>4, <1>5, StepKeepsIInv

LEMMA AcceptLessonKeeps ==
  ASSUME IInv, NEW r \in Requests, AcceptLesson(r)
  PROVE  IInv'
<1>1. PICK draft \in LessonDrafts :
         /\ Passes(input[r], Place(r), draft, Earlier(r))
         /\ made' = [made EXCEPT ![r] = Append(@, draft)]
  BY DEF AcceptLesson
<1>2. /\ kind[r] \in {"module", "lesson"} /\ Called(r, "accepted") /\ pc[r] = "asking" /\ keyed
      /\ repair' = [repair EXCEPT ![r] = FALSE]
      /\ IF kind[r] = "lesson" THEN Answered(r, "unsaved")
         ELSE /\ pc' = [pc EXCEPT ![r] = IF Len(made'[r]) = ModuleLength THEN "built" ELSE "asking"]
              /\ UNCHANGED answer
  BY DEF AcceptLesson, Called
<1>3. /\ kind[r] # None /\ answer[r] = None /\ sessions[r] = None /\ r \notin runs
      /\ \A command \in Changes : <<r, command>> \notin flying
      /\ MayCall(r) /\ calls[r] \in Seq(Outcomes) /\ Len(calls[r]) \in Nat
      /\ made[r] \in Seq(LessonDrafts) /\ Len(made[r]) \in Nat
      /\ kind[r] = "module" => ValidModule(input[r], made[r]) /\ Len(made[r]) < ModuleLength
      /\ kind[r] # "module" => made[r] = <<>>
  BY <1>2, AskingIs
<1> DEFINE lessons == Append(made[r], draft)
<1>4. /\ lessons \in Seq(LessonDrafts) /\ made' = [made EXCEPT ![r] = lessons]
      /\ Len(lessons) = Len(made[r]) + 1
      /\ repair' \in [Requests -> BOOLEAN] /\ ~repair'[r]
      /\ \A o \in Requests \ {r} : repair'[o] = repair[o]
  BY <1>1, <1>2, <1>3 DEF IInv, TypeOK
<1>5. CASE kind[r] = "lesson"
  <2>1. Len(lessons) = 1 /\ lessons[1] = draft
    BY <1>3, <1>5
  <2>2. Passes(input[r], index[r], lessons[1], priors[r])
    BY <1>1, <1>5, <2>1 DEF Place, Earlier
  <2>3. Answered(r, "unsaved")
    BY <1>2, <1>5
  <2> HIDE DEF lessons
  <2> QED  BY <1>2, <1>4, <1>5, <2>1, <2>2, <2>3, UnsavedKeeps
<1>6. CASE kind[r] = "module"
  <2> DEFINE next == IF Len(lessons) = ModuleLength THEN "built" ELSE "asking"
  <2>1. ValidModule(input[r], lessons)
    <3>1. Passes(input[r], Len(made[r]), draft, made[r])
      BY <1>1, <1>6 DEF Place, Earlier
    <3> QED  BY <1>3, <1>6, <3>1, AppendKeepsValid
  <2> HIDE DEF lessons
  <2>2. made'[r] = lessons
    BY <1>4 DEF IInv, TypeOK
  <2>3. pc' = [pc EXCEPT ![r] = next] /\ answer' = [answer EXCEPT ![r] = None]
    BY <1>2, <1>3, <1>6, <2>2 DEF IInv, TypeOK
  <2>4. next \in {"asking", "built"} /\ (next = "built" <=> Len(lessons) = ModuleLength)
    OBVIOUS
  <2> HIDE DEF next
  <2>5. /\ \A o \in Requests \ {r} : Same(o)
        /\ TypeOK'
        /\ pc'[r] = next /\ answer'[r] = None
        /\ calls'[r] = Append(calls[r], "accepted")
        /\ UNCHANGED <<keyed, kind, input, index, priors, sessions, runs, flying, enrolled>>
    <3>1. TypeOK /\ "accepted" \in Outcomes /\ next \in {"asking", "built", "profile", "done"}
      BY <2>4 DEF IInv, Outcomes
    <3> QED  BY <1>2, <1>4, <2>3, <3>1, CallsLeaveOthers
  <2>6. None \notin Answers
    BY GenerationAssumption
  <2>7. HandlerInv(r)'
    <3>1. MayCall(r)'
      BY <1>3, <1>4, <1>6, <2>5 DEF MayCall, Final
    <3> QED  BY <1>2, <1>3, <1>6, <2>2, <2>4, <2>5, <3>1 DEF HandlerInv, ModuleSteps, QuestSteps
  <2>8. MadeInv(r)'
    <3>1. ModuleLength \in Nat
      BY GenerationAssumption
    <3>2. next = "asking" => Len(lessons) < ModuleLength
      BY <1>3, <1>4, <1>6, <2>4, <3>1
    <3> QED  BY <1>6, <2>1, <2>2, <2>5, <3>2 DEF MadeInv
  <2>9. KeptInv(r)'
    BY <1>3, <1>6, <2>4, <2>5 DEF KeptInv
  <2>10. Shown(r)' /\ Kept(r)'
    BY <1>6, <2>5, <2>6 DEF Shown, Kept, Answers
  <2>11. Retried(r)'
    <3>1. \A i \in 1..(Len(calls'[r]) - 1) : ~Final(r, i)'
      BY <1>2, <2>5, CallsAreAllowed DEF IInv
    <3> QED  BY <2>5, <2>6, <3>1 DEF Retried, Answers
  <2>12. CountInv' /\ CountsFollowRuns'
    BY <1>2, <2>3, <2>4, CallsKeepCounts
  <2>13. RequestInv(r)'
    BY <2>7, <2>8, <2>9, <2>10, <2>11 DEF RequestInv
  <2> QED  BY <2>5, <2>12, <2>13, StepKeepsIInv
<1> QED  BY <1>2, <1>5, <1>6

LEMMA AcceptTutorKeeps ==
  ASSUME IInv, NEW r \in Requests, AcceptTutor(r)
  PROVE  IInv'
<1>1. /\ kind[r] = "tutor" /\ Called(r, "accepted") /\ Answered(r, "unsaved") /\ UNCHANGED work
  BY DEF AcceptTutor
<1>2. /\ made[r] \in Seq(LessonDrafts) /\ made' = [made EXCEPT ![r] = made[r]]
      /\ repair' \in [Requests -> BOOLEAN]
      /\ \A o \in Requests \ {r} : repair'[o] = repair[o]
  BY <1>1 DEF IInv, TypeOK, work
<1> QED  BY <1>1, <1>2, UnsavedKeeps

LEMMA AcceptQuestKeeps ==
  ASSUME IInv, NEW r \in Requests, AcceptQuest(r)
  PROVE  IInv'
<1>1. /\ kind[r] = "quest" /\ Called(r, "accepted") /\ UNCHANGED work
      /\ pc[r] = "asking" /\ keyed /\ "accepted" \in Outcomes
  BY DEF AcceptQuest, Called, Outcomes
<1>2. /\ made[r] \in Seq(LessonDrafts) /\ made' = [made EXCEPT ![r] = made[r]]
      /\ repair' \in [Requests -> BOOLEAN]
      /\ \A o \in Requests \ {r} : repair'[o] = repair[o]
  BY <1>1 DEF IInv, TypeOK, work
<1>3. CASE ~configured
  BY <1>1, <1>2, <1>3, UnsavedKeeps DEF AcceptQuest
<1>4. CASE configured
  <2>1. /\ kind[r] # None /\ answer[r] = None /\ sessions[r] = None /\ r \notin runs
        /\ \A command \in Changes : <<r, command>> \notin flying
        /\ made[r] = <<>>
    BY <1>1, AskingIs
  <2>2. pc' = [pc EXCEPT ![r] = "profile"] /\ answer' = [answer EXCEPT ![r] = None]
    BY <1>4, <2>1 DEF AcceptQuest, IInv, TypeOK
  <2>3. /\ \A o \in Requests \ {r} : Same(o)
        /\ TypeOK'
        /\ pc'[r] = "profile" /\ answer'[r] = None /\ made'[r] = made[r]
        /\ calls'[r] = Append(calls[r], "accepted")
        /\ UNCHANGED <<keyed, kind, input, index, priors, sessions, runs, flying, enrolled>>
    BY <1>1, <1>2, <2>2, CallsLeaveOthers DEF IInv
  <2>4. None \notin Answers
    BY GenerationAssumption
  <2>5. HandlerInv(r)'
    BY <1>1, <2>1, <2>3 DEF HandlerInv, ModuleSteps, QuestSteps
  <2>6. MadeInv(r)'
    BY <1>1, <2>1, <2>3 DEF MadeInv
  <2>7. KeptInv(r)'
    BY <1>1, <2>1, <2>3 DEF KeptInv
  <2>8. Shown(r)' /\ Kept(r)'
    BY <1>1, <2>3, <2>4 DEF Shown, Kept, Answers
  <2>9. Retried(r)'
    <3>1. \A i \in 1..(Len(calls'[r]) - 1) : ~Final(r, i)'
      BY <1>1, <2>3, CallsAreAllowed DEF IInv
    <3> QED  BY <2>3, <2>4, <3>1 DEF Retried, Answers
  <2>10. CountInv' /\ CountsFollowRuns'
    BY <1>1, <2>2, CallsKeepCounts
  <2>11. RequestInv(r)'
    BY <2>5, <2>6, <2>7, <2>8, <2>9 DEF RequestInv
  <2> QED  BY <2>3, <2>10, <2>11, StepKeepsIInv
<1> QED  BY <1>3, <1>4

-----------------------------------------------------------------------------
(* The database *)

After == {"done"} \cup ModuleSteps \cup QuestSteps

(* Once the provider's answers are in, a step of a request keeps its           *)
(* invariant if it goes on in order, leaves commands behind only when it ends,  *)
(* and says "saved" only of what the database holds.                          *)
LEMMA SavesKeepRequest ==
  ASSUME IInv, NEW r \in Requests, pc[r] # "idle",
         UNCHANGED <<keyed, kind, input, index, priors, made, calls>>,
         pc'[r] \in After,
         pc'[r] \in ModuleSteps => pc[r] \in {"built"} \cup ModuleSteps,
         pc'[r] \in QuestSteps => pc[r] \in QuestSteps,
         answer'[r] \in {None, "warned", "saved"},
         pc'[r] # "done" => answer'[r] = None,
         answer'[r] # None =>
           answer'[r] = answer[r] \/ pc[r] \in {"built"} \cup ModuleSteps \cup QuestSteps,
         sessions'[r] \in {sessions[r], made[r]},
         kind[r] # "module" => sessions'[r] = sessions[r],
         enrolled => enrolled',
         pc'[r] \in {"record", "count", "recount"} => enrolled',
         pc'[r] \in {"count", "recount"} => r \in runs',
         answer'[r] = "saved" =>
           \/ kind[r] = "module" /\ sessions'[r] = made[r]
           \/ kind[r] = "quest" /\ r \in runs' /\ enrolled',
         \A command \in Changes : <<r, command>> \in flying' =>
           /\ pc'[r] = "done" /\ answer'[r] \in {None, "warned"}
           /\ command = "store" <=> kind[r] = "module"
  PROVE  RequestInv(r)'
<1>1. HandlerInv(r) /\ MadeInv(r) /\ KeptInv(r) /\ Shown(r) /\ Retried(r)
  BY DEF IInv, RequestInv
<1>2. /\ None \notin Answers /\ None # "warned" /\ None # "saved"
      /\ None # "error" /\ None # "unsaved" /\ None # "refused"
  BY GenerationAssumption DEF Answers
<1>3. pc'[r] \notin {"idle", "asking", "built"}
  BY DEF After, ModuleSteps, QuestSteps
<1>4. HandlerInv(r)'
  BY <1>1, <1>3 DEF HandlerInv, ModuleSteps, QuestSteps
<1>5. MadeInv(r)'
  <2>1. kind[r] # "module" /\ pc'[r] # "done" => made[r] = <<>>
    BY <1>1, <1>3 DEF HandlerInv, MadeInv, After, ModuleSteps, QuestSteps
  <2> QED  BY <1>1, <1>3, <2>1 DEF MadeInv
<1>6. KeptInv(r)'
  BY <1>1, <1>3 DEF KeptInv
<1>7. Shown(r)'
  <2>1. CASE answer'[r] = None
    BY <1>2, <2>1 DEF Shown
  <2>2. CASE answer'[r] = answer[r]
    BY <1>1, <2>2 DEF Shown
  <2>3. CASE pc[r] \in {"built"} \cup ModuleSteps
    BY <1>1, <2>3 DEF Shown, HandlerInv, MadeInv
  <2>4. CASE pc[r] \in QuestSteps
    BY <1>1, <2>4 DEF Shown, HandlerInv
  <2> QED  BY <2>1, <2>2, <2>3, <2>4
<1>8. Retried(r)'
  BY <1>1, <1>2 DEF Retried, Final
<1>9. Kept(r)'
  BY <1>2 DEF Kept
<1> QED  BY <1>4, <1>5, <1>6, <1>7, <1>8, <1>9 DEF RequestInv

(* What holds of a request past its calls.                                     *)
LEMMA NothingFlies ==
  ASSUME IInv, NEW r \in Requests, pc[r] # "done"
  PROVE  /\ \A command \in Changes : <<r, command>> \notin flying
         /\ answer[r] = None
         /\ pc[r] \in ModuleSteps => kind[r] = "module"
         /\ pc[r] \in QuestSteps => kind[r] = "quest"
         /\ pc[r] \in {"record", "count", "recount"} => enrolled
         /\ pc[r] \in {"count", "recount"} => r \in runs
<1>1. HandlerInv(r) /\ KeptInv(r)
  BY DEF IInv, RequestInv
<1>2. \A command \in Changes : <<r, command>> \notin flying
  BY <1>1 DEF KeptInv
<1> QED  BY <1>1, <1>2 DEF HandlerInv, KeptInv

(* A step that changes nothing in the database.                                *)
LEMMA QuietKeeps ==
  ASSUME IInv, NEW r \in Requests, pc[r] \notin {"idle", "asking", "done"},
         NEW next \in After, pc' = [pc EXCEPT ![r] = next],
         NEW said \in {None, "warned"}, answer' = [answer EXCEPT ![r] = said],
         next # "done" => said = None,
         next \in ModuleSteps => pc[r] \in {"built"} \cup ModuleSteps,
         next \in QuestSteps => pc[r] \in QuestSteps,
         next \in {"record", "count", "recount"} => enrolled,
         next \in {"count", "recount"} => r \in runs,
         found' \in [Requests -> BOOLEAN], seen' \in [Requests -> Nat],
         UNCHANGED <<keyed, configured, request, work, database, flying, calls, disturbed>>,
         CountInv' /\ CountsFollowRuns'
  PROVE  IInv'
<1>1. TypeOK /\ "warned" \in Answers
  BY DEF IInv, Answers
<1>2. \A o \in Requests \ {r} : Same(o)
  BY <1>1 DEF Same, TypeOK, request, work, database
<1>3. TypeOK'
  <2>1. /\ pc' \in [Requests -> {"idle", "asking", "built", "done"} \cup ModuleSteps
                                 \cup QuestSteps]
        /\ answer' \in [Requests -> Answers \cup {None}]
    BY <1>1 DEF TypeOK, After
  <2> QED  BY <1>1, <2>1 DEF TypeOK, request, work, database
<1>4. RequestInv(r)'
  <2>1. /\ pc'[r] = next /\ answer'[r] = said
        /\ UNCHANGED <<keyed, kind, input, index, priors, made, calls, sessions, enrolled, runs,
                       flying>>
    BY <1>1 DEF TypeOK, request, work, database
  <2>2. \A command \in Changes : <<r, command>> \notin flying'
    BY <2>1, NothingFlies
  <2>3. pc[r] \in {"built"} \cup ModuleSteps \cup QuestSteps
    BY <1>1 DEF TypeOK
  <2>4. said # "saved"
    BY GenerationAssumption DEF Answers
  <2> QED  BY <2>1, <2>2, <2>3, <2>4, SavesKeepRequest
<1> QED  BY <1>2, <1>3, <1>4, StepKeepsIInv

LEMMA BuildKeeps ==
  ASSUME IInv, NEW r \in Requests, Build(r)
  PROVE  IInv'
<1>1. /\ pc[r] = "built"
      /\ UNCHANGED <<keyed, configured, request, work, found, seen, database, flying, calls,
                     disturbed>>
  BY DEF Build
<1>2. /\ kind[r] = "module" /\ ValidModule(input[r], made[r]) /\ answer[r] = None
  BY <1>1 DEF IInv, RequestInv, HandlerInv, MadeInv
<1>3. /\ found' \in [Requests -> BOOLEAN] /\ seen' \in [Requests -> Nat]
      /\ TypeOK
  BY <1>1 DEF IInv, TypeOK
<1>4. CASE configured
  <2>1. pc' = [pc EXCEPT ![r] = "find"] /\ answer' = [answer EXCEPT ![r] = None]
    BY <1>2, <1>4, <1>3 DEF Build, TypeOK
  <2>2. CountInv' /\ CountsFollowRuns'
    BY <1>1, <1>3, <2>1, CountsAreKept DEF IInv, TypeOK, database
  <2>3. /\ "find" \in After /\ "find" \in ModuleSteps
        /\ "find" \notin QuestSteps \cup {"record", "count", "recount"}
    BY DEF After, ModuleSteps, QuestSteps
  <2> QED  BY <1>1, <1>3, <2>1, <2>2, <2>3, QuietKeeps
<1>5. CASE ~configured
  <2>1. pc' = [pc EXCEPT ![r] = "done"] /\ answer' = [answer EXCEPT ![r] = "warned"]
    BY <1>2, <1>5 DEF Build, Answered
  <2>2. CountInv' /\ CountsFollowRuns'
    BY <1>1, <1>3, <2>1, CountsAreKept DEF IInv, TypeOK, database
  <2> QED  BY <1>1, <1>3, <2>1, <2>2, QuietKeeps DEF After, ModuleSteps, QuestSteps
<1> QED  BY <1>4, <1>5

LEMMA FindSessionKeeps ==
  ASSUME IInv, NEW r \in Requests, FindSession(r)
  PROVE  IInv'
<1>1. /\ pc[r] = "find" /\ pc' = [pc EXCEPT ![r] = "store"] /\ answer' = answer
      /\ UNCHANGED <<keyed, configured, request, work, found, seen, database, flying, calls,
                     disturbed>>
  BY DEF FindSession
<1>2. /\ found' \in [Requests -> BOOLEAN] /\ seen' \in [Requests -> Nat] /\ TypeOK
      /\ answer' = [answer EXCEPT ![r] = None]
  BY <1>1, NothingFlies DEF IInv, TypeOK
<1>3. CountInv' /\ CountsFollowRuns'
  BY <1>1, <1>2, CountsAreKept DEF IInv, TypeOK, database
<1>4. /\ "store" \in After /\ "store" \in ModuleSteps /\ "find" \in ModuleSteps
      /\ "store" \notin QuestSteps
  BY DEF After, ModuleSteps, QuestSteps
<1> QED  BY <1>1, <1>2, <1>3, <1>4, QuietKeeps

LEMMA FindProfileKeeps ==
  ASSUME IInv, NEW r \in Requests, FindProfile(r)
  PROVE  IInv'
<1>1. /\ pc[r] = "profile" /\ pc' = [pc EXCEPT ![r] = "enrol"] /\ answer' = answer
      /\ found' = [found EXCEPT ![r] = enrolled]
      /\ UNCHANGED <<keyed, configured, request, work, seen, database, flying, calls, disturbed>>
  BY DEF FindProfile
<1>2. /\ found' \in [Requests -> BOOLEAN] /\ seen' \in [Requests -> Nat] /\ TypeOK
      /\ answer' = [answer EXCEPT ![r] = None]
  BY <1>1, NothingFlies DEF IInv, TypeOK
<1>3. CountInv' /\ CountsFollowRuns'
  BY <1>1, <1>2, CountsAreKept DEF IInv, TypeOK, database
<1>4. /\ "enrol" \in After /\ "enrol" \in QuestSteps /\ "profile" \in QuestSteps
      /\ "enrol" \notin ModuleSteps
  BY DEF After, ModuleSteps, QuestSteps
<1> QED  BY <1>1, <1>2, <1>3, <1>4, QuietKeeps

LEMMA DuplicateKeeps ==
  ASSUME IInv, NEW r \in Requests, Duplicate(r)
  PROVE  IInv'
<1>1. /\ pc[r] = "enrol" /\ pc' = [pc EXCEPT ![r] = "done"]
      /\ answer' = [answer EXCEPT ![r] = "warned"]
      /\ UNCHANGED <<keyed, configured, request, work, found, seen, database, flying, calls,
                     disturbed>>
  BY DEF Duplicate, Answered
<1>2. /\ found' \in [Requests -> BOOLEAN] /\ seen' \in [Requests -> Nat] /\ TypeOK
  BY <1>1 DEF IInv, TypeOK
<1>3. CountInv' /\ CountsFollowRuns'
  BY <1>1, <1>2, CountsAreKept DEF IInv, TypeOK, database
<1>4. "done" \in After /\ "done" \notin ModuleSteps /\ "done" \notin QuestSteps
  BY DEF After, ModuleSteps, QuestSteps
<1> QED  BY <1>1, <1>2, <1>3, <1>4, QuietKeeps

LEMMA RunsAreFinite ==
  ASSUME TypeOK
  PROVE  IsFiniteSet(runs) /\ Cardinality(runs) \in Nat
<1>1. IsFiniteSet(runs)
  BY GenerationAssumption, FS_Subset DEF TypeOK
<1> QED  BY <1>1, FS_CardinalityType

LEMMA CountRunsKeeps ==
  ASSUME IInv, NEW r \in Requests, CountRuns(r)
  PROVE  IInv'
<1>1. /\ pc[r] = "count" /\ pc' = [pc EXCEPT ![r] = "recount"] /\ answer' = answer
      /\ seen' = [seen EXCEPT ![r] = Cardinality(runs)]
      /\ UNCHANGED <<keyed, configured, request, work, found, database, flying, calls,
                     disturbed>>
  BY DEF CountRuns
<1>2. /\ TypeOK /\ CountInv /\ CountsFollowRuns /\ Cardinality(runs) \in Nat
      /\ runs' = runs /\ counts' = counts
  BY <1>1, RunsAreFinite DEF IInv, database
<1>3. /\ found' \in [Requests -> BOOLEAN] /\ seen' \in [Requests -> Nat]
      /\ answer' = [answer EXCEPT ![r] = None]
  BY <1>1, <1>2, NothingFlies DEF TypeOK
<1>4. CountInv'
  <2>1. \A o \in Requests : seen'[o] <= Cardinality(runs)
    BY <1>1, <1>2 DEF CountInv, TypeOK
  <2>2. \A o \in Requests : pc'[o] = "recount" /\ seen'[o] # Cardinality(runs) =>
          pc[o] = "recount" /\ seen'[o] = seen[o]
    BY <1>1, <1>2 DEF TypeOK
  <2> QED  BY <1>1, <1>2, <2>1, <2>2 DEF CountInv
<1>5. CountsFollowRuns'
  <2>1. pc'[r] = "recount"
    BY <1>1, <1>2 DEF TypeOK
  <2> QED  BY <1>2, <2>1 DEF CountsFollowRuns
<1>6. enrolled /\ r \in runs
  BY <1>1, NothingFlies
<1>7. /\ "recount" \in After /\ "recount" \in QuestSteps /\ "count" \in QuestSteps
      /\ "recount" \notin ModuleSteps
  BY DEF After, ModuleSteps, QuestSteps
<1> QED  BY <1>1, <1>3, <1>4, <1>5, <1>6, <1>7, QuietKeeps

(* What a command does to the rest.                                           *)
LEMMA EffectsAreOwn ==
  ASSUME TypeOK, NEW r \in Requests, NEW command \in Changes, Effect(r, command)
  PROVE  /\ \A o \in Requests \ {r} : sessions'[o] = sessions[o] /\ (o \in runs' <=> o \in runs)
         /\ sessions'[r] \in {sessions[r], made[r]}
         /\ command = "store" => sessions'[r] = made[r] /\ runs' = runs /\ counts' = counts
         /\ command # "store" => sessions' = sessions
         /\ command = "enrol" => enrolled' /\ runs' = runs /\ counts' = counts
         /\ command = "record" => r \in runs' /\ runs' = runs \cup {r} /\ counts' = counts
         /\ command = "recount" => runs' = runs /\ counts' = seen[r]
         /\ enrolled => enrolled'
         /\ runs \subseteq runs' /\ runs' \subseteq Requests
         /\ DOMAIN sessions' = Requests /\ enrolled' \in BOOLEAN /\ counts' \in Nat
         /\ disturbed' \in BOOLEAN /\ (disturbed => disturbed')
<1>1. /\ sessions' = IF command = "store" THEN [sessions EXCEPT ![r] = made[r]] ELSE sessions
      /\ enrolled' = (enrolled \/ command = "enrol")
      /\ runs' = IF command = "record" THEN runs \cup {r} ELSE runs
      /\ counts' = IF command = "recount" THEN seen[r] ELSE counts
      /\ disturbed' = (disturbed \/ (command = "record" /\ \E o \in Requests \ {r} : Counted(o)))
  BY DEF Effect
<1>2. /\ \A o \in Requests \ {r} : sessions'[o] = sessions[o]
      /\ sessions'[r] \in {sessions[r], made[r]} /\ DOMAIN sessions' = Requests
      /\ command = "store" => sessions'[r] = made[r]
      /\ command # "store" => sessions' = sessions
  BY <1>1 DEF TypeOK
<1>3. /\ enrolled' \in BOOLEAN /\ (enrolled => enrolled') /\ (command = "enrol" => enrolled')
      /\ disturbed' \in BOOLEAN /\ (disturbed => disturbed')
  BY <1>1, Zenon DEF TypeOK
<1>4. /\ \A o \in Requests \ {r} : o \in runs' <=> o \in runs
      /\ runs \subseteq runs' /\ runs' \subseteq Requests
      /\ command # "record" => runs' = runs
      /\ command = "record" => r \in runs' /\ runs' = runs \cup {r}
  BY <1>1 DEF TypeOK
<1>5. /\ counts' \in Nat
      /\ command # "recount" => counts' = counts
      /\ command = "recount" => counts' = seen[r]
  BY <1>1 DEF TypeOK
<1> QED  BY <1>2, <1>3, <1>4, <1>5

(* A command keeps the counts, whether its handler waits for it or not.         *)
LEMMA EffectsKeepCounts ==
  ASSUME IInv, NEW r \in Requests, NEW command \in Changes, Effect(r, command),
         seen' = seen, flying' \subseteq flying,
         \A o \in Requests \ {r} : pc'[o] = pc[o],
         \/ /\ pc[r] = command
            /\ pc'[r] = IF command = "enrol" THEN "record"
                        ELSE IF command = "record" THEN "count" ELSE "done"
         \/ <<r, command>> \in flying /\ pc'[r] = pc[r]
  PROVE  CountInv' /\ CountsFollowRuns'
<1>1. TypeOK /\ CountInv /\ CountsFollowRuns
  BY DEF IInv
<1>2. /\ command \in {"store", "enrol"} => runs' = runs /\ counts' = counts
      /\ command = "record" => runs' = runs \cup {r} /\ counts' = counts
      /\ command = "recount" => runs' = runs /\ counts' = seen[r]
      /\ runs \subseteq runs' /\ runs' \subseteq Requests /\ counts' \in Nat
      /\ disturbed => disturbed'
  BY <1>1, EffectsAreOwn
<1>3. Cardinality(runs) \in Nat /\ Cardinality(runs') \in Nat /\ Cardinality(runs) <= Cardinality(runs')
  <2>1. IsFiniteSet(runs')
    BY <1>2, GenerationAssumption, FS_Subset
  <2> QED  BY <1>1, <1>2, <2>1, RunsAreFinite, FS_Subset, FS_CardinalityType
<1>4. \A o \in Requests : seen[o] \in Nat /\ seen[o] <= Cardinality(runs)
  BY <1>1 DEF TypeOK, CountInv
<1>5. (\A o \in Requests : seen'[o] <= Cardinality(runs')) /\ counts' <= Cardinality(runs')
  <2>1. counts \in Nat /\ counts <= Cardinality(runs)
    BY <1>1 DEF TypeOK, CountsFollowRuns
  <2> QED  BY <1>2, <1>3, <1>4, <2>1 DEF Changes
<1>6. ASSUME ~disturbed'
      PROVE  /\ \A o \in Requests :
                  /\ \A other \in Changes \ {"store"} : <<o, other>> \notin flying'
                  /\ pc'[o] = "recount" => seen'[o] = Cardinality(runs')
             /\ (\A o \in Requests : pc'[o] \notin {"count", "recount"}) =>
                  counts' = Cardinality(runs')
  <2>1. ~disturbed
    BY <1>2, <1>6
  <2>2. \A o \in Requests :
          /\ \A other \in Changes \ {"store"} : <<o, other>> \notin flying
          /\ pc[o] = "recount" => seen[o] = Cardinality(runs)
    BY <1>1, <2>1 DEF CountInv
  <2>3. (\A o \in Requests : pc[o] \notin {"count", "recount"}) => counts = Cardinality(runs)
    BY <1>1, <2>1 DEF CountsFollowRuns
  <2>4. command = "record" => \A o \in Requests \ {r} : pc[o] # "recount"
    BY <1>6 DEF Effect, Counted
  <2>5. \A o \in Requests, other \in Changes \ {"store"} : <<o, other>> \notin flying'
    BY <2>2
  <2>6. CASE command = "record"
    <3>1. pc'[r] = "count"
      BY <2>2, <2>6
    <3>2. \A o \in Requests : pc'[o] # "recount"
      BY <2>4, <2>6, <3>1
    <3> QED  BY <2>5, <3>1, <3>2
  <2>7. CASE command = "recount"
    <3>1. pc[r] = "recount" /\ pc'[r] = "done"
      BY <2>2, <2>7
    <3> QED  BY <1>2, <2>2, <2>5, <2>7, <3>1
  <2>8. CASE command \in {"store", "enrol"}
    <3>1. pc'[r] \notin {"count", "recount"} => pc[r] \notin {"count", "recount"}
      BY <2>8
    <3>2. pc'[r] = "recount" => pc[r] = "recount"
      BY <2>8
    <3> QED  BY <1>2, <2>2, <2>3, <2>5, <2>8, <3>1, <3>2
  <2> QED  BY <2>6, <2>7, <2>8 DEF Changes
<1>7. CountInv'
  BY <1>5, <1>6, Zenon DEF CountInv
<1>8. CountsFollowRuns'
  BY <1>5, <1>6, Zenon DEF CountsFollowRuns
<1> QED  BY <1>7, <1>8

LEMMA ChangeKeeps ==
  ASSUME IInv, NEW r \in Requests, NEW command \in Changes, NEW next,
         Change(r, command, next),
         next = IF command = "enrol" THEN "record"
                ELSE IF command = "record" THEN "count" ELSE "done"
  PROVE  IInv'
<1>1. /\ pc[r] = command /\ Effect(r, command) /\ TypeOK
      /\ UNCHANGED <<keyed, configured, kind, input, index, priors, repair, made, found, seen,
                     flying, calls>>
  BY DEF Change, IInv, request, work
<1>2. /\ \A o \in Requests \ {r} : sessions'[o] = sessions[o] /\ (o \in runs' <=> o \in runs)
      /\ sessions'[r] \in {sessions[r], made[r]}
      /\ command = "store" => sessions'[r] = made[r]
      /\ command # "store" => sessions' = sessions
      /\ command = "enrol" => enrolled'
      /\ command = "record" => r \in runs'
      /\ enrolled => enrolled'
      /\ runs \subseteq runs' /\ runs' \subseteq Requests
      /\ DOMAIN sessions' = Requests /\ enrolled' \in BOOLEAN /\ counts' \in Nat
      /\ disturbed' \in BOOLEAN
  BY <1>1, EffectsAreOwn
<1>3. /\ \A missing \in Changes : <<r, missing>> \notin flying
      /\ answer[r] = None
      /\ command = "store" => kind[r] = "module"
      /\ command # "store" => kind[r] = "quest"
      /\ command \in {"record", "recount"} => enrolled
      /\ command = "recount" => r \in runs
  <2>1. command # "done" /\ (command # "store" => command \in QuestSteps) /\ "store" \in ModuleSteps
    BY DEF Changes, QuestSteps, ModuleSteps
  <2> QED  BY <1>1, <2>1, NothingFlies
<1>4. /\ pc' = [pc EXCEPT ![r] = next]
      /\ answer' = [answer EXCEPT ![r] = IF next = "done" THEN "saved" ELSE None]
  BY <1>1, <1>3 DEF Change, Answered, TypeOK
<1>5. pc'[r] = next /\ answer'[r] = IF next = "done" THEN "saved" ELSE None
  BY <1>1, <1>4 DEF TypeOK
<1>6. \A o \in Requests \ {r} : Same(o)
  <2> SUFFICES ASSUME NEW o \in Requests \ {r} PROVE Same(o)
    OBVIOUS
  <2>1. pc'[o] = pc[o] /\ answer'[o] = answer[o]
    BY <1>1, <1>4 DEF TypeOK
  <2>2. /\ keyed' = keyed /\ kind' = kind /\ input' = input /\ index' = index
        /\ priors' = priors /\ repair' = repair /\ made' = made /\ calls' = calls
    BY <1>1
  <2>3. sessions'[o] = sessions[o] /\ (o \in runs' <=> o \in runs) /\ (enrolled => enrolled')
    BY <1>2, Zenon
  <2>4. flying' = flying
    BY <1>1
  <2> QED  BY <2>1, <2>2, <2>3, <2>4, Zenon DEF Same
<1>7. TypeOK'
  <2>1. /\ pc' \in [Requests -> {"idle", "asking", "built", "done"} \cup ModuleSteps
                                 \cup QuestSteps]
        /\ answer' \in [Requests -> Answers \cup {None}]
    BY <1>1, <1>4 DEF TypeOK, QuestSteps, Answers
  <2> QED  BY <1>1, <1>2, <2>1 DEF TypeOK
<1>8. RequestInv(r)'
  <2>1. /\ pc[r] # "idle" /\ pc'[r] \in After
        /\ pc'[r] \notin ModuleSteps
        /\ pc[r] \in ModuleSteps \cup QuestSteps
        /\ pc'[r] \in QuestSteps => pc[r] \in QuestSteps
    BY <1>1, <1>5 DEF After, Changes, ModuleSteps, QuestSteps
  <2>2. /\ pc'[r] \in {"record", "count", "recount"} => enrolled'
        /\ pc'[r] \in {"count", "recount"} => r \in runs'
        /\ kind[r] # "module" => sessions'[r] = sessions[r]
    BY <1>2, <1>3, <1>5
  <2>3. /\ answer'[r] \in {None, "warned", "saved"}
        /\ pc'[r] # "done" => answer'[r] = None
        /\ answer'[r] = "saved" =>
             \/ kind[r] = "module" /\ sessions'[r] = made[r]
             \/ kind[r] = "quest" /\ r \in runs' /\ enrolled'
    <3>1. None # "saved"
      BY GenerationAssumption DEF Answers
    <3>2. next = "done" => command \in {"store", "recount"}
      BY DEF Changes
    <3> QED  BY <1>2, <1>3, <1>5, <3>1, <3>2
  <2> QED  BY <1>1, <1>2, <1>3, <2>1, <2>2, <2>3, SavesKeepRequest
<1>9. CountInv' /\ CountsFollowRuns'
  <2>1. \A o \in Requests \ {r} : pc'[o] = pc[o]
    BY <1>4, <1>1 DEF TypeOK
  <2> QED  BY <1>1, <1>5, <2>1, EffectsKeepCounts
<1> QED  BY <1>6, <1>7, <1>8, <1>9, StepKeepsIInv

LEMMA LateKeeps ==
  ASSUME IInv, NEW r \in Requests, NEW command \in Changes, Late(r, command)
  PROVE  IInv'
<1>1. /\ <<r, command>> \in flying /\ Effect(r, command) /\ TypeOK
      /\ flying' = flying \ {<<r, command>>}
      /\ UNCHANGED <<keyed, configured, kind, input, index, priors, pc, repair, made, found,
                     seen, answer, calls>>
  BY DEF Late, IInv, request, work
<1>2. /\ \A o \in Requests \ {r} : sessions'[o] = sessions[o] /\ (o \in runs' <=> o \in runs)
      /\ sessions'[r] \in {sessions[r], made[r]}
      /\ command # "store" => sessions' = sessions
      /\ enrolled => enrolled'
      /\ runs \subseteq runs' /\ runs' \subseteq Requests
      /\ DOMAIN sessions' = Requests /\ enrolled' \in BOOLEAN /\ counts' \in Nat
      /\ disturbed' \in BOOLEAN
  BY <1>1, EffectsAreOwn
<1>3. /\ pc[r] = "done" /\ answer[r] \in {None, "warned"}
      /\ \A other \in Changes : <<r, other>> \in flying => (other = "store" <=> kind[r] = "module")
  BY <1>1 DEF IInv, RequestInv, KeptInv
<1>4. \A o \in Requests \ {r} : Same(o)
  <2> SUFFICES ASSUME NEW o \in Requests \ {r} PROVE Same(o)
    OBVIOUS
  <2>1. \A other \in Changes : <<o, other>> \in flying' <=> <<o, other>> \in flying
    BY <1>1
  <2>2. /\ keyed' = keyed /\ kind' = kind /\ input' = input /\ index' = index
        /\ priors' = priors /\ repair' = repair /\ made' = made /\ calls' = calls
        /\ pc' = pc /\ answer' = answer
    BY <1>1
  <2>3. sessions'[o] = sessions[o] /\ (o \in runs' <=> o \in runs) /\ (enrolled => enrolled')
    BY <1>2, Zenon
  <2> QED  BY <2>1, <2>2, <2>3, Zenon DEF Same
<1>5. TypeOK'
  BY <1>1, <1>2 DEF TypeOK
<1>6. RequestInv(r)'
  <2>1. /\ pc'[r] = "done" /\ "done" \in After /\ pc[r] # "idle"
        /\ "done" \notin ModuleSteps /\ "done" \notin QuestSteps
    BY <1>1, <1>3 DEF After, ModuleSteps, QuestSteps
  <2>2. answer'[r] = answer[r] /\ answer'[r] \in {None, "warned"} /\ answer'[r] # "saved"
    BY <1>1, <1>3, GenerationAssumption DEF Answers
  <2>3. kind[r] # "module" => sessions'[r] = sessions[r]
    BY <1>1, <1>2, <1>3
  <2>4. \A other \in Changes : <<r, other>> \in flying' =>
          /\ pc'[r] = "done" /\ answer'[r] \in {None, "warned"}
          /\ other = "store" <=> kind[r] = "module"
    BY <1>1, <1>3, <2>1, <2>2
  <2> QED  BY <1>1, <1>2, <2>1, <2>2, <2>3, <2>4, SavesKeepRequest
<1>7. CountInv' /\ CountsFollowRuns'
  <2>1. flying' \subseteq flying /\ seen' = seen /\ \A o \in Requests : pc'[o] = pc[o]
    BY <1>1
  <2> QED  BY <1>1, <2>1, EffectsKeepCounts
<1> QED  BY <1>4, <1>5, <1>6, <1>7, StepKeepsIInv

(* A handler that ends before its command is carried out.                     *)
LEMMA AbandonKeeps ==
  ASSUME IInv, NEW r \in Requests, Abandons(r), pc[r] \notin {"idle", "done"},
         pc' = [pc EXCEPT ![r] = "done"],
         NEW said \in {None, "warned"}, answer' = [answer EXCEPT ![r] = said],
         said # None => pc[r] \in ModuleSteps \cup QuestSteps,
         UNCHANGED <<keyed, configured, request, work, found, seen, database, calls>>
  PROVE  IInv'
<1>1. /\ flying' = IF pc[r] \in Changes THEN flying \cup {<<r, pc[r]>>} ELSE flying
      /\ disturbed' = (disturbed \/ pc[r] \in QuestSteps)
      /\ UNCHANGED <<keyed, configured, kind, input, index, priors, repair, made, found, seen,
                     sessions, enrolled, counts, runs, calls>>
      /\ TypeOK /\ CountInv /\ CountsFollowRuns
  BY DEF Abandons, IInv, request, work, database
<1>2. /\ \A command \in Changes : <<r, command>> \notin flying
      /\ answer[r] = None
      /\ pc[r] \in ModuleSteps => kind[r] = "module"
      /\ pc[r] \in QuestSteps => kind[r] = "quest"
  BY NothingFlies
<1>3. pc'[r] = "done" /\ answer'[r] = said /\ said # "saved" /\ "warned" \in Answers
  BY <1>1, GenerationAssumption DEF TypeOK, Answers
<1>4. \A o \in Requests \ {r} : Same(o)
  BY <1>1 DEF Same, TypeOK
<1>5. TypeOK'
  <2>1. flying' \subseteq Requests \X Changes
    BY <1>1 DEF TypeOK
  <2>2. disturbed' \in BOOLEAN
    BY <1>1
  <2>3. /\ pc' \in [Requests -> {"idle", "asking", "built", "done"} \cup ModuleSteps
                                 \cup QuestSteps]
        /\ answer' \in [Requests -> Answers \cup {None}]
    BY <1>1, <1>3 DEF TypeOK
  <2> QED  BY <1>1, <2>1, <2>2, <2>3 DEF TypeOK
<1>6. RequestInv(r)'
  <2>1. "done" \in After /\ "done" \notin ModuleSteps /\ "done" \notin QuestSteps
    BY DEF After, ModuleSteps, QuestSteps
  <2>2. \A command \in Changes : <<r, command>> \in flying' =>
          command = "store" <=> kind[r] = "module"
    <3>1. \A command \in Changes : <<r, command>> \in flying' => command = pc[r]
      BY <1>1, <1>2
    <3>2. pc[r] \in Changes => (pc[r] = "store" <=> kind[r] = "module")
      BY <1>2 DEF Changes, ModuleSteps, QuestSteps
    <3> QED  BY <3>1, <3>2
  <2> QED  BY <1>1, <1>3, <2>1, <2>2, SavesKeepRequest
<1>7. CountInv' /\ CountsFollowRuns'
  <2>1. disturbed => disturbed'
    BY <1>1, Zenon
  <2>2. ASSUME ~disturbed'
        PROVE  \A o \in Requests :
                 /\ pc'[o] = "recount" => pc[o] = "recount"
                 /\ pc[o] \in {"count", "recount"} => pc'[o] = pc[o]
                 /\ \A command \in Changes \ {"store"} :
                      <<o, command>> \in flying' => <<o, command>> \in flying
    <3>1. pc[r] \notin QuestSteps
      BY <1>1, <2>2, Zenon
    <3>2. pc[r] \notin {"count", "recount"} /\ (pc[r] \in Changes => pc[r] = "store")
      BY <3>1 DEF QuestSteps, Changes
    <3> QED  BY <1>1, <3>2 DEF TypeOK
  <2> QED  BY <1>1, <2>1, <2>2, CountsAreKept
<1> QED  BY <1>4, <1>5, <1>6, <1>7, StepKeepsIInv

LEMMA GiveUpKeeps ==
  ASSUME IInv, NEW r \in Requests, GiveUp(r)
  PROVE  IInv'
<1>1. /\ pc[r] \in ModuleSteps \cup QuestSteps /\ Abandons(r)
      /\ pc' = [pc EXCEPT ![r] = "done"] /\ answer' = [answer EXCEPT ![r] = "warned"]
      /\ UNCHANGED <<keyed, configured, request, work, found, seen, database, calls>>
  BY DEF GiveUp, Answered
<1>2. pc[r] \notin {"idle", "done"}
  BY <1>1 DEF ModuleSteps, QuestSteps
<1> QED  BY <1>1, <1>2, AbandonKeeps

LEMMA LeaveKeeps ==
  ASSUME IInv, NEW r \in Requests, Leave(r)
  PROVE  IInv'
<1>1. /\ pc[r] \notin {"idle", "done"} /\ Abandons(r)
      /\ pc' = [pc EXCEPT ![r] = "done"] /\ answer' = answer
      /\ UNCHANGED <<keyed, configured, request, work, found, seen, database, calls>>
  BY DEF Leave
<1>2. answer' = [answer EXCEPT ![r] = None]
  BY <1>1, NothingFlies DEF IInv, TypeOK
<1> QED  BY <1>1, <1>2, AbandonKeeps

-----------------------------------------------------------------------------
(* The theorems *)

LEMMA NextIInv == IInv /\ [Next]_vars => IInv'
<1> SUFFICES ASSUME IInv, [Next]_vars PROVE IInv'
  OBVIOUS
<1>1. ASSUME NEW r \in Requests, Arrive(r) \/ Leave(r) \/ Build(r)
      PROVE  IInv'
  BY <1>1, ArriveKeeps, LeaveKeeps, BuildKeeps
<1>2. ASSUME NEW r \in Requests, Asks(r)
      PROVE  IInv'
  BY <1>2, WithoutKeyKeeps, ProviderFailsKeeps, RejectKeeps, AcceptLessonKeeps,
     AcceptQuestKeeps, AcceptTutorKeeps DEF Asks
<1>3. ASSUME NEW r \in Requests, Saves(r)
      PROVE  IInv'
  <2>1. CASE FindSession(r) \/ FindProfile(r) \/ Duplicate(r) \/ CountRuns(r) \/ GiveUp(r)
    BY <2>1, FindSessionKeeps, FindProfileKeeps, DuplicateKeeps, CountRunsKeeps, GiveUpKeeps
  <2>2. CASE StoreSession(r)
    BY <2>2, ChangeKeeps DEF StoreSession, Changes
  <2>3. CASE Enrol(r)
    BY <2>3, ChangeKeeps DEF Enrol, Changes
  <2>4. CASE Record(r)
    BY <2>4, ChangeKeeps DEF Record, Changes
  <2>5. CASE Recount(r)
    BY <2>5, ChangeKeeps DEF Recount, Changes
  <2> QED  BY <1>3, <2>1, <2>2, <2>3, <2>4, <2>5 DEF Saves
<1>4. ASSUME NEW r \in Requests, NEW command \in Changes, Late(r, command)
      PROVE  IInv'
  BY <1>4, LateKeeps
<1>5. CASE UNCHANGED vars
  <2>1. TypeOK'
    BY <1>5 DEF vars, request, work, database, TypeOK, IInv
  <2>2. \A o \in Requests : Same(o)
    BY <1>5 DEF vars, request, work, database, Same
  <2>3. \A o \in Requests : RequestInv(o)'
    BY <2>2, OthersAreKept DEF IInv
  <2>4. CountInv' /\ CountsFollowRuns'
    BY <1>5, CountsAreKept DEF vars, database, IInv
  <2> QED  BY <2>1, <2>3, <2>4 DEF IInv
<1> QED  BY <1>1, <1>2, <1>3, <1>4, <1>5 DEF Next

(* The invariant of the handlers, their provider and their database.           *)
THEOREM Invariance == Spec => []IInv
<1> QED  BY InitIInv, NextIInv, PTL DEF Spec

(* What is shown passed the gate, for any drafts and any relation they stand    *)
(* in: five lessons with their repairs, or a single one.                      *)
THEOREM WhatIsShownIsSound == Spec => []ShownIsSound
<1>1. IInv => ShownIsSound
  BY DEF IInv, RequestInv, ShownIsSound
<1> QED  BY <1>1, Invariance, PTL

(* A rejection is asked again once, a fault and an unreadable quest never, and an *)
(* error is answered only for those (generate_learning_lesson, generate_quest).  *)
THEOREM RetriesAreDisciplined == Spec => []RetryDiscipline
<1>1. IInv => RetryDiscipline
  BY DEF IInv, RequestInv, RetryDiscipline
<1> QED  BY <1>1, Invariance, PTL

(* The client hears "saved" of what is stored, and what failed left nothing.     *)
THEOREM WhatIsSavedIsStored == Spec => []SavedIsStored
<1>1. IInv => SavedIsStored
  BY DEF IInv, RequestInv, SavedIsStored
<1> QED  BY <1>1, Invariance, PTL

(* A learner's count is never above the runs, and below them only in a race or   *)
(* after a fault, for any number of requests.                                *)
THEOREM CountsFollowTheRuns == Spec => []CountsFollowRuns
<1>1. IInv => CountsFollowRuns
  BY DEF IInv
<1> QED  BY <1>1, Invariance, PTL
===============================================================================
