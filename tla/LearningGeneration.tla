-------------------------- MODULE LearningGeneration --------------------------
(***************************************************************************)
(* The handlers of src/src/lib.rs that ask the AI provider for a module, a   *)
(* lesson, a quest or a tutor's answer, and what they keep of the reply in   *)
(* the database.  One learner's requests run side by side.                   *)
(*                                                                           *)
(* Each await is a step.  The handler waits for the provider with an HTTP    *)
(* timeout and for the database for three seconds; a command of the database *)
(* whose handler stopped waiting is carried out later or never.  A client    *)
(* may leave at any await, which drops its handler.                          *)
(***************************************************************************)
EXTENDS Integers, Sequences, FiniteSets

CONSTANTS
  Requests,
  KindsOf,       \* the kinds a request may be of: all four, but for bounded checking
  LessonTopics,  \* what lessons may be asked for
  LessonDrafts,  \* the lessons the provider may write
  Priors,        \* the earlier lessons a lesson request may bring, in order
  ModuleLength,  \* lessons of a module: 5
  MaxPriors,     \* earlier lessons a draft is compared with: 4
  \* The gate of LessonGate, as relations: <<t, n, d>> \in Fitting, draft d passes but
  \* for the earlier lessons, normalised for topic t and place n (counted from 0);
  \* <<t, n, d, m, e>> \in Repeating, it repeats the lesson e of place m.
  Fitting, Repeating,
  None

Kinds == {"module", "lesson", "quest", "tutor"}

\* What became of a call to the provider: no reply or an error status, a reply that
\* is not the JSON asked for, one that a check refused, or one that is kept.  A quest
\* or a tutor's answer is sound or not; a lesson is judged by the gate.
Rejections == {"unreadable", "rejected"}
Outcomes == {"failed", "accepted"} \cup Rejections

Answers == {"refused", "error", "saved", "unsaved", "warned"}

ModuleSteps == {"find", "store"}
QuestSteps == {"profile", "enrol", "record", "count", "recount"}

ASSUME GenerationAssumption ==
  /\ ModuleLength \in Nat \ {0}
  /\ IsFiniteSet(Requests)
  /\ KindsOf \in [Requests -> SUBSET Kinds]
  /\ None \notin Answers /\ None \notin Kinds /\ None \notin LessonTopics

VARIABLES
  keyed, configured,  \* is there a provider's key, a database?
  kind, input, index, priors,  \* a request
  pc,                 \* where its handler is
  repair,             \* does the present ask carry the repair contract?
  made,               \* the lessons accepted so far
  found, seen,        \* did it find the learner's profile; the runs it counted
  answer,             \* what the client is told
  sessions,           \* the modules stored, by the request that made them
  enrolled, counts, runs,  \* the learner's profile, its count of runs, the runs
  flying,             \* commands whose handlers no longer wait for them
  calls,              \* history: the outcomes of a request's calls to the provider
  disturbed           \* history: was a recount disturbed, by a fault or by another?

request == <<kind, input, index, priors>>
work == <<repair, made>>
database == <<sessions, enrolled, counts, runs>>
vars == <<keyed, configured, request, pc, work, found, seen, answer, database, flying,
          calls, disturbed>>

OfRequests(value) == [r \in Requests |-> value]

Init ==
  /\ keyed \in BOOLEAN /\ configured \in BOOLEAN
  /\ kind = OfRequests(None) /\ input = OfRequests(None)
  /\ index = OfRequests(0) /\ priors = OfRequests(<<>>)
  /\ pc = OfRequests("idle") /\ repair = OfRequests(FALSE) /\ made = OfRequests(<<>>)
  /\ found = OfRequests(FALSE) /\ seen = OfRequests(0) /\ answer = OfRequests(None)
  /\ sessions = OfRequests(None)
  /\ enrolled = FALSE /\ counts = 0 /\ runs = {} /\ flying = {}
  /\ calls = OfRequests(<<>>) /\ disturbed = FALSE

Answered(r, said) ==
  /\ pc' = [pc EXCEPT ![r] = "done"]
  /\ answer' = [answer EXCEPT ![r] = said]

-----------------------------------------------------------------------------
(* A request comes *)

\* The guards of the handlers: a goal, interest or topic; an index of the module;
\* for a quest a complete link to its lesson; for the tutor a question.
Refused(vague, n) == vague \/ n >= ModuleLength

Arrive(r) ==
  /\ pc[r] = "idle"
  /\ \E k \in KindsOf[r], t \in LessonTopics \cup {None}, vague \in BOOLEAN,
        n \in 0..ModuleLength, p \in Priors \cup {<<>>} :
       /\ t = None <=> k \notin {"module", "lesson"}
       /\ k # "lesson" => n = 0 /\ p = <<>>
       /\ kind' = [kind EXCEPT ![r] = k]
       /\ input' = [input EXCEPT ![r] = t]
       /\ index' = [index EXCEPT ![r] = n]
       /\ priors' = [priors EXCEPT ![r] = p]
       /\ IF Refused(vague, n) THEN Answered(r, "refused")
          ELSE /\ pc' = [pc EXCEPT ![r] = "asking"]
               /\ UNCHANGED answer
  /\ UNCHANGED <<keyed, configured, work, found, seen, database, flying, calls, disturbed>>

-----------------------------------------------------------------------------
(* The provider *)

WithoutKey(r) ==
  /\ pc[r] = "asking" /\ ~keyed
  /\ Answered(r, "error")
  /\ UNCHANGED <<keyed, configured, request, work, found, seen, database, flying, calls,
                 disturbed>>

Called(r, outcome) ==
  /\ pc[r] = "asking" /\ keyed
  /\ calls' = [calls EXCEPT ![r] = Append(@, outcome)]
  /\ UNCHANGED <<keyed, configured, request, found, seen, database, flying, disturbed>>

\* post_openai_json: a transport error, a timeout and an error status end the
\* request, in the middle of a module too.
ProviderFails(r) ==
  /\ Called(r, "failed")
  /\ Answered(r, "error")
  /\ UNCHANGED work

\* The place of the next draft and the earlier lessons it is judged against.
Place(r) == IF kind[r] = "lesson" THEN index[r] ELSE Len(made[r])
Earlier(r) == IF kind[r] = "lesson" THEN priors[r] ELSE made[r]

\* request_learning_lesson, and validate_no_prior_lesson_redundancy
Passes(t, n, draft, earlier) ==
  /\ <<t, n, draft>> \in Fitting
  /\ \A m \in DOMAIN earlier : m <= MaxPriors => <<t, n, draft, m - 1, earlier[m]>> \notin Repeating

\* How a reply is refused.  request_learning_lesson and the tutor's handler answer
\* both ways with one error; generate_quest tells them apart.
Refusals(r) == IF kind[r] = "quest" THEN Rejections ELSE {"rejected"}

\* Mutant: a quest is asked for once more after either, like a lesson.
MutantRepairs(r, outcome) == ~repair[r] /\ kind[r] # "tutor"

\* The first refusal asks again with the repair contract; but an unreadable reply to
\* a quest's first ask is an error at once.
Repairs(r, outcome) == ~repair[r] /\ kind[r] # "tutor" /\ outcome = "rejected"

Reject(r) ==
  \E outcome \in Refusals(r) :
    /\ Called(r, outcome)
    /\ IF Repairs(r, outcome)
       THEN /\ repair' = [repair EXCEPT ![r] = TRUE]
            /\ UNCHANGED <<pc, answer, made>>
       ELSE /\ Answered(r, "error")
            /\ UNCHANGED work

\* Mutant: a draft is kept although it does not pass.
MutantAcceptLesson(r) ==
  /\ kind[r] \in {"module", "lesson"}
  /\ \E draft \in LessonDrafts :
       /\ <<input[r], Place(r), draft>> \in Fitting
       /\ made' = [made EXCEPT ![r] = Append(@, draft)]
  /\ Called(r, "accepted")
  /\ repair' = [repair EXCEPT ![r] = FALSE]
  /\ IF kind[r] = "lesson" THEN Answered(r, "unsaved")
     ELSE /\ pc' = [pc EXCEPT ![r] = IF Len(made'[r]) = ModuleLength THEN "built" ELSE "asking"]
          /\ UNCHANGED answer

AcceptLesson(r) ==
  /\ kind[r] \in {"module", "lesson"}
  /\ \E draft \in LessonDrafts :
       /\ Passes(input[r], Place(r), draft, Earlier(r))
       /\ made' = [made EXCEPT ![r] = Append(@, draft)]
  /\ Called(r, "accepted")
  /\ repair' = [repair EXCEPT ![r] = FALSE]
  /\ IF kind[r] = "lesson" THEN Answered(r, "unsaved")
     ELSE /\ pc' = [pc EXCEPT ![r] = IF Len(made'[r]) = ModuleLength THEN "built" ELSE "asking"]
          /\ UNCHANGED answer

AcceptQuest(r) ==
  /\ kind[r] = "quest"
  /\ Called(r, "accepted")
  /\ IF configured
     THEN pc' = [pc EXCEPT ![r] = "profile"] /\ UNCHANGED answer
     ELSE Answered(r, "unsaved")
  /\ UNCHANGED work

AcceptTutor(r) ==
  /\ kind[r] = "tutor"
  /\ Called(r, "accepted")
  /\ Answered(r, "unsaved")
  /\ UNCHANGED work

ValidModule(t, lessons) ==
  \A n \in DOMAIN lessons : Passes(t, n - 1, lessons[n], SubSeq(lessons, 1, n - 1))

\* build_learning_module_from_compact_ai judges every lesson once more.
Build(r) ==
  /\ pc[r] = "built"
  /\ IF ~ValidModule(input[r], made[r]) THEN Answered(r, "error")
     ELSE IF configured THEN pc' = [pc EXCEPT ![r] = "find"] /\ UNCHANGED answer
     ELSE Answered(r, "warned")
  /\ UNCHANGED <<keyed, configured, request, work, found, seen, database, flying, calls,
                 disturbed>>

-----------------------------------------------------------------------------
(* The database *)

Changes == {"store", "enrol", "record", "recount"}

\* Somebody counted the runs and has yet to write the count.
Counted(r) == pc[r] = "recount" \/ <<r, "recount">> \in flying

\* What a command does when the database carries it out.  The insert of a profile
\* that exists by now changes nothing: it is a duplicate.
Effect(r, command) ==
  /\ sessions' = IF command = "store" THEN [sessions EXCEPT ![r] = made[r]] ELSE sessions
  /\ enrolled' = (enrolled \/ command = "enrol")
  /\ runs' = IF command = "record" THEN runs \cup {r} ELSE runs
  /\ counts' = IF command = "recount" THEN seen[r] ELSE counts
  /\ disturbed' = (disturbed \/ (command = "record" /\ \E o \in Requests \ {r} : Counted(o)))

\* The command is carried out and its handler hears of it.
Change(r, command, next) ==
  /\ pc[r] = command
  /\ Effect(r, command)
  /\ IF next = "done" THEN Answered(r, "saved")
     ELSE pc' = [pc EXCEPT ![r] = next] /\ UNCHANGED answer
  /\ UNCHANGED <<keyed, configured, request, work, found, seen, flying, calls>>

\* save_learning_session looks for a session of the fresh id, then stores.
FindSession(r) ==
  /\ pc[r] = "find"
  /\ pc' = [pc EXCEPT ![r] = "store"]
  /\ UNCHANGED <<keyed, configured, request, work, found, seen, answer, database, flying,
                 calls, disturbed>>

StoreSession(r) == Change(r, "store", "done")

\* upsert_user
FindProfile(r) ==
  /\ pc[r] = "profile"
  /\ found' = [found EXCEPT ![r] = enrolled]
  /\ pc' = [pc EXCEPT ![r] = "enrol"]
  /\ UNCHANGED <<keyed, configured, request, work, seen, answer, database, flying, calls,
                 disturbed>>

Enrol(r) == (found[r] \/ ~enrolled) /\ Change(r, "enrol", "record")

\* Another request of the learner inserted the profile in between.
Duplicate(r) ==
  /\ pc[r] = "enrol" /\ ~found[r] /\ enrolled
  /\ Answered(r, "warned")
  /\ UNCHANGED <<keyed, configured, request, work, found, seen, database, flying, calls,
                 disturbed>>

Record(r) == Change(r, "record", "count")

\* Mutant: the runs are counted before the run is inserted.
MutantCountRuns(r) ==
  /\ pc[r] = "count"
  /\ seen' = [seen EXCEPT ![r] = Cardinality(runs \ {r})]
  /\ pc' = [pc EXCEPT ![r] = "recount"]
  /\ UNCHANGED <<keyed, configured, request, work, found, answer, database, flying, calls,
                 disturbed>>

\* counts_for_user
CountRuns(r) ==
  /\ pc[r] = "count"
  /\ seen' = [seen EXCEPT ![r] = Cardinality(runs)]
  /\ pc' = [pc EXCEPT ![r] = "recount"]
  /\ UNCHANGED <<keyed, configured, request, work, found, answer, database, flying, calls,
                 disturbed>>

\* refresh_user_counts
Recount(r) == Change(r, "recount", "done")

\* The handler stops waiting: what it asked for last may yet be carried out.
Abandons(r) ==
  /\ flying' = IF pc[r] \in Changes THEN flying \cup {<<r, pc[r]>>} ELSE flying
  /\ disturbed' = (disturbed \/ pc[r] \in QuestSteps)

\* Mutant: a save that timed out is reported as made.
MutantGiveUp(r) ==
  /\ pc[r] \in ModuleSteps \cup QuestSteps
  /\ Abandons(r)
  /\ Answered(r, "saved")
  /\ UNCHANGED <<keyed, configured, request, work, found, seen, database, calls>>

\* Mutant: a save that failed is tried again, without end.
MutantTryAgain(r) ==
  /\ pc[r] \in ModuleSteps \cup QuestSteps
  /\ pc' = [pc EXCEPT ![r] = IF pc[r] \in ModuleSteps THEN "find" ELSE "profile"]
  /\ UNCHANGED <<keyed, configured, request, work, found, seen, answer, database, flying,
                 calls, disturbed>>

\* An error of the database, or the three seconds are over.
GiveUp(r) ==
  /\ pc[r] \in ModuleSteps \cup QuestSteps
  /\ Abandons(r)
  /\ Answered(r, "warned")
  /\ UNCHANGED <<keyed, configured, request, work, found, seen, database, calls>>

\* The client is gone.
Leave(r) ==
  /\ pc[r] \notin {"idle", "built", "done"}
  /\ Abandons(r)
  /\ pc' = [pc EXCEPT ![r] = "done"]
  /\ UNCHANGED <<keyed, configured, request, work, found, seen, answer, database, calls>>

Late(r, command) ==
  /\ <<r, command>> \in flying
  /\ Effect(r, command)
  /\ flying' = flying \ {<<r, command>>}
  /\ UNCHANGED <<keyed, configured, request, pc, work, found, seen, answer, calls>>

-----------------------------------------------------------------------------
Asks(r) ==
  \/ WithoutKey(r) \/ ProviderFails(r) \/ Reject(r)
  \/ AcceptLesson(r) \/ AcceptQuest(r) \/ AcceptTutor(r)

Saves(r) ==
  \/ FindSession(r) \/ StoreSession(r)
  \/ FindProfile(r) \/ Enrol(r) \/ Duplicate(r) \/ Record(r) \/ CountRuns(r) \/ Recount(r)
  \/ GiveUp(r)

Next ==
  \E r \in Requests :
    \/ Arrive(r) \/ Leave(r)
    \/ Asks(r) \/ Build(r) \/ Saves(r)
    \/ \E command \in Changes : Late(r, command)

Spec == Init /\ [][Next]_vars

(* The HTTP timeout ends every call to the provider, and the three seconds    *)
(* every save: a handler always gets on.  Nothing is assumed of a command     *)
(* its handler left behind.                                                  *)
Fairness == \A r \in Requests : WF_vars(Asks(r) \/ Build(r) \/ Saves(r))

FairSpec == Spec /\ Fairness

-----------------------------------------------------------------------------
TypeOK ==
  /\ keyed \in BOOLEAN /\ configured \in BOOLEAN
  /\ kind \in [Requests -> Kinds \cup {None}]
  /\ input \in [Requests -> LessonTopics \cup {None}]
  /\ index \in [Requests -> Nat]
  /\ priors \in [Requests -> Priors \cup {<<>>}]
  /\ pc \in [Requests -> {"idle", "asking", "built", "done"} \cup ModuleSteps \cup QuestSteps]
  /\ repair \in [Requests -> BOOLEAN]
  /\ made \in [Requests -> Seq(LessonDrafts)]
  /\ found \in [Requests -> BOOLEAN] /\ seen \in [Requests -> Nat]
  /\ answer \in [Requests -> Answers \cup {None}]
  /\ DOMAIN sessions = Requests
  /\ enrolled \in BOOLEAN /\ counts \in Nat /\ runs \subseteq Requests
  /\ flying \subseteq Requests \X Changes
  /\ calls \in [Requests -> Seq(Outcomes)]
  /\ disturbed \in BOOLEAN

(* What a learner is shown passed the gate: every lesson of a module against  *)
(* the lessons before it, in generate_learning_module's loop of five asks     *)
(* with their repairs; a single lesson against the lessons its client named.  *)
Shown(r) ==
  /\ kind[r] = "module" /\ answer[r] \in {"saved", "warned"} =>
       Len(made[r]) = ModuleLength /\ ValidModule(input[r], made[r])
  /\ kind[r] = "lesson" /\ answer[r] = "unsaved" =>
       Len(made[r]) = 1 /\ Passes(input[r], index[r], made[r][1], priors[r])

ShownIsSound == \A r \in Requests : Shown(r)

\* The outcome of a request's i-th call lets nothing follow it.
Final(r, i) ==
  \/ calls[r][i] = "failed"
  \/ calls[r][i] = "unreadable"
  \/ kind[r] = "tutor" /\ calls[r][i] = "rejected"
  \/ i > 1 /\ calls[r][i] = "rejected" /\ calls[r][i - 1] = "rejected"

(* generate_learning_lesson, generate_quest: a reply is asked for once more    *)
(* when it was rejected, and a quest only when it could be read.  No call      *)
(* follows a fault of the provider, an unreadable quest, a tutor's answer or a *)
(* second rejection; an error is answered for those alone (judging a whole    *)
(* module once more never refuses it), and every lesson shown was accepted.   *)
Retried(r) ==
  LET n == Len(calls[r]) IN
    /\ \A i \in 1..(n - 1) : ~Final(r, i)
    /\ answer[r] = "error" => IF n = 0 THEN ~keyed ELSE Final(r, n)

RetryDiscipline == \A r \in Requests : Retried(r)

(* The client hears "saved" of what is stored as it is shown; nothing is      *)
(* stored of a request that was answered without a warning and unsaved.  One  *)
(* that fails leaves nothing behind: no module of the lessons it had, no      *)
(* quest run, and no command under way.                                      *)
Kept(r) ==
  /\ answer[r] = "saved" =>
       \/ kind[r] = "module" /\ sessions[r] = made[r]
       \/ kind[r] = "quest" /\ r \in runs /\ enrolled
  /\ answer[r] \in {"unsaved", "error", "refused"} => sessions[r] = None /\ r \notin runs
  /\ answer[r] \in {"error", "refused"} =>
       \A command \in Changes : <<r, command>> \notin flying

SavedIsStored == \A r \in Requests : Kept(r)

(* refresh_user_counts reads and writes in two steps: the profile's count is  *)
(* never above the runs, and it is below them only while a run's own recount  *)
(* is under way, or after a fault or a run inserted during another's recount. *)
CountsFollowRuns ==
  /\ counts <= Cardinality(runs)
  /\ ~disturbed /\ (\A r \in Requests : pc[r] \notin {"count", "recount"}) =>
       counts = Cardinality(runs)

-----------------------------------------------------------------------------
(* The inductive invariant *)

\* A request that may call the provider ended no call for good, and asks for a
\* repair exactly after one rejection.
MayCall(r) ==
  LET n == Len(calls[r]) IN
    /\ n = 0 => ~repair[r]
    /\ n > 0 => /\ ~Final(r, n)
                /\ calls[r][n] = IF repair[r] THEN "rejected" ELSE "accepted"
    /\ kind[r] = "tutor" => n = 0

HandlerInv(r) ==
  /\ pc[r] = "idle" => kind[r] = None /\ ~repair[r]
  /\ pc[r] # "idle" => kind[r] # None
  /\ ~keyed \/ pc[r] = "idle" => calls[r] = <<>>
  /\ pc[r] # "done" => answer[r] = None
  /\ pc[r] = "asking" => MayCall(r)
  /\ pc[r] \in {"built"} \cup ModuleSteps => kind[r] = "module" /\ Len(made[r]) = ModuleLength
  /\ pc[r] \in QuestSteps => kind[r] = "quest"

MadeInv(r) ==
  /\ kind[r] = "module" => ValidModule(input[r], made[r])
  /\ kind[r] = "module" /\ pc[r] = "asking" => Len(made[r]) < ModuleLength
  /\ kind[r] # "module" /\ pc[r] # "done" => made[r] = <<>>

\* Nothing is stored before all of the provider's answers are in; what is, is what
\* was made; and a command outlives its handler only.
KeptInv(r) ==
  /\ pc[r] \in {"idle", "asking", "built"} => sessions[r] = None /\ r \notin runs
  /\ sessions[r] # None => sessions[r] = made[r]
  /\ kind[r] # "module" => sessions[r] = None
  /\ \A command \in Changes : <<r, command>> \in flying =>
       /\ pc[r] = "done" /\ answer[r] \in {None, "warned"}
       /\ command = "store" <=> kind[r] = "module"
  /\ pc[r] \in {"record", "count", "recount"} => enrolled
  /\ pc[r] \in {"count", "recount"} => r \in runs

CountInv ==
  /\ \A r \in Requests : seen[r] <= Cardinality(runs)
  /\ ~disturbed => \A r \in Requests :
       /\ \A command \in Changes \ {"store"} : <<r, command>> \notin flying
       /\ pc[r] = "recount" => seen[r] = Cardinality(runs)

RequestInv(r) ==
  HandlerInv(r) /\ MadeInv(r) /\ KeptInv(r) /\ Shown(r) /\ Retried(r) /\ Kept(r)

IInv ==
  /\ TypeOK
  /\ \A r \in Requests : RequestInv(r)
  /\ CountInv /\ CountsFollowRuns

(* The handlers' timeouts: every request is answered, or its client left.     *)
EveryRequestIsAnswered == \A r \in Requests : pc[r] = "asking" ~> pc[r] = "done"
=============================================================================
