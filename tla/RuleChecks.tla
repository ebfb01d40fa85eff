------------------------------- MODULE RuleChecks -------------------------------
(***************************************************************************)
(* The parts of the core that only judge: the Zcash verifiers, the binding of  *)
(* a signed result to its job, the gate and the records of lessons, the gate     *)
(* of quests, and the agent's dry run.  A question of one kind comes in, and     *)
(* its answer is what the code returns; the sets of questions are constants.     *)
(***************************************************************************)
EXTENDS ZcashRules, RunnerProtocol, QuestGate, AgentRun, LessonRecords

CONSTANTS
  Networks, ReceiverPolicies, AddressInputs,  \* addresses
  PaymentPolicies, PaymentRequests,           \* payment requests
  KeyInputs, Fixtures, Later,                 \* viewing keys; payments observed, and how
                                              \* much later they may be looked at again
  Configs, Jobs, Histories, Offered,          \* results: keys, jobs waiting, what may have
                                              \* been signed, what is offered by then
  Words,                                      \* what texts are made of
  LessonDrafts, LessonPlaces, Jitters,        \* lessons: drafts, places, random bytes
  Scored, Sessions,                           \* scores and sessions
  Befores, Objects, Afters,                   \* texts around a JSON object
  Quests, Contexts, RunRequests, Forms

Texts == INSTANCE LessonTexts

\* Only a job that validates is run, its evidence is bound to it, and nobody makes
\* up a signature: one that is offered was made.
ASSUME HistoryAssumption ==
  /\ \A job \in Jobs : IsJob(job)
  /\ \A history \in Histories :
    /\ \A s \in history :
         /\ IsJob(s.job) /\ IsEvidence(s.evidence)
         /\ JobError(s.job) = "none" /\ s.evidence.binding = Binding(s.job)
    /\ \A r \in Offered[history] :
         r.signature = None \/ \E s \in history :
           r.signature = Sign(s.id, s.secret, s.evidence).signature

\* An observation counts blocks, confirmations and outputs.
ASSUME FixtureAssumption ==
  /\ Fixtures \subseteq [required : Nat, expires : Nat, confirmations : Nat, observations : Nat,
                         matches : BOOLEAN, confirmed_before : BOOLEAN, height : Nat]
  /\ Later \subseteq Nat

\* Amounts are counted in zatoshi; a payment may leave its own open.
Recipient ==
  [network : Networks, items : SUBSET {"orchard", "sapling", "transparent", "unknown"},
   kind : Transparent \cup {"Unified", "Sapling", "Sprout"}]
Payment == [recipient : Recipient, amount : Nat \cup {Unstated}, parameters : Nat]
ASSUME PaymentAssumption ==
  /\ MaxMoney \in Nat
  /\ \A policy \in PaymentPolicies : policy.max_payments \in Nat /\ policy.max_total \in Nat
  /\ \A request \in PaymentRequests : request.payments \in Seq(Payment)

\* A draft is what a provider writes: texts, and two lists of texts.  What the
\* ecosystems add to it are texts too.
Text == Seq(Words)
Draft ==
  [t : Text, e : Text, s : Text, w : Text, j : Text, f : Text, q : Text, a : Text,
   b : Seq(Text), bf : Seq(Text), ci : Nat]
ASSUME DraftAssumption ==
  /\ LessonDrafts \subseteq Draft /\ LessonPlaces \subseteq Nat /\ Jitters \subseteq Nat
  /\ Texts!WhyAddition \in Text /\ Texts!BridgeAddition \in Text
  /\ \A ecosystem \in Texts!Ecosystems :
       /\ Texts!SourceSentence[ecosystem] \in Text /\ Texts!NuanceSentence[ecosystem] \in Text
       /\ Texts!Checklist[ecosystem] \in Text /\ Texts!Artifact[ecosystem] \in Text
       /\ \A place \in 0..Texts!LastLesson : Texts!RoleSentence[ecosystem][place] \in Text

\* A draft is scored by the number of its words and by what was found in it.
ASSUME ScoredAssumption ==
  Scored \subseteq [words : Nat, generic : BOOLEAN, placeholder_in_prose : BOOLEAN,
                    placeholder_in_code : BOOLEAN, mentions : BOOLEAN, leaks : BOOLEAN,
                    further_study : BOOLEAN]

\* A quest is a record of its texts and of files made of lines.  The note on a cut has
\* none of the words that the checks of a quest's quality look for.
File == [path : SUBSET Words, lines : Seq(SUBSET Words)]
ASSUME QuestAssumption ==
  /\ MaxLines \in Nat /\ ClipNote \subseteq Words
  /\ ClipNote \cap (WorkspaceTests \cup Domain \cup Denial \cup Specific) = {}
  /\ Quests \subseteq [blank : SUBSET STRING, gates : Nat, hooks : Nat, steps : Nat,
                       prompts : Nat, wrong : Nat, long_objective : BOOLEAN,
                       title : SUBSET Words, story : SUBSET Words, asked : SUBSET Words,
                       answer : SUBSET Words, hints : SUBSET Words, lens : SUBSET Words,
                       labels : SUBSET Words, files : Seq(File)]

\* A session is a record of its lessons, of the statuses the client states of them,
\* and of artifacts; an id that is absent is no id of a lesson.
Score ==
  [source_coverage : Nat, technical_depth : Nat, checkpoint_quality : Nat,
   placeholder_free : BOOLEAN, ecosystem_alignment : BOOLEAN, passed : BOOLEAN]
Lesson ==
  [id : Words \cup {None}, title : Words \cup {None},
   words : [now : Nat, clipped : Nat],
   question : [asks : Words \cup {None}, now : Words, clipped : Words],
   resources : Nat, evidence : Nat, placeholder : BOOLEAN, options : Seq(Words),
   correct : Nat, score : Score]
Status ==
  [index : Nat, id : Words \cup {None}, status : Words,
   validation : [DOMAIN NoValidation -> BOOLEAN]]
Report == [now : Words, clipped : Words]
Artifact == [reports : Seq(Report)]
ASSUME SessionAssumption ==
  /\ Padding \in Words /\ \A place \in 1..Places : FallbackId(place) \in Words \ {None}
  /\ Sessions \subseteq
       [lessons : Seq(Lesson), statuses : Seq(Status), artifacts : Seq(Artifact)]

\* An object as JSON writes it.  In a string a backslash escapes what follows it unless
\* it is escaped itself, and a quote that is not escaped begins or ends one; the braces
\* outside of strings are balanced at the end and not before it.
Quotes(object, escapes) ==
  {i \in DOMAIN object : object[i] = "quote" /\ i - 1 \notin escapes}
Inside(object, escapes, i) ==
  Cardinality({q \in Quotes(object, escapes) : q < i}) % 2 = 1
Braces(object, escapes, brace) ==
  {i \in DOMAIN object : object[i] = brace /\ ~Inside(object, escapes, i)}
Nesting(object, escapes, i) ==
  Cardinality({j \in Braces(object, escapes, "{") : j <= i})
    - Cardinality({j \in Braces(object, escapes, "}") : j <= i})
IsObject(object) ==
  \E escapes \in SUBSET {i \in DOMAIN object : object[i] = "backslash"} :
    /\ \A i \in DOMAIN object : object[i] = "backslash" =>
         Inside(object, escapes, i) /\ (i \in escapes <=> i - 1 \notin escapes)
    /\ 1 \in Braces(object, escapes, "{")
    /\ Len(object) \in Braces(object, escapes, "}")
    /\ \A i \in DOMAIN object :
         /\ Nesting(object, escapes, i) >= 0
         /\ Nesting(object, escapes, i) = 0 <=> i = Len(object)
ASSUME ObjectAssumption ==
  /\ Befores \subseteq Text /\ Objects \subseteq Text /\ Afters \subseteq Text
  /\ \A before \in Befores : \A i \in DOMAIN before : before[i] # "{"
  /\ \A object \in Objects : IsObject(object)

VARIABLES asked, answer
vars == <<asked, answer>>

Init == asked = None /\ answer = None

Ask(question, verdict) == asked' = question /\ answer' = verdict

Done == asked # None /\ asked' = None /\ answer' = None

-----------------------------------------------------------------------------
(* The questions *)

JudgeAddress ==
  /\ asked = None
  /\ \E input \in AddressInputs, network \in Networks, policy \in ReceiverPolicies :
       Ask([family |-> "address", input |-> input, network |-> network, policy |-> policy],
           AddressReport(input, network, policy))

JudgePayment ==
  /\ asked = None
  /\ \E request \in PaymentRequests, policy \in PaymentPolicies :
       Ask([family |-> "payment", request |-> request, policy |-> policy],
           RequestError(request, policy))

JudgeKey ==
  /\ asked = None
  /\ \E input \in KeyInputs, network \in Networks :
       Ask([family |-> "key", input |-> input, network |-> network],
           ViewingVerdict(input, network))

JudgeLifecycle ==
  /\ asked = None
  /\ \E fixture \in Fixtures :
       Ask([family |-> "lifecycle", fixture |-> fixture], Lifecycle(fixture))

\* What the holders of keys signed: each the evidence of a job it ran.
SignedBy(history) ==
  {[job |-> s.job, result |-> Sign(s.id, s.secret, s.evidence)] : s \in history}

JudgeResult ==
  /\ asked = None
  /\ \E config \in Configs, history \in Histories, job \in Jobs :
       \E result \in Offered[history] :
         Ask([family |-> "result", config |-> config, signed |-> SignedBy(history),
              job |-> job, result |-> result],
             /\ ConfigError(config) = "none" /\ JobError(job) = "none"
             /\ Accepted(KeysOf(config), job, result))

JudgeDraft ==
  /\ asked = None
  /\ \E topic \in Texts!Topics, place \in LessonPlaces, draft \in LessonDrafts, jitter \in Jitters,
        others \in {<<>>} \cup {<<d>> : d \in LessonDrafts} :
       LET request == Texts!Request(topic)
           normal == Texts!Gate!Normalize(request, place, draft)
           prior == [i \in DOMAIN others |->
                      Texts!Gate!Prior(Texts!Gate!Normalize(request, i - 1, others[i]))]
       IN  Ask([family |-> "draft", request |-> request, draft |-> normal, place |-> place,
                jitter |-> jitter, prior |-> prior],
               [valid |-> Texts!Gate!Valid(request, normal, place, prior),
                failures |-> Texts!Gate!Failures(request, normal, place, prior)])

ScoreDraft ==
  /\ asked = None
  /\ \E draft \in Scored :
       Ask([family |-> "score", draft |-> draft], LessonValidation(3, DraftScore(draft)))

SaveSession ==
  /\ asked = None
  /\ \E session \in Sessions :
       Ask([family |-> "session", session |-> session],
           IF ModuleError(session.lessons) THEN None ELSE Save(session))

ReadAnswer ==
  /\ asked = None
  /\ \E before \in Befores, object \in Objects, after \in Afters :
       Ask([family |-> "text", before |-> before, object |-> object, after |-> after],
           Extract(before \o object \o after))

JudgeQuest ==
  /\ asked = None
  /\ \E quest \in Quests, context \in Contexts :
       Ask([family |-> "quest", quest |-> quest, context |-> context],
           Accepts(quest, context))

Apply ==
  /\ asked = None
  /\ \E request \in RunRequests, form \in Forms :
       ~RunError(request) /\
         Ask([family |-> "agent", request |-> request, form |-> form],
             IF PacketError(form, Run(request)) THEN None ELSE Packet(form, Run(request)))

Next ==
  \/ JudgeAddress \/ JudgePayment \/ JudgeKey \/ JudgeLifecycle \/ JudgeResult
  \/ JudgeDraft \/ ScoreDraft \/ SaveSession \/ ReadAnswer \/ JudgeQuest \/ Apply \/ Done

Spec == Init /\ [][Next]_vars

-----------------------------------------------------------------------------
(* Properties *)

Of(family) == asked # None /\ asked.family = family

(* What a policy grants: payments to recipients of its network that can receive *)
(* as it demands, with every amount it demands, and, when no amount is left    *)
(* open, not more than its limit and not more than there is.                  *)
WithinPolicy(payments, policy) ==
  LET receivers == policy.receivers
      sum[n \in 0..Len(payments)] == IF n = 0 THEN 0 ELSE sum[n - 1] + payments[n].amount
  IN
  /\ Len(payments) \in 1..policy.max_payments
  /\ \A i \in DOMAIN payments :
       LET recipient == payments[i].recipient IN
       /\ recipient.network = policy.network
       /\ receivers.require_shielded =>
            Receivers(recipient) \cap {"orchard", "sapling"} # {}
       /\ receivers.forbid_transparent => "transparent" \notin Receivers(recipient)
       /\ policy.require_amounts => payments[i].amount # Unstated
       /\ policy.require_positive => payments[i].amount # 0
  /\ (\A i \in DOMAIN payments : payments[i].amount # Unstated) =>
       sum[Len(payments)] <= policy.max_total /\ sum[Len(payments)] <= MaxMoney

(* A request that is accepted asks for nothing but what the policy grants        *)
(* (validate_payment_request; a payment without an amount lifts the limit).     *)
PaymentWithinPolicy ==
  Of("payment") /\ answer = "none" => WithinPolicy(asked.request.payments, asked.policy)

Becomes(state) ==
  CASE state = "Pending" -> {"Pending", "Confirmed", "Expired"}
    [] state = "Expired" -> {"Expired", "Confirmed"}
    [] OTHER -> {state}

(* Looked at again, with more blocks and more confirmations of the same         *)
(* observations, a payment is confirmed if it was, whatever has expired since,   *)
(* and only a pending one expires (evaluate_lifecycle, whose rules overlap).    *)
LifecycleIsMonotone ==
  Of("lifecycle") =>
    \A blocks, confirmations \in Later :
      LET f == asked.fixture
          later == [f EXCEPT !.height = @ + blocks,
                             !.confirmations = IF f.observations = 0 THEN @
                                               ELSE @ + confirmations]
      IN  Lifecycle(later) \in Becomes(answer)

(* A result accepted for a job is one that a holder of a configured key signed  *)
(* for that very job, in every field, those its digest leaves out included      *)
(* (sign, verify, and the comparison of worker_loop).                         *)
ResultIsForTheJob ==
  Of("result") /\ answer =>
    OnlySignedIsAccepted(KeysOf(asked.config), asked.job, asked.result, asked.signed)

(* A draft is refused for a reason that is reported; an accepted one becomes a    *)
(* lesson that keeps its answers, and nothing is added to it a second time      *)
(* (ai_learning_lesson_validation_failures, learning_wrong_options,            *)
(* compact_ai_lesson_to_learning_lesson).                                     *)
AnswersAreKept ==
  Of("draft") =>
    LET draft == asked.draft IN
    /\ answer.valid <=> answer.failures = {}
    /\ answer.valid =>
         /\ Texts!Gate!AnswersStand(draft, asked.place, asked.jitter)
         /\ Texts!Gate!Normalize(asked.request, asked.place, draft) = draft

(* What the gate accepts is good by its own score. *)
ScoresAgree == Of("score") => AcceptedIsValidated(asked.draft)

(* A saved session is read as it was saved, its statuses tell the lessons it     *)
(* has, its marked answers are shown, and the latest evaluations are kept.      *)
SavedSessionStands ==
  Of("session") =>
    /\ SavedReadsBack(asked.session)
    /\ StatusesTell(asked.session)
    /\ AnswerIsShown(asked.session)
    /\ LatestArtifactsAreKept(asked.session)

(* Whatever a model writes around it, and whatever stands in its strings, the   *)
(* first object of an answer is read whole and alone (extract_json_object).    *)
ObjectIsRead == Of("text") => answer = asked.object

(* A quest that was accepted stands when its files are cut, on its author's words. *)
QuestSurvivesCut == Of("quest") => StandsWhenCut(asked.quest, asked.context)

(* The application agrees with the run it is for. *)
PacketAgreesWithRun == Of("agent") => PacketFollowsRun(asked.request, asked.form)
=============================================================================
