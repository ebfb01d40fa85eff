--------------------------- MODULE RuleChecksProofs ---------------------------
(***************************************************************************)
(* What RuleChecks states of results, payments, drafts, scores, sessions,    *)
(* answers and quests, for any sets of them, and texts of any length.  A     *)
(* recursion of the rules is unfolded as a function of prefixes, and what    *)
(* holds of every prefix is shown by induction on their lengths.             *)
(***************************************************************************)
EXTENDS RuleChecks, FiniteSetTheorems, SequenceTheorems, WellFoundedInduction, TLAPS

-----------------------------------------------------------------------------
(* Induction.  What holds for the prefixes of a text is shown of a set of their  *)
(* lengths, from the least that is left out.                                  *)

LEMMA LeastNatural ==
  ASSUME NEW T \in SUBSET Nat, T # {}
  PROVE  \E x \in T : \A y \in T : x <= y
<1> DEFINE R == OpToRel(<, Nat)
<1>1. IsWellFoundedOn(R, Nat)
  BY NatLessThanWellFounded
<1>2. \A x, y \in Nat : y < x => <<y, x>> \in R
  BY DEF OpToRel
<1> HIDE DEF R
<1>3. PICK x \in T : \A y \in T : ~(<<y, x>> \in R)
  BY <1>1, WFMin
<1>4. \A y \in T : ~(y < x)
  BY <1>2, <1>3
<1>5. \A y \in T : x <= y
  BY <1>4
<1> QED  BY <1>5

LEMMA Induction ==
  ASSUME NEW n \in Nat, NEW good, 0 \in good, \A i \in 1..n : i - 1 \in good => i \in good
  PROVE  \A i \in 0..n : i \in good
<1> SUFFICES ASSUME NEW k \in 0..n, k \notin good PROVE FALSE
  OBVIOUS
<1> DEFINE left == {i \in 0..n : i \notin good}
<1>1. left \in SUBSET Nat /\ left # {}
  OBVIOUS
<1>2. PICK i \in left : \A j \in left : i <= j
  <2> HIDE DEF left
  <2> QED  BY <1>1, LeastNatural
<1>3. i \in 0..n /\ i \notin good /\ i # 0
  OBVIOUS
<1>4. i - 1 \in 0..n /\ i - 1 < i
  BY <1>3
<1>5. i - 1 \in good
  BY <1>2, <1>4
<1> QED  BY <1>3, <1>5

(* A function given step by step over the prefixes of a text exists.           *)
Follows(g, base, n, step) ==
  g[0] = base /\ \A i \in 1..n : g[i] = step[<<i, g[i - 1]>>]

LEMMA PrefixFunction ==
  ASSUME NEW S, NEW base \in S, NEW n \in Nat, NEW step,
         \A i \in 1..n, x \in S : step[<<i, x>>] \in S
  PROVE  \E g \in [0..n -> S] : Follows(g, base, n, step)
<1> DEFINE good == {k \in 0..n : \E g \in [0..k -> S] : Follows(g, base, k, step)}
<1>1. 0 \in good
  <2> DEFINE g == [i \in 0..0 |-> base]
  <2>1. g \in [0..0 -> S] /\ Follows(g, base, 0, step)
    BY DEF Follows
  <2> HIDE DEF g
  <2> QED  BY <2>1
<1>2. ASSUME NEW k \in 1..n, k - 1 \in good PROVE k \in good
  <2>1. PICK f \in [0..(k - 1) -> S] : Follows(f, base, k - 1, step)
    BY <1>2
  <2> DEFINE g == [i \in 0..k |-> IF i = k THEN step[<<k, f[k - 1]>>] ELSE f[i]]
  <2>2. f[k - 1] \in S /\ step[<<k, f[k - 1]>>] \in S
    OBVIOUS
  <2>3. g \in [0..k -> S]
    BY <2>2
  <2>4. g[0] = f[0] /\ g[k] = step[<<k, f[k - 1]>>] /\ \A i \in 0..(k - 1) : g[i] = f[i]
    OBVIOUS
  <2> HIDE DEF g
  <2>5. \A i \in 1..k : g[i] = step[<<i, g[i - 1]>>]
    <3> TAKE i \in 1..k
    <3>1. g[i - 1] = f[i - 1]
      BY <2>4
    <3>2. CASE i = k
      BY <2>4, <3>1, <3>2
    <3>3. CASE i # k
      BY <2>1, <2>4, <3>1, <3>3 DEF Follows
    <3> QED  BY <3>2, <3>3
  <2>6. g[0] = base
    BY <2>1, <2>4 DEF Follows
  <2>7. Follows(g, base, k, step)
    BY <2>5, <2>6 DEF Follows
  <2>8. k \in 0..n
    OBVIOUS
  <2> QED  BY <2>3, <2>7, <2>8
<1>3. n \in good
  <2>1. n \in 0..n
    OBVIOUS
  <2> HIDE DEF good
  <2> QED  BY <1>1, <1>2, <2>1, Induction
<1> QED  BY <1>3

-----------------------------------------------------------------------------
(* Questions *)

(* A question of a family is asked by one action only.                        *)
LEMMA AskedBy ==
  ASSUME [Next]_vars, ~UNCHANGED vars
  PROVE  /\ Of("payment")' => JudgePayment
         /\ Of("lifecycle")' => JudgeLifecycle
         /\ Of("result")' => JudgeResult
         /\ Of("draft")' => JudgeDraft
         /\ Of("score")' => ScoreDraft
         /\ Of("session")' => SaveSession
         /\ Of("text")' => ReadAnswer
         /\ Of("quest")' => JudgeQuest
         /\ Of("agent")' => Apply
<1>1. JudgeAddress => asked'.family = "address"
  BY DEF JudgeAddress, Ask
<1>2. JudgePayment => asked'.family = "payment"
  BY DEF JudgePayment, Ask
<1>3. JudgeKey => asked'.family = "key"
  BY DEF JudgeKey, Ask
<1>4. JudgeLifecycle => asked'.family = "lifecycle"
  BY DEF JudgeLifecycle, Ask
<1>5. JudgeResult => asked'.family = "result"
  BY DEF JudgeResult, Ask
<1>6. JudgeDraft => asked'.family = "draft"
  BY DEF JudgeDraft, Ask
<1>7. ScoreDraft => asked'.family = "score"
  BY DEF ScoreDraft, Ask
<1>8. SaveSession => asked'.family = "session"
  BY DEF SaveSession, Ask
<1>9. ReadAnswer => asked'.family = "text"
  BY DEF ReadAnswer, Ask
<1>10. JudgeQuest => asked'.family = "quest"
  BY DEF JudgeQuest, Ask
<1>11. Apply => asked'.family = "agent"
  BY DEF Apply, Ask
<1>12. Done => asked' = None
  BY DEF Done
<1>13. Next
  BY DEF vars
<1> QED
  BY <1>1, <1>2, <1>3, <1>4, <1>5, <1>6, <1>7, <1>8, <1>9, <1>10, <1>11, <1>12, <1>13
  DEF Next, Of

-----------------------------------------------------------------------------
(* Signed results *)

(* What validate demands of a job fixes all that its binding leaves out        *)
(* (RunnerJob::validate, binding).                                           *)
THEOREM BindingsDetermineJobs == \A a, b : BindingDeterminesJob(a, b)
<1> SUFFICES ASSUME NEW a, NEW b, IsJob(a), IsJob(b),
                    JobError(a) = "none", JobError(b) = "none", Binding(a) = Binding(b)
             PROVE  a = b
  BY DEF BindingDeterminesJob
<1>1. /\ a.ecosystem_id = Ecosystem /\ a.track_id = Track /\ a.track_version = TrackVersion
      /\ a.content_version = ContentVersion /\ a.source_digest = DigestOf(a.source)
  BY DEF JobError
<1>2. /\ b.ecosystem_id = Ecosystem /\ b.track_id = Track /\ b.track_version = TrackVersion
      /\ b.content_version = ContentVersion /\ b.source_digest = DigestOf(b.source)
  BY DEF JobError
<1>3. /\ a.protocol_version = b.protocol_version /\ a.runner_version = b.runner_version
      /\ a.job_id = b.job_id /\ a.submission_id = b.submission_id /\ a.user_id = b.user_id
      /\ a.scenario_id = b.scenario_id
      /\ a.scenario_manifest_version = b.scenario_manifest_version
      /\ a.source_digest = b.source_digest /\ a.test_bundle_digest = b.test_bundle_digest
  BY DEF Binding
<1>4. a.source = b.source
  BY <1>1, <1>2, <1>3 DEF DigestOf
<1>5. \A field \in JobFields : a[field] = b[field]
  BY <1>1, <1>2, <1>3, <1>4 DEF JobFields
<1> QED  BY <1>5 DEF IsJob

(* A signature that verifies was made with the key's secret, over the very     *)
(* evidence it comes with.                                                   *)
LEMMA VerifiedWasSigned ==
  ASSUME NEW keys, NEW job, NEW r, NEW history \in Histories, r \in Offered[history],
         Accepted(keys, job, r)
  PROVE  \E s \in history :
           /\ s.secret = keys[r.key_id]
           /\ Finalized(s.evidence) = r.evidence
           /\ r.evidence.binding = Binding(job)
<1>1. /\ r.signature # None
      /\ r.signature = [by |-> keys[r.key_id], of |-> r.evidence]
      /\ r.evidence.binding = Binding(job)
  BY DEF Accepted, VerifyError, Payload
<1>2. PICK s \in history : r.signature = Sign(s.id, s.secret, s.evidence).signature
  BY <1>1, HistoryAssumption
<1>3. r.signature = [by |-> s.secret, of |-> Finalized(s.evidence)]
  BY <1>2 DEF Sign, Payload
<1>4. s.secret = keys[r.key_id] /\ Finalized(s.evidence) = r.evidence
  BY <1>1, <1>3
<1> QED  BY <1>1, <1>4

LEMMA FinalizedKeepsBinding ==
  ASSUME NEW e, IsEvidence(e)
  PROVE  Finalized(e).binding = e.binding
  BY DEF IsEvidence, EvidenceFields, Finalized

LEMMA AcceptedIsForTheJob ==
  ASSUME NEW keys, NEW job \in Jobs, NEW history \in Histories, NEW r \in Offered[history],
         JobError(job) = "none"
  PROVE  OnlySignedIsAccepted(keys, job, r, SignedBy(history))
<1> SUFFICES ASSUME Accepted(keys, job, r)
             PROVE  \E t \in SignedBy(history) :
                      /\ t.result.signature.by = keys[r.key_id]
                      /\ t.result.evidence = r.evidence
                      /\ t.job = job
  BY DEF OnlySignedIsAccepted
<1>1. PICK s \in history : /\ s.secret = keys[r.key_id]
                           /\ Finalized(s.evidence) = r.evidence
                           /\ r.evidence.binding = Binding(job)
  BY VerifiedWasSigned
<1>2. /\ IsJob(job) /\ IsJob(s.job) /\ JobError(s.job) = "none"
      /\ IsEvidence(s.evidence) /\ s.evidence.binding = Binding(s.job)
  BY HistoryAssumption
<1>3. Binding(s.job) = Binding(job)
  BY <1>1, <1>2, FinalizedKeepsBinding
<1>4. s.job = job
  BY <1>2, <1>3, BindingsDetermineJobs DEF BindingDeterminesJob
<1> DEFINE t == [job |-> s.job, result |-> Sign(s.id, s.secret, s.evidence)]
<1>5. t \in SignedBy(history)
  BY DEF SignedBy
<1>6. t.result.signature.by = s.secret /\ t.result.evidence = Finalized(s.evidence) /\ t.job = s.job
  BY DEF Sign
<1> QED  BY <1>1, <1>4, <1>5, <1>6

(* What the worker stores was signed, by the holder of a configured key, for     *)
(* the very job it waits for (sign, verify, worker_loop).                     *)
THEOREM ResultsAreForTheirJobs == Spec => []ResultIsForTheJob
<1>1. Init => ResultIsForTheJob
  BY DEF Init, ResultIsForTheJob, Of
<1>2. ASSUME ResultIsForTheJob, [Next]_vars PROVE ResultIsForTheJob'
  <2>1. CASE JudgeResult
    <3>1. PICK config \in Configs, history \in Histories, job \in Jobs :
             \E result \in Offered[history] :
               /\ asked' = [family |-> "result", config |-> config, signed |-> SignedBy(history),
                            job |-> job, result |-> result]
               /\ answer' = (/\ ConfigError(config) = "none" /\ JobError(job) = "none"
                             /\ Accepted(KeysOf(config), job, result))
      BY <2>1 DEF JudgeResult, Ask
    <3>2. PICK result \in Offered[history] :
               /\ asked' = [family |-> "result", config |-> config, signed |-> SignedBy(history),
                            job |-> job, result |-> result]
               /\ answer' = (/\ ConfigError(config) = "none" /\ JobError(job) = "none"
                             /\ Accepted(KeysOf(config), job, result))
      BY <3>1
    <3>3. CASE JobError(job) = "none"
      BY <3>2, <3>3, AcceptedIsForTheJob DEF ResultIsForTheJob
    <3>4. CASE JobError(job) # "none"
      BY <3>2, <3>4 DEF ResultIsForTheJob
    <3> QED  BY <3>3, <3>4
  <2>2. CASE UNCHANGED vars
    BY <1>2, <2>2 DEF ResultIsForTheJob, Of, vars
  <2>3. CASE ~Of("result")'
    BY <2>3 DEF ResultIsForTheJob
  <2> QED  BY <1>2, <2>1, <2>2, <2>3, AskedBy
<1> QED  BY <1>1, <1>2, PTL DEF Spec

-----------------------------------------------------------------------------
(* Observed payments *)

LEMMA FirstOf ==
  ASSUME NEW n \in Nat, NEW checks, DOMAIN checks = 1..n, NEW k \in 1..n,
         checks[k][1], \A j \in 1..(k - 1) : ~checks[j][1]
  PROVE  FirstError(checks) = checks[k][2]
<1>1. \A i \in 1..n : checks[i][1] /\ (\A j \in 1..(i - 1) : ~checks[j][1]) => i = k
  <2> SUFFICES ASSUME NEW i \in 1..n, checks[i][1], \A j \in 1..(i - 1) : ~checks[j][1], i # k
               PROVE  FALSE
    OBVIOUS
  <2>1. i \in 1..(k - 1) \/ k \in 1..(i - 1)
    OBVIOUS
  <2> QED  BY <2>1
<1> DEFINE c == CHOOSE i \in DOMAIN checks : checks[i][1] /\ \A j \in 1..(i - 1) : ~checks[j][1]
<1>2. c = k
  BY <1>1
<1> QED  BY <1>2 DEF FirstError

(* The verdict, rule by rule.                                                 *)
LEMMA LifecycleCases ==
  ASSUME NEW f, f.observations \in Nat, f.confirmations \in Nat, f.required \in Nat,
         f.height \in Nat, f.expires \in Nat, f.confirmed_before \in BOOLEAN
  PROVE  Lifecycle(f) =
           IF InvalidFixture(f) THEN "InvalidFixture"
           ELSE IF f.observations > 0 /\ ~f.matches THEN "Mismatched"
           ELSE IF f.observations > 1 THEN "Duplicated"
           ELSE IF f.confirmed_before /\ f.observations = 0 THEN "Reorged"
           ELSE IF f.observations = 1 /\ f.confirmations >= f.required THEN "Confirmed"
           ELSE IF f.height > f.expires THEN "Expired"
           ELSE "Pending"
<1> DEFINE p1 == InvalidFixture(f)
           p2 == f.observations > 0 /\ ~f.matches
           p3 == f.observations > 1
           p4 == f.confirmed_before /\ f.observations = 0
           p5 == f.observations = 1 /\ f.confirmations >= f.required
           p6 == f.height > f.expires
<1>1. /\ p1 \in BOOLEAN /\ p2 \in BOOLEAN /\ p3 \in BOOLEAN
      /\ p4 \in BOOLEAN /\ p5 \in BOOLEAN /\ p6 \in BOOLEAN
  BY DEF InvalidFixture
<1>2. Lifecycle(f) =
        FirstError(<< <<p1, "InvalidFixture">>, <<p2, "Mismatched">>, <<p3, "Duplicated">>,
                      <<p4, "Reorged">>, <<p5, "Confirmed">>, <<p6, "Expired">>,
                      <<TRUE, "Pending">> >>)
  BY Zenon DEF Lifecycle
<1> HIDE DEF p1, p2, p3, p4, p5, p6
<1> DEFINE checks == << <<p1, "InvalidFixture">>, <<p2, "Mismatched">>, <<p3, "Duplicated">>,
                        <<p4, "Reorged">>, <<p5, "Confirmed">>, <<p6, "Expired">>,
                        <<TRUE, "Pending">> >>
<1> DEFINE first == IF p1 THEN "InvalidFixture" ELSE IF p2 THEN "Mismatched"
                    ELSE IF p3 THEN "Duplicated" ELSE IF p4 THEN "Reorged"
                    ELSE IF p5 THEN "Confirmed" ELSE IF p6 THEN "Expired" ELSE "Pending"
<1>3. Lifecycle(f) = FirstError(checks)
  BY <1>2
<1>4. DOMAIN checks = 1..7
  OBVIOUS
<1>5. /\ checks[1][1] = p1 /\ checks[1][2] = "InvalidFixture"
      /\ checks[2][1] = p2 /\ checks[2][2] = "Mismatched"
      /\ checks[3][1] = p3 /\ checks[3][2] = "Duplicated"
      /\ checks[4][1] = p4 /\ checks[4][2] = "Reorged"
      /\ checks[5][1] = p5 /\ checks[5][2] = "Confirmed"
      /\ checks[6][1] = p6 /\ checks[6][2] = "Expired"
      /\ checks[7][1] = TRUE /\ checks[7][2] = "Pending"
  OBVIOUS
<1> HIDE DEF checks
<1>6. ASSUME p1 PROVE FirstError(checks) = first
  <2>1. \A j \in 1..(1 - 1) : ~checks[j][1]
    BY <1>5, <1>6
  <2>2. checks[1][1]
    BY <1>5, <1>6
  <2>3. 7 \in Nat /\ 1 \in 1..7
    OBVIOUS
  <2>4. FirstError(checks) = checks[1][2]
    BY <1>4, <2>1, <2>2, <2>3, FirstOf, Zenon
  <2> QED  BY <1>5, <1>6, <2>4
<1>7. ASSUME ~p1 /\ p2 PROVE FirstError(checks) = first
  <2>1. \A j \in 1..(2 - 1) : ~checks[j][1]
    BY <1>5, <1>7
  <2>2. checks[2][1]
    BY <1>5, <1>7
  <2>3. 7 \in Nat /\ 2 \in 1..7
    OBVIOUS
  <2>4. FirstError(checks) = checks[2][2]
    BY <1>4, <2>1, <2>2, <2>3, FirstOf, Zenon
  <2> QED  BY <1>5, <1>7, <2>4
<1>8. ASSUME ~p1 /\ ~p2 /\ p3 PROVE FirstError(checks) = first
  <2>1. \A j \in 1..(3 - 1) : ~checks[j][1]
    BY <1>5, <1>8
  <2>2. checks[3][1]
    BY <1>5, <1>8
  <2>3. 7 \in Nat /\ 3 \in 1..7
    OBVIOUS
  <2>4. FirstError(checks) = checks[3][2]
    BY <1>4, <2>1, <2>2, <2>3, FirstOf, Zenon
  <2> QED  BY <1>5, <1>8, <2>4
<1>9. ASSUME ~p1 /\ ~p2 /\ ~p3 /\ p4 PROVE FirstError(checks) = first
  <2>1. \A j \in 1..(4 - 1) : ~checks[j][1]
    BY <1>5, <1>9
  <2>2. checks[4][1]
    BY <1>5, <1>9
  <2>3. 7 \in Nat /\ 4 \in 1..7
    OBVIOUS
  <2>4. FirstError(checks) = checks[4][2]
    BY <1>4, <2>1, <2>2, <2>3, FirstOf, Zenon
  <2> QED  BY <1>5, <1>9, <2>4
<1>10. ASSUME ~p1 /\ ~p2 /\ ~p3 /\ ~p4 /\ p5 PROVE FirstError(checks) = first
  <2>1. \A j \in 1..(5 - 1) : ~checks[j][1]
    BY <1>5, <1>10
  <2>2. checks[5][1]
    BY <1>5, <1>10
  <2>3. 7 \in Nat /\ 5 \in 1..7
    OBVIOUS
  <2>4. FirstError(checks) = checks[5][2]
    BY <1>4, <2>1, <2>2, <2>3, FirstOf, Zenon
  <2> QED  BY <1>5, <1>10, <2>4
<1>11. ASSUME ~p1 /\ ~p2 /\ ~p3 /\ ~p4 /\ ~p5 /\ p6 PROVE FirstError(checks) = first
  <2>1. \A j \in 1..(6 - 1) : ~checks[j][1]
    BY <1>5, <1>11
  <2>2. checks[6][1]
    BY <1>5, <1>11
  <2>3. 7 \in Nat /\ 6 \in 1..7
    OBVIOUS
  <2>4. FirstError(checks) = checks[6][2]
    BY <1>4, <2>1, <2>2, <2>3, FirstOf, Zenon
  <2> QED  BY <1>5, <1>11, <2>4
<1>12. ASSUME ~p1 /\ ~p2 /\ ~p3 /\ ~p4 /\ ~p5 /\ ~p6 PROVE FirstError(checks) = first
  <2>1. \A j \in 1..(7 - 1) : ~checks[j][1]
    BY <1>5, <1>12
  <2>2. checks[7][1]
    BY <1>5, <1>12
  <2>3. 7 \in Nat /\ 7 \in 1..7
    OBVIOUS
  <2>4. FirstError(checks) = checks[7][2]
    BY <1>4, <2>1, <2>2, <2>3, FirstOf, Zenon
  <2> QED  BY <1>5, <1>12, <2>4
<1>13. FirstError(checks) = first
  BY <1>6, <1>7, <1>8, <1>9, <1>10, <1>11, <1>12
<1>14. Lifecycle(f) = first
  BY <1>3, <1>13, Zenon
<1> HIDE DEF checks
<1> QED  BY <1>14 DEF first, p1, p2, p3, p4, p5, p6

(* More blocks and confirmations never take a confirmation back.              *)
LEMMA LaterIsMonotone ==
  ASSUME NEW f \in Fixtures, NEW blocks \in Later, NEW confirmations \in Later
  PROVE  Lifecycle([f EXCEPT !.height = @ + blocks,
                             !.confirmations = IF f.observations = 0 THEN @
                                               ELSE @ + confirmations])
           \in Becomes(Lifecycle(f))
<1> DEFINE later == [f EXCEPT !.height = @ + blocks,
                              !.confirmations = IF f.observations = 0 THEN @
                                                ELSE @ + confirmations]
<1>1. /\ f.required \in Nat /\ f.expires \in Nat /\ f.confirmations \in Nat
      /\ f.observations \in Nat /\ f.height \in Nat
      /\ f.matches \in BOOLEAN /\ f.confirmed_before \in BOOLEAN
      /\ blocks \in Nat /\ confirmations \in Nat
  BY FixtureAssumption
<1>2. /\ later.required = f.required /\ later.expires = f.expires
      /\ later.observations = f.observations /\ later.matches = f.matches
      /\ later.confirmed_before = f.confirmed_before
      /\ later.height = f.height + blocks
      /\ later.confirmations = IF f.observations = 0 THEN f.confirmations
                               ELSE f.confirmations + confirmations
  BY FixtureAssumption
<1> HIDE DEF later
<1>3. InvalidFixture(later) <=> InvalidFixture(f)
  BY <1>1, <1>2 DEF InvalidFixture
<1>4. Lifecycle(later) \in Becomes(Lifecycle(f))
  BY <1>1, <1>2, <1>3, LifecycleCases DEF Becomes
<1> QED  BY <1>4 DEF later

(* What is confirmed stays so, and only a pending payment expires                *)
(* (evaluate_lifecycle).                                                     *)
THEOREM LifecyclesAreMonotone == Spec => []LifecycleIsMonotone
<1>1. Init => LifecycleIsMonotone
  BY DEF Init, LifecycleIsMonotone, Of
<1>2. ASSUME LifecycleIsMonotone, [Next]_vars PROVE LifecycleIsMonotone'
  <2>1. CASE JudgeLifecycle
    <3>1. PICK fixture \in Fixtures :
             /\ asked' = [family |-> "lifecycle", fixture |-> fixture]
             /\ answer' = Lifecycle(fixture)
      BY <2>1 DEF JudgeLifecycle, Ask
    <3> QED  BY <3>1, LaterIsMonotone DEF LifecycleIsMonotone
  <2>2. CASE UNCHANGED vars
    BY <1>2, <2>2 DEF LifecycleIsMonotone, Of, vars
  <2>3. CASE ~Of("lifecycle")'
    BY <2>3 DEF LifecycleIsMonotone
  <2> QED  BY <1>2, <2>1, <2>2, <2>3, AskedBy
<1> QED  BY <1>1, <1>2, PTL DEF Spec

-----------------------------------------------------------------------------
(* The agent *)

(* The five steps rest on all the critical evidence, and on no other.         *)
LEMMA StepsRestOnCritical ==
  ASSUME NEW evidence
  PROVE  Critical \subseteq evidence <=> \A i \in 1..5 : Steps[i] \subseteq evidence
<1>1. /\ Steps[1] = {"identity"} /\ Steps[2] = {"signed action", "replay boundary"}
      /\ Steps[3] = {"workflow"} /\ Steps[4] = {"payment proof", "memo binding"}
      /\ Steps[5] = {"reputation"}
  BY DEF Steps
<1>2. Critical = {"identity", "signed action", "replay boundary", "workflow", "payment proof",
                  "memo binding", "reputation"}
  BY DEF Critical, EvidenceLabels
<1>3. (\A i \in 1..5 : Steps[i] \subseteq evidence) <=>
        /\ Steps[1] \subseteq evidence /\ Steps[2] \subseteq evidence
        /\ Steps[3] \subseteq evidence /\ Steps[4] \subseteq evidence
        /\ Steps[5] \subseteq evidence
  OBVIOUS
<1> QED  BY <1>1, <1>2, <1>3

LEMMA ActionsTell ==
  ASSUME NEW evidence, NEW blocked \in BOOLEAN, ~blocked => Critical \subseteq evidence
  PROVE  (\A i \in DOMAIN ActionsOf(evidence, blocked) :
            ActionsOf(evidence, blocked)[i] = "completed") <=> ~blocked
<1> DEFINE actions == ActionsOf(evidence, blocked)
<1>1. DOMAIN actions = 1..6
  BY DEF ActionsOf
<1>2. \A i \in 1..5 : actions[i] = "completed" <=> Steps[i] \subseteq evidence
  BY DEF ActionsOf
<1>3. actions[6] = "completed" <=> ~blocked
  BY DEF ActionsOf
<1> HIDE DEF actions
<1>4. (\A i \in 1..6 : actions[i] = "completed") <=>
        (\A i \in 1..5 : actions[i] = "completed") /\ actions[6] = "completed"
  OBVIOUS
<1>5. (\A i \in 1..6 : actions[i] = "completed") <=> ~blocked
  BY <1>2, <1>3, <1>4, StepsRestOnCritical
<1>6. (\A i \in DOMAIN actions : actions[i] = "completed") <=> ~blocked
  BY <1>1, <1>5
<1> QED  BY <1>6 DEF actions

(* Nothing stands in the way exactly when nothing is missing.                 *)
LEMMA NoBlockers ==
  ASSUME NEW form, NEW run
  PROVE  Blockers(form, run) = {} <=>
           /\ run.status # "blocked" /\ Critical \subseteq run.evidence /\ run.denied = {}
           /\ form.bounty_id # None /\ form.address = "shaped"
           /\ Url(form.content_url) # None /\ form.message # "short"
<1> DEFINE names == {"run", "evidence", "denials", "bounty", "address", "content", "message"}
           stands(what) ==
             CASE what = "run" -> run.status = "blocked"
               [] what = "evidence" -> ~(Critical \subseteq run.evidence)
               [] what = "denials" -> run.denied # {}
               [] what = "bounty" -> form.bounty_id = None
               [] what = "address" -> form.address # "shaped"
               [] what = "content" -> Url(form.content_url) = None
               [] what = "message" -> form.message = "short"
<1>1. Blockers(form, run) = {what \in names : stands(what)}
  BY DEF Blockers
<1>2. /\ stands("run") <=> run.status = "blocked"
      /\ stands("evidence") <=> ~(Critical \subseteq run.evidence)
      /\ stands("denials") <=> run.denied # {}
      /\ stands("bounty") <=> form.bounty_id = None
      /\ stands("address") <=> form.address # "shaped"
      /\ stands("content") <=> Url(form.content_url) = None
      /\ stands("message") <=> form.message = "short"
  OBVIOUS
<1> HIDE DEF stands
<1>3. Blockers(form, run) = {} <=> \A what \in names : ~stands(what)
  BY <1>1
<1> QED  BY <1>2, <1>3

LEMMA FullChecklist ==
  ASSUME NEW form, NEW run
  PROVE  (\A item \in DOMAIN Checklist(form, run) : Checklist(form, run)[item]) <=>
           /\ form.bounty_id # None /\ Url(form.content_url) # None
           /\ run.status = "passed"
           /\ {"signed action", "workflow", "payment proof", "memo binding", "reputation"}
                \subseteq run.evidence
<1> DEFINE list == Checklist(form, run)
<1>1. DOMAIN list =
        {"bounty", "content", "passed", "signed", "workflow", "payment", "reputation"}
  BY DEF Checklist
<1>2. /\ list["bounty"] <=> form.bounty_id # None
      /\ list["content"] <=> Url(form.content_url) # None
      /\ list["passed"] <=> run.status = "passed"
      /\ list["signed"] <=> "signed action" \in run.evidence
      /\ list["workflow"] <=> "workflow" \in run.evidence
      /\ list["payment"] <=> {"payment proof", "memo binding"} \subseteq run.evidence
      /\ list["reputation"] <=> "reputation" \in run.evidence
  BY DEF Checklist
<1> HIDE DEF list
<1>3. (\A item \in DOMAIN list : list[item]) <=>
        /\ list["bounty"] /\ list["content"] /\ list["passed"] /\ list["signed"]
        /\ list["workflow"] /\ list["payment"] /\ list["reputation"]
  BY <1>1
<1>4. (\A item \in DOMAIN list : list[item]) <=>
        /\ form.bounty_id # None /\ Url(form.content_url) # None
        /\ run.status = "passed"
        /\ {"signed action", "workflow", "payment proof", "memo binding", "reputation"}
             \subseteq run.evidence
  BY <1>2, <1>3
<1> QED  BY <1>4 DEF list

LEMMA PacketsFollow ==
  ASSUME NEW request, NEW form
  PROVE  PacketFollowsRun(request, form)
<1> DEFINE evidence == EvidenceIn(request.text)
           denied == DenialsOf(request.text)
           blocked == ~(Critical \subseteq evidence) \/ denied # {}
           run == Run(request)
           packet == Packet(form, run)
<1>1. /\ run.status = IF blocked THEN "blocked" ELSE "passed"
      /\ run.evidence = evidence /\ run.denied = denied
      /\ run.actions = ActionsOf(evidence, blocked)
  BY DEF Run
<1>2. /\ packet.ready_for_signature <=> Blockers(form, run) = {}
      /\ ~packet.ready_for_live_submit
      /\ packet.status = IF Blockers(form, run) = {} THEN "ready-for-signature"
                         ELSE IF run.status = "blocked" \/ run.denied # {} THEN "blocked"
                         ELSE "needs-input"
      /\ packet.checklist = Checklist(form, run)
  BY DEF Packet
<1>3. (\A i \in DOMAIN run.actions : run.actions[i] = "completed") <=> ~blocked
  BY <1>1, ActionsTell
<1> HIDE DEF evidence, denied, run, packet
<1>4. run.status = "passed" <=>
        run.denied = {} /\ \A i \in DOMAIN run.actions : run.actions[i] = "completed"
  BY <1>1, <1>3
<1>5. {"signed action", "workflow", "payment proof", "memo binding", "reputation"}
        \subseteq Critical
  BY DEF Critical, EvidenceLabels
<1>6. packet.ready_for_signature <=>
        /\ \A item \in DOMAIN packet.checklist : packet.checklist[item]
        /\ form.address = "shaped" /\ form.message # "short"
  BY <1>1, <1>2, <1>5, NoBlockers, FullChecklist
<1>7. packet.status = "blocked" <=> run.status = "blocked"
  BY <1>1, <1>2, NoBlockers
<1> QED
  BY <1>2, <1>4, <1>6, <1>7 DEF PacketFollowsRun, run, packet

(* Report and application tell one story of a run (build_aibtc_agent_run,       *)
(* build_aibtc_bounty_application_packet).                                   *)
THEOREM PacketsAgreeWithRuns == Spec => []PacketAgreesWithRun
<1>1. Init => PacketAgreesWithRun
  BY DEF Init, PacketAgreesWithRun, Of
<1>2. ASSUME PacketAgreesWithRun, [Next]_vars PROVE PacketAgreesWithRun'
  BY PacketsFollow DEF PacketAgreesWithRun
<1> QED  BY <1>1, <1>2, PTL DEF Spec

-----------------------------------------------------------------------------
(* Scores *)

(* The percentage of a long enough explanation is a good one, in its bytes too. *)
LEMMA DepthIsGood ==
  ASSUME NEW words \in Nat, words >= MinExplainer
  PROVE  Depth(words) >= Threshold
<1> DEFINE counted == IF words <= FullDepth THEN words ELSE FullDepth
<1>1. counted \in 500..650
  BY DEF MinExplainer, FullDepth
<1>2. (counted * 100) % U16 = counted * 100
  BY <1>1 DEF U16
<1>3. (counted * 100) \div 650 \in 76..100
  <2> HIDE DEF counted
  <2> QED  BY <1>1
<1>4. ((counted * 100) \div 650) % U8 = (counted * 100) \div 650
  <2> HIDE DEF counted
  <2> QED  BY <1>3 DEF U8
<1> QED  BY <1>2, <1>3, <1>4 DEF Depth, FullDepth, Threshold

LEMMA GoodDraftsPass ==
  ASSUME NEW d \in Scored
  PROVE  AcceptedIsValidated(d)
<1> SUFFICES ASSUME GateAccepts(d), ~d.placeholder_in_code
             PROVE  LessonValidation(3, DraftScore(d)).passed
  BY DEF AcceptedIsValidated
<1>1. /\ d.words \in Nat /\ d.words >= MinExplainer
      /\ ~d.generic /\ ~d.placeholder_in_prose /\ d.mentions /\ ~d.leaks
  BY ScoredAssumption DEF GateAccepts
<1> DEFINE score == DraftScore(d)
<1>2. /\ score.source_coverage \in {75, 100}
      /\ score.technical_depth = Depth(d.words)
      /\ score.checkpoint_quality = 95
      /\ score.placeholder_free /\ score.ecosystem_alignment
  BY <1>1 DEF DraftScore
<1>3. score.technical_depth >= Threshold
  BY <1>1, <1>2, DepthIsGood
<1>4. score.passed <=>
        /\ score.source_coverage >= Threshold /\ score.technical_depth >= Threshold
        /\ score.checkpoint_quality >= Threshold
        /\ score.placeholder_free /\ score.ecosystem_alignment
  BY DEF DraftScore
<1> HIDE DEF score
<1>5. score.passed
  BY <1>2, <1>3, <1>4 DEF Threshold
<1>6. LessonValidation(3, score).passed
  BY <1>2, <1>3, <1>5 DEF LessonValidation, Threshold
<1> QED  BY <1>6 DEF score

(* What the gate accepts passes its own score (learning_quality_score_for_compact, *)
(* validation_state_from_lesson).                                            *)
THEOREM ScoresAgreeWithTheGate == Spec => []ScoresAgree
<1>1. Init => ScoresAgree
  BY DEF Init, ScoresAgree, Of
<1>2. ASSUME ScoresAgree, [Next]_vars PROVE ScoresAgree'
  <2>1. CASE ScoreDraft
    <3>1. PICK draft \in Scored : asked' = [family |-> "score", draft |-> draft]
      BY <2>1 DEF ScoreDraft, Ask
    <3> QED  BY <3>1, GoodDraftsPass DEF ScoresAgree
  <2>2. CASE UNCHANGED vars
    BY <1>2, <2>2 DEF ScoresAgree, Of, vars
  <2>3. CASE ~Of("score")'
    BY <2>3 DEF ScoresAgree
  <2> QED  BY <1>2, <2>1, <2>2, <2>3, AskedBy
<1> QED  BY <1>1, <1>2, PTL DEF Spec

-----------------------------------------------------------------------------
(* Quests *)

QuestOf ==
  [blank : SUBSET STRING, gates : Nat, hooks : Nat, steps : Nat, prompts : Nat, wrong : Nat,
   long_objective : BOOLEAN, title : SUBSET Words, story : SUBSET Words,
   asked : SUBSET Words, answer : SUBSET Words, hints : SUBSET Words, lens : SUBSET Words,
   labels : SUBSET Words, files : Seq(File)]

\* A file cut to its limit, without the note.
Cut(file) == [file EXCEPT !.lines = FirstLines(@)]

(* A file within its limit stays as it is; one beyond it keeps its first lines    *)
(* and gets the note.                                                        *)
LEMMA ClippedIs ==
  ASSUME NEW file \in File
  PROVE  /\ Len(file.lines) \in Nat /\ file.lines \in Seq(SUBSET Words)
         /\ Len(file.lines) <= MaxLines => Clipped(file) = file /\ Cut(file) = file
         /\ ~(Len(file.lines) <= MaxLines) =>
              LET head == FirstLines(file.lines)
                  cut == head \o <<ClipNote>>
              IN  /\ head \in Seq(SUBSET Words) /\ Len(head) = MaxLines
                  /\ cut \in Seq(SUBSET Words) /\ Len(cut) = MaxLines + 1
                  /\ \A i \in 1..MaxLines : cut[i] = head[i]
                  /\ cut[MaxLines + 1] = ClipNote
                  /\ Cut(file) = [file EXCEPT !.lines = head]
                  /\ Clipped(file) = [file EXCEPT !.lines = cut]
<1> DEFINE head == FirstLines(file.lines)
           cut == head \o <<ClipNote>>
<1>1. /\ MaxLines \in Nat /\ ClipNote \in SUBSET Words
      /\ file.lines \in Seq(SUBSET Words) /\ Len(file.lines) \in Nat
  BY QuestAssumption DEF File
<1>2. ASSUME Len(file.lines) <= MaxLines PROVE Clipped(file) = file /\ Cut(file) = file
  <2>1. Clipped(file) = file
    BY <1>2 DEF Clipped, File
  <2>2. head \in Seq(SUBSET Words) /\ Len(head) = Len(file.lines)
    BY <1>1, <1>2 DEF FirstLines, AtMost
  <2>3. \A i \in 1..Len(file.lines) : head[i] = file.lines[i]
    BY <1>1, <1>2 DEF FirstLines, AtMost
  <2>4. Cut(file) = [file EXCEPT !.lines = head]
    BY DEF Cut
  <2> HIDE DEF head
  <2>5. head = file.lines
    BY <1>1, <2>2, <2>3, SeqEqual
  <2> QED  BY <2>1, <2>4, <2>5 DEF File
<1>3. ASSUME ~(Len(file.lines) <= MaxLines)
      PROVE  /\ head \in Seq(SUBSET Words) /\ Len(head) = MaxLines
             /\ cut \in Seq(SUBSET Words) /\ Len(cut) = MaxLines + 1
             /\ \A i \in 1..MaxLines : cut[i] = head[i]
             /\ cut[MaxLines + 1] = ClipNote
             /\ Cut(file) = [file EXCEPT !.lines = head]
             /\ Clipped(file) = [file EXCEPT !.lines = cut]
  <2>1. head \in Seq(SUBSET Words) /\ Len(head) = MaxLines
    BY <1>1, <1>3 DEF FirstLines, AtMost
  <2>2. <<ClipNote>> \in Seq(SUBSET Words)
    BY <1>1
  <2>3. /\ Cut(file) = [file EXCEPT !.lines = head]
        /\ Clipped(file) = [file EXCEPT !.lines = cut]
    BY <1>3 DEF Clipped, Cut
  <2> HIDE DEF head
  <2>4. /\ cut \in Seq(SUBSET Words) /\ Len(cut) = MaxLines + 1
        /\ \A i \in 1..MaxLines : cut[i] = head[i]
        /\ cut[MaxLines + 1] = ClipNote
    BY <1>1, <2>1, <2>2
  <2> QED  BY <2>1, <2>3, <2>4
<1> QED  BY <1>1, <1>2, <1>3

(* Cut to its limit and marked, a file is one line longer than the limit; cut     *)
(* again it stays what it is.                                                 *)
LEMMA ClippedOnce ==
  ASSUME NEW file \in File
  PROVE  Clipped(file) \in File /\ Clipped(Clipped(file)) = Clipped(file)
<1>1. CASE Len(file.lines) <= MaxLines
  BY <1>1, ClippedIs
<1>2. CASE ~(Len(file.lines) <= MaxLines)
  <2> DEFINE head == FirstLines(file.lines)
             cut == head \o <<ClipNote>>
             once == Clipped(file)
             again == FirstLines(once.lines)
             cutAgain == again \o <<ClipNote>>
  <2>1. /\ head \in Seq(SUBSET Words) /\ Len(head) = MaxLines /\ MaxLines \in Nat
        /\ cut \in Seq(SUBSET Words) /\ Len(cut) = MaxLines + 1
        /\ \A i \in 1..MaxLines : cut[i] = head[i]
        /\ once = [file EXCEPT !.lines = cut]
    BY <1>2, ClippedIs, QuestAssumption
  <2> HIDE DEF cut
  <2>2. once \in File /\ once.lines = cut
    BY <2>1 DEF File
  <2> HIDE DEF once
  <2>3. ~(Len(once.lines) <= MaxLines)
    BY <2>1, <2>2
  <2>4. /\ again \in Seq(SUBSET Words) /\ Len(again) = MaxLines
        /\ Clipped(once) = [once EXCEPT !.lines = cutAgain]
    BY <2>2, <2>3, ClippedIs
  <2>5. \A i \in 1..MaxLines : again[i] = cut[i]
    <3>1. again = SubSeq(cut, 1, MaxLines)
      BY <2>1, <2>2 DEF FirstLines, AtMost
    <3> HIDE DEF again, head
    <3> QED  BY <2>1, <3>1
  <2> HIDE DEF head, again
  <2>6. again = head
    BY <2>1, <2>4, <2>5, SeqEqual
  <2>7. Clipped(once) = once
    BY <2>2, <2>4, <2>6 DEF File, cut
  <2> QED  BY <2>2, <2>7 DEF once
<1> QED  BY <1>1, <1>2

(* A cut file says what is left of it and what the note says.                  *)
LEMMA CutSays ==
  ASSUME NEW file \in File
  PROVE  /\ Cut(file).path = file.path /\ Clipped(file).path = file.path
         /\ Content(Cut(file)) \subseteq Content(Clipped(file))
         /\ Content(Clipped(file)) \subseteq Content(Cut(file)) \cup ClipNote
<1>1. CASE Len(file.lines) <= MaxLines
  BY <1>1, ClippedIs
<1>2. CASE ~(Len(file.lines) <= MaxLines)
  <2> DEFINE head == FirstLines(file.lines)
             cut == head \o <<ClipNote>>
  <2>1. /\ head \in Seq(SUBSET Words) /\ Len(head) = MaxLines /\ MaxLines \in Nat
        /\ cut \in Seq(SUBSET Words) /\ Len(cut) = MaxLines + 1
        /\ \A i \in 1..MaxLines : cut[i] = head[i]
        /\ cut[MaxLines + 1] = ClipNote
        /\ Cut(file) = [file EXCEPT !.lines = head]
        /\ Clipped(file) = [file EXCEPT !.lines = cut]
    BY <1>2, ClippedIs, QuestAssumption
  <2> HIDE DEF head, cut
  <2>2. /\ Cut(file).path = file.path /\ Clipped(file).path = file.path
        /\ Cut(file).lines = head /\ Clipped(file).lines = cut
    BY <2>1 DEF File
  <2>3. /\ Content(Cut(file)) = UNION {head[i] : i \in 1..MaxLines}
        /\ Content(Clipped(file)) = UNION {cut[i] : i \in 1..(MaxLines + 1)}
    BY <2>1, <2>2 DEF Content, ToSet
  <2>4. ASSUME NEW word \in Content(Cut(file)) PROVE word \in Content(Clipped(file))
    <3>1. PICK i \in 1..MaxLines : word \in head[i]
      BY <2>3
    <3>2. i \in 1..(MaxLines + 1)
      BY <2>1
    <3>3. word \in cut[i]
      BY <2>1, <3>1
    <3> QED  BY <2>3, <3>2, <3>3
  <2>5. ASSUME NEW word \in Content(Clipped(file)) PROVE word \in Content(Cut(file)) \cup ClipNote
    <3>1. PICK i \in 1..(MaxLines + 1) : word \in cut[i]
      BY <2>3
    <3>2. CASE i = MaxLines + 1
      BY <2>1, <3>1, <3>2
    <3>3. CASE i # MaxLines + 1
      <4>1. i \in 1..MaxLines
        BY <2>1, <3>3
      <4>2. word \in head[i]
        BY <2>1, <3>1, <4>1
      <4> QED  BY <2>3, <4>1, <4>2
    <3> QED  BY <3>2, <3>3
  <2> QED  BY <2>2, <2>4, <2>5
<1> QED  BY <1>1, <1>2

(* What compact_quest_blueprint leaves of a quest, text by text.                *)
LEMMA ShownIs ==
  ASSUME NEW quest \in QuestOf
  PROVE  LET n == AtMost(Len(quest.files), 3)
             shown == Shown(quest)
         IN  /\ shown \in QuestOf /\ n \in 0..3 /\ n <= Len(quest.files)
             /\ shown.blank = quest.blank
             /\ shown.gates = AtMost(quest.gates, 3) /\ shown.hooks = AtMost(quest.hooks, 2)
             /\ shown.steps = AtMost(quest.steps, 4) /\ shown.prompts = AtMost(quest.prompts, 4)
             /\ shown.wrong = AtMost(quest.wrong, 3)
             /\ shown.files = [i \in 1..n |-> Clipped(quest.files[i])]
             /\ Len(shown.files) = n
             /\ \A i \in 1..n : quest.files[i] \in File
<1> DEFINE n == AtMost(Len(quest.files), 3)
           files == [i \in 1..n |-> Clipped(quest.files[i])]
           shown == Shown(quest)
<1>1. quest.files \in Seq(File) /\ Len(quest.files) \in Nat
  BY DEF QuestOf
<1>2. n \in 0..3 /\ n <= Len(quest.files)
  <2>1. \A m \in Nat : AtMost(m, 3) \in 0..3 /\ AtMost(m, 3) <= m
    BY DEF AtMost
  <2> QED  BY <1>1, <2>1
<1>3. \A i \in 1..Len(quest.files) : quest.files[i] \in File
  BY <1>1
<1> HIDE DEF n
<1>4. \A i \in 1..n : quest.files[i] \in File
  BY <1>1, <1>2, <1>3
<1>5. files \in Seq(File) /\ Len(files) = n
  <2>1. \A i \in 1..n : Clipped(quest.files[i]) \in File
    BY <1>4, ClippedOnce
  <2> QED  BY <1>2, <2>1
<1> HIDE DEF files
<1>6. shown =
        [quest EXCEPT
          !.gates = AtMost(@, 3), !.hooks = AtMost(@, 2), !.steps = AtMost(@, 4),
          !.prompts = AtMost(@, 4), !.wrong = AtMost(@, 3), !.files = files]
  BY DEF Shown, files, n
<1>7. \A m \in Nat : AtMost(m, 2) \in Nat /\ AtMost(m, 3) \in Nat /\ AtMost(m, 4) \in Nat
  BY DEF AtMost
<1> HIDE DEF shown
<1>8. /\ shown.blank = quest.blank
      /\ shown.gates = AtMost(quest.gates, 3) /\ shown.hooks = AtMost(quest.hooks, 2)
      /\ shown.steps = AtMost(quest.steps, 4) /\ shown.prompts = AtMost(quest.prompts, 4)
      /\ shown.wrong = AtMost(quest.wrong, 3) /\ shown.files = files
  BY <1>6 DEF QuestOf
<1>9. shown \in QuestOf
  BY <1>5, <1>6, <1>7 DEF QuestOf
<1> QED  BY <1>2, <1>4, <1>5, <1>8, <1>9 DEF shown, files, n

(* What was left of a quest is left of it again.                               *)
LEMMA ShownOnce ==
  ASSUME NEW quest \in QuestOf
  PROVE  Shown(Shown(quest)) = Shown(quest)
<1> DEFINE n == AtMost(Len(quest.files), 3)
           shown == Shown(quest)
<1>1. /\ shown \in QuestOf /\ n \in 0..3
      /\ shown.gates = AtMost(quest.gates, 3) /\ shown.hooks = AtMost(quest.hooks, 2)
      /\ shown.steps = AtMost(quest.steps, 4) /\ shown.prompts = AtMost(quest.prompts, 4)
      /\ shown.wrong = AtMost(quest.wrong, 3)
      /\ shown.files = [i \in 1..n |-> Clipped(quest.files[i])]
      /\ Len(shown.files) = n
      /\ \A i \in 1..n : quest.files[i] \in File
  BY ShownIs
<1> HIDE DEF n, shown
<1>2. AtMost(Len(shown.files), 3) = n
  BY <1>1 DEF AtMost
<1>3. [i \in 1..n |-> Clipped(shown.files[i])] = shown.files
  BY <1>1, ClippedOnce
<1>4. \A m \in Nat : /\ AtMost(AtMost(m, 2), 2) = AtMost(m, 2)
                    /\ AtMost(AtMost(m, 3), 3) = AtMost(m, 3)
                    /\ AtMost(AtMost(m, 4), 4) = AtMost(m, 4)
  BY DEF AtMost
<1>5. /\ AtMost(shown.gates, 3) = shown.gates /\ AtMost(shown.hooks, 2) = shown.hooks
      /\ AtMost(shown.steps, 4) = shown.steps /\ AtMost(shown.prompts, 4) = shown.prompts
      /\ AtMost(shown.wrong, 3) = shown.wrong
  BY <1>1, <1>4 DEF QuestOf
<1>6. Shown(shown) =
        [shown EXCEPT
          !.gates = shown.gates, !.hooks = shown.hooks, !.steps = shown.steps,
          !.prompts = shown.prompts, !.wrong = shown.wrong, !.files = shown.files]
  BY <1>2, <1>3, <1>5 DEF Shown
<1>7. Shown(shown) = shown
  BY <1>1, <1>6 DEF QuestOf
<1> QED  BY <1>7 DEF shown

(* An accepted quest would be accepted again, or a cut file fails its own check.  *)
LEMMA AcceptedAgain ==
  ASSUME NEW quest \in QuestOf, NEW context, Accepts(quest, context),
         \A i \in DOMAIN Shown(quest).files :
           Shown(quest).files[i] # quest.files[i] => FileFits(Shown(quest).files[i])
  PROVE  Accepts(Shown(quest), context)
<1> DEFINE n == AtMost(Len(quest.files), 3)
           shown == Shown(quest)
<1>1. /\ PartsFit(quest) /\ Len(quest.files) >= 2 /\ WholeFits(shown, context)
      /\ \A i \in DOMAIN shown.files : FileFits(quest.files[i])
  BY DEF Accepts
<1>2. /\ shown \in QuestOf /\ Shown(shown) = shown
      /\ Len(shown.files) = n
      /\ shown.blank = quest.blank
      /\ shown.gates = AtMost(quest.gates, 3) /\ shown.hooks = AtMost(quest.hooks, 2)
      /\ shown.steps = AtMost(quest.steps, 4) /\ shown.prompts = AtMost(quest.prompts, 4)
      /\ shown.wrong = AtMost(quest.wrong, 3)
  BY ShownIs, ShownOnce
<1>3. \A i \in DOMAIN shown.files : FileFits(shown.files[i])
  BY <1>1
<1> HIDE DEF shown
<1>4. Len(shown.files) >= 2
  <2>1. Len(quest.files) \in Nat
    BY DEF QuestOf
  <2> QED  BY <1>1, <1>2, <2>1 DEF AtMost
<1>5. PartsFit(shown)
  <2>1. /\ quest.gates >= 3 /\ quest.hooks >= 2 /\ quest.steps >= 4 /\ quest.prompts >= 4
        /\ quest.wrong >= 3 /\ quest.gates \in Nat /\ quest.hooks \in Nat
        /\ quest.steps \in Nat /\ quest.prompts \in Nat /\ quest.wrong \in Nat
    BY <1>1 DEF PartsFit, QuestOf
  <2>2. /\ shown.gates >= 3 /\ shown.hooks >= 2 /\ shown.steps >= 4 /\ shown.prompts >= 4
        /\ shown.wrong >= 3
    BY <1>2, <2>1 DEF AtMost
  <2> QED  BY <1>1, <1>2, <2>2 DEF PartsFit
<1>6. Accepts(shown, context)
  BY <1>1, <1>2, <1>3, <1>4, <1>5 DEF Accepts
<1> QED  BY <1>6 DEF shown

(* The note of a cut file has none of the words that a quest is accepted for,     *)
(* unless its lesson is about one of them.                                    *)
LEMMA NoteIsIdle ==
  ASSUME NEW quest \in QuestOf, NEW context, WholeFits(Shown(quest), context),
         (context.concepts \cup context.terms) \cap ClipNote = {}
  PROVE  WholeFits(Written(quest), context)
<1> DEFINE n == AtMost(Len(quest.files), 3)
           shown == Shown(quest)
           written == Written(quest)
           files == [i \in 1..n |-> Cut(quest.files[i])]
<1>1. /\ shown \in QuestOf /\ n \in 0..3
      /\ shown.files = [i \in 1..n |-> Clipped(quest.files[i])]
      /\ \A i \in 1..n : quest.files[i] \in File
  BY ShownIs
<1> HIDE DEF n
<1>2. /\ DOMAIN shown.files = 1..n
      /\ \A i \in 1..n : /\ files[i].path = shown.files[i].path
                         /\ Content(files[i]) \subseteq Content(shown.files[i])
                         /\ Content(shown.files[i]) \subseteq Content(files[i]) \cup ClipNote
  BY <1>1, CutSays
<1>3. written = [shown EXCEPT !.files = files]
  BY <1>1 DEF Written, Cut
<1>4. DOMAIN files = 1..n
  OBVIOUS
<1> HIDE DEF files, shown, written
<1>5. /\ written.title = shown.title /\ written.story = shown.story
      /\ written.asked = shown.asked /\ written.answer = shown.answer
      /\ written.hints = shown.hints /\ written.lens = shown.lens
      /\ written.labels = shown.labels /\ written.long_objective = shown.long_objective
      /\ written.files = files
  BY <1>1, <1>3 DEF QuestOf
<1> DEFINE W == Workspace(shown)
           V == Workspace(written)
<1>6. V \subseteq W /\ W \subseteq V \cup ClipNote
  <2>1. W = UNION {FileWords(shown.files[i]) : i \in 1..n}
    BY <1>2 DEF Workspace
  <2>2. V = UNION {FileWords(files[i]) : i \in 1..n}
    BY <1>4, <1>5 DEF Workspace
  <2>3. \A i \in 1..n : /\ FileWords(files[i]) \subseteq FileWords(shown.files[i])
                        /\ FileWords(shown.files[i]) \subseteq FileWords(files[i]) \cup ClipNote
    BY <1>2 DEF FileWords
  <2> HIDE DEF W, V
  <2> QED  BY <2>1, <2>2, <2>3
<1>7. ClipNote \cap (WorkspaceTests \cup Domain \cup Denial \cup Specific) = {}
  BY QuestAssumption
<1>8. QualityFits(shown) /\ (context.lesson => Aligned(shown, context) /\ Original(shown))
  BY DEF WholeFits, shown
<1>9. QualityFits(written)
  <2> DEFINE challenge == shown.asked \cup shown.answer \cup shown.hints \cup shown.lens \cup shown.labels
  <2>1. /\ \E i \in 1..n : ~IsTest(shown.files[i])
        /\ W \cap WorkspaceTests # {} /\ W \cap Domain # {} /\ W \cap Denial # {}
        /\ W \cap Specific \cap challenge # {}
        /\ shown.answer \cap GenericAnswers = {} /\ shown.long_objective
    BY <1>2, <1>8 DEF QualityFits
  <2>2. \E i \in 1..n : ~IsTest(files[i])
    BY <1>2, <2>1 DEF IsTest
  <2> HIDE DEF W, V, challenge
  <2>3. /\ V \cap WorkspaceTests # {} /\ V \cap Domain # {} /\ V \cap Denial # {}
        /\ V \cap Specific \cap challenge # {}
    BY <1>6, <1>7, <2>1
  <2> QED  BY <1>4, <1>5, <2>1, <2>2, <2>3 DEF QualityFits, V, challenge
<1>10. ASSUME context.lesson PROVE Aligned(written, context) /\ Original(written)
  <2> DEFINE texts == shown.title \cup shown.story \cup shown.asked \cup shown.answer
  <2>1. /\ (texts \cup W) \cap GenericOutput = {}
        /\ \/ (texts \cup W) \cap context.concepts # {}
           \/ Cardinality((texts \cup W) \cap context.terms) >= 3
        /\ (shown.title \cup shown.lens \cup W) \cap Scaffold = {}
    BY <1>8, <1>10 DEF Aligned, Original
  <2> HIDE DEF W, V, texts
  <2>2. (texts \cup W) \cap context.terms = (texts \cup V) \cap context.terms
    BY <1>6
  <2>3. (texts \cup W) \cap context.concepts = (texts \cup V) \cap context.concepts
    BY <1>6
  <2>4. /\ (texts \cup V) \cap GenericOutput = {}
        /\ (shown.title \cup shown.lens \cup V) \cap Scaffold = {}
    BY <1>6, <2>1
  <2>5. Aligned(written, context)
    BY <1>5, <2>1, <2>2, <2>3, <2>4 DEF Aligned, V, texts
  <2> QED  BY <1>5, <2>4, <2>5 DEF Original, V
<1>11. WholeFits(written, context)
  BY <1>9, <1>10 DEF WholeFits
<1> QED  BY <1>11 DEF written

LEMMA QuestStands ==
  ASSUME NEW quest \in Quests, NEW context
  PROVE  StandsWhenCut(quest, context)
<1>1. quest \in QuestOf
  BY QuestAssumption DEF QuestOf
<1>2. Accepts(quest, context) => WholeFits(Shown(quest), context)
  BY DEF Accepts
<1> QED  BY <1>1, <1>2, AcceptedAgain, NoteIsIdle DEF StandsWhenCut

(* What was accepted stands once its files are cut (compact_quest_blueprint): it  *)
(* would be accepted again unless a cut file fails its own check, and it is       *)
(* accepted for its author's words unless its lesson is about the note's.      *)
THEOREM QuestsSurviveTheCut == Spec => []QuestSurvivesCut
<1>1. Init => QuestSurvivesCut
  BY DEF Init, QuestSurvivesCut, Of
<1>2. ASSUME QuestSurvivesCut, [Next]_vars PROVE QuestSurvivesCut'
  <2>1. CASE JudgeQuest
    <3>1. PICK quest \in Quests, context \in Contexts :
             asked' = [family |-> "quest", quest |-> quest, context |-> context]
      BY <2>1 DEF JudgeQuest, Ask
    <3> QED  BY <3>1, QuestStands DEF QuestSurvivesCut
  <2>2. CASE UNCHANGED vars
    BY <1>2, <2>2 DEF QuestSurvivesCut, Of, vars
  <2>3. CASE ~Of("quest")'
    BY <2>3 DEF QuestSurvivesCut
  <2> QED  BY <1>2, <2>1, <2>2, <2>3, AskedBy
<1> QED  BY <1>1, <1>2, PTL DEF Spec

-----------------------------------------------------------------------------
(* Payment requests *)

(* Without an error no check applies, each check having one of its own.        *)
LEMMA NoFirstError ==
  ASSUME NEW n \in Nat, NEW checks, DOMAIN checks = 1..n, FirstError(checks) = "none",
         \A i \in 1..n : checks[i][1] => checks[i][2] # "none"
  PROVE  \A i \in 1..n : ~checks[i][1]
<1> SUFFICES ASSUME NEW i \in 1..n, checks[i][1] PROVE FALSE
  OBVIOUS
<1> DEFINE failed == {j \in 1..n : checks[j][1]}
<1>1. failed \in SUBSET Nat /\ failed # {}
  OBVIOUS
<1>2. PICK k \in failed : \A j \in failed : k <= j
  <2> HIDE DEF failed
  <2> QED  BY <1>1, LeastNatural
<1>3. k \in 1..n /\ checks[k][1]
  OBVIOUS
<1>4. \A j \in 1..(k - 1) : ~checks[j][1]
  BY <1>2, <1>3
<1>5. FirstError(checks) = checks[k][2]
  <2> HIDE DEF failed
  <2> QED  BY <1>3, <1>4, FirstOf
<1> QED  BY <1>3, <1>5

(* What an address without error can receive.                                 *)
LEMMA SoundAddress ==
  ASSUME NEW address, NEW network, NEW policy,
         ParsedAddressError(address, network, policy) = "none"
  PROVE  /\ address.network = network
         /\ policy.require_shielded => Receivers(address) \cap {"orchard", "sapling"} # {}
         /\ policy.forbid_transparent => "transparent" \notin Receivers(address)
<1> DEFINE p1 == address.network # network
           p2 == policy.require_unified /\ address.kind # "Unified"
           p3 == address.kind = "Sprout"
           p4 == policy.forbid_transparent /\ "transparent" \in Receivers(address)
           p5 == ~policy.allow_unknown /\ HasUnknown(address)
           p6 == policy.require_shielded /\ Preferred(address, policy) = "none"
           checks == << <<p1, "WrongNetwork">>, <<p2, "UnifiedRequired">>,
                        <<p3, "SproutUnsupported">>, <<p4, "TransparentReceiverForbidden">>,
                        <<p5, "UnknownReceiverUnsupported">>,
                        <<p6, "ShieldedReceiverRequired">> >>
<1>1. FirstError(checks) = "none"
  BY Zenon DEF ParsedAddressError
<1> HIDE DEF p1, p2, p3, p4, p5, p6
<1>2. /\ DOMAIN checks = 1..6
      /\ \A i \in 1..6 : checks[i][2] # "none"
      /\ checks[1][1] = p1 /\ checks[4][1] = p4 /\ checks[6][1] = p6
  OBVIOUS
<1> HIDE DEF checks
<1>3. \A i \in 1..6 : ~checks[i][1]
  BY <1>1, <1>2, NoFirstError
<1>4. ~p1 /\ ~p4 /\ ~p6
  BY <1>2, <1>3
<1>5. policy.require_shielded => Receivers(address) \cap {"orchard", "sapling"} # {}
  <2> SUFFICES ASSUME policy.require_shielded PROVE Receivers(address) \cap {"orchard", "sapling"} # {}
    OBVIOUS
  <2>1. Preferred(address, policy) # "none"
    BY <1>4 DEF p6
  <2> QED  BY <2>1 DEF Preferred
<1> QED  BY <1>4, <1>5 DEF p1, p4

LEMMA SoundPayment ==
  ASSUME NEW payment, NEW policy, PaymentError(payment, policy) = "none"
  PROVE  /\ ParsedAddressError(payment.recipient, policy.network, policy.receivers) = "none"
         /\ policy.require_amounts => payment.amount # Unstated
         /\ policy.require_positive => payment.amount # 0
<1> DEFINE error == ParsedAddressError(payment.recipient, policy.network, policy.receivers)
           p1 == error # "none"
           p2 == policy.require_amounts /\ payment.amount = Unstated
           p3 == policy.require_positive /\ payment.amount = 0
           checks == << <<p1, RecipientError(error)>>, <<p2, "AmountRequired">>,
                        <<p3, "ZeroAmount">> >>
<1>1. FirstError(checks) = "none"
  BY Zenon DEF PaymentError
<1>2. p1 => RecipientError(error) # "none"
  <2> HIDE DEF error
  <2> QED  BY DEF RecipientError
<1> HIDE DEF p1, p2, p3, error
<1>3. /\ DOMAIN checks = 1..3
      /\ checks[1][1] = p1 /\ checks[2][1] = p2 /\ checks[3][1] = p3
      /\ checks[1][2] = RecipientError(error) /\ checks[2][2] = "AmountRequired"
      /\ checks[3][2] = "ZeroAmount"
  OBVIOUS
<1> HIDE DEF checks
<1>4. \A i \in 1..3 : checks[i][1] => checks[i][2] # "none"
  BY <1>2, <1>3
<1>5. \A i \in 1..3 : ~checks[i][1]
  BY <1>1, <1>3, <1>4, NoFirstError
<1>6. ~p1 /\ ~p2 /\ ~p3
  BY <1>3, <1>5
<1> QED  BY <1>6 DEF p1, p2, p3, error

(* The checked total follows its definition, payment by payment.              *)
LEMMA TotalByPayments ==
  ASSUME NEW payments \in Seq(Payment)
  PROVE  \E total :
           /\ Total(payments) = total[Len(payments)]
           /\ total[0] = 0
           /\ \A n \in 1..Len(payments) :
                total[n] = IF total[n - 1] < 0 THEN total[n - 1]
                           ELSE IF payments[n].amount = Unstated THEN Unstated
                           ELSE IF total[n - 1] + payments[n].amount > MaxMoney THEN Overflow
                           ELSE total[n - 1] + payments[n].amount
<1> DEFINE length == Len(payments)
           next(n, sum) == IF sum < 0 THEN sum
                           ELSE IF payments[n].amount = Unstated THEN Unstated
                           ELSE IF sum + payments[n].amount > MaxMoney THEN Overflow
                           ELSE sum + payments[n].amount
           step == [x \in (1..length) \X Int |-> next(x[1], x[2])]
           is(g) == g = [n \in 0..length |-> IF n = 0 THEN 0 ELSE next(n, g[n - 1])]
<1>1. length \in Nat /\ \A n \in 1..length : payments[n].amount \in Int
  <2>1. \A n \in 1..length : payments[n] \in Payment
    OBVIOUS
  <2> QED  BY <2>1 DEF Payment, Unstated
<1>2. \A i \in 1..length, x \in Int : step[<<i, x>>] \in Int
  <2>1. \A n \in 1..length, sum \in Int : next(n, sum) \in Int
    BY <1>1 DEF Unstated, Overflow
  <2> HIDE DEF next, length
  <2> QED  BY <2>1
<1>3. PICK g \in [0..length -> Int] : Follows(g, 0, length, step)
  <2>1. length \in Nat /\ 0 \in Int
    BY <1>1
  <2> HIDE DEF step, length
  <2> QED  BY <1>2, <2>1, PrefixFunction, Zenon
<1>4. \A n \in 1..length : g[n] = next(n, g[n - 1])
  <2>1. \A n \in 1..length : g[n - 1] \in Int
    BY <1>1
  <2> HIDE DEF next, length
  <2> QED  BY <1>3, <2>1 DEF Follows
<1>5. is(g)
  <2> HIDE DEF next, length
  <2> QED  BY <1>1, <1>3, <1>4 DEF Follows
<1> DEFINE total == CHOOSE h : is(h)
<1>6. is(total)
  <2> HIDE DEF is
  <2> QED  BY <1>5
<1>7. Total(payments) = total[length]
  BY Zenon DEF Total
<1> HIDE DEF total
<1>8. total[0] = 0 /\ \A n \in 1..length : total[n] = next(n, total[n - 1])
  <2> HIDE DEF next, length
  <2> QED  BY <1>1, <1>6
<1> QED  BY <1>7, <1>8

(* So does the sum of the property.                                          *)
SumOf(payments) ==
  LET sum[n \in 0..Len(payments)] == IF n = 0 THEN 0 ELSE sum[n - 1] + payments[n].amount
  IN  sum

LEMMA SumByPayments ==
  ASSUME NEW payments \in Seq(Payment)
  PROVE  /\ SumOf(payments)[0] = 0
         /\ \A n \in 1..Len(payments) :
              SumOf(payments)[n] = SumOf(payments)[n - 1] + payments[n].amount
<1> DEFINE length == Len(payments)
           next(n, sum) == sum + payments[n].amount
           step == [x \in (1..length) \X Int |-> next(x[1], x[2])]
           is(g) == g = [n \in 0..length |-> IF n = 0 THEN 0 ELSE next(n, g[n - 1])]
<1>1. length \in Nat /\ \A n \in 1..length : payments[n].amount \in Int
  <2>1. \A n \in 1..length : payments[n] \in Payment
    OBVIOUS
  <2> QED  BY <2>1 DEF Payment, Unstated
<1>2. \A i \in 1..length, x \in Int : step[<<i, x>>] \in Int
  <2>1. \A n \in 1..length, sum \in Int : next(n, sum) \in Int
    BY <1>1
  <2> HIDE DEF next, length
  <2> QED  BY <2>1
<1>3. PICK g \in [0..length -> Int] : Follows(g, 0, length, step)
  <2>1. length \in Nat /\ 0 \in Int
    BY <1>1
  <2> HIDE DEF step, length
  <2> QED  BY <1>2, <2>1, PrefixFunction, Zenon
<1>4. \A n \in 1..length : g[n] = next(n, g[n - 1])
  <2>1. \A n \in 1..length : g[n - 1] \in Int
    BY <1>1
  <2> HIDE DEF next, length
  <2> QED  BY <1>3, <2>1 DEF Follows
<1>5. is(g)
  <2> HIDE DEF next, length
  <2> QED  BY <1>1, <1>3, <1>4 DEF Follows
<1>6. is(SumOf(payments))
  <2> DEFINE sum == CHOOSE h : is(h)
  <2>1. is(sum)
    <3> HIDE DEF is
    <3> QED  BY <1>5
  <2>2. SumOf(payments) = sum
    BY Zenon DEF SumOf
  <2> HIDE DEF is, sum
  <2> QED  BY <2>1, <2>2
<1> DEFINE sum == SumOf(payments)
<1> HIDE DEF sum
<1>7. sum[0] = 0 /\ \A n \in 1..length : sum[n] = next(n, sum[n - 1])
  <2>1. is(sum)
    BY <1>6 DEF sum
  <2> HIDE DEF next, length
  <2> QED  BY <1>1, <2>1
<1> QED  BY <1>7 DEF sum

(* Where every amount is stated, a total that did not overflow is the sum.      *)
LEMMA TotalIsTheSum ==
  ASSUME NEW payments \in Seq(Payment), \A n \in DOMAIN payments : payments[n].amount # Unstated,
         Total(payments) # Overflow
  PROVE  /\ Total(payments) = SumOf(payments)[Len(payments)]
         /\ Total(payments) \in 0..MaxMoney
<1> DEFINE length == Len(payments)
           sum == SumOf(payments)
<1>1. length \in Nat /\ \A n \in 1..length : payments[n].amount \in Nat
  <2>1. \A n \in 1..length : payments[n] \in Payment /\ payments[n].amount # Unstated
    OBVIOUS
  <2> QED  BY <2>1 DEF Payment
<1>2. PICK total :
           /\ Total(payments) = total[length]
           /\ total[0] = 0
           /\ \A n \in 1..length :
                total[n] = IF total[n - 1] < 0 THEN total[n - 1]
                           ELSE IF payments[n].amount = Unstated THEN Unstated
                           ELSE IF total[n - 1] + payments[n].amount > MaxMoney THEN Overflow
                           ELSE total[n - 1] + payments[n].amount
  BY TotalByPayments
<1>3. sum[0] = 0 /\ \A n \in 1..length : sum[n] = sum[n - 1] + payments[n].amount
  BY SumByPayments
<1> HIDE DEF length, sum
<1> DEFINE good == {n \in 0..length :
                      total[n] = Overflow \/ (total[n] = sum[n] /\ total[n] \in 0..MaxMoney)}
<1>4. 0 \in good
  BY <1>1, <1>2, <1>3, PaymentAssumption
<1>5. ASSUME NEW n \in 1..length, n - 1 \in good PROVE n \in good
  <2>1. /\ payments[n].amount \in Nat /\ payments[n].amount # Unstated
        /\ MaxMoney \in Nat /\ n \in 0..length
    BY <1>1, PaymentAssumption DEF Unstated
  <2>2. CASE total[n - 1] = Overflow
    BY <1>2, <2>1, <2>2 DEF Overflow
  <2>3. CASE total[n - 1] = sum[n - 1] /\ total[n - 1] \in 0..MaxMoney
    <3>1. total[n] = IF total[n - 1] + payments[n].amount > MaxMoney THEN Overflow
                     ELSE total[n - 1] + payments[n].amount
      BY <1>2, <2>1, <2>3
    <3>2. sum[n] = total[n - 1] + payments[n].amount
      BY <1>3, <2>3
    <3> QED  BY <2>1, <2>3, <3>1, <3>2
  <2> QED  BY <1>5, <2>2, <2>3
<1>6. length \in good
  <2>1. length \in Nat /\ length \in 0..length
    BY <1>1
  <2> HIDE DEF good
  <2> QED  BY <1>4, <1>5, <2>1, Induction
<1> QED  BY <1>2, <1>6 DEF length, sum

(* An accepted request has passed every check.                               *)
LEMMA AcceptedRequest ==
  ASSUME NEW request \in PaymentRequests, NEW policy \in PaymentPolicies,
         RequestError(request, policy) = "none"
  PROVE  /\ request.payments # <<>> /\ Len(request.payments) <= policy.max_payments
         /\ \A i \in DOMAIN request.payments : PaymentError(request.payments[i], policy) = "none"
         /\ ~OverLimit(request.payments, policy)
<1> DEFINE payments == request.payments
           wrong == {i \in DOMAIN payments : PaymentError(payments[i], policy) # "none"}
           c1 == ~policy.allow_optional /\ Parameters(payments) > 0
           c2 == Parameters(payments) > policy.max_optional
           c3 == OverLimit(payments, policy)
           checks == << <<c1, "OptionalParametersForbidden">>,
                        <<c2, "TooManyOptionalParameters">>, <<c3, "AmountLimitExceeded">> >>
           least == CHOOSE i \in wrong : \A j \in wrong : i <= j
<1>1. RequestError(request, policy) =
        IF request.bytes = 0 \/ request.bytes > MaxRequestBytes THEN "InputTooLong"
        ELSE IF request.grammar # "ok" THEN ParseError(request)
        ELSE IF payments = <<>> THEN "EmptyRequest"
        ELSE IF Len(payments) > policy.max_payments THEN "TooManyPayments"
        ELSE IF wrong # {} THEN PaymentError(payments[least], policy)
        ELSE FirstError(checks)
  BY Zenon DEF RequestError
<1>2. payments \in Seq(Payment) /\ Len(payments) \in Nat /\ policy.max_payments \in Nat
  BY PaymentAssumption
<1>3. wrong # {} => PaymentError(payments[least], policy) # "none"
  <2> SUFFICES ASSUME wrong # {} PROVE PaymentError(payments[least], policy) # "none"
    OBVIOUS
  <2>1. wrong \in SUBSET Nat
    BY <1>2
  <2>2. \E i \in wrong : \A j \in wrong : i <= j
    <3> HIDE DEF wrong
    <3> QED  BY <2>1, LeastNatural
  <2>3. least \in wrong
    <3> HIDE DEF wrong
    <3> QED  BY <2>2
  <2> HIDE DEF least
  <2> QED  BY <2>3
<1>4. ParseError(request) # "none"
  BY DEF ParseError
<1> HIDE DEF wrong, least, c1, c2, c3
<1>5. /\ payments # <<>> /\ ~(Len(payments) > policy.max_payments) /\ wrong = {}
      /\ FirstError(checks) = "none"
  <2> HIDE DEF checks, payments
  <2> QED  BY <1>1, <1>3, <1>4 DEF Follows
<1>6. /\ DOMAIN checks = 1..3
      /\ \A i \in 1..3 : checks[i][2] # "none"
      /\ checks[3][1] = c3
  OBVIOUS
<1>7. ~c3
  <2> HIDE DEF checks
  <2>1. \A i \in 1..3 : ~checks[i][1]
    BY <1>5, <1>6, NoFirstError
  <2> QED  BY <1>6, <2>1
<1> QED  BY <1>2, <1>5, <1>7 DEF wrong, c3

LEMMA AcceptedIsWithinPolicy ==
  ASSUME NEW request \in PaymentRequests, NEW policy \in PaymentPolicies,
         RequestError(request, policy) = "none"
  PROVE  WithinPolicy(request.payments, policy)
<1> DEFINE payments == request.payments
<1>1. /\ payments \in Seq(Payment) /\ Len(payments) \in Nat
      /\ policy.max_payments \in Nat /\ policy.max_total \in Nat /\ MaxMoney \in Nat
  BY PaymentAssumption
<1>2. /\ payments # <<>> /\ Len(payments) <= policy.max_payments
      /\ \A i \in DOMAIN payments : PaymentError(payments[i], policy) = "none"
      /\ ~OverLimit(payments, policy)
  BY AcceptedRequest
<1> HIDE DEF payments
<1>3. Len(payments) \in 1..policy.max_payments
  BY <1>1, <1>2
<1>4. ASSUME NEW i \in DOMAIN payments
      PROVE  /\ payments[i].recipient.network = policy.network
             /\ policy.receivers.require_shielded =>
                  Receivers(payments[i].recipient) \cap {"orchard", "sapling"} # {}
             /\ policy.receivers.forbid_transparent =>
                  "transparent" \notin Receivers(payments[i].recipient)
             /\ policy.require_amounts => payments[i].amount # Unstated
             /\ policy.require_positive => payments[i].amount # 0
  <2>1. PaymentError(payments[i], policy) = "none"
    BY <1>2
  <2> QED  BY <2>1, SoundPayment, SoundAddress
<1>5. ASSUME \A i \in DOMAIN payments : payments[i].amount # Unstated
      PROVE  /\ SumOf(payments)[Len(payments)] <= policy.max_total
             /\ SumOf(payments)[Len(payments)] <= MaxMoney
  <2>1. Total(payments) # Overflow /\ ~(Total(payments) > policy.max_total)
    BY <1>2 DEF OverLimit
  <2>2. Total(payments) = SumOf(payments)[Len(payments)] /\ Total(payments) \in 0..MaxMoney
    BY <1>1, <1>5, <2>1, TotalIsTheSum
  <2> QED  BY <1>1, <2>1, <2>2
<1>6. WithinPolicy(payments, policy)
  BY <1>3, <1>4, <1>5, Zenon DEF WithinPolicy, SumOf
<1> QED  BY <1>6 DEF payments

(* An accepted request asks for nothing but what the policy grants               *)
(* (validate_payment_request).                                               *)
THEOREM PaymentsAreWithinPolicy == Spec => []PaymentWithinPolicy
<1>1. Init => PaymentWithinPolicy
  BY DEF Init, PaymentWithinPolicy, Of
<1>2. ASSUME PaymentWithinPolicy, [Next]_vars PROVE PaymentWithinPolicy'
  <2>1. CASE JudgePayment
    <3>1. PICK request \in PaymentRequests, policy \in PaymentPolicies :
             /\ asked' = [family |-> "payment", request |-> request, policy |-> policy]
             /\ answer' = RequestError(request, policy)
      BY <2>1 DEF JudgePayment, Ask
    <3>2. asked'.request = request /\ asked'.policy = policy
      BY <3>1
    <3> QED  BY <3>1, <3>2, AcceptedIsWithinPolicy DEF PaymentWithinPolicy
  <2>2. CASE UNCHANGED vars
    BY <1>2, <2>2 DEF PaymentWithinPolicy, Of, vars
  <2>3. CASE ~Of("payment")'
    BY <2>3 DEF PaymentWithinPolicy
  <2> QED  BY <1>2, <2>1, <2>2, <2>3, AskedBy
<1> QED  BY <1>1, <1>2, PTL DEF Spec

-----------------------------------------------------------------------------
(* Drafts *)

(* The filter of blanks follows its definition, text by text.                 *)
LEMMA WrittenByTexts ==
  ASSUME NEW texts \in Seq(Text)
  PROVE  \E kept \in [0..Len(texts) -> Seq(Text)] :
           /\ Texts!Gate!Written(texts) = kept[Len(texts)]
           /\ kept[0] = <<>>
           /\ \A n \in 1..Len(texts) :
                kept[n] = IF texts[n] = <<>> THEN kept[n - 1] ELSE Append(kept[n - 1], texts[n])
<1> DEFINE length == Len(texts)
           next(n, list) == IF texts[n] = <<>> THEN list ELSE Append(list, texts[n])
           step == [x \in (1..length) \X Seq(Text) |-> next(x[1], x[2])]
           is(g) == g = [n \in 0..length |-> IF n = 0 THEN <<>> ELSE next(n, g[n - 1])]
<1>1. length \in Nat /\ \A n \in 1..length : texts[n] \in Text
  OBVIOUS
<1>2. \A n \in 1..length, list \in Seq(Text) : next(n, list) \in Seq(Text)
  <2> HIDE DEF length
  <2> QED  BY <1>1
<1>3. \A i \in 1..length, x \in Seq(Text) : step[<<i, x>>] \in Seq(Text)
  <2> HIDE DEF next, length
  <2> QED  BY <1>2
<1>4. PICK g \in [0..length -> Seq(Text)] : Follows(g, <<>>, length, step)
  <2>1. length \in Nat /\ <<>> \in Seq(Text)
    BY <1>1
  <2> HIDE DEF step, length
  <2> QED  BY <1>3, <2>1, PrefixFunction, Zenon
<1>5. \A n \in 1..length : g[n] = next(n, g[n - 1])
  <2>1. \A n \in 1..length : g[n - 1] \in Seq(Text)
    BY <1>1
  <2> HIDE DEF next, length
  <2> QED  BY <1>4, <2>1 DEF Follows
<1>6. is(g)
  <2> HIDE DEF next, length
  <2> QED  BY <1>1, <1>4, <1>5 DEF Follows
<1> DEFINE kept == CHOOSE h : is(h)
<1>7. is(kept)
  <2> HIDE DEF is
  <2> QED  BY <1>6
<1>8. Texts!Gate!Written(texts) = kept[length]
  BY Zenon DEF Texts!Gate!Written
<1> HIDE DEF kept
<1>9. kept[0] = <<>> /\ \A n \in 1..length : kept[n] = next(n, kept[n - 1])
  <2> HIDE DEF next, length
  <2> QED  BY <1>1, <1>7
<1>10. kept \in [0..length -> Seq(Text)]
  <2> DEFINE good == {n \in 0..length : kept[n] \in Seq(Text)}
  <2>1. 0 \in good
    <3>1. 0 \in 0..length /\ <<>> \in Seq(Text)
      BY <1>1
    <3> HIDE DEF next, length
    <3> QED  BY <1>9, <3>1
  <2>2. ASSUME NEW n \in 1..length, n - 1 \in good PROVE n \in good
    <3> HIDE DEF next, length
    <3> QED  BY <1>1, <1>2, <1>9, <2>2
  <2>3. \A n \in 0..length : n \in good
    <3> HIDE DEF good, length
    <3> QED  BY <1>1, <2>1, <2>2, Induction
  <2>4. kept = [n \in 0..length |-> kept[n]]
    <3> HIDE DEF next, length
    <3> QED  BY <1>7
  <2> HIDE DEF length
  <2> QED  BY <2>3, <2>4
<1> QED  BY <1>8, <1>9, <1>10

LEMMA SameCardinality == \A S : Texts!Gate!Cardinality(S) = Cardinality(S)
  BY Zenon DEF Texts!Gate!Cardinality, Cardinality

(* The nth text that is left is the nth that is not blank.                    *)
LEMMA WrittenInOrder ==
  ASSUME NEW texts \in Seq(Text), NEW n \in 1..Len(Texts!Gate!Written(texts))
  PROVE  Texts!Gate!IsNthWritten(texts, n, Texts!Gate!Written(texts)[n])
<1> DEFINE length == Len(texts)
           among(k) == {i \in 1..k : texts[i] # <<>>}
           nth(k, j, text) == \E m \in 1..k : /\ text = texts[m] /\ text # <<>>
                                              /\ Cardinality(among(m)) = j
<1>1. PICK kept \in [0..length -> Seq(Text)] :
           /\ Texts!Gate!Written(texts) = kept[length]
           /\ kept[0] = <<>>
           /\ \A k \in 1..length :
                kept[k] = IF texts[k] = <<>> THEN kept[k - 1] ELSE Append(kept[k - 1], texts[k])
  BY WrittenByTexts
<1>2. length \in Nat /\ \A k \in 1..length : texts[k] \in Text
  OBVIOUS
<1>3. \A k \in Nat : IsFiniteSet(among(k))
  <2> TAKE k \in Nat
  <2>1. among(k) \subseteq 1..k
    OBVIOUS
  <2>2. IsFiniteSet(1..k)
    BY FS_Interval
  <2> HIDE DEF among
  <2> QED  BY <2>1, <2>2, FS_Subset
<1>4. ASSUME NEW k \in 1..length
      PROVE  among(k) = IF texts[k] = <<>> THEN among(k - 1) ELSE among(k - 1) \cup {k}
  <2>1. k \in Nat /\ 1..k = (1..(k - 1)) \cup {k}
    BY <1>2
  <2> QED  BY <2>1
<1>5. ASSUME NEW k \in 1..length, texts[k] # <<>>
      PROVE  Cardinality(among(k)) = Cardinality(among(k - 1)) + 1
  <2>1. among(k) = among(k - 1) \cup {k} /\ k \notin among(k - 1)
    BY <1>2, <1>4, <1>5
  <2>2. k - 1 \in Nat
    BY <1>2
  <2>3. IsFiniteSet(among(k - 1))
    BY <1>3, <2>2
  <2> HIDE DEF among
  <2> QED  BY <2>1, <2>3, FS_AddElement
<1> DEFINE good == {k \in 0..length :
                      /\ Len(kept[k]) = Cardinality(among(k))
                      /\ \A j \in 1..Len(kept[k]) : nth(k, j, kept[k][j])}
<1>6. 0 \in good
  <2>1. among(0) = {}
    OBVIOUS
  <2>2. Cardinality(among(0)) = 0
    <3> HIDE DEF among
    <3> QED  BY <2>1, FS_EmptySet
  <2> HIDE DEF among, nth
  <2> QED  BY <1>1, <1>2, <2>2
<1>7. ASSUME NEW k \in 1..length, k - 1 \in good PROVE k \in good
  <2>1. /\ Len(kept[k - 1]) = Cardinality(among(k - 1))
        /\ \A j \in 1..Len(kept[k - 1]) : nth(k - 1, j, kept[k - 1][j])
    BY <1>7
  <2>2. k \in 0..length /\ kept[k - 1] \in Seq(Text) /\ texts[k] \in Text
    BY <1>2
  <2>3. \A j, text : nth(k - 1, j, text) => nth(k, j, text)
    <3> HIDE DEF among
    <3> QED  BY <1>2
  <2>4. CASE texts[k] = <<>>
    <3>1. kept[k] = kept[k - 1] /\ among(k) = among(k - 1)
      <4> HIDE DEF among
      <4> QED  BY <1>1, <1>4, <2>4
    <3> HIDE DEF among, nth
    <3> QED  BY <2>1, <2>2, <2>3, <3>1
  <2>5. CASE texts[k] # <<>>
    <3>1. kept[k] = Append(kept[k - 1], texts[k])
      BY <1>1, <2>5
    <3>2. /\ Len(kept[k]) = Len(kept[k - 1]) + 1
          /\ kept[k][Len(kept[k])] = texts[k]
          /\ \A j \in 1..Len(kept[k - 1]) : kept[k][j] = kept[k - 1][j]
      BY <2>2, <3>1
    <3>3. Len(kept[k]) = Cardinality(among(k))
      <4> HIDE DEF among
      <4> QED  BY <1>5, <2>1, <2>5, <3>2
    <3>4. nth(k, Len(kept[k]), kept[k][Len(kept[k])])
      <4>1. k \in 1..k
        BY <1>2
      <4> HIDE DEF among
      <4> QED  BY <2>5, <3>2, <3>3, <4>1
    <3>5. \A j \in 1..Len(kept[k]) : nth(k, j, kept[k][j])
      <4> TAKE j \in 1..Len(kept[k])
      <4>1. CASE j = Len(kept[k])
        <5> HIDE DEF nth
        <5> QED  BY <3>4, <4>1
      <4>2. CASE j # Len(kept[k])
        <5>1. j \in 1..Len(kept[k - 1])
          BY <2>2, <3>2, <4>2
        <5> HIDE DEF nth
        <5> QED  BY <2>1, <2>3, <3>2, <5>1
      <4> QED  BY <4>1, <4>2
    <3> HIDE DEF nth, among
    <3> QED  BY <2>2, <3>3, <3>5
  <2> QED  BY <2>4, <2>5
<1>8. length \in good
  <2>1. length \in Nat /\ length \in 0..length
    BY <1>2
  <2> HIDE DEF good, length
  <2> QED  BY <1>6, <1>7, <2>1, Induction
<1>9. nth(length, n, Texts!Gate!Written(texts)[n])
  <2> HIDE DEF nth, among
  <2> QED  BY <1>1, <1>8
<1>10. DOMAIN texts = 1..length
  OBVIOUS
<1> DEFINE text == Texts!Gate!Written(texts)[n]
<1>11. PICK m \in 1..length : /\ text = texts[m] /\ text # <<>>
                              /\ Cardinality(among(m)) = n
  BY <1>9
<1> HIDE DEF length, text
<1>12. m \in DOMAIN texts /\ text = texts[m] /\ text # <<>>
  BY <1>10, <1>11
<1>13. Texts!Gate!Cardinality({i \in 1..m : texts[i] # <<>>}) = n
  BY <1>11, SameCardinality
<1>14. Texts!Gate!IsNthWritten(texts, n, text)
  BY <1>12, <1>13, Zenon DEF Texts!Gate!IsNthWritten
<1> QED  BY <1>14 DEF text

(* Where nothing is blank, nothing is left out.                               *)
LEMMA WrittenWhole ==
  ASSUME NEW texts \in Seq(Text), Texts!Gate!NoBlank(texts)
  PROVE  Texts!Gate!Written(texts) = texts
<1> DEFINE length == Len(texts)
<1>1. PICK kept \in [0..length -> Seq(Text)] :
           /\ Texts!Gate!Written(texts) = kept[length]
           /\ kept[0] = <<>>
           /\ \A k \in 1..length :
                kept[k] = IF texts[k] = <<>> THEN kept[k - 1] ELSE Append(kept[k - 1], texts[k])
  BY WrittenByTexts
<1>2. length \in Nat /\ \A k \in 1..length : texts[k] # <<>> /\ texts[k] \in Text
  BY DEF Texts!Gate!NoBlank
<1> DEFINE good == {k \in 0..length :
                      Len(kept[k]) = k /\ \A j \in 1..k : kept[k][j] = texts[j]}
<1>3. 0 \in good
  BY <1>1, <1>2
<1>4. ASSUME NEW k \in 1..length, k - 1 \in good PROVE k \in good
  <2>1. kept[k] = Append(kept[k - 1], texts[k])
    BY <1>1, <1>2
  <2>2. k \in 0..length /\ k - 1 \in 0..length /\ kept[k - 1] \in Seq(Text) /\ texts[k] \in Text
    BY <1>2
  <2>3. Len(kept[k - 1]) = k - 1 /\ \A j \in 1..(k - 1) : kept[k - 1][j] = texts[j]
    BY <1>4
  <2>4. Len(kept[k]) = k /\ \A j \in 1..k : kept[k][j] = texts[j]
    BY <2>1, <2>2, <2>3
  <2> QED  BY <2>2, <2>4
<1>5. length \in good
  <2>1. length \in Nat /\ length \in 0..length
    BY <1>2
  <2> HIDE DEF good, length
  <2> QED  BY <1>3, <1>4, <2>1, Induction
<1>6. kept[length] \in Seq(Text) /\ Len(kept[length]) = Len(texts)
  BY <1>2, <1>5
<1>7. kept[length] = texts
  BY <1>5, <1>6, SeqEqual
<1> QED  BY <1>1, <1>7

(* A sentence that was added is there, and is not added again.                *)
LEMMA AppendedOnce ==
  ASSUME NEW text \in Text, NEW sentence \in Text
  PROVE  /\ Texts!Gate!AppendSentence(text, sentence) \in Text
         /\ Texts!Gate!AppendSentence(Texts!Gate!AppendSentence(text, sentence), sentence)
              = Texts!Gate!AppendSentence(text, sentence)
<1> DEFINE added == Texts!Gate!AppendSentence(text, sentence)
           both == text \o sentence
<1>1. added = IF Texts!Gate!Contains(text, sentence) THEN text ELSE both
  BY DEF Texts!Gate!AppendSentence
<1>2. both \in Text /\ Len(both) = Len(text) + Len(sentence) /\ Len(text) \in Nat /\ Len(sentence) \in Nat
  BY DEF Text
<1>3. SubSeq(both, Len(text) + 1, Len(text) + Len(sentence)) = sentence
  <2> DEFINE part == SubSeq(both, Len(text) + 1, Len(text) + Len(sentence))
  <2>1. part \in Seq(Words) /\ Len(part) = Len(sentence)
    <3> HIDE DEF both
    <3> QED  BY <1>2 DEF Text
  <2>2. \A i \in 1..Len(sentence) : part[i] = both[Len(text) + i]
    <3> HIDE DEF both
    <3> QED  BY <1>2 DEF Text
  <2>3. \A i \in 1..Len(sentence) : both[Len(text) + i] = sentence[i]
    BY <1>2 DEF Text
  <2> HIDE DEF part
  <2> QED  BY <2>1, <2>2, <2>3, SeqEqual DEF Text
<1>4. Texts!Gate!Contains(both, sentence)
  <2>1. Len(text) \in 0..(Len(both) - Len(sentence))
    BY <1>2
  <2> HIDE DEF both
  <2> QED  BY <1>3, <2>1 DEF Texts!Gate!Contains
<1>5. added \in Text /\ Texts!Gate!Contains(added, sentence)
  BY <1>1, <1>2, <1>4
<1> HIDE DEF added
<1>6. Texts!Gate!AppendSentence(added, sentence) = added
  BY <1>5 DEF Texts!Gate!AppendSentence
<1> QED  BY <1>5, <1>6 DEF added

(* What the curated ecosystems add are texts.                                 *)
LEMMA AdditionsAreTexts ==
  ASSUME NEW ecosystem \in Texts!Ecosystems, NEW place \in Nat
  PROVE  /\ Texts!WhyAddition \in Text /\ Texts!BridgeAddition \in Text
         /\ Texts!SourceSentence[ecosystem] \in Text /\ Texts!NuanceSentence[ecosystem] \in Text
         /\ Texts!RoleSentence[ecosystem][Texts!Gate!Smaller(place, Texts!LastLesson)] \in Text
         /\ Texts!Checklist[ecosystem] \in Text /\ Texts!Artifact[ecosystem] \in Text
<1>1. Texts!Gate!Smaller(place, Texts!LastLesson) \in 0..Texts!LastLesson
  BY DEF Texts!Gate!Smaller, Texts!LastLesson
<1> QED  BY <1>1, DraftAssumption

LEMMA ExplainedIsDraft ==
  ASSUME NEW l \in Draft, NEW sentence \in Text
  PROVE  /\ Texts!Gate!Explained(l, sentence) \in Draft
         /\ Texts!Gate!Explained(l, sentence) =
              [l EXCEPT !.e = Texts!Gate!AppendSentence(l.e, sentence)]
<1>1. l.e \in Text
  BY DEF Draft
<1>2. Texts!Gate!AppendSentence(l.e, sentence) \in Text
  BY <1>1, AppendedOnce
<1>3. Texts!Gate!Explained(l, sentence) =
        [l EXCEPT !.e = Texts!Gate!AppendSentence(l.e, sentence)]
  BY DEF Texts!Gate!Explained
<1> QED  BY <1>2, <1>3 DEF Draft

(* A text long enough is not padded, and a padded one is a text.              *)
LEMMA PaddedDraft ==
  ASSUME NEW l \in Draft
  PROVE  LET padded == [l EXCEPT !.w = Texts!Gate!Padded(@, Texts!MinWhy, Texts!WhyAddition),
                                 !.j = Texts!Gate!Padded(@, Texts!MinBridge, Texts!BridgeAddition)]
         IN  /\ padded \in Draft
             /\ Len(l.w) >= Texts!MinWhy /\ Len(l.j) >= Texts!MinBridge => padded = l
<1> DEFINE w == Texts!Gate!Padded(l.w, Texts!MinWhy, Texts!WhyAddition)
           j == Texts!Gate!Padded(l.j, Texts!MinBridge, Texts!BridgeAddition)
           padded == [l EXCEPT !.w = w, !.j = j]
<1>1. l.w \in Text /\ l.j \in Text /\ Texts!WhyAddition \in Text /\ Texts!BridgeAddition \in Text
  BY DraftAssumption DEF Draft
<1>2. w \in Text /\ (Len(l.w) >= Texts!MinWhy => w = l.w)
  <2>1. Texts!Gate!AppendSentence(l.w, Texts!WhyAddition) \in Text
    BY <1>1, AppendedOnce
  <2> QED  BY <1>1, <2>1 DEF Texts!Gate!Padded
<1>3. j \in Text /\ (Len(l.j) >= Texts!MinBridge => j = l.j)
  <2>1. Texts!Gate!AppendSentence(l.j, Texts!BridgeAddition) \in Text
    BY <1>1, AppendedOnce
  <2> QED  BY <1>1, <2>1 DEF Texts!Gate!Padded
<1> HIDE DEF w, j
<1>4. padded \in Draft
  BY <1>2, <1>3 DEF Draft
<1>5. Len(l.w) >= Texts!MinWhy /\ Len(l.j) >= Texts!MinBridge => padded = l
  BY <1>2, <1>3 DEF Draft
<1> QED  BY <1>4, <1>5 DEF w, j

(* The additions of a curated ecosystem, in their order.                      *)
LEMMA CurateByAdditions ==
  ASSUME NEW req, NEW place, NEW l, ~req.wantsCode
  PROVE  \E sourced, nuanced, placed :
           /\ sourced = IF Texts!Gate!Anchored(req.ecosystem, Texts!Gate!FullText(l)) THEN l
                        ELSE Texts!Gate!Explained(l, Texts!SourceSentence[req.ecosystem])
           /\ nuanced = IF Texts!Gate!Nuanced(Texts!Gate!FullText(sourced)) THEN sourced
                        ELSE Texts!Gate!Explained(sourced, Texts!NuanceSentence[req.ecosystem])
           /\ placed = IF Texts!Gate!PlaysRole(req.ecosystem, place, Texts!Gate!FullText(nuanced))
                       THEN nuanced
                       ELSE Texts!Gate!Explained(nuanced,
                              Texts!RoleSentence[req.ecosystem][Texts!Gate!Smaller(place, Texts!LastLesson)])
           /\ Texts!Gate!Curate(req, place, l) =
                IF place < Texts!LastLesson THEN placed
                ELSE [Texts!Gate!Explained(placed, Texts!Checklist[req.ecosystem]) EXCEPT
                        !.j = Texts!Gate!AppendSentence(@, Texts!Artifact[req.ecosystem])]
<1> DEFINE eco == req.ecosystem
           sourced == IF Texts!Gate!Anchored(eco, Texts!Gate!FullText(l)) THEN l
                      ELSE Texts!Gate!Explained(l, Texts!SourceSentence[eco])
           nuanced == IF Texts!Gate!Nuanced(Texts!Gate!FullText(sourced)) THEN sourced
                      ELSE Texts!Gate!Explained(sourced, Texts!NuanceSentence[eco])
           placed == IF Texts!Gate!PlaysRole(eco, place, Texts!Gate!FullText(nuanced)) THEN nuanced
                     ELSE Texts!Gate!Explained(nuanced,
                            Texts!RoleSentence[eco][Texts!Gate!Smaller(place, Texts!LastLesson)])
           closed == IF place < Texts!LastLesson THEN placed
                     ELSE [Texts!Gate!Explained(placed, Texts!Checklist[eco]) EXCEPT
                             !.j = Texts!Gate!AppendSentence(@, Texts!Artifact[eco])]
<1>1. Texts!Gate!Curate(req, place, l) = closed
  BY Zenon DEF Texts!Gate!Curate
<1> HIDE DEF sourced, nuanced, placed
<1>2. /\ sourced = IF Texts!Gate!Anchored(req.ecosystem, Texts!Gate!FullText(l)) THEN l
                   ELSE Texts!Gate!Explained(l, Texts!SourceSentence[req.ecosystem])
      /\ nuanced = IF Texts!Gate!Nuanced(Texts!Gate!FullText(sourced)) THEN sourced
                   ELSE Texts!Gate!Explained(sourced, Texts!NuanceSentence[req.ecosystem])
      /\ placed = IF Texts!Gate!PlaysRole(req.ecosystem, place, Texts!Gate!FullText(nuanced))
                  THEN nuanced
                  ELSE Texts!Gate!Explained(nuanced,
                         Texts!RoleSentence[req.ecosystem][Texts!Gate!Smaller(place, Texts!LastLesson)])
  BY Zenon DEF sourced, nuanced, placed
<1> QED  BY <1>1, <1>2

(* A curated draft is a draft; that of the last lesson ends with its checklist    *)
(* and its artifact.                                                         *)
LEMMA CuratedDraft ==
  ASSUME NEW req, NEW place \in Nat, NEW l \in Draft,
         ~req.wantsCode, req.ecosystem \in Texts!Ecosystems
  PROVE  /\ Texts!Gate!Curate(req, place, l) \in Draft
         /\ ~(place < Texts!LastLesson) =>
              /\ Texts!Gate!AppendSentence(Texts!Gate!Curate(req, place, l).e, Texts!Checklist[req.ecosystem])
                   = Texts!Gate!Curate(req, place, l).e
              /\ Texts!Gate!AppendSentence(Texts!Gate!Curate(req, place, l).j, Texts!Artifact[req.ecosystem])
                   = Texts!Gate!Curate(req, place, l).j
<1> DEFINE eco == req.ecosystem
           curated == Texts!Gate!Curate(req, place, l)
           role == Texts!RoleSentence[eco][Texts!Gate!Smaller(place, Texts!LastLesson)]
<1>1. PICK sourced, nuanced, placed :
           /\ sourced = IF Texts!Gate!Anchored(eco, Texts!Gate!FullText(l)) THEN l
                        ELSE Texts!Gate!Explained(l, Texts!SourceSentence[eco])
           /\ nuanced = IF Texts!Gate!Nuanced(Texts!Gate!FullText(sourced)) THEN sourced
                        ELSE Texts!Gate!Explained(sourced, Texts!NuanceSentence[eco])
           /\ placed = IF Texts!Gate!PlaysRole(eco, place, Texts!Gate!FullText(nuanced))
                       THEN nuanced ELSE Texts!Gate!Explained(nuanced, role)
           /\ curated =
                IF place < Texts!LastLesson THEN placed
                ELSE [Texts!Gate!Explained(placed, Texts!Checklist[eco]) EXCEPT
                        !.j = Texts!Gate!AppendSentence(@, Texts!Artifact[eco])]
  BY CurateByAdditions
<1>2. /\ Texts!SourceSentence[eco] \in Text /\ Texts!NuanceSentence[eco] \in Text
      /\ role \in Text /\ Texts!Checklist[eco] \in Text /\ Texts!Artifact[eco] \in Text
  BY AdditionsAreTexts
<1> HIDE DEF eco, role, curated
<1>3. sourced \in Draft
  BY <1>1, <1>2, ExplainedIsDraft
<1>4. nuanced \in Draft
  BY <1>1, <1>2, <1>3, ExplainedIsDraft
<1>5. placed \in Draft
  BY <1>1, <1>2, <1>4, ExplainedIsDraft
<1>6. CASE place < Texts!LastLesson
  BY <1>1, <1>5, <1>6 DEF eco, curated
<1>7. CASE ~(place < Texts!LastLesson)
  <2> DEFINE checked == Texts!Gate!Explained(placed, Texts!Checklist[eco])
             e == Texts!Gate!AppendSentence(placed.e, Texts!Checklist[eco])
             j == Texts!Gate!AppendSentence(checked.j, Texts!Artifact[eco])
  <2>1. checked \in Draft /\ checked.e = e
    BY <1>2, <1>5, ExplainedIsDraft DEF Draft
  <2>2. placed.e \in Text /\ checked.j \in Text
    BY <1>5, <2>1 DEF Draft
  <2>3. e \in Text /\ Texts!Gate!AppendSentence(e, Texts!Checklist[eco]) = e
    BY <1>2, <2>2, AppendedOnce
  <2>4. j \in Text /\ Texts!Gate!AppendSentence(j, Texts!Artifact[eco]) = j
    BY <1>2, <2>2, AppendedOnce
  <2>5. curated = [checked EXCEPT !.j = j]
    BY <1>1, <1>7
  <2> HIDE DEF checked, e, j
  <2>6. curated \in Draft /\ curated.e = e /\ curated.j = j
    BY <2>1, <2>4, <2>5 DEF Draft
  <2> QED  BY <2>3, <2>4, <2>6 DEF eco, curated
<1> QED  BY <1>6, <1>7

(* What the gate demands is what the additions look for.                      *)
LEMMA ValidIsWhole ==
  ASSUME NEW req, NEW l, NEW place, NEW earlier, Texts!Gate!Valid(req, l, place, earlier)
  PROVE  /\ Len(l.w) >= Texts!MinWhy /\ Len(l.j) >= Texts!MinBridge
         /\ Texts!Gate!Anchored(req.ecosystem, Texts!Gate!FullText(l))
         /\ Texts!Gate!Nuanced(Texts!Gate!FullText(l))
         /\ Texts!Gate!PlaysRole(req.ecosystem, place, Texts!Gate!FullText(l))
         /\ Len(Texts!Gate!Written(l.b)) = 3 /\ Len(Texts!Gate!Written(l.bf)) = 3
<1>1. Texts!Gate!Fits(req, l, place)
  BY DEF Texts!Gate!Valid
<1>2. /\ Texts!Gate!Complete(l)
      /\ Texts!Gate!Anchored(req.ecosystem, Texts!Gate!FullText(l))
      /\ Texts!Gate!PlaysRole(req.ecosystem, place, Texts!Gate!FullText(l))
  BY <1>1, Zenon DEF Texts!Gate!Fits
<1> QED  BY <1>2, Zenon DEF Texts!Gate!Complete

(* A normal draft that is accepted is normalised to itself.                   *)
LEMMA NormalStaysNormal ==
  ASSUME NEW topic \in Texts!Topics, NEW place \in Nat, NEW d \in Draft
  PROVE  LET req == Texts!Request(topic)
             normal == Texts!Gate!Normalize(req, place, d)
         IN  /\ normal \in Draft
             /\ \A earlier : Texts!Gate!Valid(req, normal, place, earlier) =>
                  Texts!Gate!Normalize(req, place, normal) = normal
<1> DEFINE req == Texts!Request(topic)
           eco == req.ecosystem
           padded(l) == [l EXCEPT !.w = Texts!Gate!Padded(@, Texts!MinWhy, Texts!WhyAddition),
                                  !.j = Texts!Gate!Padded(@, Texts!MinBridge, Texts!BridgeAddition)]
           normal == Texts!Gate!Normalize(req, place, d)
<1>1. ~req.wantsCode /\ eco \in Texts!Ecosystems
  BY DEF Texts!Request, Texts!Topics, Texts!Ecosystems
<1>2. \A l : Texts!Gate!Normalize(req, place, l) =
               IF eco \in Texts!Curated THEN Texts!Gate!Curate(req, place, padded(l)) ELSE padded(l)
  BY Zenon DEF Texts!Gate!Normalize
<1>3. \A l \in Draft : /\ padded(l) \in Draft
                       /\ Len(l.w) >= Texts!MinWhy /\ Len(l.j) >= Texts!MinBridge => padded(l) = l
  BY PaddedDraft
<1> HIDE DEF req, padded
<1>4. \A l \in Draft : Texts!Gate!Curate(req, place, l) \in Draft
  BY <1>1, CuratedDraft
<1>5. normal \in Draft
  BY <1>2, <1>3, <1>4
<1>6. ASSUME NEW earlier, Texts!Gate!Valid(req, normal, place, earlier)
      PROVE  Texts!Gate!Normalize(req, place, normal) = normal
  <2>1. padded(normal) = normal
    <3> HIDE DEF normal
    <3> QED  BY <1>3, <1>5, <1>6, ValidIsWhole
  <2>2. CASE eco \notin Texts!Curated
    <3> HIDE DEF normal
    <3> QED  BY <1>2, <2>1, <2>2
  <2>3. CASE eco \in Texts!Curated
    <3>1. normal = Texts!Gate!Curate(req, place, padded(d)) /\ padded(d) \in Draft
      BY <1>2, <1>3, <2>3
    <3>2. ~(place < Texts!LastLesson) =>
            /\ Texts!Gate!AppendSentence(normal.e, Texts!Checklist[eco]) = normal.e
            /\ Texts!Gate!AppendSentence(normal.j, Texts!Artifact[eco]) = normal.j
      <4> HIDE DEF normal
      <4> QED  BY <1>1, <3>1, CuratedDraft
    <3>3. PICK sourced, nuanced, placed :
             /\ sourced = IF Texts!Gate!Anchored(eco, Texts!Gate!FullText(normal)) THEN normal
                          ELSE Texts!Gate!Explained(normal, Texts!SourceSentence[eco])
             /\ nuanced = IF Texts!Gate!Nuanced(Texts!Gate!FullText(sourced)) THEN sourced
                          ELSE Texts!Gate!Explained(sourced, Texts!NuanceSentence[eco])
             /\ placed = IF Texts!Gate!PlaysRole(eco, place, Texts!Gate!FullText(nuanced))
                         THEN nuanced
                         ELSE Texts!Gate!Explained(nuanced,
                                Texts!RoleSentence[eco][Texts!Gate!Smaller(place, Texts!LastLesson)])
             /\ Texts!Gate!Curate(req, place, normal) =
                  IF place < Texts!LastLesson THEN placed
                  ELSE [Texts!Gate!Explained(placed, Texts!Checklist[eco]) EXCEPT
                          !.j = Texts!Gate!AppendSentence(@, Texts!Artifact[eco])]
      BY <1>1, CurateByAdditions
    <3> HIDE DEF normal, eco
    <3>4. sourced = normal /\ nuanced = normal /\ placed = normal
      BY <1>6, <3>3, ValidIsWhole DEF eco
    <3>5. Texts!Gate!Curate(req, place, normal) = normal
      <4>1. CASE place < Texts!LastLesson
        BY <3>3, <3>4, <4>1
      <4>2. CASE ~(place < Texts!LastLesson)
        <5>1. Texts!Checklist[eco] \in Text
          BY <1>1, AdditionsAreTexts
        <5>2. Texts!Gate!Explained(normal, Texts!Checklist[eco]) = [normal EXCEPT !.e = normal.e]
          BY <1>5, <3>2, <4>2, <5>1, ExplainedIsDraft
        <5>3. [normal EXCEPT !.e = normal.e] = normal /\ [normal EXCEPT !.j = normal.j] = normal
          BY <1>5 DEF Draft
        <5> QED  BY <3>2, <3>3, <3>4, <4>2, <5>2, <5>3
      <4> QED  BY <4>1, <4>2
    <3> QED  BY <1>2, <2>1, <2>3, <3>5 DEF eco
  <2> QED  BY <2>2, <2>3
<1> QED  BY <1>5, <1>6 DEF req

(* A draft is refused exactly when a failure is reported with it.             *)
LEMMA RefusalIsExplained ==
  ASSUME NEW req, NEW l \in Draft, NEW place, NEW earlier
  PROVE  Texts!Gate!Valid(req, l, place, earlier) <=>
           Texts!Gate!Failures(req, l, place, earlier) = {}
<1> DEFINE text == Texts!Gate!FullText(l)
           eco == req.ecosystem
           failed ==
             [short |-> Len(l.e) < Texts!MinExplainer,
              why |-> Len(l.w) < Texts!MinWhy,
              bridge |-> Len(l.j) < Texts!MinBridge,
              question |-> Texts!Gate!GenericQuestion(l.q),
              placeholder |-> Texts!Gate!Has(Texts!Gate!Prose(l), Texts!Placeholders),
              anchor |-> ~Texts!Gate!Anchored("generic", text),
              nuance |-> ~Texts!Gate!Nuanced(text),
              wrong |-> Len(Texts!Gate!Written(l.b)) # 3,
              feedback |-> Len(Texts!Gate!Written(l.bf)) # 3,
              terms |-> ~Texts!Gate!Mentions(eco, text),
              source |-> ~Texts!Gate!Anchored(eco, text),
              leak |-> Texts!Gate!Leaks(req, text),
              role |-> ~Texts!Gate!PlaysRole(eco, place, text),
              repeated |-> Texts!Gate!Redundant(l, earlier)]
           names == {"short", "why", "bridge", "question", "placeholder", "anchor", "nuance",
                     "wrong", "feedback", "terms", "source", "leak", "role", "repeated"}
<1>1. Texts!Gate!Failures(req, l, place, earlier) =
        Texts!Gate!FormFailures(l) \cup {check \in DOMAIN failed : failed[check]}
  BY Zenon DEF Texts!Gate!Failures
<1>2. DOMAIN failed = names
  OBVIOUS
<1>3. /\ failed["short"] <=> Len(l.e) < Texts!MinExplainer
      /\ failed["why"] <=> Len(l.w) < Texts!MinWhy
      /\ failed["bridge"] <=> Len(l.j) < Texts!MinBridge
      /\ failed["question"] <=> Texts!Gate!GenericQuestion(l.q)
      /\ failed["placeholder"] <=> Texts!Gate!Has(Texts!Gate!Prose(l), Texts!Placeholders)
      /\ failed["anchor"] <=> ~Texts!Gate!Anchored("generic", text)
      /\ failed["nuance"] <=> ~Texts!Gate!Nuanced(text)
      /\ failed["wrong"] <=> Len(Texts!Gate!Written(l.b)) # 3
      /\ failed["feedback"] <=> Len(Texts!Gate!Written(l.bf)) # 3
      /\ failed["terms"] <=> ~Texts!Gate!Mentions(eco, text)
      /\ failed["source"] <=> ~Texts!Gate!Anchored(eco, text)
      /\ failed["leak"] <=> Texts!Gate!Leaks(req, text)
      /\ failed["role"] <=> ~Texts!Gate!PlaysRole(eco, place, text)
      /\ failed["repeated"] <=> Texts!Gate!Redundant(l, earlier)
  OBVIOUS
<1> HIDE DEF failed, text, eco
<1>4. Texts!Gate!Failures(req, l, place, earlier) = {} <=>
        /\ Texts!Gate!FormFailures(l) = {}
        /\ ~failed["short"] /\ ~failed["why"] /\ ~failed["bridge"] /\ ~failed["question"]
        /\ ~failed["placeholder"] /\ ~failed["anchor"] /\ ~failed["nuance"] /\ ~failed["wrong"]
        /\ ~failed["feedback"] /\ ~failed["terms"] /\ ~failed["source"] /\ ~failed["leak"]
        /\ ~failed["role"] /\ ~failed["repeated"]
  BY <1>1, <1>2
<1>5. Texts!Gate!FormFailures(l) = {} <=>
        l.t # <<>> /\ l.s # <<>> /\ l.f # <<>> /\ l.q # <<>> /\ l.a # <<>>
  BY DEF Texts!Gate!FormFailures
<1>6. /\ Len(l.e) \in Nat /\ Len(l.w) \in Nat /\ Len(l.j) \in Nat
      /\ Texts!MinExplainer \in Nat /\ Texts!MinWhy \in Nat /\ Texts!MinBridge \in Nat
  BY DEF Draft, Text, Texts!MinExplainer, Texts!MinWhy, Texts!MinBridge
<1>7. /\ ~(Len(l.e) < Texts!MinExplainer) <=> Len(l.e) >= Texts!MinExplainer
      /\ ~(Len(l.w) < Texts!MinWhy) <=> Len(l.w) >= Texts!MinWhy
      /\ ~(Len(l.j) < Texts!MinBridge) <=> Len(l.j) >= Texts!MinBridge
  BY <1>6
<1>8. Texts!Gate!Complete(l) <=>
        /\ Texts!Gate!FormFailures(l) = {}
        /\ ~failed["short"] /\ ~failed["why"] /\ ~failed["bridge"] /\ ~failed["question"]
        /\ ~failed["placeholder"] /\ ~failed["anchor"] /\ ~failed["nuance"] /\ ~failed["wrong"]
        /\ ~failed["feedback"]
  BY <1>3, <1>5, <1>7 DEF Texts!Gate!Complete, text
<1>9. Texts!Gate!Fits(req, l, place) <=>
        /\ Texts!Gate!Complete(l) /\ Texts!Gate!Mentions(eco, text)
        /\ Texts!Gate!Anchored(eco, text) /\ ~Texts!Gate!Leaks(req, text)
        /\ Texts!Gate!PlaysRole(eco, place, text)
  BY Zenon DEF Texts!Gate!Fits, text, eco
<1>10. Texts!Gate!Valid(req, l, place, earlier) <=>
         Texts!Gate!Fits(req, l, place) /\ ~Texts!Gate!Redundant(l, earlier)
  BY DEF Texts!Gate!Valid
<1> QED  BY <1>3, <1>4, <1>8, <1>9, <1>10

(* The options of an accepted draft are its answers.                          *)
LEMMA OptionsAreAnswers ==
  ASSUME NEW l \in Draft, NEW place \in Nat, NEW jitter \in Nat,
         Len(Texts!Gate!Written(l.b)) = 3, Len(Texts!Gate!Written(l.bf)) = 3
  PROVE  Texts!Gate!AnswersStand(l, place, jitter)
<1> DEFINE lesson == Texts!Gate!ToLesson(l, place, jitter)
           right == lesson.correct
           others == [i \in 1..3 |-> lesson.options[IF i < right THEN i ELSE i + 1]]
           wrong == Texts!Gate!WrongOptions(l)
<1>1. Texts!Gate!CorrectIndex(l, place, jitter) \in 0..3
  <2>1. Texts!Gate!Smaller(l.ci, 3) \in Nat
    BY DEF Draft, Texts!Gate!Smaller
  <2> HIDE DEF Texts!Gate!Smaller
  <2> QED  BY <2>1 DEF Texts!Gate!CorrectIndex
<1>2. /\ right = Texts!Gate!CorrectIndex(l, place, jitter) + 1
      /\ \A i \in 1..4 : lesson.options[i] =
           IF i = right THEN [label |-> l.a, feedback |-> Texts!Gate!RightFeedback]
           ELSE wrong[IF i < right THEN i ELSE i - 1]
  BY DEF Texts!Gate!ToLesson
<1>3. right \in 1..4
  BY <1>1, <1>2
<1> HIDE DEF lesson, wrong
<1>4. lesson.options[right].label = l.a
  BY <1>2, <1>3
<1>5. \A i \in 1..3 : others[i] = wrong[i]
  <2> TAKE i \in 1..3
  <2>1. CASE i < right
    <3>1. i \in 1..4 /\ i # right
      BY <1>3, <2>1
    <3> QED  BY <1>2, <2>1, <3>1
  <2>2. CASE ~(i < right)
    <3>1. i + 1 \in 1..4 /\ i + 1 # right /\ ~(i + 1 < right) /\ (i + 1) - 1 = i
      BY <1>3, <2>2
    <3> QED  BY <1>2, <2>2, <3>1
  <2> QED  BY <2>1, <2>2
<1>6. \A i \in 1..3 : wrong[i] = [label |-> Texts!Gate!Written(l.b)[i],
                                  feedback |-> Texts!Gate!Written(l.bf)[i]]
  BY DEF wrong, Texts!Gate!WrongOptions
<1> HIDE DEF others
<1>7. l.b \in Seq(Text) /\ l.bf \in Seq(Text)
  BY DEF Draft
<1>8. \A i \in 1..3 : Texts!Gate!IsNthWritten(l.b, i, others[i].label)
  <2> TAKE i \in 1..3
  <2>1. i \in 1..Len(Texts!Gate!Written(l.b))
    OBVIOUS
  <2>2. Texts!Gate!IsNthWritten(l.b, i, Texts!Gate!Written(l.b)[i])
    BY <1>7, <2>1, WrittenInOrder
  <2>3. others[i].label = Texts!Gate!Written(l.b)[i]
    BY <1>5, <1>6
  <2> QED  BY <2>2, <2>3
<1>9. Texts!Gate!NoBlank(l.b) /\ Texts!Gate!NoBlank(l.bf) =>
        \A i \in 1..3 : others[i] = [label |-> l.b[i], feedback |-> l.bf[i]]
  BY <1>5, <1>6, <1>7, WrittenWhole
<1> QED  BY <1>3, <1>4, <1>8, <1>9, Zenon DEF Texts!Gate!AnswersStand, lesson, others

(* A refusal is explained, and an accepted draft keeps its answers and is       *)
(* whole (ai_learning_lesson_validation_failures, learning_wrong_options,      *)
(* compact_ai_lesson_to_learning_lesson).                                     *)
THEOREM AnswersAreKeptInLessons == Spec => []AnswersAreKept
<1>1. Init => AnswersAreKept
  BY DEF Init, AnswersAreKept, Of
<1>2. ASSUME AnswersAreKept, [Next]_vars PROVE AnswersAreKept'
  <2>1. CASE JudgeDraft
    <3>1. PICK topic \in Texts!Topics, place \in LessonPlaces, draft \in LessonDrafts,
               jitter \in Jitters, others \in {<<>>} \cup {<<d>> : d \in LessonDrafts} :
             LET request == Texts!Request(topic)
                 normal == Texts!Gate!Normalize(request, place, draft)
                 prior == [i \in DOMAIN others |->
                            Texts!Gate!Prior(Texts!Gate!Normalize(request, i - 1, others[i]))]
             IN  /\ asked' = [family |-> "draft", request |-> request, draft |-> normal,
                              place |-> place, jitter |-> jitter, prior |-> prior]
                 /\ answer' = [valid |-> Texts!Gate!Valid(request, normal, place, prior),
                               failures |-> Texts!Gate!Failures(request, normal, place, prior)]
      BY <2>1, Zenon DEF JudgeDraft, Ask
    <3> DEFINE request == Texts!Request(topic)
               normal == Texts!Gate!Normalize(request, place, draft)
               prior == [i \in DOMAIN others |->
                          Texts!Gate!Prior(Texts!Gate!Normalize(request, i - 1, others[i]))]
    <3>2. place \in Nat /\ jitter \in Nat /\ draft \in Draft
      BY DraftAssumption
    <3>3. /\ normal \in Draft
          /\ Texts!Gate!Valid(request, normal, place, prior) =>
               Texts!Gate!Normalize(request, place, normal) = normal
      BY <3>2, NormalStaysNormal, Zenon
    <3>4. /\ asked'.draft = normal /\ asked'.place = place /\ asked'.jitter = jitter
          /\ asked'.request = request
          /\ answer'.valid = Texts!Gate!Valid(request, normal, place, prior)
          /\ answer'.failures = Texts!Gate!Failures(request, normal, place, prior)
      <4> HIDE DEF request, normal, prior
      <4> QED  BY <3>1 DEF request, normal, prior
    <3> HIDE DEF request, normal, prior
    <3>5. Texts!Gate!Valid(request, normal, place, prior) <=>
            Texts!Gate!Failures(request, normal, place, prior) = {}
      BY <3>3, RefusalIsExplained
    <3>6. Texts!Gate!Valid(request, normal, place, prior) =>
            Texts!Gate!AnswersStand(normal, place, jitter)
      BY <3>2, <3>3, ValidIsWhole, OptionsAreAnswers
    <3> QED  BY <3>3, <3>4, <3>5, <3>6 DEF AnswersAreKept
  <2>2. CASE UNCHANGED vars
    BY <1>2, <2>2 DEF AnswersAreKept, Of, vars
  <2>3. CASE ~Of("draft")'
    BY <2>3 DEF AnswersAreKept
  <2> QED  BY <1>2, <2>1, <2>2, <2>3, AskedBy
<1> QED  BY <1>1, <1>2, PTL DEF Spec

-----------------------------------------------------------------------------
(* Sessions *)

(* A set of numbers with a bound has a greatest one.                          *)
LEMMA GreatestNatural ==
  ASSUME NEW n \in Nat, NEW T \in SUBSET (0..n), T # {}
  PROVE  Max(T) \in T /\ \A y \in T : Max(T) >= y
<1> DEFINE left == {n - x : x \in T}
<1>1. left \in SUBSET Nat /\ left # {}
  <2>1. \A x \in T : x \in 0..n /\ n - x \in Nat
    OBVIOUS
  <2> QED  BY <2>1
<1>2. PICK m \in left : \A k \in left : m <= k
  <2> HIDE DEF left
  <2> QED  BY <1>1, LeastNatural
<1>3. n - m \in T /\ \A y \in T : n - m >= y
  <2>1. PICK x \in T : m = n - x
    OBVIOUS
  <2>2. \A y \in T : m <= n - y
    BY <1>2
  <2> QED  BY <2>1, <2>2
<1>4. \E x \in T : \A y \in T : x >= y
  BY <1>3
<1> QED  BY <1>4 DEF Max

(* What the refreshed score looks at.                                         *)
ScoreFor(evidence, words, question, placeholder) ==
  RefreshedScore([evidence |-> evidence, words |-> [now |-> words],
                  question |-> [now |-> question], placeholder |-> placeholder])

LEMMA ScoreByParts ==
  ASSUME NEW l
  PROVE  RefreshedScore(l) = ScoreFor(l.evidence, l.words.now, l.question.now, l.placeholder)
BY DEF ScoreFor, RefreshedScore

LEMMA ScoreIsScore ==
  ASSUME NEW evidence, NEW words \in Nat, NEW question, NEW placeholder \in BOOLEAN
  PROVE  /\ ScoreFor(evidence, words, question, placeholder) \in Score
         /\ LET score == ScoreFor(evidence, words, question, placeholder) IN
              /\ score.source_coverage >= Threshold /\ score.technical_depth >= Threshold
              /\ score.checkpoint_quality >= Threshold /\ score.placeholder_free
              => score.passed
<1>1. Depth(words) \in Nat
  BY DEF Depth, FullDepth, U16, U8
<1> DEFINE score == ScoreFor(evidence, words, question, placeholder)
<1>2. score = [source_coverage |-> IF evidence = 0 THEN 0 ELSE 100,
               technical_depth |-> Depth(words),
               checkpoint_quality |-> IF question = "generic" THEN 40 ELSE 95,
               placeholder_free |-> ~placeholder /\ question # "placeholder",
               ecosystem_alignment |-> TRUE,
               passed |-> /\ (IF evidence = 0 THEN 0 ELSE 100) >= Threshold
                          /\ Depth(words) >= DepthToPass
                          /\ (IF question = "generic" THEN 40 ELSE 95) >= Threshold
                          /\ ~placeholder /\ question # "placeholder"]
  BY DEF ScoreFor, RefreshedScore
<1> HIDE DEF score
<1>3. score \in Score
  BY <1>1, <1>2 DEF Score
<1>4. /\ score.source_coverage >= Threshold /\ score.technical_depth >= Threshold
      /\ score.checkpoint_quality >= Threshold /\ score.placeholder_free
      => score.passed
  <2>1. /\ score.source_coverage = IF evidence = 0 THEN 0 ELSE 100
        /\ score.technical_depth = Depth(words)
        /\ score.checkpoint_quality = IF question = "generic" THEN 40 ELSE 95
        /\ score.placeholder_free <=> ~placeholder /\ question # "placeholder"
        /\ score.passed <=> /\ score.source_coverage >= Threshold
                            /\ Depth(words) >= DepthToPass
                            /\ score.checkpoint_quality >= Threshold
                            /\ ~placeholder /\ question # "placeholder"
    BY <1>2
  <2> QED  BY <1>1, <2>1 DEF Threshold, DepthToPass
<1> QED  BY <1>3, <1>4 DEF score

(* The lesson that is stored, field by field.                                 *)
LEMMA StoredLesson ==
  ASSUME NEW l \in Lesson, NEW place \in 1..Places
  PROVE  LET stored == CompactLesson(l, place)
             evidence == IF l.evidence = 0 THEN Least(Bounded(l.resources), 3) ELSE l.evidence
         IN  /\ stored \in Lesson
             /\ stored =
                  [id |-> IF l.id = None THEN FallbackId(place) ELSE l.id, title |-> l.title,
                   words |-> [now |-> l.words.clipped, clipped |-> l.words.clipped],
                   question |-> [asks |-> l.question.asks, now |-> l.question.clipped,
                                 clipped |-> l.question.clipped],
                   resources |-> Bounded(l.resources), evidence |-> evidence,
                   placeholder |-> l.placeholder,
                   options |-> [i \in 1..4 |-> IF i <= Len(l.options) THEN l.options[i]
                                               ELSE Padding],
                   correct |-> Answer(l),
                   score |-> ScoreFor(evidence, l.words.clipped, l.question.now, l.placeholder)]
<1> DEFINE evidence == IF l.evidence = 0 THEN Least(Bounded(l.resources), 3) ELSE l.evidence
           id == IF l.id = None THEN FallbackId(place) ELSE l.id
           options == [i \in 1..4 |-> IF i <= Len(l.options) THEN l.options[i] ELSE Padding]
           score == ScoreFor(evidence, l.words.clipped, l.question.now, l.placeholder)
           cut == [l EXCEPT !.id = IF @ = None THEN FallbackId(place) ELSE @,
                            !.words.now = l.words.clipped,
                            !.resources = Bounded(@),
                            !.evidence = IF @ = 0 THEN Least(Bounded(l.resources), 3) ELSE @]
           stored == [id |-> id, title |-> l.title,
                      words |-> [now |-> l.words.clipped, clipped |-> l.words.clipped],
                      question |-> [asks |-> l.question.asks, now |-> l.question.clipped,
                                    clipped |-> l.question.clipped],
                      resources |-> Bounded(l.resources), evidence |-> evidence,
                      placeholder |-> l.placeholder, options |-> options, correct |-> Answer(l),
                      score |-> score]
<1>1. /\ l.id \in Words \cup {None} /\ l.title \in Words \cup {None}
      /\ l.words \in [now : Nat, clipped : Nat]
      /\ l.question \in [asks : Words \cup {None}, now : Words, clipped : Words]
      /\ l.resources \in Nat /\ l.evidence \in Nat /\ l.placeholder \in BOOLEAN
      /\ l.options \in Seq(Words) /\ l.correct \in Nat
  BY DEF Lesson
<1>2. cut = [id |-> id, title |-> l.title,
             words |-> [now |-> l.words.clipped, clipped |-> l.words.clipped],
             question |-> l.question, resources |-> Bounded(l.resources),
             evidence |-> evidence, placeholder |-> l.placeholder, options |-> l.options,
             correct |-> l.correct, score |-> l.score]
  <2>1. [l.words EXCEPT !.now = l.words.clipped]
          = [now |-> l.words.clipped, clipped |-> l.words.clipped]
    BY <1>1
  <2>2. cut = [l EXCEPT !.id = id, !.words = [l.words EXCEPT !.now = l.words.clipped],
                        !.resources = Bounded(l.resources), !.evidence = evidence]
    BY DEF Lesson
  <2> HIDE DEF cut, id, evidence, Bounded
  <2> QED  BY <2>1, <2>2 DEF Lesson
<1>3. RefreshedScore(cut) = score
  <2> HIDE DEF cut, evidence, id
  <2>1. /\ cut.evidence = evidence /\ cut.words.now = l.words.clipped
        /\ cut.question.now = l.question.now /\ cut.placeholder = l.placeholder
    BY <1>2
  <2> QED  BY <2>1, ScoreByParts
<1>4. CompactLesson(l, place) =
        [[cut EXCEPT !.score = RefreshedScore(cut)] EXCEPT
           !.options = [i \in 1..4 |-> IF i <= Len(@) THEN @[i] ELSE Padding],
           !.correct = Answer(l), !.question.now = l.question.clipped]
  BY Zenon DEF CompactLesson
<1>5. CompactLesson(l, place) = stored
  <2> DEFINE scored == [cut EXCEPT !.score = score]
             question == [l.question EXCEPT !.now = l.question.clipped]
  <2>1. scored = [id |-> id, title |-> l.title,
                  words |-> [now |-> l.words.clipped, clipped |-> l.words.clipped],
                  question |-> l.question, resources |-> Bounded(l.resources),
                  evidence |-> evidence, placeholder |-> l.placeholder, options |-> l.options,
                  correct |-> l.correct, score |-> score]
    <3> HIDE DEF cut, evidence, id, score, Bounded
    <3> QED  BY <1>2
  <2>2. CompactLesson(l, place) =
          [scored EXCEPT !.options = [i \in 1..4 |-> IF i <= Len(@) THEN @[i] ELSE Padding],
                         !.correct = Answer(l), !.question.now = l.question.clipped]
    <3> HIDE DEF cut, evidence, id, score
    <3> QED  BY <1>3, <1>4
  <2> HIDE DEF scored
  <2>3. scored.options = l.options /\ scored.question = l.question
    BY <2>1
  <2>4. CompactLesson(l, place) =
          [scored EXCEPT !.options = options, !.correct = Answer(l), !.question = question]
    BY <2>2, <2>3
  <2>5. question = [asks |-> l.question.asks, now |-> l.question.clipped,
                    clipped |-> l.question.clipped]
    BY <1>1
  <2> HIDE DEF cut, evidence, id, score, options, question, Bounded, Answer
  <2> QED  BY <2>1, <2>4, <2>5
<1>6. stored \in Lesson
  <2>1. id \in Words \cup {None}
    BY <1>1, SessionAssumption
  <2>2. evidence \in Nat /\ Bounded(l.resources) \in Nat
    BY <1>1 DEF Bounded, Least, Defaults
  <2>3. options \in Seq(Words)
    <3>1. \A i \in 1..4 : options[i] \in Words
      BY <1>1, SessionAssumption
    <3>2. options = [i \in 1..4 |-> options[i]]
      OBVIOUS
    <3> HIDE DEF options
    <3> QED  BY <3>1, <3>2
  <2>4. Answer(l) \in Nat
    BY <1>1 DEF Answer
  <2>5. score \in Score
    BY <1>1, ScoreIsScore
  <2> HIDE DEF evidence, id, options, score
  <2> QED  BY <1>1, <2>1, <2>2, <2>3, <2>4, <2>5 DEF Lesson
<1> QED  BY <1>5, <1>6

(* Stored once more, a lesson whose question is judged the same when it is cut,   *)
(* and that has resources of its own, stays as it is.                         *)
LEMMA StoredLessonTwice ==
  ASSUME NEW l \in Lesson, NEW place \in 1..Places,
         l.question.now = l.question.clipped, l.resources > 0
  PROVE  CompactLesson(CompactLesson(l, place), place) = CompactLesson(l, place)
<1> DEFINE once == CompactLesson(l, place)
           twice == CompactLesson(once, place)
           evidence == IF l.evidence = 0 THEN Least(Bounded(l.resources), 3) ELSE l.evidence
           again == IF once.evidence = 0 THEN Least(Bounded(once.resources), 3)
                    ELSE once.evidence
<1>1. /\ once \in Lesson
      /\ once = [id |-> IF l.id = None THEN FallbackId(place) ELSE l.id, title |-> l.title,
                 words |-> [now |-> l.words.clipped, clipped |-> l.words.clipped],
                 question |-> [asks |-> l.question.asks, now |-> l.question.clipped,
                               clipped |-> l.question.clipped],
                 resources |-> Bounded(l.resources), evidence |-> evidence,
                 placeholder |-> l.placeholder,
                 options |-> [i \in 1..4 |-> IF i <= Len(l.options) THEN l.options[i]
                                             ELSE Padding],
                 correct |-> Answer(l),
                 score |-> ScoreFor(evidence, l.words.clipped, l.question.now, l.placeholder)]
  BY StoredLesson
<1> HIDE DEF evidence, once
<1>2. twice = [id |-> IF once.id = None THEN FallbackId(place) ELSE once.id, title |-> once.title,
               words |-> [now |-> once.words.clipped, clipped |-> once.words.clipped],
               question |-> [asks |-> once.question.asks, now |-> once.question.clipped,
                             clipped |-> once.question.clipped],
               resources |-> Bounded(once.resources), evidence |-> again,
               placeholder |-> once.placeholder,
               options |-> [i \in 1..4 |-> IF i <= Len(once.options) THEN once.options[i]
                                           ELSE Padding],
               correct |-> Answer(once),
               score |-> ScoreFor(again, once.words.clipped, once.question.now, once.placeholder)]
  BY <1>1, StoredLesson
<1> HIDE DEF twice, again
<1>3. l.resources \in Nat /\ l.evidence \in Nat /\ l.correct \in Nat
  BY DEF Lesson
<1>4. once.resources = Bounded(l.resources) /\ once.evidence = evidence /\ once.correct = Answer(l)
  BY <1>1
<1>5. Bounded(once.resources) = once.resources
  BY <1>3, <1>4 DEF Bounded, Least
<1>6. again = once.evidence
  BY <1>3, <1>4, <1>5 DEF again, evidence, Bounded, Least
<1>7. Answer(once) = once.correct
  BY <1>3, <1>4 DEF Answer
<1>8. (IF once.id = None THEN FallbackId(place) ELSE once.id) = once.id
  <2>1. FallbackId(place) # None
    BY SessionAssumption
  <2> QED  BY <1>1, <2>1
<1>9. [i \in 1..4 |-> IF i <= Len(once.options) THEN once.options[i] ELSE Padding] = once.options
  <2> DEFINE options == [i \in 1..4 |-> IF i <= Len(l.options) THEN l.options[i] ELSE Padding]
  <2>1. once.options = options
    BY <1>1
  <2>2. once.options \in Seq(Words)
    BY <1>1 DEF Lesson
  <2>3. DOMAIN options = 1..4
    OBVIOUS
  <2> HIDE DEF options
  <2>4. Len(once.options) = 4
    BY <2>1, <2>2, <2>3
  <2>5. [i \in 1..4 |-> IF i <= Len(once.options) THEN once.options[i] ELSE Padding]
          = [i \in 1..4 |-> once.options[i]]
    BY <2>4
  <2> QED  BY <2>2, <2>4, <2>5
<1>10. /\ once.words = [now |-> once.words.clipped, clipped |-> once.words.clipped]
       /\ once.words.clipped = l.words.clipped
       /\ once.question = [asks |-> once.question.asks, now |-> once.question.clipped,
                           clipped |-> once.question.clipped]
       /\ once.question.now = l.question.now /\ once.placeholder = l.placeholder
       /\ once.score = ScoreFor(evidence, l.words.clipped, l.question.now, l.placeholder)
  BY <1>1
<1>11. ScoreFor(again, once.words.clipped, once.question.now, once.placeholder) = once.score
  BY <1>4, <1>6, <1>10
<1>12. once = [id |-> once.id, title |-> once.title, words |-> once.words,
               question |-> once.question, resources |-> once.resources,
               evidence |-> once.evidence, placeholder |-> once.placeholder,
               options |-> once.options, correct |-> once.correct, score |-> once.score]
  BY <1>1 DEF Lesson
<1>13. twice = once
  BY <1>2, <1>5, <1>6, <1>7, <1>8, <1>9, <1>10, <1>11, <1>12, Zenon
<1> QED  BY <1>13 DEF twice, once

(* A module that is stored holds its first five lessons, each stored.          *)
LEMMA StoredModule ==
  ASSUME NEW lessons \in Seq(Lesson)
  PROVE  LET stored == CompactModule(lessons) IN
           /\ stored \in Seq(Lesson) /\ Len(stored) = Least(Len(lessons), Places)
           /\ Len(stored) <= Places
           /\ \A i \in 1..Len(stored) :
                /\ i \in 1..Len(lessons) /\ i \in 1..Places
                /\ stored[i] = CompactLesson(lessons[i], i)
                /\ stored[i].id # None
           /\ (\A i \in DOMAIN lessons :
                 /\ lessons[i].question.now = lessons[i].question.clipped
                 /\ lessons[i].resources > 0)
                => CompactModule(stored) = stored
<1> DEFINE stored == CompactModule(lessons)
           length == Least(Len(lessons), Places)
<1>1. length \in Nat /\ length <= Len(lessons) /\ length <= Places /\ Places \in Nat
  BY DEF Least, Places
<1>2. stored = [i \in 1..length |-> CompactLesson(lessons[i], i)]
  BY DEF CompactModule
<1> HIDE DEF length, stored
<1>3. ASSUME NEW i \in 1..length
      PROVE  /\ i \in 1..Len(lessons) /\ i \in 1..Places /\ lessons[i] \in Lesson
             /\ stored[i] = CompactLesson(lessons[i], i)
             /\ stored[i] \in Lesson /\ stored[i].id # None
  <2>1. i \in 1..Len(lessons) /\ i \in 1..Places /\ lessons[i] \in Lesson
    BY <1>1
  <2>2. stored[i] = CompactLesson(lessons[i], i)
    BY <1>2
  <2>3. /\ CompactLesson(lessons[i], i) \in Lesson
        /\ CompactLesson(lessons[i], i).id =
             IF lessons[i].id = None THEN FallbackId(i) ELSE lessons[i].id
    BY <2>1, StoredLesson
  <2>4. FallbackId(i) # None
    BY <2>1, SessionAssumption
  <2> QED  BY <2>1, <2>2, <2>3, <2>4
<1>4. stored \in Seq(Lesson) /\ Len(stored) = length
  <2>1. stored \in [1..length -> Lesson]
    BY <1>2, <1>3
  <2> QED  BY <1>1, <2>1
<1>5. ASSUME \A i \in DOMAIN lessons : /\ lessons[i].question.now = lessons[i].question.clipped
                                       /\ lessons[i].resources > 0
      PROVE  CompactModule(stored) = stored
  <2>1. Least(Len(stored), Places) = length
    BY <1>1, <1>4 DEF Least
  <2>2. CompactModule(stored) = [i \in 1..length |-> CompactLesson(stored[i], i)]
    BY <2>1 DEF CompactModule
  <2>3. \A i \in 1..length : CompactLesson(stored[i], i) = stored[i]
    BY <1>3, <1>5, StoredLessonTwice
  <2> QED  BY <1>2, <1>3, <2>2, <2>3
<1> QED  BY <1>1, <1>3, <1>4, <1>5 DEF stored, length

(* The answer of a stored lesson is shown.                                    *)
LEMMA AnswersAreShown ==
  ASSUME NEW s \in Sessions
  PROVE  AnswerIsShown(s)
<1> SUFFICES ASSUME NEW i \in DOMAIN CompactModule(s.lessons)
             PROVE  LET was == s.lessons[i]
                        is == CompactModule(s.lessons)[i]
                    IN  /\ is.correct + 1 \in DOMAIN is.options
                        /\ was.correct < Least(Len(was.options), 4)
                             => is.options[is.correct + 1] = was.options[was.correct + 1]
  BY DEF AnswerIsShown
<1> DEFINE was == s.lessons[i]
           is == CompactModule(s.lessons)[i]
<1>1. s.lessons \in Seq(Lesson)
  BY SessionAssumption
<1>2. CompactModule(s.lessons) \in Seq(Lesson) /\ i \in 1..Len(CompactModule(s.lessons))
  BY <1>1, StoredModule
<1>3. was \in Lesson /\ i \in 1..Places /\ is = CompactLesson(was, i)
  BY <1>1, <1>2, StoredModule
<1> HIDE DEF was, is
<1> DEFINE evidence == IF was.evidence = 0 THEN Least(Bounded(was.resources), 3)
                       ELSE was.evidence
           options == [n \in 1..4 |-> IF n <= Len(was.options) THEN was.options[n] ELSE Padding]
<1>4. is.options = options /\ is.correct = Answer(was)
  <2>1. is = [id |-> IF was.id = None THEN FallbackId(i) ELSE was.id, title |-> was.title,
              words |-> [now |-> was.words.clipped, clipped |-> was.words.clipped],
              question |-> [asks |-> was.question.asks, now |-> was.question.clipped,
                            clipped |-> was.question.clipped],
              resources |-> Bounded(was.resources), evidence |-> evidence,
              placeholder |-> was.placeholder, options |-> options, correct |-> Answer(was),
              score |-> ScoreFor(evidence, was.words.clipped, was.question.now, was.placeholder)]
    BY <1>3, StoredLesson
  <2> HIDE DEF evidence, options
  <2> QED  BY <2>1
<1>5. was.correct \in Nat /\ Len(was.options) \in Nat
  BY <1>3 DEF Lesson
<1>6. /\ is.correct + 1 \in DOMAIN is.options
      /\ was.correct < Least(Len(was.options), 4)
           => is.options[is.correct + 1] = was.options[was.correct + 1]
  BY <1>4, <1>5 DEF Answer, Least
<1> QED  BY <1>6 DEF was, is

(* A status merged twice is merged once.                                      *)
LEMMA MergedTwice ==
  ASSUME NEW stated \in Status, NEW lessons
  PROVE  /\ MergedStatus(stated, lessons).index = stated.index
         /\ MergedStatus(MergedStatus(stated, lessons), lessons) = MergedStatus(stated, lessons)
<1> DEFINE once == MergedStatus(stated, lessons)
           place == stated.index
           lesson == lessons[place + 1]
           status == Normalized(stated.status)
           kept == Kept(stated.validation, lesson)
<1>1. Normalized(status) = status
  BY DEF Normalized, Statuses
<1>2. Kept(kept, lesson) = kept
  BY DEF Kept
<1>3. CASE place < Len(lessons)
  <2>1. once = [index |-> place, id |-> IF stated.id = None THEN lesson.id ELSE stated.id,
                validation |-> kept,
                status |-> IF status \in {"failed", "generating"} THEN status ELSE Settled(kept)]
    BY <1>3 DEF MergedStatus
  <2> HIDE DEF once, kept, status
  <2>2. /\ once.index = place /\ once.validation = kept
        /\ once.id = IF stated.id = None THEN lesson.id ELSE stated.id
        /\ once.status = IF status \in {"failed", "generating"} THEN status ELSE Settled(kept)
    BY <2>1
  <2>3. MergedStatus(once, lessons) =
          [index |-> place, id |-> IF once.id = None THEN lesson.id ELSE once.id,
           validation |-> Kept(once.validation, lesson),
           status |-> IF Normalized(once.status) \in {"failed", "generating"}
                      THEN Normalized(once.status)
                      ELSE Settled(Kept(once.validation, lesson))]
    <3> HIDE DEF lesson
    <3> QED  BY <1>3, <2>2 DEF MergedStatus, lesson
  <2>4. Normalized(once.status) = once.status
    BY <2>2 DEF Normalized, Statuses, Settled
  <2>5. (IF Normalized(once.status) \in {"failed", "generating"}
         THEN Normalized(once.status) ELSE Settled(kept)) = once.status
    BY <2>2, <2>4 DEF Settled
  <2>6. (IF once.id = None THEN lesson.id ELSE once.id) = once.id
    BY <2>2
  <2>7. MergedStatus(once, lessons) =
          [index |-> place, id |-> once.id, validation |-> kept, status |-> once.status]
    BY <1>2, <2>2, <2>3, <2>5, <2>6
  <2>8. once = [index |-> place, id |-> once.id, validation |-> kept, status |-> once.status]
    BY <2>1, <2>2
  <2> QED  BY <2>2, <2>7, <2>8 DEF once
<1>4. CASE ~(place < Len(lessons))
  <2>1. once = [stated EXCEPT !.status = status]
    BY <1>4 DEF MergedStatus
  <2> HIDE DEF status, once
  <2>2. once = [index |-> place, id |-> stated.id, status |-> status,
                validation |-> stated.validation]
    BY <2>1 DEF Status
  <2>3. once.index = place /\ once.status = status
    BY <2>2
  <2>4. MergedStatus(once, lessons) = [once EXCEPT !.status = Normalized(once.status)]
    BY <1>4, <2>3 DEF MergedStatus
  <2>5. [once EXCEPT !.status = status] = once
    BY <2>2, <2>3
  <2> QED  BY <1>1, <2>3, <2>4, <2>5 DEF once, status
<1> QED  BY <1>3, <1>4

LEMMA OwnStatusMerged ==
  ASSUME NEW lessons, NEW place
  PROVE  /\ StatusOf(lessons, place).index = place
         /\ MergedStatus(StatusOf(lessons, place), lessons) = StatusOf(lessons, place)
<1> DEFINE own == StatusOf(lessons, place)
           lesson == lessons[place + 1]
           validation == ValidationOf(lesson)
<1>1. CASE place < Len(lessons)
  <2>1. own = [index |-> place, id |-> lesson.id, validation |-> validation,
               status |-> Settled(validation)]
    BY <1>1 DEF StatusOf
  <2>2. Kept(validation, lesson) = validation
    BY DEF Kept
  <2> HIDE DEF own, validation
  <2>3. /\ own.index = place /\ own.id = lesson.id /\ own.validation = validation
        /\ own.status = Settled(validation)
    BY <2>1
  <2>4. Normalized(own.status) = own.status /\ own.status \notin {"failed", "generating"}
    BY <2>3 DEF Normalized, Statuses, Settled
  <2>5. MergedStatus(own, lessons) =
          [index |-> place, id |-> IF own.id = None THEN lesson.id ELSE own.id,
           validation |-> Kept(own.validation, lesson),
           status |-> IF Normalized(own.status) \in {"failed", "generating"}
                      THEN Normalized(own.status)
                      ELSE Settled(Kept(own.validation, lesson))]
    <3> HIDE DEF lesson
    <3> QED  BY <1>1, <2>3 DEF MergedStatus, lesson
  <2> QED  BY <2>1, <2>2, <2>3, <2>4, <2>5 DEF own
<1>2. CASE ~(place < Len(lessons))
  <2>1. own = [index |-> place, id |-> None, validation |-> NoValidation, status |-> "queued"]
    BY <1>2 DEF StatusOf
  <2> HIDE DEF own
  <2>2. own.index = place /\ own.status = "queued" /\ Normalized("queued") = "queued"
    BY <2>1 DEF Normalized, Statuses
  <2>3. MergedStatus(own, lessons) = [own EXCEPT !.status = Normalized(own.status)]
    BY <1>2, <2>2 DEF MergedStatus
  <2>4. [own EXCEPT !.status = "queued"] = own
    BY <2>1
  <2> QED  BY <2>2, <2>3, <2>4 DEF own
<1> QED  BY <1>1, <1>2

(* The status of a place is its lesson's own or merged from one stated of it.    *)
LEMMA StatusesMerged ==
  ASSUME NEW stated \in Seq(Status), NEW lessons
  PROVE  /\ MergeStatuses(stated, lessons) =
              [i \in 1..Places |-> MergeStatuses(stated, lessons)[i]]
         /\ \A i \in 1..Places :
              \/ MergeStatuses(stated, lessons)[i] = StatusOf(lessons, i - 1)
              \/ \E n \in DOMAIN stated :
                   /\ stated[n].index = i - 1
                   /\ MergeStatuses(stated, lessons)[i] = MergedStatus(stated[n], lessons)
<1> DEFINE merged == MergeStatuses(stated, lessons)
           mine(i) == {n \in DOMAIN stated : stated[n].index = i - 1}
<1>1. merged = [i \in 1..Places |-> IF mine(i) = {} THEN StatusOf(lessons, i - 1)
                                    ELSE MergedStatus(stated[Max(mine(i))], lessons)]
  BY DEF MergeStatuses
<1>2. ASSUME NEW i \in 1..Places, mine(i) # {}
      PROVE  Max(mine(i)) \in mine(i)
  <2>1. mine(i) \in SUBSET (0..Len(stated)) /\ Len(stated) \in Nat
    OBVIOUS
  <2> HIDE DEF mine
  <2> QED  BY <1>2, <2>1, GreatestNatural
<1> HIDE DEF merged
<1>3. merged = [i \in 1..Places |-> merged[i]]
  BY <1>1
<1>4. ASSUME NEW i \in 1..Places
      PROVE  \/ merged[i] = StatusOf(lessons, i - 1)
             \/ \E n \in DOMAIN stated : /\ stated[n].index = i - 1
                                         /\ merged[i] = MergedStatus(stated[n], lessons)
  <2>1. CASE mine(i) = {}
    BY <1>1, <2>1
  <2>2. CASE mine(i) # {}
    <3> DEFINE n == Max(mine(i))
    <3>1. n \in mine(i)
      BY <1>2, <2>2
    <3>2. merged[i] = MergedStatus(stated[n], lessons)
      BY <1>1, <2>2
    <3> HIDE DEF n
    <3> QED  BY <3>1, <3>2
  <2> QED  BY <2>1, <2>2
<1> QED  BY <1>3, <1>4 DEF merged

LEMMA StatusesMergedTwice ==
  ASSUME NEW stated \in Seq(Status), NEW lessons
  PROVE  MergeStatuses(MergeStatuses(stated, lessons), lessons) = MergeStatuses(stated, lessons)
<1> DEFINE once == MergeStatuses(stated, lessons)
           mine(i) == {n \in DOMAIN once : once[n].index = i - 1}
<1>1. once = [i \in 1..Places |-> once[i]]
  BY StatusesMerged
<1>2. ASSUME NEW i \in 1..Places
      PROVE  once[i].index = i - 1 /\ MergedStatus(once[i], lessons) = once[i]
  <2>1. CASE once[i] = StatusOf(lessons, i - 1)
    BY <2>1, OwnStatusMerged
  <2>2. CASE once[i] # StatusOf(lessons, i - 1)
    <3>1. PICK n \in DOMAIN stated : /\ stated[n].index = i - 1
                                     /\ once[i] = MergedStatus(stated[n], lessons)
      BY <2>2, StatusesMerged
    <3>2. stated[n] \in Status
      OBVIOUS
    <3> HIDE DEF once
    <3> QED  BY <3>1, <3>2, MergedTwice
  <2> QED  BY <2>1, <2>2
<1>3. MergeStatuses(once, lessons) =
        [i \in 1..Places |-> IF mine(i) = {} THEN StatusOf(lessons, i - 1)
                             ELSE MergedStatus(once[Max(mine(i))], lessons)]
  BY Zenon DEF MergeStatuses
<1> HIDE DEF once
<1>4. ASSUME NEW i \in 1..Places
      PROVE  mine(i) # {} /\ Max(mine(i)) = i
  <2>1. i \in Nat /\ Places \in Nat
    BY DEF Places
  <2>2. mine(i) = {i}
    BY <1>1, <1>2, <2>1
  <2>3. {i} \in SUBSET (0..i) /\ {i} # {}
    BY <2>1
  <2>4. Max({i}) \in {i}
    BY <2>1, <2>3, GreatestNatural
  <2> HIDE DEF mine
  <2> QED  BY <2>2, <2>4
<1>5. \A i \in 1..Places : (IF mine(i) = {} THEN StatusOf(lessons, i - 1)
                            ELSE MergedStatus(once[Max(mine(i))], lessons)) = once[i]
  <2> HIDE DEF mine
  <2> QED  BY <1>2, <1>4
<1> HIDE DEF mine
<1>6. MergeStatuses(once, lessons) = once
  BY <1>1, <1>3, <1>5
<1> QED  BY <1>6 DEF once

(* A stored lesson that passes every check of its validation has a score that    *)
(* passed.                                                                   *)
LEMMA ChecksCarryTheScore ==
  ASSUME NEW l \in Lesson, NEW place \in 1..Places, LessonWarnings(CompactLesson(l, place)) = {}
  PROVE  ValidationOf(CompactLesson(l, place)).passed
<1> DEFINE stored == CompactLesson(l, place)
           evidence == IF l.evidence = 0 THEN Least(Bounded(l.resources), 3) ELSE l.evidence
           score == stored.score
           validation == ValidationOf(stored)
<1>1. score = ScoreFor(evidence, l.words.clipped, l.question.now, l.placeholder)
  BY StoredLesson
<1>2. l.words.clipped \in Nat /\ l.placeholder \in BOOLEAN
  BY DEF Lesson
<1>3. /\ score.source_coverage >= Threshold /\ score.technical_depth >= Threshold
      /\ score.checkpoint_quality >= Threshold /\ score.placeholder_free
      => score.passed
  BY <1>1, <1>2, ScoreIsScore
<1> HIDE DEF score
<1>4. DOMAIN NoValidation =
        {"source", "depth", "placeholder", "repetition", "checkpoint", "alignment", "passed"}
  BY DEF NoValidation
<1>5. LessonWarnings(stored) =
        {check \in DOMAIN NoValidation \ {"repetition", "passed"} : ~validation[check]}
  BY DEF LessonWarnings
<1>6. /\ validation.source <=> stored.evidence > 0 /\ score.source_coverage >= Threshold
      /\ validation.depth <=> score.technical_depth >= Threshold
      /\ validation.checkpoint <=> score.checkpoint_quality >= Threshold
      /\ validation.placeholder = score.placeholder_free
      /\ validation.alignment = score.ecosystem_alignment
      /\ validation.passed <=>
           /\ stored.evidence > 0 /\ score.source_coverage >= Threshold
           /\ score.technical_depth >= Threshold /\ score.checkpoint_quality >= Threshold
           /\ score.placeholder_free /\ score.ecosystem_alignment /\ score.passed
  BY DEF ValidationOf, LessonValidation, score
<1> HIDE DEF validation, stored
<1>7. /\ validation.source /\ validation.depth /\ validation.placeholder
      /\ validation.checkpoint /\ validation.alignment
  BY <1>4, <1>5 DEF stored
<1> QED  BY <1>3, <1>6, <1>7 DEF validation, stored

(* A module without warnings passed.                                          *)
LEMMA WarningsTell ==
  ASSUME NEW lessons \in Seq(Lesson), lessons # <<>>,
         ModuleWarnings(CompactModule(lessons)) = {}
  PROVE  ModuleValidation(CompactModule(lessons)).passed
<1> DEFINE stored == CompactModule(lessons)
           validation == ModuleValidation(stored)
<1>1. /\ stored \in Seq(Lesson) /\ Len(stored) = Least(Len(lessons), Places)
      /\ \A i \in 1..Len(stored) :
           /\ i \in 1..Len(lessons) /\ i \in 1..Places
           /\ stored[i] = CompactLesson(lessons[i], i)
  BY StoredModule
<1>2. stored # <<>>
  <2>1. Len(lessons) \in Nat /\ Len(lessons) # 0
    OBVIOUS
  <2>2. Len(stored) # 0
    BY <1>1, <2>1 DEF Least, Places
  <2> HIDE DEF stored
  <2> QED  BY <1>1, <2>2
<1>3. /\ {<<"module", check>> : check \in
            {c \in DOMAIN NoValidation \ {"passed"} : ~validation[c]}} = {}
      /\ {<<"lesson", stored[i].id>> : i \in
            {j \in DOMAIN stored : LessonWarnings(stored[j]) # {}}} = {}
  <2> HIDE DEF validation, stored
  <2> QED  BY DEF ModuleWarnings, validation, stored
<1>4. "repetition" \in DOMAIN NoValidation /\ "passed" \in DOMAIN NoValidation
  BY DEF NoValidation
<1>5. /\ validation["repetition"] <=> ~HasRepetition(stored)
      /\ validation["passed"] <=>
           /\ ~HasRepetition(stored)
           /\ \A i \in DOMAIN stored : ValidationOf(stored[i])["passed"]
  <2> HIDE DEF stored
  <2> QED  BY <1>2, <1>4 DEF ModuleValidation
<1> HIDE DEF validation
<1>6. ~HasRepetition(stored)
  BY <1>3, <1>4, <1>5
<1>7. ASSUME NEW i \in DOMAIN stored PROVE ValidationOf(stored[i]).passed
  <2>1. LessonWarnings(stored[i]) = {}
    BY <1>3
  <2>2. /\ i \in 1..Places /\ i \in 1..Len(lessons)
        /\ stored[i] = CompactLesson(lessons[i], i)
    BY <1>1
  <2>3. lessons[i] \in Lesson
    BY <2>2
  <2> HIDE DEF stored
  <2> QED  BY <2>1, <2>2, <2>3, ChecksCarryTheScore
<1> HIDE DEF stored
<1>8. validation.passed
  BY <1>5, <1>6, <1>7
<1> QED  BY <1>8 DEF validation, stored

LEMMA StatusesAreTold ==
  ASSUME NEW s \in Sessions
  PROVE  StatusesTell(s)
<1> DEFINE stored == CompactModule(s.lessons)
           statuses == MergeStatuses(s.statuses, stored)
<1>1. s.lessons \in Seq(Lesson) /\ s.statuses \in Seq(Status)
  BY SessionAssumption
<1>2. stored \in Seq(Lesson) /\ Len(stored) <= Places
  BY <1>1, StoredModule
<1>3. Save(s).lessons = stored /\ Save(s).statuses = statuses
  BY DEF Save
<1> HIDE DEF stored
<1>4. ASSUME NEW i \in DOMAIN stored
      PROVE  /\ statuses[i].status \in {"failed", "generating", "ready", "validated"}
             /\ statuses[i].status = "validated" => statuses[i].validation.passed
             /\ statuses[i].status = "ready" => ~statuses[i].validation.passed
             /\ ValidationOf(stored[i]).passed => statuses[i].validation.passed
  <2>1. i \in 1..Places /\ i - 1 < Len(stored) /\ (i - 1) + 1 = i
    BY <1>2 DEF Places
  <2>2. CASE statuses[i] = StatusOf(stored, i - 1)
    <3>1. /\ statuses[i].status = Settled(ValidationOf(stored[i]))
          /\ statuses[i].validation = ValidationOf(stored[i])
      <4> HIDE DEF statuses
      <4> QED  BY <2>1, <2>2 DEF StatusOf
    <3> HIDE DEF statuses
    <3> QED  BY <3>1 DEF Settled
  <2>3. CASE statuses[i] # StatusOf(stored, i - 1)
    <3>1. PICK n \in DOMAIN s.statuses : /\ s.statuses[n].index = i - 1
                                         /\ statuses[i] = MergedStatus(s.statuses[n], stored)
      BY <1>1, <2>1, <2>3, StatusesMerged
    <3> DEFINE stated == s.statuses[n]
               kept == Kept(stated.validation, stored[i])
               status == Normalized(stated.status)
    <3> HIDE DEF statuses
    <3>2. /\ statuses[i].validation = kept
          /\ statuses[i].status = IF status \in {"failed", "generating"} THEN status
                                  ELSE Settled(kept)
      <4> HIDE DEF kept, status
      <4> QED  BY <2>1, <3>1 DEF MergedStatus, kept, status
    <3>3. ValidationOf(stored[i]).passed => kept.passed
      BY DEF Kept
    <3> HIDE DEF kept, status
    <3> QED  BY <3>2, <3>3 DEF Settled
  <2> QED  BY <2>2, <2>3
<1>5. ASSUME ~ModuleError(s.lessons), ModuleWarnings(stored) = {}
      PROVE  ModuleValidation(stored).passed
  BY <1>1, <1>5, WarningsTell DEF ModuleError, stored
<1> QED  BY <1>3, <1>4, <1>5 DEF StatusesTell

(* The places of the latest artifacts follow their definition, one by one.     *)
LEMMA LatestByPlaces ==
  ASSUME NEW artifacts \in Seq(Artifact), NEW lessons
  PROVE  \E places \in [0..Len(artifacts) -> Seq(Nat)] :
           /\ Latest(artifacts, lessons) = places[Len(artifacts)]
           /\ places[0] = <<>>
           /\ \A n \in 1..Len(artifacts) :
                places[n] = IF Newest(artifacts, lessons, n) THEN Append(places[n - 1], n)
                            ELSE places[n - 1]
<1> DEFINE length == Len(artifacts)
           next(n, list) == IF Newest(artifacts, lessons, n) THEN Append(list, n) ELSE list
           step == [x \in (1..length) \X Seq(Nat) |-> next(x[1], x[2])]
           is(g) == g = [n \in 0..length |-> IF n = 0 THEN <<>> ELSE next(n, g[n - 1])]
<1>1. length \in Nat
  OBVIOUS
<1>2. \A n \in 1..length, list \in Seq(Nat) : next(n, list) \in Seq(Nat)
  <2> HIDE DEF length
  <2> QED  BY <1>1
<1>3. \A i \in 1..length, x \in Seq(Nat) : step[<<i, x>>] \in Seq(Nat)
  <2> HIDE DEF next, length
  <2> QED  BY <1>2
<1>4. PICK g \in [0..length -> Seq(Nat)] : Follows(g, <<>>, length, step)
  <2>1. length \in Nat /\ <<>> \in Seq(Nat)
    BY <1>1
  <2> HIDE DEF step, length
  <2> QED  BY <1>3, <2>1, PrefixFunction, Zenon
<1>5. \A n \in 1..length : g[n] = next(n, g[n - 1])
  <2>1. \A n \in 1..length : g[n - 1] \in Seq(Nat)
    BY <1>1
  <2> HIDE DEF next, length
  <2> QED  BY <1>4, <2>1 DEF Follows
<1>6. is(g)
  <2> HIDE DEF next, length
  <2> QED  BY <1>1, <1>4, <1>5 DEF Follows
<1> DEFINE places == CHOOSE h : is(h)
<1>7. is(places)
  <2> HIDE DEF is
  <2> QED  BY <1>6
<1>8. Latest(artifacts, lessons) = places[length]
  BY Zenon DEF Latest
<1> HIDE DEF places
<1>9. places[0] = <<>> /\ \A n \in 1..length : places[n] = next(n, places[n - 1])
  <2> HIDE DEF next, length
  <2> QED  BY <1>1, <1>7
<1>10. places \in [0..length -> Seq(Nat)]
  <2> DEFINE good == {n \in 0..length : places[n] \in Seq(Nat)}
  <2>1. 0 \in good
    <3>1. 0 \in 0..length /\ <<>> \in Seq(Nat)
      BY <1>1
    <3> HIDE DEF next, length
    <3> QED  BY <1>9, <3>1
  <2>2. ASSUME NEW n \in 1..length, n - 1 \in good PROVE n \in good
    <3> HIDE DEF next, length
    <3> QED  BY <1>1, <1>2, <1>9, <2>2
  <2>3. \A n \in 0..length : n \in good
    <3> HIDE DEF good, length
    <3> QED  BY <1>1, <2>1, <2>2, Induction
  <2>4. places = [n \in 0..length |-> places[n]]
    <3> HIDE DEF next, length
    <3> QED  BY <1>7
  <2> HIDE DEF length
  <2> QED  BY <2>3, <2>4
<1> QED  BY <1>8, <1>9, <1>10

(* They are the places of the artifacts no later one replaces, in their order.   *)
LEMMA LatestInOrder ==
  ASSUME NEW artifacts \in Seq(Artifact), NEW lessons
  PROVE  LET latest == Latest(artifacts, lessons) IN
           /\ latest \in Seq(Nat)
           /\ \A j \in 1..Len(latest) :
                latest[j] \in 1..Len(artifacts) /\ Newest(artifacts, lessons, latest[j])
           /\ \A j, k \in 1..Len(latest) : j < k => latest[j] < latest[k]
           /\ \A m \in 1..Len(artifacts) : Newest(artifacts, lessons, m) =>
                \E j \in 1..Len(latest) : latest[j] = m
<1> DEFINE length == Len(artifacts)
           newest(n) == Newest(artifacts, lessons, n)
<1>1. PICK places \in [0..length -> Seq(Nat)] :
           /\ Latest(artifacts, lessons) = places[length]
           /\ places[0] = <<>>
           /\ \A n \in 1..length :
                places[n] = IF newest(n) THEN Append(places[n - 1], n) ELSE places[n - 1]
  BY LatestByPlaces
<1>2. length \in Nat
  OBVIOUS
<1> HIDE DEF length, newest
<1> DEFINE found(n) ==
             /\ \A j \in 1..Len(places[n]) : places[n][j] \in 1..n /\ newest(places[n][j])
             /\ \A j, k \in 1..Len(places[n]) : j < k => places[n][j] < places[n][k]
             /\ \A m \in 1..n : newest(m) => \E j \in 1..Len(places[n]) : places[n][j] = m
           good == {n \in 0..length : found(n)}
<1>3. 0 \in good
  BY <1>1, <1>2
<1>4. ASSUME NEW n \in 1..length, n - 1 \in good PROVE n \in good
  <2>1. /\ n \in 0..length /\ n \in Nat /\ n - 1 \in 0..length
        /\ places[n] \in Seq(Nat) /\ places[n - 1] \in Seq(Nat)
    BY <1>2
  <2>2. found(n - 1)
    BY <1>4
  <2>3. \A m \in 1..n : m \in 1..(n - 1) \/ m = n
    BY <2>1
  <2>4. \A m \in 1..(n - 1) : m \in 1..n /\ m < n
    BY <2>1
  <2>5. CASE ~newest(n)
    <3>1. places[n] = places[n - 1]
      BY <1>1, <2>5
    <3>2. found(n)
      BY <2>2, <2>3, <2>4, <2>5, <3>1
    <3> HIDE DEF found
    <3> QED  BY <2>1, <3>2
  <2>6. CASE newest(n)
    <3> DEFINE last == Len(places[n - 1])
    <3>1. /\ Len(places[n]) = last + 1 /\ places[n][last + 1] = n /\ last \in Nat
          /\ \A j \in 1..last : places[n][j] = places[n - 1][j]
      <4>1. places[n] = Append(places[n - 1], n)
        BY <1>1, <2>6
      <4> QED  BY <2>1, <4>1
    <3>2. \A j \in 1..(last + 1) : j \in 1..last \/ j = last + 1
      BY <3>1
    <3>3. \A j \in 1..Len(places[n]) : places[n][j] \in 1..n /\ newest(places[n][j])
      <4>1. n \in 1..n
        BY <2>1
      <4> HIDE DEF last
      <4> QED  BY <2>2, <2>4, <2>6, <3>1, <3>2, <4>1 DEF last
    <3>4. \A j, k \in 1..Len(places[n]) : j < k => places[n][j] < places[n][k]
      <4> TAKE j, k \in 1..Len(places[n])
      <4> HAVE j < k
      <4>1. j \in 1..last /\ (k \in 1..last \/ k = last + 1)
        BY <3>1
      <4>2. places[n][j] = places[n - 1][j] /\ places[n - 1][j] \in 1..(n - 1)
        BY <2>2, <3>1, <4>1
      <4>3. CASE k \in 1..last
        BY <2>2, <3>1, <4>1, <4>2, <4>3
      <4>4. CASE k = last + 1
        BY <2>4, <3>1, <4>2, <4>4
      <4> QED  BY <4>1, <4>3, <4>4
    <3>5. \A m \in 1..n : newest(m) => \E j \in 1..Len(places[n]) : places[n][j] = m
      <4> TAKE m \in 1..n
      <4> HAVE newest(m)
      <4>1. CASE m = n
        <5>1. last + 1 \in 1..Len(places[n])
          BY <3>1
        <5> QED  BY <3>1, <4>1, <5>1
      <4>2. CASE m # n
        <5>1. PICK j \in 1..last : places[n - 1][j] = m
          BY <2>2, <2>3, <4>2
        <5>2. j \in 1..Len(places[n]) /\ places[n][j] = m
          BY <3>1, <5>1
        <5> QED  BY <5>2
      <4> QED  BY <4>1, <4>2
    <3>6. found(n)
      BY <3>3, <3>4, <3>5
    <3> HIDE DEF found
    <3> QED  BY <2>1, <3>6
  <2> QED  BY <2>5, <2>6
<1>5. length \in good
  <2>1. length \in 0..length
    BY <1>2
  <2> HIDE DEF good
  <2> QED  BY <1>2, <1>3, <1>4, <2>1, Induction
<1>6. found(length)
  BY <1>5
<1>7. places[length] \in Seq(Nat)
  BY <1>2
<1> QED  BY <1>1, <1>6, <1>7 DEF length, newest

(* Where every artifact is the latest of its lesson, all are.                 *)
LEMMA AllAreLatest ==
  ASSUME NEW artifacts \in Seq(Artifact), NEW lessons,
         \A n \in 1..Len(artifacts) : Newest(artifacts, lessons, n)
  PROVE  Latest(artifacts, lessons) = [i \in 1..Len(artifacts) |-> i]
<1> DEFINE length == Len(artifacts)
           identity == [i \in 1..length |-> i]
<1>1. PICK places \in [0..length -> Seq(Nat)] :
           /\ Latest(artifacts, lessons) = places[length]
           /\ places[0] = <<>>
           /\ \A n \in 1..length :
                places[n] = IF Newest(artifacts, lessons, n) THEN Append(places[n - 1], n)
                            ELSE places[n - 1]
  BY LatestByPlaces
<1>2. length \in Nat
  OBVIOUS
<1> DEFINE good == {n \in 0..length : Len(places[n]) = n /\ \A j \in 1..n : places[n][j] = j}
<1>3. 0 \in good
  BY <1>1, <1>2
<1>4. ASSUME NEW n \in 1..length, n - 1 \in good PROVE n \in good
  <2>1. places[n] = Append(places[n - 1], n)
    BY <1>1
  <2>2. n \in 0..length /\ n - 1 \in 0..length /\ places[n - 1] \in Seq(Nat) /\ n \in Nat
    <3> HIDE DEF length
    <3> QED  BY <1>2
  <2>3. Len(places[n - 1]) = n - 1 /\ \A j \in 1..(n - 1) : places[n - 1][j] = j
    BY <1>4
  <2>4. Len(places[n]) = n /\ \A j \in 1..n : places[n][j] = j
    BY <2>1, <2>2, <2>3
  <2> QED  BY <2>2, <2>4
<1>5. length \in good
  <2>1. length \in 0..length
    BY <1>2
  <2> HIDE DEF good, length
  <2> QED  BY <1>2, <1>3, <1>4, <2>1, Induction
<1>6. /\ places[length] \in Seq(Nat) /\ Len(places[length]) = length
      /\ \A j \in 1..length : places[length][j] = j
  BY <1>2, <1>5
<1>7. places[length] = identity
  <2> HIDE DEF length
  <2> QED  BY <1>2, <1>6
<1> QED  BY <1>1, <1>7

(* A trimmed artifact is trimmed for good.                                    *)
LEMMA TrimmedTwice ==
  ASSUME NEW artifact \in Artifact
  PROVE  Trimmed(artifact) \in Artifact /\ Trimmed(Trimmed(artifact)) = Trimmed(artifact)
<1> DEFINE reports == artifact.reports
           length == Least(Len(reports), Places)
           cut == [i \in 1..length |-> [now |-> reports[i].clipped, clipped |-> reports[i].clipped]]
           once == Trimmed(artifact)
<1>1. reports \in Seq(Report)
  BY DEF Artifact
<1>2. length \in Nat /\ length <= Len(reports) /\ length <= Places /\ Places \in Nat
  BY <1>1 DEF Least, Places
<1>3. once = [artifact EXCEPT !.reports = cut]
  BY DEF Trimmed
<1> HIDE DEF reports, length, once
<1>4. \A i \in 1..length : /\ reports[i] \in Report /\ cut[i] \in Report
                           /\ cut[i] = [now |-> reports[i].clipped, clipped |-> reports[i].clipped]
  <2> TAKE i \in 1..length
  <2>1. i \in 1..Len(reports)
    BY <1>1, <1>2
  <2>2. reports[i] \in Report
    BY <1>1, <2>1
  <2>3. cut[i] = [now |-> reports[i].clipped, clipped |-> reports[i].clipped]
    OBVIOUS
  <2> HIDE DEF cut
  <2> QED  BY <2>2, <2>3 DEF Report
<1>5. cut \in Seq(Report) /\ Len(cut) = length
  <2>1. cut \in [1..length -> Report]
    BY <1>4
  <2> HIDE DEF cut
  <2> QED  BY <1>2, <2>1
<1>6. once = [reports |-> cut]
  <2> HIDE DEF cut
  <2> QED  BY <1>3 DEF Artifact
<1>7. once \in Artifact /\ once.reports = cut
  <2> HIDE DEF cut
  <2> QED  BY <1>5, <1>6 DEF Artifact
<1>8. Least(Len(cut), Places) = length
  BY <1>2, <1>5 DEF Least
<1>9. [i \in 1..length |-> [now |-> cut[i].clipped, clipped |-> cut[i].clipped]] = cut
  BY <1>4
<1> HIDE DEF cut
<1>10. Trimmed(once) =
         [once EXCEPT !.reports = [i \in 1..Least(Len(cut), Places) |->
                                     [now |-> cut[i].clipped, clipped |-> cut[i].clipped]]]
  BY <1>7 DEF Trimmed
<1>11. Trimmed(once) = [once EXCEPT !.reports = cut]
  BY <1>8, <1>9, <1>10
<1>12. Trimmed(once) = once
  BY <1>6, <1>11
<1> QED  BY <1>7, <1>12 DEF once

(* An artifact is filed under a lesson that is there.                         *)
LEMMA FiledUnderALesson ==
  ASSUME NEW artifact \in Artifact, NEW lessons, Filed(artifact, lessons) # None
  PROVE  Filed(artifact, lessons) \in IdsOf(lessons)
<1> DEFINE reports == artifact.reports
           known == {i \in DOMAIN reports : reports[i].now \in IdsOf(lessons)}
<1>1. Filed(artifact, lessons) = IF known = {} THEN None ELSE reports[Min(known)].now
  BY DEF Filed
<1>2. known # {}
  BY <1>1
<1>3. known \in SUBSET Nat
  BY DEF Artifact
<1>4. \E i \in known : \A j \in known : i <= j
  <2> HIDE DEF known
  <2> QED  BY <1>2, <1>3, LeastNatural
<1>5. Min(known) \in known
  <2> HIDE DEF known
  <2> QED  BY <1>4 DEF Min
<1> HIDE DEF reports
<1>6. reports[Min(known)].now \in IdsOf(lessons)
  BY <1>5
<1> QED  BY <1>1, <1>2, <1>6

(* There are not more of the latest artifacts than lessons.                   *)
LEMMA LatestAreFew ==
  ASSUME NEW artifacts \in Seq(Artifact), NEW lessons \in Seq(Lesson)
  PROVE  Len(Latest(artifacts, lessons)) <= Len(lessons)
<1> DEFINE latest == Latest(artifacts, lessons)
           filed(j) == Filed(artifacts[latest[j]], lessons)
           kept == Len(latest)
           length == Len(lessons)
<1>1. /\ latest \in Seq(Nat)
      /\ \A j \in 1..kept : /\ latest[j] \in 1..Len(artifacts)
                            /\ Newest(artifacts, lessons, latest[j])
      /\ \A j, k \in 1..kept : j < k => latest[j] < latest[k]
  BY LatestInOrder
<1>2. kept \in Nat /\ length \in Nat
  BY <1>1
<1> HIDE DEF latest
<1>3. \A j \in 1..kept : artifacts[latest[j]] \in Artifact /\ filed(j) \in IdsOf(lessons)
  <2> TAKE j \in 1..kept
  <2>1. artifacts[latest[j]] \in Artifact
    BY <1>1
  <2>2. filed(j) # None
    BY <1>1 DEF Newest
  <2> QED  BY <2>1, <2>2, FiledUnderALesson
<1>4. \A j, k \in 1..kept : j < k => filed(j) # filed(k)
  <2> TAKE j, k \in 1..kept
  <2> HAVE j < k
  <2>1. latest[k] \in (latest[j] + 1)..Len(artifacts)
    BY <1>1
  <2> QED  BY <1>1, <2>1 DEF Newest
<1> HIDE DEF filed, kept, length
<1> DEFINE lesson == [j \in 1..kept |-> CHOOSE i \in 1..length : lessons[i].id = filed(j)]
<1>5. \A j \in 1..kept : lesson[j] \in 1..length /\ lessons[lesson[j]].id = filed(j)
  <2> TAKE j \in 1..kept
  <2>1. \E i \in 1..length : lessons[i].id = filed(j)
    BY <1>3 DEF IdsOf, length
  <2> QED  BY <2>1
<1>6. \A n \in Nat : IsFiniteSet(1..n) /\ Cardinality(1..n) = n
  BY FS_Interval
<1>7. ASSUME length < kept PROVE FALSE
  <2>1. lesson \in [1..kept -> 1..length]
    BY <1>5
  <2> HIDE DEF lesson
  <2>2. PICK j, k \in 1..kept : j # k /\ lesson[j] = lesson[k]
    BY <1>2, <1>6, <1>7, <2>1, FS_PigeonHole
  <2>3. filed(j) = filed(k)
    BY <1>5, <2>2
  <2>4. j < k \/ k < j
    BY <1>2, <2>2
  <2> QED  BY <1>4, <2>3, <2>4
<1> QED  BY <1>2, <1>7 DEF kept, length, latest

(* The artifacts that are stored, one by one.                                 *)
LEMMA StoredArtifacts ==
  ASSUME NEW artifacts \in Seq(Artifact), NEW lessons
  PROVE  LET stored == CompactArtifacts(artifacts, lessons)
             latest == Latest(artifacts, lessons)
         IN  /\ stored \in Seq(Artifact) /\ Len(stored) = Len(latest)
             /\ \A j \in 1..Len(stored) :
                  /\ latest[j] \in 1..Len(artifacts) /\ artifacts[latest[j]] \in Artifact
                  /\ stored[j] = Trimmed(artifacts[latest[j]])
<1> DEFINE stored == CompactArtifacts(artifacts, lessons)
           latest == Latest(artifacts, lessons)
<1>1. latest \in Seq(Nat) /\ \A j \in 1..Len(latest) : latest[j] \in 1..Len(artifacts)
  BY LatestInOrder
<1>2. stored = [i \in DOMAIN latest |-> Trimmed(artifacts[latest[i]])]
  BY DEF CompactArtifacts
<1> HIDE DEF stored, latest
<1>3. Len(latest) \in Nat /\ DOMAIN latest = 1..Len(latest)
  BY <1>1
<1>4. \A j \in 1..Len(latest) : /\ artifacts[latest[j]] \in Artifact
                                /\ stored[j] = Trimmed(artifacts[latest[j]])
                                /\ stored[j] \in Artifact
  BY <1>1, <1>2, <1>3, TrimmedTwice
<1>5. stored \in [1..Len(latest) -> Artifact]
  BY <1>2, <1>3, <1>4
<1>6. stored \in Seq(Artifact) /\ Len(stored) = Len(latest)
  BY <1>3, <1>5
<1> QED  BY <1>1, <1>4, <1>6 DEF stored, latest

(* Artifacts that are filed alike once they are trimmed are read as stored.     *)
LEMMA ArtifactsReadBack ==
  ASSUME NEW artifacts \in Seq(Artifact), NEW lessons,
         \A n \in DOMAIN artifacts :
           Filed(Trimmed(artifacts[n]), lessons) = Filed(artifacts[n], lessons)
  PROVE  CompactArtifacts(CompactArtifacts(artifacts, lessons), lessons)
           = CompactArtifacts(artifacts, lessons)
<1> DEFINE stored == CompactArtifacts(artifacts, lessons)
           latest == Latest(artifacts, lessons)
           length == Len(stored)
<1>1. /\ stored \in Seq(Artifact) /\ length = Len(latest)
      /\ \A j \in 1..length :
           /\ latest[j] \in 1..Len(artifacts) /\ artifacts[latest[j]] \in Artifact
           /\ stored[j] = Trimmed(artifacts[latest[j]])
  BY StoredArtifacts
<1>2. /\ \A j \in 1..length : Newest(artifacts, lessons, latest[j])
      /\ \A j, k \in 1..length : j < k => latest[j] < latest[k]
  BY <1>1, LatestInOrder
<1> HIDE DEF stored, latest
<1>3. length \in Nat
  BY <1>1
<1>4. \A j \in 1..length : Filed(stored[j], lessons) = Filed(artifacts[latest[j]], lessons)
  BY <1>1
<1>5. \A j \in 1..length : Newest(stored, lessons, j)
  <2> TAKE j \in 1..length
  <2>1. Filed(stored[j], lessons) # None
    BY <1>2, <1>4 DEF Newest
  <2>2. \A k \in (j + 1)..length : Filed(stored[k], lessons) # Filed(stored[j], lessons)
    <3> TAKE k \in (j + 1)..length
    <3>1. k \in 1..length /\ j < k
      BY <1>3
    <3>2. latest[k] \in (latest[j] + 1)..Len(artifacts)
      BY <1>1, <1>2, <3>1
    <3> QED  BY <1>2, <1>4, <3>1, <3>2 DEF Newest
  <2> QED  BY <2>1, <2>2 DEF Newest
<1>6. Latest(stored, lessons) = [i \in 1..length |-> i]
  BY <1>1, <1>5, AllAreLatest
<1>7. CompactArtifacts(stored, lessons) = [i \in 1..length |-> Trimmed(stored[i])]
  BY <1>6 DEF CompactArtifacts
<1>8. \A i \in 1..length : Trimmed(stored[i]) = stored[i]
  BY <1>1, TrimmedTwice
<1>9. stored = [i \in 1..length |-> stored[i]]
  BY <1>1
<1> HIDE DEF length
<1>10. CompactArtifacts(stored, lessons) = stored
  BY <1>7, <1>8, <1>9
<1> QED  BY <1>10 DEF stored

LEMMA LatestAreKept ==
  ASSUME NEW s \in Sessions
  PROVE  LatestArtifactsAreKept(s)
<1> DEFINE artifacts == s.artifacts
           lessons == CompactModule(s.lessons)
           stored == CompactArtifacts(artifacts, lessons)
           latest == Latest(artifacts, lessons)
           filed(n) == Filed(artifacts[n], lessons)
<1>1. s.lessons \in Seq(Lesson) /\ artifacts \in Seq(Artifact)
  BY SessionAssumption
<1>2. /\ lessons \in Seq(Lesson) /\ Len(lessons) <= Places
      /\ \A i \in 1..Len(lessons) : lessons[i].id # None
  BY <1>1, StoredModule
<1>3. Save(s).lessons = lessons /\ Save(s).artifacts = stored
  BY DEF Save
<1> HIDE DEF artifacts, lessons
<1>4. /\ stored \in Seq(Artifact) /\ Len(stored) = Len(latest)
      /\ \A j \in 1..Len(stored) : stored[j] = Trimmed(artifacts[latest[j]])
  BY <1>1, StoredArtifacts
<1>5. Len(stored) <= Places
  <2>1. Len(latest) <= Len(lessons)
    BY <1>1, <1>2, LatestAreFew
  <2>2. Len(stored) \in Nat /\ Len(lessons) \in Nat /\ Places \in Nat
    BY <1>2, <1>4 DEF Places
  <2> HIDE DEF stored, latest
  <2> QED  BY <1>2, <1>4, <2>1, <2>2
<1> HIDE DEF stored, latest
<1>6. ASSUME NEW id \in IdsOf(lessons), {n \in DOMAIN artifacts : filed(n) = id} # {}
      PROVE  \E i \in DOMAIN stored :
               stored[i] = Trimmed(artifacts[Max({n \in DOMAIN artifacts : filed(n) = id})])
  <2> DEFINE mine == {n \in DOMAIN artifacts : filed(n) = id}
             last == Max(mine)
  <2>1. mine \in SUBSET (0..Len(artifacts)) /\ Len(artifacts) \in Nat
    BY <1>1
  <2>2. last \in mine /\ \A n \in mine : last >= n
    <3>1. mine # {}
      BY <1>6
    <3> HIDE DEF mine
    <3> QED  BY <2>1, <3>1, GreatestNatural
  <2>3. id # None
    BY <1>2 DEF IdsOf
  <2> HIDE DEF last
  <2>4. last \in 1..Len(artifacts) /\ filed(last) = id
    BY <1>1, <2>2
  <2>5. \A m \in (last + 1)..Len(artifacts) : filed(m) # id
    <3> TAKE m \in (last + 1)..Len(artifacts)
    <3>1. m \in DOMAIN artifacts /\ ~(last >= m)
      BY <1>1, <2>4
    <3> QED  BY <2>2, <3>1
  <2>6. Newest(artifacts, lessons, last)
    BY <2>3, <2>4, <2>5 DEF Newest
  <2>7. PICK j \in 1..Len(latest) : latest[j] = last
    BY <1>1, <2>4, <2>6, LatestInOrder DEF latest
  <2>8. j \in DOMAIN stored /\ stored[j] = Trimmed(artifacts[last])
    BY <1>4, <2>7
  <2> QED  BY <2>8 DEF last
<1> QED  BY <1>3, <1>5, <1>6, Zenon DEF LatestArtifactsAreKept, artifacts

(* What is saved is what is read.                                             *)
LEMMA SavedIsRead ==
  ASSUME NEW s \in Sessions
  PROVE  SavedReadsBack(s)
<1> DEFINE lessons == CompactModule(s.lessons)
           statuses == MergeStatuses(s.statuses, lessons)
           artifacts == CompactArtifacts(s.artifacts, lessons)
           saved == Save(s)
<1>1. /\ s.lessons \in Seq(Lesson) /\ s.statuses \in Seq(Status)
      /\ s.artifacts \in Seq(Artifact)
  BY SessionAssumption
<1>2. saved = [lessons |-> lessons, statuses |-> statuses, artifacts |-> artifacts]
  BY DEF Save
<1>3. MergeStatuses(statuses, lessons) = statuses
  BY <1>1, StatusesMergedTwice
<1> DEFINE alike == \A n \in DOMAIN s.artifacts :
             Filed(Trimmed(s.artifacts[n]), lessons) = Filed(s.artifacts[n], lessons)
<1> HIDE DEF lessons, statuses, artifacts, saved
<1>4. saved.lessons = lessons /\ saved.statuses = statuses /\ saved.artifacts = artifacts
  BY <1>2
<1>5. ASSUME alike PROVE Read(saved) = saved
  <2>1. CompactArtifacts(artifacts, lessons) = artifacts
    BY <1>1, <1>5, ArtifactsReadBack DEF artifacts
  <2>2. Read(saved) = [saved EXCEPT !.statuses = MergeStatuses(statuses, lessons),
                                    !.artifacts = CompactArtifacts(artifacts, lessons)]
    BY <1>4 DEF Read
  <2>3. Read(saved) = [saved EXCEPT !.statuses = statuses, !.artifacts = artifacts]
    BY <1>3, <2>1, <2>2
  <2> QED  BY <1>2, <2>3
<1>6. ASSUME alike, \A i \in DOMAIN s.lessons :
               /\ s.lessons[i].question.now = s.lessons[i].question.clipped
               /\ s.lessons[i].resources > 0
      PROVE  Save(Read(saved)) = saved
  <2>1. CompactModule(lessons) = lessons
    BY <1>1, <1>6, StoredModule DEF lessons
  <2>2. CompactArtifacts(artifacts, lessons) = artifacts
    BY <1>1, <1>6, ArtifactsReadBack DEF artifacts
  <2>3. Save(saved) = [lessons |-> lessons, statuses |-> MergeStatuses(statuses, lessons),
                       artifacts |-> CompactArtifacts(artifacts, lessons)]
    BY <1>4, <2>1 DEF Save
  <2>4. Save(saved) = saved
    BY <1>2, <1>3, <2>2, <2>3
  <2> QED  BY <1>5, <1>6, <2>4
<1> QED  BY <1>4, <1>5, <1>6, Zenon DEF SavedReadsBack, saved

(* What is saved of a session is what is read of it, and tells of its lessons    *)
(* what is so (save_learning_session, LearningSessionRecord::from).           *)
THEOREM SavedSessionsStand == Spec => []SavedSessionStands
<1>1. Init => SavedSessionStands
  BY DEF Init, SavedSessionStands, Of
<1>2. ASSUME SavedSessionStands, [Next]_vars PROVE SavedSessionStands'
  <2>1. CASE SaveSession
    <3>1. PICK s \in Sessions : asked' = [family |-> "session", session |-> s]
      BY <2>1 DEF SaveSession, Ask
    <3>2. asked'.session = s
      BY <3>1
    <3> QED  BY <3>2, SavedIsRead, StatusesAreTold, AnswersAreShown, LatestAreKept
             DEF SavedSessionStands
  <2>2. CASE UNCHANGED vars
    BY <1>2, <2>2 DEF SavedSessionStands, Of, vars
  <2>3. CASE ~Of("session")'
    BY <2>3 DEF SavedSessionStands
  <2> QED  BY <1>2, <2>1, <2>2, <2>3, AskedBy
<1> QED  BY <1>1, <1>2, PTL DEF Spec

-----------------------------------------------------------------------------
(* Answers *)

(* How many of a set of numbers there are up to a number.                      *)
UpTo(T, k) == {t \in T : t <= k}
CountTo(T, k) == Cardinality(UpTo(T, k))

LEMMA CountedUp ==
  ASSUME NEW T, \A t \in T : t \in Nat /\ t > 0
  PROVE  /\ CountTo(T, 0) = 0
         /\ \A k \in Nat : CountTo(T, k) \in Nat
         /\ \A k \in Nat : k > 0 =>
              CountTo(T, k) = IF k \in T THEN CountTo(T, k - 1) + 1 ELSE CountTo(T, k - 1)
<1>1. \A k \in Nat : IsFiniteSet(UpTo(T, k)) /\ CountTo(T, k) \in Nat
  <2> TAKE k \in Nat
  <2>1. UpTo(T, k) \subseteq 1..k
    BY DEF UpTo
  <2>2. IsFiniteSet(1..k)
    BY FS_Interval
  <2> QED  BY <2>1, <2>2, FS_Subset, FS_CardinalityType DEF CountTo
<1>2. ASSUME NEW k \in Nat, k > 0
      PROVE  CountTo(T, k) = IF k \in T THEN CountTo(T, k - 1) + 1 ELSE CountTo(T, k - 1)
  <2>1. k - 1 \in Nat
    BY <1>2
  <2>2. CASE k \in T
    <3>1. \A t \in T : t <= k <=> t <= k - 1 \/ t = k
      BY <1>2
    <3>2. k <= k /\ ~(k <= k - 1)
      BY <1>2
    <3>3. UpTo(T, k) = UpTo(T, k - 1) \cup {k} /\ k \notin UpTo(T, k - 1)
      BY <2>2, <3>1, <3>2, Zenon DEF UpTo
    <3>4. IsFiniteSet(UpTo(T, k - 1))
      BY <1>1, <2>1
    <3>5. Cardinality(UpTo(T, k - 1) \cup {k}) = Cardinality(UpTo(T, k - 1)) + 1
      BY <3>3, <3>4, FS_AddElement
    <3> QED  BY <2>2, <3>3, <3>5 DEF CountTo
  <2>3. CASE k \notin T
    <3>1. \A t \in T : t <= k <=> t <= k - 1
      BY <1>2, <2>3
    <3>2. UpTo(T, k) = UpTo(T, k - 1)
      BY <3>1 DEF UpTo
    <3> QED  BY <2>3, <3>2 DEF CountTo
  <2> QED  BY <2>2, <2>3
<1>3. CountTo(T, 0) = 0
  <2>1. UpTo(T, 0) = {}
    BY DEF UpTo
  <2> QED  BY <2>1, FS_EmptySet DEF CountTo
<1> QED  BY <1>1, <1>2, <1>3

(* The states of the scan, and one character of it.                           *)
ScanState == [inString : BOOLEAN, escaped : BOOLEAN, depth : Nat]

LEMMA ScanCases ==
  ASSUME NEW state \in ScanState, NEW char
  PROVE  /\ Scan(state, char) \in ScanState
         /\ Scan(state, char).inString <=>
              IF state.inString THEN state.escaped \/ char # "quote" ELSE char = "quote"
         /\ Scan(state, char).escaped <=>
              IF state.inString THEN ~state.escaped /\ char = "backslash" ELSE state.escaped
         /\ Scan(state, char).depth =
              IF ~state.inString /\ char = "{" THEN state.depth + 1
              ELSE IF ~state.inString /\ char = "}" /\ state.depth > 0 THEN state.depth - 1
              ELSE state.depth
<1>1. state.inString \in BOOLEAN /\ state.escaped \in BOOLEAN /\ state.depth \in Nat
  BY DEF ScanState
<1>2. CASE state.inString /\ state.escaped
  <2>1. Scan(state, char) = [state EXCEPT !.escaped = FALSE]
    BY <1>2 DEF Scan
  <2> QED  BY <1>1, <1>2, <2>1 DEF ScanState
<1>3. CASE state.inString /\ ~state.escaped
  <2>1. Scan(state, char) =
          [state EXCEPT !.escaped = (char = "backslash"), !.inString = (char # "quote")]
    BY <1>3 DEF Scan
  <2> QED  BY <1>1, <1>3, <2>1 DEF ScanState
<1>4. CASE ~state.inString /\ char = "quote"
  <2>1. Scan(state, char) = [state EXCEPT !.inString = TRUE]
    BY <1>4 DEF Scan
  <2> QED  BY <1>1, <1>4, <2>1 DEF ScanState
<1>5. CASE ~state.inString /\ char = "{"
  <2>1. Scan(state, char) = [state EXCEPT !.depth = @ + 1]
    BY <1>5 DEF Scan
  <2>2. Scan(state, char) =
          [inString |-> state.inString, escaped |-> state.escaped, depth |-> state.depth + 1]
    BY <1>1, <2>1 DEF ScanState
  <2>3. Scan(state, char).inString = state.inString /\ Scan(state, char).escaped = state.escaped
        /\ Scan(state, char).depth = state.depth + 1
    BY <2>2
  <2>4. Scan(state, char) \in ScanState
    BY <1>1, <2>2 DEF ScanState
  <2>5. char # "quote" /\ char # "}"
    BY <1>5
  <2> QED  BY <1>1, <1>5, <2>3, <2>4, <2>5
<1>6. CASE ~state.inString /\ char = "}"
  <2>1. Scan(state, char) = [state EXCEPT !.depth = IF @ = 0 THEN 0 ELSE @ - 1]
    BY <1>6 DEF Scan
  <2>2. Scan(state, char) =
          [inString |-> state.inString, escaped |-> state.escaped,
           depth |-> IF state.depth = 0 THEN 0 ELSE state.depth - 1]
    BY <1>1, <2>1 DEF ScanState
  <2>3. Scan(state, char).inString = state.inString /\ Scan(state, char).escaped = state.escaped
        /\ Scan(state, char).depth = IF state.depth = 0 THEN 0 ELSE state.depth - 1
    BY <2>2
  <2>4. Scan(state, char) \in ScanState
    BY <1>1, <2>2 DEF ScanState
  <2>5. char # "quote" /\ char # "{"
    BY <1>6
  <2>6. state.depth > 0 <=> state.depth # 0
    BY <1>1
  <2> QED  BY <1>1, <1>6, <2>3, <2>4, <2>5, <2>6
<1>7. CASE ~state.inString /\ char \notin {"quote", "{", "}"}
  <2>1. Scan(state, char) = state
    BY <1>7 DEF Scan
  <2> QED  BY <1>1, <1>7, <2>1 DEF ScanState
<1> QED  BY <1>1, <1>2, <1>3, <1>4, <1>5, <1>6, <1>7

Scans(at, text) ==
  /\ at[0] = [inString |-> FALSE, escaped |-> FALSE, depth |-> 0]
  /\ \A i \in 1..Len(text) : at[i] = Scan(at[i - 1], text[i])

(* Before its end an object keeps the scan above zero, and at its end it does     *)
(* not.                                                                      *)
LEMMA ObjectIsScanned ==
  ASSUME NEW object \in Text, IsObject(object),
         NEW at, Scans(at, object)
  PROVE  /\ Len(object) \in Nat \ {0} /\ object[1] = "{" /\ object[Len(object)] = "}"
         /\ ~at[Len(object) - 1].inString /\ at[Len(object)].depth = 0
         /\ \A i \in 1..(Len(object) - 1) : at[i].depth > 0
<1> DEFINE length == Len(object)
<1>1. PICK escapes \in SUBSET {i \in DOMAIN object : object[i] = "backslash"} :
        /\ \A i \in DOMAIN object : object[i] = "backslash" =>
             Inside(object, escapes, i) /\ (i \in escapes <=> i - 1 \notin escapes)
        /\ 1 \in Braces(object, escapes, "{")
        /\ Len(object) \in Braces(object, escapes, "}")
        /\ \A i \in DOMAIN object :
             /\ Nesting(object, escapes, i) >= 0
             /\ Nesting(object, escapes, i) = 0 <=> i = Len(object)
  BY DEF IsObject
<1>2. length \in Nat /\ DOMAIN object = 1..length
  BY DEF Text
<1>3. length > 0
  <2>1. 1 \in DOMAIN object
    BY <1>1 DEF Braces
  <2> QED  BY <1>2, <2>1
<1> HIDE DEF length
<1>4. /\ length \in 0..length /\ length - 1 \in 0..length /\ (length - 1) + 1 = length
      /\ length \in Nat \ {0}
  BY <1>2, <1>3
<1> DEFINE inside(i) == Inside(object, escapes, i)
           nesting(i) == Nesting(object, escapes, i)
           quote(i) == object[i] = "quote" /\ i - 1 \notin escapes
<1>5. ASSUME NEW i \in 1..length
      PROVE  /\ inside(i + 1) <=> (inside(i) /\ ~quote(i)) \/ (~inside(i) /\ quote(i))
             /\ ~inside(1)
  <2> DEFINE T == Quotes(object, escapes)
  <2>1. \A t \in T : t \in Nat /\ t > 0
    BY <1>2 DEF Quotes
  <2>2. i \in T <=> quote(i)
    BY <1>2 DEF Quotes
  <2>3. i \in Nat /\ i > 0 /\ i - 1 \in Nat
    BY <1>2
  <2>4. ASSUME NEW k \in Nat
        PROVE  Inside(object, escapes, k + 1) <=> CountTo(T, k) % 2 = 1
    <3>1. \A t \in T : t < k + 1 <=> t <= k
      BY <2>1
    <3>2. {q \in T : q < k + 1} = UpTo(T, k)
      BY <3>1 DEF UpTo
    <3> HIDE DEF T
    <3> QED  BY <3>2 DEF Inside, CountTo, T
  <2>5. /\ inside(i + 1) <=> CountTo(T, i) % 2 = 1
        /\ inside(i) <=> CountTo(T, i - 1) % 2 = 1
        /\ inside(1) <=> CountTo(T, 0) % 2 = 1
    <3>1. (i - 1) + 1 = i /\ 0 + 1 = 1 /\ 0 \in Nat
      BY <2>3
    <3> HIDE DEF T
    <3> QED  BY <2>3, <2>4, <3>1
  <2> HIDE DEF T, quote, inside
  <2>6. /\ CountTo(T, 0) = 0 /\ CountTo(T, i) \in Nat /\ CountTo(T, i - 1) \in Nat
        /\ CountTo(T, i) = IF i \in T THEN CountTo(T, i - 1) + 1 ELSE CountTo(T, i - 1)
    BY <2>1, <2>3, CountedUp
  <2> QED  BY <2>2, <2>5, <2>6
<1>6. ASSUME NEW i \in 1..length
      PROVE  /\ nesting(i) = IF ~inside(i) /\ object[i] = "{" THEN nesting(i - 1) + 1
                             ELSE IF ~inside(i) /\ object[i] = "}" THEN nesting(i - 1) - 1
                             ELSE nesting(i - 1)
             /\ nesting(0) = 0
  <2> DEFINE open == Braces(object, escapes, "{")
             close == Braces(object, escapes, "}")
  <2>1. /\ \A t \in open : t \in Nat /\ t > 0
        /\ \A t \in close : t \in Nat /\ t > 0
    <3>1. open \subseteq 1..length /\ close \subseteq 1..length
      BY <1>2 DEF Braces
    <3> HIDE DEF open, close
    <3> QED  BY <1>2, <3>1
  <2>2. /\ i \in open <=> object[i] = "{" /\ ~inside(i)
        /\ i \in close <=> object[i] = "}" /\ ~inside(i)
    BY <1>2 DEF Braces
  <2>3. i \in Nat /\ i > 0 /\ i - 1 \in Nat
    BY <1>2
  <2>4. \A k : nesting(k) = CountTo(open, k) - CountTo(close, k)
    BY DEF Nesting, CountTo, UpTo
  <2> HIDE DEF open, close, nesting, inside
  <2>5. /\ CountTo(open, 0) = 0 /\ CountTo(open, i) \in Nat /\ CountTo(open, i - 1) \in Nat
        /\ CountTo(open, i) = IF i \in open THEN CountTo(open, i - 1) + 1
                              ELSE CountTo(open, i - 1)
    BY <2>1, <2>3, CountedUp
  <2>6. /\ CountTo(close, 0) = 0 /\ CountTo(close, i) \in Nat /\ CountTo(close, i - 1) \in Nat
        /\ CountTo(close, i) = IF i \in close THEN CountTo(close, i - 1) + 1
                               ELSE CountTo(close, i - 1)
    BY <2>1, <2>3, CountedUp
  <2>7. /\ nesting(i) = CountTo(open, i) - CountTo(close, i)
        /\ nesting(i - 1) = CountTo(open, i - 1) - CountTo(close, i - 1)
        /\ nesting(0) = CountTo(open, 0) - CountTo(close, 0)
    BY <2>4
  <2>8. object[i] = "{" => object[i] # "}"
    OBVIOUS
  <2>9. nesting(0) = 0
    BY <2>5, <2>6, <2>7
  <2>10. CASE i \in open
    <3>1. i \notin close /\ object[i] = "{" /\ ~inside(i)
      BY <2>2, <2>8, <2>10
    <3>2. CountTo(open, i) = CountTo(open, i - 1) + 1 /\ CountTo(close, i) = CountTo(close, i - 1)
      BY <2>5, <2>6, <2>10, <3>1
    <3>3. nesting(i) = nesting(i - 1) + 1
      BY <2>5, <2>6, <2>7, <3>2
    <3> QED  BY <2>9, <3>1, <3>3, Zenon
  <2>11. CASE i \in close
    <3>1. i \notin open /\ object[i] = "}" /\ object[i] # "{" /\ ~inside(i)
      BY <2>2, <2>8, <2>11
    <3>2. CountTo(open, i) = CountTo(open, i - 1) /\ CountTo(close, i) = CountTo(close, i - 1) + 1
      BY <2>5, <2>6, <2>11, <3>1
    <3>3. nesting(i) = nesting(i - 1) - 1
      BY <2>5, <2>6, <2>7, <3>2
    <3> QED  BY <2>9, <3>1, <3>3, Zenon
  <2>12. CASE i \notin open /\ i \notin close
    <3>1. nesting(i) = nesting(i - 1)
      BY <2>5, <2>6, <2>7, <2>12
    <3> QED  BY <2>2, <2>12, <2>9, <3>1, Zenon
  <2> QED  BY <2>10, <2>11, <2>12
<1>7. /\ \A i \in 1..length : object[i] = "backslash" =>
           inside(i) /\ (i \in escapes <=> i - 1 \notin escapes)
      /\ \A i \in escapes : i \in 1..length /\ object[i] = "backslash"
      /\ \A i \in 1..length : nesting(i) >= 0 /\ (nesting(i) = 0 <=> i = length)
  BY <1>1, <1>2 DEF length
<1>8. /\ 1 \in 1..length /\ object[1] = "{" /\ length \in 1..length /\ object[length] = "}"
      /\ ~inside(length)
  BY <1>1, <1>2 DEF Braces, length
<1> HIDE DEF inside, nesting
<1> DEFINE follows(i) == /\ at[i] \in ScanState
                         /\ at[i].inString <=> inside(i + 1)
                         /\ at[i].escaped <=> i \in escapes
                         /\ at[i].depth = nesting(i)
           good == {i \in 0..length : follows(i)}
<1>9. 0 \in good
  <2>1. ~inside(1) /\ nesting(0) = 0 /\ 0 \notin escapes
    BY <1>5, <1>6, <1>7, <1>8
  <2>2. 0 \in 0..length /\ 0 + 1 = 1
    BY <1>2
  <2>3. at[0] = [inString |-> FALSE, escaped |-> FALSE, depth |-> 0]
    BY DEF Scans
  <2>4. /\ at[0] \in ScanState /\ at[0].inString = FALSE /\ at[0].escaped = FALSE
        /\ at[0].depth = 0
    BY <2>3 DEF ScanState
  <2>5. follows(0)
    BY <2>1, <2>2, <2>4
  <2> QED  BY <2>2, <2>5
<1>10. ASSUME NEW i \in 1..length, i - 1 \in good PROVE i \in good
  <2>1. /\ at[i - 1] \in ScanState
        /\ at[i - 1].inString <=> inside(i)
        /\ at[i - 1].escaped <=> i - 1 \in escapes
        /\ at[i - 1].depth = nesting(i - 1)
    <3>1. follows(i - 1) /\ (i - 1) + 1 = i
      BY <1>10
    <3> QED  BY <3>1
  <2>2. at[i] = Scan(at[i - 1], object[i])
    BY DEF length, Scans
  <2> DEFINE before == at[i - 1]
             char == object[i]
  <2>3. /\ at[i] \in ScanState
        /\ at[i].inString <=>
             IF before.inString THEN before.escaped \/ char # "quote" ELSE char = "quote"
        /\ at[i].escaped <=>
             IF before.inString THEN ~before.escaped /\ char = "backslash" ELSE before.escaped
        /\ at[i].depth =
             IF ~before.inString /\ char = "{" THEN before.depth + 1
             ELSE IF ~before.inString /\ char = "}" /\ before.depth > 0 THEN before.depth - 1
             ELSE before.depth
    <3>1. before \in ScanState /\ at[i] = Scan(before, char)
      BY <2>1, <2>2
    <3> HIDE DEF before, char
    <3>2. /\ Scan(before, char) \in ScanState
          /\ Scan(before, char).inString <=>
               IF before.inString THEN before.escaped \/ char # "quote" ELSE char = "quote"
          /\ Scan(before, char).escaped <=>
               IF before.inString THEN ~before.escaped /\ char = "backslash"
               ELSE before.escaped
          /\ Scan(before, char).depth =
               IF ~before.inString /\ char = "{" THEN before.depth + 1
               ELSE IF ~before.inString /\ char = "}" /\ before.depth > 0
                    THEN before.depth - 1 ELSE before.depth
      BY <3>1, ScanCases
    <3> QED  BY <3>1, <3>2
  <2> HIDE DEF before, char
  <2>4. ~inside(i) => i - 1 \notin escapes
    <3> SUFFICES ASSUME i - 1 \in escapes PROVE inside(i)
      OBVIOUS
    <3>1. i - 1 \in 1..length /\ object[i - 1] = "backslash" /\ (i - 1) + 1 = i
      BY <1>7
    <3>2. inside(i - 1) /\ ~quote(i - 1)
      BY <1>7, <3>1
    <3> QED  BY <1>5, <3>1, <3>2
  <2>5. i \in escapes <=> inside(i) /\ i - 1 \notin escapes /\ char = "backslash"
    BY <1>7 DEF char
  <2>6. quote(i) <=> char = "quote" /\ i - 1 \notin escapes
    BY DEF char
  <2> HIDE DEF quote
  <2>7. at[i].inString <=> inside(i + 1)
    BY <1>5, <2>1, <2>3, <2>4, <2>6 DEF before
  <2>8. at[i].escaped <=> i \in escapes
    BY <2>1, <2>3, <2>4, <2>5 DEF before
  <2>9. at[i].depth = nesting(i)
    <3>1. nesting(i) = IF ~inside(i) /\ char = "{" THEN nesting(i - 1) + 1
                       ELSE IF ~inside(i) /\ char = "}" THEN nesting(i - 1) - 1
                       ELSE nesting(i - 1)
      BY <1>6 DEF char
    <3>2. nesting(i) >= 0 /\ nesting(i - 1) \in Nat
      BY <1>7, <2>1 DEF ScanState
    <3>3. /\ before.inString <=> inside(i)
          /\ before.depth = nesting(i - 1)
      BY <2>1 DEF before
    <3> HIDE DEF char
    <3>4. CASE inside(i)
      BY <2>3, <3>1, <3>3, <3>4
    <3>5. CASE ~inside(i) /\ char = "{"
      BY <2>3, <3>1, <3>3, <3>5
    <3>6. CASE ~inside(i) /\ char = "}"
      <4>1. nesting(i) = nesting(i - 1) - 1
        BY <3>1, <3>6
      <4>2. before.depth > 0
        BY <3>2, <3>3, <4>1
      <4> QED  BY <2>3, <3>3, <3>6, <4>1, <4>2
    <3>7. CASE ~inside(i) /\ char \notin {"{", "}"}
      BY <2>3, <3>1, <3>3, <3>7
    <3> QED  BY <3>4, <3>5, <3>6, <3>7
  <2>10. i \in 0..length
    BY <1>2
  <2> QED  BY <2>3, <2>7, <2>8, <2>9, <2>10
<1>11. \A i \in 0..length : follows(i)
  <2>1. \A i \in 0..length : i \in good
    <3> HIDE DEF good
    <3> QED  BY <1>2, <1>9, <1>10, Induction
  <2> QED  BY <2>1
<1>12. ~at[length - 1].inString
  BY <1>8, <1>11, <1>4
<1>13. at[length].depth = 0
  <2>1. at[length].depth = nesting(length)
    BY <1>11, <1>4
  <2> QED  BY <1>7, <1>8, <2>1
<1>14. \A i \in 1..(length - 1) : at[i].depth > 0
  <2> TAKE i \in 1..(length - 1)
  <2>1. i \in 0..length /\ i \in 1..length /\ i # length
    BY <1>2
  <2>2. nesting(i) \in Nat /\ nesting(i) # 0 /\ at[i].depth = nesting(i)
    BY <1>7, <1>11, <2>1 DEF ScanState
  <2> QED  BY <2>2
<1> QED  BY <1>8, <1>12, <1>13, <1>14, <1>4 DEF length

(* The least number of a set.                                                *)
LEMMA LeastIsMin ==
  ASSUME NEW T \in SUBSET Nat, NEW x \in T, \A y \in T : x <= y
  PROVE  Min(T) = x
<1> DEFINE least(z) == z \in T /\ \A y \in T : z <= y
<1>1. least(x)
  OBVIOUS
<1>2. \A z : least(z) => z = x
  OBVIOUS
<1>3. Min(T) = CHOOSE z \in T : \A y \in T : z <= y
  BY DEF Min
<1> QED  BY <1>1, <1>2, <1>3

(* The scan of a text from any of its places.                                *)
LEMMA ScanFrom ==
  ASSUME NEW text \in Text, NEW k \in 0..Len(text)
  PROVE  \E g : g = [i \in k..Len(text) |->
                       IF i = k THEN [inString |-> FALSE, escaped |-> FALSE, depth |-> 0]
                       ELSE Scan(g[i - 1], text[i])]
<1> DEFINE length == Len(text)
           first == [inString |-> FALSE, escaped |-> FALSE, depth |-> 0]
           n == length - k
           step == [x \in (1..n) \X ScanState |-> Scan(x[2], text[k + x[1]])]
<1>1. length \in Nat /\ k \in Nat /\ k <= length
  BY DEF Text
<1> HIDE DEF length
<1>2. n \in Nat
  BY <1>1
<1>3. first \in ScanState
  BY DEF ScanState
<1> HIDE DEF n, first
<1>4. \A i \in 1..n, x \in ScanState : step[<<i, x>>] = Scan(x, text[k + i])
  OBVIOUS
<1> HIDE DEF step
<1>5. \A i \in 1..n, x \in ScanState : step[<<i, x>>] \in ScanState
  <2> TAKE i \in 1..n, x \in ScanState
  <2>1. step[<<i, x>>] = Scan(x, text[k + i])
    BY <1>4
  <2>2. Scan(x, text[k + i]) \in ScanState
    BY ScanCases
  <2> QED  BY <2>1, <2>2
<1>6. PICK h \in [0..n -> ScanState] : Follows(h, first, n, step)
  BY <1>2, <1>3, <1>5, PrefixFunction, Zenon
<1>7. h[0] = first /\ \A i \in 1..n : h[i] = Scan(h[i - 1], text[k + i])
  <2>1. \A i \in 1..n : h[i - 1] \in ScanState
    BY <1>2
  <2> QED  BY <1>4, <1>6, <2>1 DEF Follows
<1> DEFINE g == [i \in k..length |-> h[i - k]]
           w == [i \in k..length |-> IF i = k THEN first ELSE Scan(g[i - 1], text[i])]
<1>8. \A i \in k..length : g[i] = w[i]
  <2> TAKE i \in k..length
  <2>1. g[i] = h[i - k] /\ w[i] = IF i = k THEN first ELSE Scan(g[i - 1], text[i])
    OBVIOUS
  <2>2. CASE i = k
    <3>1. i - k = 0
      BY <1>1, <2>2
    <3> QED  BY <1>7, <2>1, <2>2, <3>1
  <2>3. CASE i # k
    <3>1. i - k \in 1..n /\ i - 1 \in k..length
      BY <1>1, <2>3 DEF n
    <3>2. k + (i - k) = i /\ (i - 1) - k = (i - k) - 1
      BY <1>1
    <3>3. g[i - 1] = h[(i - k) - 1]
      BY <3>1, <3>2
    <3>4. h[i - k] = Scan(h[(i - k) - 1], text[i])
      BY <1>7, <3>1, <3>2
    <3> HIDE DEF g, w
    <3> QED  BY <2>1, <2>3, <3>3, <3>4
  <2> QED  BY <2>2, <2>3
<1>9. g = w
  <2>1. g = [i \in k..length |-> g[i]] /\ w = [i \in k..length |-> w[i]]
    OBVIOUS
  <2> HIDE DEF g, w
  <2> QED  BY <1>8, <2>1
<1>10. g = [i \in k..length |-> IF i = k THEN first ELSE Scan(g[i - 1], text[i])]
  <2> HIDE DEF g
  <2> QED  BY <1>9
<1> HIDE DEF g
<1> QED  BY <1>10 DEF length, first

(* The text from its first brace to the end of the object that begins there.    *)
LEMMA TextIsScanned ==
  ASSUME NEW text \in Text, NEW start \in 1..Len(text)
  PROVE  \E at :
           LET opening == {i \in DOMAIN text : text[i] = "{"}
               ends == {i \in start..Len(text) :
                          text[i] = "}" /\ ~at[i - 1].inString /\ at[i].depth = 0}
           IN  /\ at[start - 1] = [inString |-> FALSE, escaped |-> FALSE, depth |-> 0]
               /\ \A i \in start..Len(text) : at[i] = Scan(at[i - 1], text[i])
               /\ start = Min(opening) =>
                    Extract(text) = IF opening = {} \/ ends = {} THEN text
                                    ELSE SubSeq(text, start, Min(ends))
<1> DEFINE first == [inString |-> FALSE, escaped |-> FALSE, depth |-> 0]
           is(g, from) == g = [i \in (from - 1)..Len(text) |->
                                 IF i = from - 1 THEN first ELSE Scan(g[i - 1], text[i])]
           at(from) == CHOOSE f : is(f, from)
           ends(from) == {i \in from..Len(text) :
                            text[i] = "}" /\ ~at(from)[i - 1].inString /\ at(from)[i].depth = 0}
           opening == {i \in DOMAIN text : text[i] = "{"}
<1>1. Extract(text) = IF opening = {} \/ ends(Min(opening)) = {} THEN text
                      ELSE SubSeq(text, Min(opening), Min(ends(Min(opening))))
  BY Zenon DEF Extract
<1>2. Len(text) \in Nat
  BY DEF Text
<1>3. start - 1 \in 0..Len(text)
  BY <1>2
<1>4. \E g : is(g, start)
  BY <1>3, ScanFrom, Zenon
<1>5. is(at(start), start)
  <2> HIDE DEF is
  <2> QED  BY <1>4, Zenon
<1> DEFINE f == at(start)
<1>6. f = [i \in (start - 1)..Len(text) |->
             IF i = start - 1 THEN first ELSE Scan(f[i - 1], text[i])]
  <2> HIDE DEF at
  <2> QED  BY <1>5
<1> HIDE DEF f, first
<1>7. f[start - 1] = first
  <2>1. start - 1 \in (start - 1)..Len(text)
    BY <1>2
  <2> QED  BY <1>6, <2>1
<1>8. \A i \in start..Len(text) : f[i] = Scan(f[i - 1], text[i])
  <2> TAKE i \in start..Len(text)
  <2>1. i \in (start - 1)..Len(text) /\ i # start - 1
    BY <1>2
  <2> QED  BY <1>6, <2>1
<1>9. start = Min(opening) =>
        Extract(text) = IF opening = {} \/ ends(start) = {} THEN text
                        ELSE SubSeq(text, start, Min(ends(start)))
  <2> HIDE DEF ends, opening
  <2> QED  BY <1>1
<1>10. ends(start) = {i \in start..Len(text) :
                        text[i] = "}" /\ ~f[i - 1].inString /\ f[i].depth = 0}
  BY Zenon DEF f
<1> DEFINE after == {i \in start..Len(text) :
                       text[i] = "}" /\ ~f[i - 1].inString /\ f[i].depth = 0}
<1>11. start = Min(opening) =>
         Extract(text) = IF opening = {} \/ after = {} THEN text
                         ELSE SubSeq(text, start, Min(after))
  <2> HIDE DEF ends, opening, after
  <2> QED  BY <1>9, <1>10 DEF after
<1> QED  BY <1>7, <1>8, <1>11, Zenon DEF first

Braceless(text) == \A i \in DOMAIN text : text[i] # "{"

(* Whatever stands around it, an object is read whole and alone.               *)
LEMMA ObjectIsExtracted ==
  ASSUME NEW before \in Text, NEW object \in Text, NEW after \in Text
  PROVE  Braceless(before) /\ IsObject(object) => Extract(before \o object \o after) = object
<1>1. SUFFICES ASSUME Braceless(before), IsObject(object)
               PROVE  Extract(before \o object \o after) = object
  OBVIOUS
<1> DEFINE text == before \o object \o after
           m == Len(before)
           l == Len(object)
           start == m + 1
           opening == {i \in DOMAIN text : text[i] = "{"}
<1>2. m \in Nat /\ l \in Nat /\ Len(after) \in Nat
  BY DEF Text
<1>3. text \in Text /\ Len(text) = m + l + Len(after) /\ DOMAIN text = 1..Len(text)
  BY DEF Text
<1>4. /\ \A i \in 1..m : text[i] = before[i]
      /\ \A i \in 1..l : text[m + i] = object[i]
  BY DEF Text
<1>5. DOMAIN before = 1..m /\ DOMAIN object = 1..l
  BY DEF Text
<1>6. 1 \in 1..l /\ object[1] = "{" /\ object[l] = "}"
  <2>1. PICK escapes \in SUBSET {i \in DOMAIN object : object[i] = "backslash"} :
          1 \in Braces(object, escapes, "{") /\ l \in Braces(object, escapes, "}")
    BY <1>1 DEF IsObject
  <2> QED  BY <1>5, <2>1 DEF Braces
<1> HIDE DEF text, m, l
<1>7. 1 \in 1..l
  BY <1>6
<1>8. l > 0 /\ start \in 1..Len(text) /\ m + l \in start..Len(text) /\ l \in 1..l
      /\ l - 1 \in 0..l /\ l \in 0..l /\ 0 \in 0..l /\ start - 1 = m /\ (m + l) - 1 = m + (l - 1)
  BY <1>2, <1>3, <1>7
<1>9. /\ \A i \in 1..Len(text) : i < start => i \in 1..m
      /\ \A i \in start..Len(text) : i < m + l =>
           i - m \in 1..(l - 1) /\ i - m \in 0..l /\ m + (i - m) = i
      /\ \A i \in 1..l : i \in 0..l /\ i - 1 \in 0..l /\ m + i \in start..Len(text)
                         /\ m + (i - 1) = (m + i) - 1
  BY <1>2, <1>3
<1>10. start..Len(text) \subseteq Nat /\ 1..Len(text) \subseteq Nat /\ start \in Nat
      /\ m + l \in Nat /\ \A i, j \in Nat : i <= j \/ j < i
  BY <1>2
<1>11. text[start] = "{" /\ text[m + l] = "}"
  BY <1>4, <1>6, <1>8, Zenon
<1> HIDE DEF start
<1>12. /\ start \in opening /\ opening \in SUBSET Nat
      /\ \A i \in opening : i \in 1..Len(text) /\ text[i] = "{"
  BY <1>3, <1>8, <1>10, <1>11, Zenon
<1>13. \A i \in opening : start <= i
  <2> SUFFICES ASSUME NEW i \in opening, i < start PROVE FALSE
    BY <1>12, <1>10, Zenon
  <2>1. i \in 1..m /\ text[i] = "{"
    BY <1>12, <1>9, Zenon
  <2> QED  BY <1>1, <1>4, <1>5, <2>1, Zenon DEF Braceless
<1>14. start = Min(opening) /\ opening # {}
  <2> HIDE DEF start, opening
  <2> QED  BY <1>12, <1>13, LeastIsMin
<1>15. PICK at :
         LET ends == {i \in start..Len(text) :
                        text[i] = "}" /\ ~at[i - 1].inString /\ at[i].depth = 0}
         IN  /\ at[start - 1] = [inString |-> FALSE, escaped |-> FALSE, depth |-> 0]
             /\ \A i \in start..Len(text) : at[i] = Scan(at[i - 1], text[i])
             /\ start = Min(opening) =>
                  Extract(text) = IF opening = {} \/ ends = {} THEN text
                                  ELSE SubSeq(text, start, Min(ends))
  <2> HIDE DEF start
  <2> QED  BY <1>3, <1>8, TextIsScanned, Zenon
<1> DEFINE ends == {i \in start..Len(text) :
                      text[i] = "}" /\ ~at[i - 1].inString /\ at[i].depth = 0}
           own == [i \in 0..l |-> at[m + i]]
<1>16. Extract(text) = IF ends = {} THEN text ELSE SubSeq(text, start, Min(ends))
  <2> HIDE DEF start, opening
  <2> QED  BY <1>14, <1>15
<1>17. \A i \in 0..l : own[i] = at[m + i]
  OBVIOUS
<1> HIDE DEF own
<1>18. Scans(own, object)
  <2>1. own[0] = [inString |-> FALSE, escaped |-> FALSE, depth |-> 0]
    <3>1. own[0] = at[m + 0] /\ m + 0 = m
      BY <1>2, <1>17, <1>8
    <3> QED  BY <1>15, <1>8, <3>1
  <2>2. ASSUME NEW i \in 1..l PROVE own[i] = Scan(own[i - 1], object[i])
    <3>1. own[i] = at[m + i] /\ own[i - 1] = at[(m + i) - 1]
      BY <1>17, <1>9, Zenon
    <3>2. at[m + i] = Scan(at[(m + i) - 1], text[m + i])
      BY <1>15, <1>9, Zenon
    <3> QED  BY <1>4, <3>1, <3>2, Zenon
  <2> QED  BY <2>1, <2>2 DEF Scans, l
<1>19. /\ ~own[l - 1].inString /\ own[l].depth = 0
       /\ \A i \in 1..(l - 1) : own[i].depth > 0
  BY <1>1, <1>18, ObjectIsScanned DEF l
<1>20. m + l \in ends
  <2>1. own[l - 1] = at[(m + l) - 1] /\ own[l] = at[m + l]
    BY <1>17, <1>8, Zenon
  <2> QED  BY <1>19, <1>8, <1>11, <2>1, Zenon
<1>21. ends \in SUBSET Nat
  BY <1>10, Zenon
<1>22. \A i \in ends : m + l <= i
  <2> SUFFICES ASSUME NEW i \in ends, i < m + l PROVE FALSE
    BY <1>21, <1>10, Zenon
  <2>1. i \in start..Len(text) /\ at[i].depth = 0
    BY Zenon
  <2>2. i - m \in 1..(l - 1) /\ own[i - m] = at[i]
    BY <1>17, <1>9, <2>1, Zenon
  <2>3. at[i].depth > 0
    BY <1>19, <2>2, Zenon
  <2> HIDE DEF ends
  <2> QED  BY <2>1, <2>3
<1>23. Min(ends) = m + l
  <2> HIDE DEF ends
  <2> QED  BY <1>20, <1>22, <1>21, LeastIsMin
<1>24. Extract(text) = SubSeq(text, start, m + l)
  <2> HIDE DEF ends, start
  <2> QED  BY <1>16, <1>20, <1>23
<1>25. SubSeq(text, start, m + l) = object
  <2> DEFINE part == SubSeq(text, start, m + l)
  <2>1. part \in Text /\ Len(part) = l
    BY <1>2, <1>3, <1>8 DEF Text, start
  <2>2. \A i \in 1..l : part[i] = text[m + i]
    BY <1>2, <1>3, <1>8 DEF Text, start
  <2> HIDE DEF part
  <2>3. object \in Text /\ Len(object) = l
    BY DEF l
  <2>4. \A i \in 1..l : part[i] = object[i]
    BY <1>4, <2>2, Zenon
  <2>5. part = object
    BY <2>1, <2>3, <2>4, SeqEqual DEF Text
  <2> QED  BY <2>5 DEF part
<1> QED  BY <1>24, <1>25 DEF text

(* The first object of an answer is read whole and alone (extract_json_object).  *)
THEOREM ObjectsAreRead == Spec => []ObjectIsRead
<1>1. Init => ObjectIsRead
  BY DEF Init, ObjectIsRead, Of
<1>2. ASSUME ObjectIsRead, [Next]_vars PROVE ObjectIsRead'
  <2>1. CASE ReadAnswer
    <3>1. PICK before \in Befores, object \in Objects, after \in Afters :
            /\ asked' = [family |-> "text", before |-> before, object |-> object,
                         after |-> after]
            /\ answer' = Extract(before \o object \o after)
      BY <2>1 DEF ReadAnswer, Ask
    <3>2. /\ before \in Text /\ object \in Text /\ after \in Text
          /\ Braceless(before) /\ IsObject(object)
      BY ObjectAssumption DEF Braceless
    <3>3. answer' = object
      BY <3>1, <3>2, ObjectIsExtracted, Zenon
    <3> QED  BY <3>1, <3>3 DEF ObjectIsRead
  <2>2. CASE UNCHANGED vars
    BY <1>2, <2>2 DEF ObjectIsRead, Of, vars
  <2>3. CASE ~Of("text")'
    BY <2>3 DEF ObjectIsRead
  <2> QED  BY <1>2, <2>1, <2>2, <2>3, AskedBy
<1> QED  BY <1>1, <1>2, PTL DEF Spec
=============================================================================
