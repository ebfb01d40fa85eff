# Specifications of vibequest-core

TLA+ modules, TLC runs and TLAPS proofs about the Core of VibeQuest: an axum service
(`src/src/`) that verifies the assertions of its web front end, keeps learning sessions and
account records in MongoDB, generates lessons with a model provider, and runs learners'
code in a docker sandbox. All paths below are relative to the repository's `src/`
directory as it lies here (`src/src/lib.rs` is the crate's `lib.rs`).

`PROJECT.json` lists components, runs, the source lines of every definition (`map`), the
hazards, the findings and the theorems; this file explains them.

## 1. Inventory

| Component | State | Operations | What is hard | Module |
|---|---|---|---|---|
| Submission service, `runner/service.rs` | `submissions` map, dedup index under a mutex, bounded channel, the worker's job | `submit`, `get`, `cancel`, `worker_loop` | locks taken one after the other, a rollback in three sections, dropped request futures, late results against cancellations | `RunnerService`, `SubmissionLifecycle` |
| Sandbox executor, `runner/docker.rs` | docker client, two reader tasks and their shared counter, a `select`, the container | `execute` | five tasks and processes racing; clean-up that may find nothing; output at its limit | `SandboxExecution`, `Executor` |
| Authentication, `auth.rs` | replay cache under a mutex | `verify_now` | the clock is read before the lock; bounded cache; windows with a skew | `AssertionVerifier` |
| Learning sessions, `MongoStore` in `lib.rs` | `learning_sessions` of `MONGODB_DATABASE` | save, tutor exchange, archive, delete (get, list, export read) | read-modify-write of whole documents; three-second limits while commands go on | `LearningSessions` |
| Account store, `platform.rs` | four collections of `MONGODB_DATABASE_V3` | `upsert_identity`, `export_account`, `delete_account` | one command per collection, failure between any two | `AccountRecords` |
| The two stores together, `app_state` | both of the above | | one learner, two databases | `LearnerData` |
| Protocol and signature, `runner/protocol.rs`, `runner/signature.rs` | key set | job validation, binding, digest, sign, verify, the worker's comparison | which job a result is of; what the digest leaves out | `RunnerProtocol` |
| Lesson and quest generation, handlers in `lib.rs` | none in memory; `learning_sessions`, `users`, `quest_runs` of the database | module, lesson, quest, tutor | a provider that errs, one repair per draft, commands that outlive their handler, a count written back | `LearningGeneration` |
| The gate of lessons, `lib.rs` | none | normalise a draft, judge it, make the lesson | blanks dropped apart and paired after; likeness to earlier lessons | `LessonGate` (with `LessonTexts`, `LessonLikeness`) |
| Lesson records, `lib.rs` | none; computed at every save and read | scores, validation, statuses, evaluation artifacts, the bounded module | three thresholds for one thing; what is judged before it is cut | `LessonRecords` |
| The gate of quests, `lib.rs` | none | cut the JSON object out of an answer, bound and judge files and workspace | quotes and braces in strings; files judged before they are cut, and the note on a cut read as the author's words | `QuestGate` |
| AIBTC dry run, `lib.rs` | none | dry run, application packet | the client carries the report from one to the other | `AgentRun` |
| Tutor artifact cache, `curriculum.rs` | a bounded map under a lock | `resolve` | the lock is dropped between look-up and insert; eviction; keys run together | `TutorArtifactCache` |
| Zcash verifiers, `zcash/*.rs` | none | receiver policy, payment request, viewing key, state of a payment | overlapping rules whose order decides | `ZcashRules` |
| Runner manifest, worker binary, harness, HTTP routing, prompts | | | | not modelled: see section 6 |
| Quest runs' completion and reward claims, `lib.rs` | | `complete_quest`, claims, wallets | | not modelled: no route reaches them |

How they meet. A protected request passes `AuthVerifier::verify_now`; its principal is the
owner that every store's filter names. `/v3/submissions` calls the submission service,
whose one worker calls the executor and asks of it only what `Executor.tla` says.
`/ai/learning/sessions` and the tutor go to `MongoStore`, `/v3/me` to `PlatformStore`; no
step touches both stores. (At this commit `RunnerService::from_environment` always returns
the disabled service, so the submission service runs in the unit tests only; it is modelled
as `RunnerService::start` makes it.) The generating handlers ask the provider, pass each reply through
the gates and hand what they made to `MongoStore`, which computes the lesson records on the
way in and out.

What makes each correct: one active submission per user and source, no result after a
cancellation, every queued submission ends (service); a verdict is what the program said,
the output budget is shared exactly, every execution returns (executor); an assertion is
used once while it is valid, and a full cache refuses rather than forgets (authentication);
only owners change a session, exchanges are not lost but by a known race, `saved` is true
(sessions); an answered deletion is complete and one that failed can be finished (account);
nothing is shown or kept that the gate did not pass, a rejection is repaired once, a fault
and a quest's unreadable reply never (generation); answers and their feedback stay together, a score agrees with the
gate, and what is saved reads back as it was (gates and records); every answer was reviewed
for its own context, and a fallback gives way to a provider's artifact (cache); a result is
accepted for the job it was signed for (protocol); a payment accepted is within the policy,
and a confirmed one stays confirmed (Zcash).

## 2. Modules and their correspondence to the code

One action stands for one critical section: what a task does between two awaits, or what
it does while it holds a lock, or one command that the database carries out. Requests are
model values with a program counter; data is reduced to what the properties tell apart.
History variables, which no guard reads, are marked `history` where they are declared.

**RunnerService.** `SubmitExisting` / `SubmitLookup` / `SubmitRegister` / `SubmitSend` are
the stretches of `submit` between its awaits, with the index mutex (`dedupLock`) held from
the look-up to the registration as in the code. `SubmitQueueFull`, `RollbackRecord` and
`RollbackIndex` are the failure of `try_send` and the two locks it takes after.
`Disconnect` is a handler's future dropped at an await. `Worker*`, `ExecutorReturns`,
`Store*` are `worker_loop` and the two functions that record what it got. A record that is
gone has state `absent`; ids are never reused (`key` is for good).

**SubmissionLifecycle** is what a client is promised of each submission, without queue,
locks or worker; `ImplementsLifecycle` is the refinement, with `Phase` as its mapping.

**SandboxExecution** is one call of `execute`. Output is a sequence of pieces, the limit
counts pieces where the code counts bytes. `ReadChunk` is a read and its `fetch_add`,
`UseChunk` what the reader then keeps, so that the other reader may come in between.
`Select*` are the arms of the `select!`, which are all enabled together when several are
ready. `RemoveContainer` / `RemoveNothing` are `cleanup_container`, `WaitChild` the second
wait, `Answer` the joins and the classification (`ClassesOf`). The daemon, the client and
the program are external actions.

**Executor** is the trait's contract: one answer, `cancelled` only on request. The service
relies on it in `ExecutorReturns`; `ImplementsExecutor` shows that the executor keeps it.

**AssertionVerifier.** `Verify` reads the clock and checks the windows; `Consume` is
`consume_assertion_id` with `Replay`, `Full` and `Accept` as its ways to end. The clock may
be set back between requests. What reads no state (form, signature, claims) is the flag
`genuine` of an assertion.

**LearningSessions.** `Begin` is the arrival of a request, `FindForSave`, `FindForTutor`
and `FindsNone` its look-up, `Apply*` the command as the database carries it out, and
`AnswerSession` and `GiveUp` the handler's answer. A command that is `sent` stays so when
its handler gives up after three seconds. `exchanges` are the pairs of tutor messages,
`Tail30` the cut to the last thirty. Both stores are modelled as configured; without a
database they keep nothing.

**AccountRecords.** `done` counts the commands of a request that were answered; the orders
are those of the code. `Fails` ends a request at any command, `LateCommand` is that command
carried out after. `ServiceWrites` stands for whatever writes the three collections that
the Core only exports and deletes.

**LearnerData** runs both stores side by side.

**LearningGeneration.** A request of the four kinds is `asking` while it waits for the
provider: `WithoutKey`, `ProviderFails`, `Reject` and `Accept*` are the ways the wait ends.
`Reject` is a reply that is refused: a lesson's or a tutor's with one error whether it could
be read or not, a quest's apart (`Refusals`), because `generate_quest` passes on the error
of an unreadable first reply with `?` (`lib.rs:4556-4563`) and asks again only for a quest
that `compact_quest_blueprint` refused (`Repairs`).
`repair` says that the next call carries the repair contract; `made` are the lessons
accepted so far. The gate enters as two relations over drafts, `Fitting` and `Repeating`,
which `LessonLikeness` computes from `LessonGate` for the run. `Build` is
`build_learning_module_from_compact_ai`, which judges the whole module again. Each command
of the database is an action (`FindSession`, `StoreSession`; `FindProfile`, `Enrol` or
`Duplicate`, `Record`, `CountRuns`, `Recount`), `GiveUp` an error or the three-second limit,
`Leave` a client that is gone; both leave the command under way in `flying`, and `Late`
carries it out. `calls` and `disturbed` are history.

**TutorArtifactCache.** One action for what a call does under one lock: `AcceptCandidate`
(write lock), `LookupHit` and `LookupMiss` (read lock), `ResolveFallback` (write lock, with
no second look-up). `Insert` evicts the smallest keys until there is room. `KeyOf` keeps
what the code digests, so that a prompt which holds the separator shares a key with another
context. Contexts and candidates that are refused leave without touching the map.

**The modules of rules** have operators and no state. `LessonGate` takes the code's word
lists and thresholds as constants; a text is a sequence of words. `LessonRecords` sees of a
text its length or a verdict on it, before and after it is cut, and of an artifact the ids it
reports on, as they are and as they are cut. `QuestGate` scans an answer
character by character with `Scan`, over the characters that matter to the scan; of a quest
it keeps the texts apart by who reads them (title, story, what is asked, its answer, hints,
lens, labels), each the set of its words, and a file as its path and its lines, so that
`Clipped` cuts lines and adds the words of the code's note on the cut (`ClipNote`).
`AgentRun` sees a text as the set of its phrases. `ZcashRules` lists each function's early
returns in their order (`FirstError`); what librustzcash decodes is input. `RunnerProtocol`
has symbolic digests and signatures; the digest covers what `Finalized` names and the
signature adds the key. `Absent` is the value of an optional field.

**RuleChecks** asks these modules one question at a time: `Ask*` puts a question out of a
small set and `answer` is what the code returns. A property then relates an answer to its
question, to the answer to a later question, or to what another rule says.

## 3. Runs

| Run | Asks | Bounds |
|---|---|---|
| `runner_safety` | do results, retries, the queue and the lifecycle survive every interleaving of two submitters, two users, cancellations and dropped requests? | 3 ids, queue of 1 (so that it fills), 1 retry |
| `runner_live` | does every record end, with a queue of one that overflows, and is deduplication right until the queue has been full? | 2 users, 1 source, 3 ids, 1 retry, no dropped request |
| `runner_overflow_dedup` (violation) | is it right when the queue fills? | 2 sources, 4 ids, queue of 1 |
| `sandbox_safety` | budget, verdicts and contract in every order of tasks and processes, and is a running program stopped? | limit 2, reads of up to 2, at most 2 pieces per stream: both streams together pass the limit, each alone fills it exactly |
| `sandbox_unbounded_wait` (violation) | does every execution return? | limit 1, 1 piece per stream |
| `assertion_verifier` | single use and failing closed, whatever the order at the lock | 3 requests, a cache of 1, clock 0..4 around windows of 2 with a skew of 1 |
| `learning_sessions` | owners, exchanges, closing and answers | 4 requests of 2 users on one id, 2 exchanges kept: a save and three exchanges pass the cut |
| `account_records` | deletion, orphans, export | 3 requests of one user (an upsert, a deletion, and any third) |
| `deletion_misses_sessions` (violation) | does deleting an account reach the learner's sessions? | 1 user, 1 session, 2 account requests |
| `learning_generation` | what is shown, retried, stored and counted, with a provider that errs and a database that is slow; is every request answered? | 2 requests of one learner: one of any kind, one quest; modules of 3 lessons (the code: 5), so that a draft has two earlier ones; the drafts of `LessonTexts` |
| `tutor_cache` | is every answer reviewed, kept and not undone by a fallback? | 2 calls, a cache of 2 for 3 keys, 4 contexts of which two share a key, and one for each refusal |
| `rules` | do the verdicts of the pure parts agree with each other and with what is kept? | one question at a time, from sets around every limit: see `MCRuleChecks` |

Why the bounds are enough for what is asked: each property compares at most two actors'
steps, or one actor's step with the steps of one other that ran between two of its own;
the bounds leave room for a third in each role. `account_records` has one user because
every command's filter names its request's user, and no property relates users; owners are
told apart where ids can collide, in `learning_sessions`. In `learning_generation` the
second request is a quest, because quests are what shares a document (the profile with its
count); modules, lessons and tutor answers meet no other request's data. A question of
`rules` needs no neighbours; its sets hold, for each comparison in the code, values on both
sides of it and on it. Where a theorem of section 5
covers a property, the bound no longer matters. Symmetry is used for safety only, over
sets whose members are compared and never ordered. `CHECK_DEADLOCK FALSE` is set because
the instances end when their ids or requests are used up.

Every property of a passing run is broken by a mutant that is defined in the module beside
the definition it replaces (`Mutant...`): a dropped guard, a swapped order, an answer
before its time.

## 4. What the runs show, and what they found

- `runner_overflow_dedup`: the rollback of a full queue removes the index entry of its key
  without looking whose it is. A second submission that registered in between loses its
  entry, and a third becomes a second active submission of one user and source, which
  the test `service_deduplicates_per_user_and_isolates_ownership` says there is not.
  `DeduplicatedUntilFull` says that this is the only way: until the queue has filled once,
  deduplication holds, in `runner_live` too where the queue does fill.
- `sandbox_unbounded_wait`: if the wall timeout fires before the daemon has created the
  container, `docker rm` finds nothing and the wait that follows has no limit.
  `RunningProgramIsStopped` shows that the timeout works for a program that runs while it is
  awaited, unless `docker rm` fails.
- `deletion_misses_sessions`: accounts are deleted in one database, learning sessions kept
  in another, and nothing else deletes them.
- `SavedIsWritten` states one exception, which the code has: a tutor exchange whose session
  is deleted between look-up and write is told saved (what matched is not looked at).
- `ExchangesAreKept` and `ClosedStaysClosed` state which race may lose an exchange or
  reopen an archived session: a writer that had read the session before, and a save.
- `SecondUseIsLate` states how far single use goes: a second use needs a request whose
  reading of the clock is older than one against which the cache has been purged.
- `AnswersAreKept` has one exception: `learning_wrong_options` drops blank labels and blank
  feedback apart and pairs what is left, so behind a blank label the feedback is another's.
- `ScoresAgree` has one exception: the gate looks for placeholders in a lesson's prose
  (`lib.rs:9577`), its score also in the code lens (10714).
- `SavedSessionStands` has three: a lesson's question is scored before it is cut
  (`refresh_lesson_validation_metadata` before the cut, `lib.rs:8366` and 8381), so one that
  is judged otherwise once it is cut is scored anew; the default resources are bounded
  only when they are saved again (8463); and an artifact is filed under the first lesson it
  reports on before its reports are cut (2617, 2626), so one whose only known lesson is
  reported beyond the bound, or by an id of more than 120 characters, is filed otherwise, or
  dropped, when it is read. The proof of the property asked for this third exception; the
  run has an artifact of each kind, and fails without it.
- `QuestSurvivesCut`: each file is judged as it came, then cut, and the quest is judged once
  more as a whole (`lib.rs:7595-7621`). Would the quest that is shown be accepted again, and
  for its author's words? Two exceptions, both reached in the run and both needed: a file
  that is cut may lose what its own check had found (the only words of a test, say); and the
  note "VibeQuest clipped this file to keep the browser workbench fast" becomes part of the
  workspace that the lesson's terms are looked for in (7835), so that it alone can align a
  quest to a lesson about one of its words. None of the lists for the workspace has a word
  of the note, so the checks of quality are the author's own in every case.
- `PacketAgreesWithRun` is about an honest client: the application takes the report of a
  dry run as it is sent. A report that the client changed is a hazard (`lib.rs:6742`) which
  no property covers: the code keeps nothing to compare it with.
- `ClientGoneAtAnswer` does not speak of a wait that ended in an error of the system: nothing
  is known of the client then, and that answer is retried like any lost worker
  (`docker.rs:155` in the hazards).
- `RetryDiscipline` follows the code where quests and lessons differ: a lesson's unreadable
  reply is asked for once more, a quest's is an error at once.
- `PaymentWithinPolicy` states a total only where every payment states an amount: the code
  limits no other (`zcash/payment.rs:230`).
- `CacheIsSound`: two contexts can have one key, and then one is answered with the other's
  artifact; it was reviewed for that lesson and mode, so the contract holds.
- `CountsFollowRuns`: the count of runs lags after a race of two quests or a fault, and is
  never ahead.

**Fairness.** `runner_live`: weak fairness of the worker and of requests that have begun.
The runtime polls what is runnable and tokio's locks are fair; clients owe nothing, so no
submission or cancellation is ever required. `WF_vars(Worker)` includes
`ExecutorReturns`: the service relies on an executor that returns, which `sandbox_safety`
shows where a program is stopped and `sandbox_unbounded_wait` denies in one corner. A
request dropped in the middle of its rollback is left out there (`Droppable = {}`): its
record stays queued, as the hazard at `service.rs:151` says. `sandbox_safety`: weak fairness
of the executor's tasks, the readers and the daemon; the program itself owes nothing and
may run for ever. `learning_generation`: weak fairness of each handler. The HTTP client's
timeout ends every call to the provider and the three-second limit every save, so a handler
always gets on; whether the provider answers, and whether a command that was left behind is
ever carried out, is not assumed.

## 5. What is proved

All proofs are checked by TLAPS with Z3, Zenon and LS4, for every value of the constants
that satisfies the named assumption of the module.

- `RunnerServiceProofs`: from `ConstantsAssumption`. The inductive invariant says who owns
  an id at each moment: nobody yet, a request (`RequestInv`), the queue
  (`QueueIntegrity`), or the worker (`WorkerInv`); `ResultAuthentic` alone is not inductive
  because a result is only as good as what the worker holds when it stores it. From it
  follow the invariants, the two action properties and the refinement of
  `SubmissionLifecycle`. `IndexInv` adds what the deduplication index says: an entry names a
  submission of its key, and until one is withdrawn every active submission has its entry
  and none has the key the mutex is held for. From it: `DeduplicatedUntilFull`.
- `SandboxExecutionProofs`: from `SandboxAssumption`. `BudgetInv` adds to the accounting
  what each reader knows while the other may count, `PhaseInv` where the executor is and
  why it left the `select!`. From it: the exact budget, earned `output-limit`, the client
  gone at the answer, and the refinement of `Executor`. `OutputInv` follows the pieces from
  the program to the answer: what is captured is, in order, the beginning of what was
  written, and is all that was taken from the pipe unless the budget cut it (`StreamInv`).
  From it:
  `VerdictReflectsProgram`.
- `AssertionVerifierProofs`: from `VerifierAssumption`. The invariant remembers the latest
  reading the cache was purged against (`horizon`) and with which horizon each use was
  accepted. From it: `SecondUseIsLate`, `UsedIsRemembered`, `ReplayedWasUsed`,
  `FailsClosed`.
- `LearningSessionsProofs`: from `SessionsAssumption` and `NoneIsNoSession`. `DraftIsOwn`
  carries the owner from look-up to write; `FoundOrDeleted` says that a session an exchange
  has looked up is still its user's, or was deleted since. From it: `OwnersOnly` and
  `SavedIsWritten`. `HistoryInv` relates the log of commands to the sessions: an exchange
  with few followers stands as near to the end as they allow, in its session
  (`KeptInSession`) and in every document a later exchange would write (`KeptInDraft`);
  what would reopen an archived session had read it open. From it: `ExchangesAreKept` and
  `ClosedStaysClosed`, neither of which is inductive, because a command is carried out long
  after its look-up.
- `AccountRecordsProofs`: from `AccountAssumption`. `DeletedSoFar` and `ExportedSoFar` are
  the properties of finished requests said of every collection already passed. From it:
  `DeletionIsComplete`, `OrphansAreOfRaces`, `ExportIsExact`.

- `LearningGenerationProofs`: from `GenerationAssumption`. `HandlerInv` says which calls may
  follow those a request has made (`MayCall`), `MadeInv` that the lessons gathered so far
  are a valid module of their length, `KeptInv` what may be stored and what may still be
  under way at each place of a handler, `CountInv` that a count somebody holds is not above
  the runs, and equal to them while nothing has disturbed it. A request's step disturbs no
  other request's part (`OthersAreKept`), so each action is proved for one request and the
  counts. From it: `ShownIsSound`, `RetryDiscipline`, `SavedIsStored`, `CountsFollowRuns`.
- `TutorArtifactCacheProofs`: from `CacheAssumption`. The lesson, version and mode are
  fields of their own in the key, so a key decides what a review looks at
  (`KeyDecidesReview`): an artifact reviewed for one context is reviewed for every context
  of its key. `CallInv` remembers that a call building a fallback over a provider's
  artifact is racing. From it: `CacheIsSound`, `AnswerIsCached`, `FallbackYields`.
- `RuleChecksProofs`: every property of `rules`. From `HistoryAssumption` (whoever signs had
  a valid job, bound its evidence to it, and nobody makes up a signature) and
  `FixtureAssumption`: the binding
  determines the job it is of, source included by its digest (`BindingsDetermineJobs`), and
  what verifies was signed (`VerifiedWasSigned`), so a result that the worker accepts for a
  job was signed for it (`ResultIsForTheJob`). `LifecycleIsMonotone` goes by cases over the
  first rule that applies (`FirstOf`).

  The other seven are about texts, lists and files of any length, and the recursions of the
  rules are unfolded as functions of prefixes: `PrefixFunction` shows that such a function
  exists, so that the one a definition chooses satisfies its equation, and `Induction`
  carries a statement from the empty prefix to the whole. Both are lemmas about one set of
  lengths, from the well-foundedness of the naturals: the least length left out would have a
  predecessor that is not.
  - `PaymentWithinPolicy`, from `PaymentAssumption`: no check of the request applies
    (`NoFirstError`), and the total the code keeps, with its early end at an overflow or an
    amount left open, is the sum of what comes before.
  - `AnswersAreKept`, from `DraftAssumption`: what the curated ecosystem appends is contained
    afterwards, so a normal draft is normal (`NormalStaysNormal`); a draft is refused only by
    a check that is reported (`RefusalIsExplained`); the options of the lesson are the n-th
    written answers, in the order in which they were written (`OptionsAreAnswers`).
  - `ScoresAgree`, from `ScoredAssumption`: the percentage stays below both widths.
  - `SavedSessionStands`, from `SessionAssumption`: every part of the record is unchanged when
    it is made a second time, with the lemmas on statuses (`MergedTwice`), on the artifacts
    kept (`LatestInOrder`, `AllAreLatest`, `LatestAreFew`), and on cutting (`TrimmedTwice`).
    `LatestAreFew` is why the bound of the code's loop never bites.
  - `ObjectIsRead`, from `ObjectAssumption`, which says what a JSON object is without
    scanning it: in strings alone there are backslashes, each escapes the next character or
    is escaped, and the braces outside of strings balance at the end and not before. The scan
    knows at each character whether it is in a string, whether the character is escaped, and
    the nesting (`ObjectIsScanned`), wherever the object begins (`ObjectIsExtracted`).
  - `QuestSurvivesCut`, from `QuestAssumption`: lists and files that are cut twice are cut once
    (`ClippedOnce`, `ShownOnce`), so the quest that is shown is judged as the one that was
    judged (`AcceptedAgain`); what the cut adds to the workspace is the note (`CutSays`),
    whose words none of the quality lists has (`NoteIsIdle`). `PacketAgreesWithRun` needs no assumption.

  The assumptions are types, but for what they say of signatures, of objects and of the clip
  note, which has no word of the quality lists (as in the code, `lib.rs:8924`); TLC
  evaluates them in `rules`, where `Words` is every string.

Some theorems state no property of a run: `Invariance`, `InvariantHolds` and
`HistoryHolds` (the inductive invariants themselves, checked with TLC on the instances of
the runs before), type invariants, `CancelledNeverStarts`, `UsedIsRemembered`, and
`BindingsDetermineJobs`.

Only model-checked: the liveness properties `EverySubmissionResolves`,
`RunningProgramIsStopped` and `EveryRequestIsAnswered` (fairness and ENABLED are beyond the
prover); and what fails, `OneActivePerKey`, `EveryExecutionReturns` and
`DeletionReachesSessions`.

## 6. Not modelled, and why

- Quest completion, reward claims and wallets: `docs/authentication.md` says their handlers
  are absent from `build_router`, and they are; nothing executes them.
- Runner manifest: the validation of one constant document. Worker binary: one sequential
  attempt. Harness, fixtures, scenario contracts: data, and inputs of the executor's model.
- The validation of the embedded curriculum documents at start-up: one constant input, which
  the unit tests run. That a fallback made of a lesson's own text satisfies the tutor's
  contract is an assumption of `TutorArtifactCache`; it is not shown here for the lessons
  embedded at this commit.
- The check of an empty `case_id` (`zcash/lifecycle.rs:43`) and the error for a key or a
  signature that is not base64 (`runner/signature.rs:156`): forms of input that are refused
  before anything is judged, and that no property tells from other refusals.
- The rules of receiver addresses and of viewing keys are definitions of `ZcashRules` that
  other rules use (addresses, for the recipients of a payment) or that only a caller asks
  for; no property of their own is stated of them.
- HTTP routing, error rendering, prompts and curated texts: no state. The word lists the
  gates search for are constants of `LessonGate`, `QuestGate` and `AgentRun`.
- Creation of indexes at start-up; learning events and metrics, which are only appended and
  counted.
- Bytes, digests and signatures: symbolic.
- A container that outlives its client (`docker.rs:222`), and a replay cache lost with its
  process (`auth.rs:167`): the code has no behaviour for either that a property could be
  about; both are hazards in `PROJECT.json`.

## 7. Plan

The runner, the requests' shared parts, generation, the tutor cache and the rules are done.
What is left:

1. The composition of `RunnerService` with `RunnerProtocol`'s keys, so that what the worker
   stores is what `ResultIsForTheJob` accepts, instead of a choice of `ExecutorReturns`.
2. `LessonRecords` inside `LearningSessions`: what is stored of a session is `Save` of it, so
   that `SavedSessionStands` is said of every document the store holds.
