------------------------------ MODULE MCRuleChecks ------------------------------
(* Small sets of questions for each family of RuleChecks, chosen around the     *)
(* limits the rules compare with.                                            *)
EXTENDS RuleChecks

UpTo(set, n) == UNION {[1..k -> set] : k \in 0..n}

-----------------------------------------------------------------------------
(* Zcash *)

MCNetworks == {"main", "test"}
MCReceiverPolicies ==
  {ShieldedCheckout, ShieldedRecipient, ProtocolCompatible,
   [ProtocolCompatible EXCEPT !.forbid_transparent = TRUE],
   [ShieldedRecipient EXCEPT !.support = {"sapling"}]}

Addresses ==
  {[network |-> n, kind |-> "Unified", items |-> i] :
     n \in MCNetworks, i \in SUBSET {"orchard", "sapling", "transparent", "unknown"} \ {{}}}
    \cup {[network |-> n, kind |-> k, items |-> {}] :
            n \in MCNetworks, k \in {"Sapling", "TransparentP2pkh", "Sprout"}}
MCAddressInputs ==
  {[bytes |-> b, decodes |-> d, address |-> a] : b \in {0, 9, 10}, d \in BOOLEAN, a \in Addresses}

Recipients ==
  {[network |-> n, kind |-> "Unified", items |-> i] :
     n \in MCNetworks, i \in {{"orchard"}, {"transparent"}}}
    \cup {[network |-> "main", kind |-> "TransparentP2pkh", items |-> {}]}
Payments ==
  {[recipient |-> r, amount |-> a, parameters |-> p] :
     r \in Recipients, a \in -1..2, p \in 0..1}
MCPaymentRequests ==
  {[bytes |-> 9, grammar |-> "ok", required |-> FALSE, payments |-> p] : p \in UpTo(Payments, 2)}
    \cup {[bytes |-> b, grammar |-> g, required |-> r, payments |-> <<>>] :
            b \in {0, 9, 10}, g \in {"ok", "too-many-payments", "transparent-memo", "other"},
            r \in BOOLEAN}
Strict ==
  [network |-> "main", receivers |-> ShieldedCheckout, require_amounts |-> TRUE,
   require_positive |-> TRUE, max_payments |-> 2, max_total |-> 2, allow_optional |-> TRUE,
   max_optional |-> 1]
MCPaymentPolicies ==
  {Strict, [Strict EXCEPT !.max_payments = 1],
   [Strict EXCEPT !.require_amounts = FALSE, !.require_positive = FALSE,
                  !.receivers = ProtocolCompatible, !.allow_optional = FALSE],
   [Strict EXCEPT !.max_total = 9]}

MCKeyInputs ==
  [bytes : {0, 9, 10}, spending : BOOLEAN, decodes : {"nothing", "full", "incoming"},
   network : MCNetworks]

MCFixtures ==
  [required : 0..2, expires : 0..2, confirmations : 0..2, observations : 0..2,
   matches : BOOLEAN, confirmed_before : BOOLEAN, height : 0..3]
MCLater == 0..2

-----------------------------------------------------------------------------
(* Results *)

Id(prefix, name) == [prefix |-> prefix, length |-> 8, plain |-> TRUE, name |-> name]
Source(n) == <<n>>
JobOf(name, n) == Reviewed(Id("job", name), Id("sub", name), Id("usr", "u"), Source(n))
Ran == {JobOf("a", 1), JobOf("a", 2), JobOf("b", 1)}
MCJobs == Ran \cup {[JobOf("a", 1) EXCEPT !.source = Source(3)],
                    [JobOf("a", 1) EXCEPT !.track_id = "other"],
                    [JobOf("a", 1) EXCEPT !.job_id.plain = FALSE]}

Entry(id, key) == [separated |-> TRUE, plain |-> TRUE, length |-> 4, id |-> id, key |-> key]
MCConfigs ==
  {<<>>, <<Entry("k1", "s1")>>, <<Entry("k1", "s1"), Entry("k2", "s2")>>,
   <<Entry("k1", "s1"), Entry("k1", "s2")>>, <<Entry("k1", None)>>,
   <<[Entry("k1", "s1") EXCEPT !.length = 0]>>}

EvidenceOf(job, class) ==
  [binding |-> Binding(job), classification |-> class, public_cases |-> "cases",
   hidden_summary |-> "hidden", diagnostic_code |-> "none",
   worker_attempts |-> 1, output_bytes |-> 1, output_truncated |-> FALSE,
   result_digest |-> None]
Signings ==
  {[job |-> j, id |-> k[1], secret |-> k[2], evidence |-> EvidenceOf(j, "passed")] :
     j \in Ran, k \in {<<"k1", "s1">>, <<"k3", "s3">>}}
MCHistories == {h \in SUBSET Signings : Cardinality(h) <= 2}

\* What was signed, and what differs from it in one part.
Variants(r) ==
  {r, [r EXCEPT !.evidence.output_bytes = 2], [r EXCEPT !.evidence.classification = "failed"],
   [r EXCEPT !.evidence = Finalized([@ EXCEPT !.classification = "failed"])],
   [r EXCEPT !.evidence = Finalized([@ EXCEPT !.binding = Binding(JobOf("b", 1))])],
   [r EXCEPT !.key_id = "k2"], [r EXCEPT !.signature = None]}
MCOffered ==
  [history \in MCHistories |-> UNION {Variants(s.result) : s \in SignedBy(history)}]

-----------------------------------------------------------------------------
(* Lessons *)

MCWords == STRING
MCDrafts ==
  {Texts!Drafts[n] : n \in Texts!Names}
    \cup {[Texts!Drafts["alpha"] EXCEPT ![field] = <<>>] :
            field \in {"t", "e", "s", "w", "j", "f", "q", "a", "b", "bf"}}
    \cup {[Texts!Drafts["beta"] EXCEPT !.bf = <<<<>>, <<"f1">>, <<"f2">>, <<"f3">>>>]}
MCPlaces == 0..2
MCJitters == 0..3

MCScored ==
  [words : {0, 389, 390, 487, 488, 499, 500, 649, 650, 651, 656, 700, 1000},
   generic : BOOLEAN, placeholder_in_prose : BOOLEAN, placeholder_in_code : BOOLEAN,
   mentions : BOOLEAN, leaks : BOOLEAN, further_study : BOOLEAN]

Unscored ==
  [source_coverage |-> 0, technical_depth |-> 0, checkpoint_quality |-> 0,
   placeholder_free |-> FALSE, ecosystem_alignment |-> FALSE, passed |-> FALSE]
LessonOf(id, title, words, question, resources, options, correct) ==
  [id |-> id, title |-> title, words |-> words, question |-> question,
   resources |-> resources, evidence |-> 0, placeholder |-> FALSE, options |-> options,
   correct |-> correct, score |-> Unscored]
Counted(n, c) == [now |-> n, clipped |-> c]
Question(asks, now, clipped) == [asks |-> asks, now |-> now, clipped |-> clipped]
Options == <<"o1", "o2", "o3", "o4", "o5", "o6">>

LessonsA ==
  {LessonOf("a", "t", w, q, r, SubSeq(Options, 1, 3), 3) :
     w \in {Counted(500, 500), Counted(500, 400), Counted(0, 0)},
     q \in {Question("q", "sound", "sound"), Question("q", "sound", "generic"),
            Question(None, "generic", "generic")},
     r \in {0, 6}}
LessonsB ==
  {LessonOf(i[1], i[2], Counted(600, 600), Question("q", "sound", "sound"), 3, Options, c) :
     i \in {<<"b", "t">>, <<None, "u">>, <<"b", None>>}, c \in {0, 3, 5}}
Lists ==
  {<<>>} \cup {<<a>> : a \in LessonsA \cup LessonsB} \cup {<<a, b>> : a \in LessonsA, b \in LessonsB}

AllTrue == [check \in DOMAIN NoValidation |-> TRUE]
Stated ==
  [index : {0, 1, 7}, id : {None, "z"}, status : {"failed", "validated", "odd"},
   validation : {NoValidation, AllTrue}]
Reported(id) == Counted(id, id)
Artifacts ==
  {[reports |-> [i \in DOMAIN r |-> Reported(r[i])]] :
     r \in {<<"a">>, <<"lesson-2", "a">>, <<"z", "b">>, <<"z">>, <<"z", "z", "z", "z", "z", "a">>}}
    \cup {[reports |-> <<Counted("a", "cut"), Reported("b")>>]}

Passing == {a \in LessonsA : a.words.now > 0 /\ a.question.asks # None /\ a.resources = 6}
MCSessions ==
  {[lessons |-> l, statuses |-> <<>>, artifacts |-> <<>>] : l \in Lists}
    \cup {[lessons |-> <<a, b>>, statuses |-> s, artifacts |-> <<>>] :
            a \in Passing, b \in LessonsB, s \in {<<x>> : x \in Stated}}
    \cup {[lessons |-> <<a, b>>, statuses |-> <<>>, artifacts |-> x] :
            a \in Passing, b \in {c \in LessonsB : c.correct = 0}, x \in UpTo(Artifacts, 3)}

-----------------------------------------------------------------------------
(* Quests *)

\* A string's characters, quotes and backslashes only behind a backslash.
Escaped == {<<"x">>, <<"{">>, <<"}">>, <<"backslash", "quote">>, <<"backslash", "backslash">>}
Strings ==
  {<<"quote">> \o w \o <<"quote">> :
     w \in {<<>>} \cup Escaped \cup {v \o u : v \in Escaped, u \in Escaped}}
Flat == {<<"{">> \o s \o <<"}">> : s \in Strings \cup {<<>>, <<"x">>}}
MCObjects ==
  Flat \cup {<<"{">> \o o \o <<"}">> : o \in Flat}
    \cup {<<"{">> \o s \o o \o <<"}">> : s \in Strings, o \in {<<"{", "}">>}}
    \cup {<<"{">> \o o \o s \o <<"}">> : s \in Strings, o \in {<<"{", "quote", "}", "quote", "}">>}}
MCBefores == UpTo({"x", "quote", "}"}, 2)
MCAfters == UpTo({"x", "quote", "{", "}"}, 1) \cup {<<"}", "}">>, <<"{", "}">>, <<"quote", "}">>}

MCFileDomain == {"cell", "runid"}
MCFileDenial == {"reject", "throws", "stale"}
MCCodeWords == {"export"}
MCTestWords == {"test", "expect"}
MCDomain == {"cell"}
MCDenial == {"reject", "throws", "deny"}
MCWorkspaceTests == {"test", "expect", "throws"}
MCSpecific == {"cell", "nonce"}
MCGenericAnswers == {"happy path only"}
MCGenericOutput == {"sample quest"}
MCScaffold == {"practice quest"}
MCClipNote == {"clipped", "browser"}

Named(path, words) == [path |-> path, lines |-> [i \in DOMAIN words |-> {words[i]}]]
Files ==
  {Named({"pay"}, <<"export", "cell", "throws">>),
   Named({"pay"}, <<"export", "cell", "pad", "reject">>),
   Named({"cell"}, <<"export", "runid">>),
   Named({"pay"}, <<"export", "sample quest", "cell">>),
   Named({"test"}, <<"expect", "cell", "reject">>),
   Named({"test"}, <<"expect", "runid", "stale", "reject">>),
   Named({"spec"}, <<"expect", "cell", "deny">>),
   Named({"spec"}, <<"pad", "cell", "reject", "expect">>),
   Named({"spec"}, <<"expect", "runid", "reject", "pad", "cell">>)}
Plain ==
  [blank |-> {}, gates |-> 3, hooks |-> 2, steps |-> 4, prompts |-> 4, wrong |-> 3,
   long_objective |-> TRUE, title |-> {}, story |-> {"invoice"}, asked |-> {"cell"},
   answer |-> {"nonce"}, hints |-> {}, lens |-> {}, labels |-> {}, files |-> <<>>]
Bases ==
  {Plain, [Plain EXCEPT !.answer = {"happy path only"}], [Plain EXCEPT !.asked = {}],
   [Plain EXCEPT !.asked = {}, !.labels = {"cell"}],
   [Plain EXCEPT !.story = {}, !.hints = {"invoice"}],
   [Plain EXCEPT !.story = {"practice quest", "invoice"}],
   [Plain EXCEPT !.title = {"practice quest"}],
   [Plain EXCEPT !.gates = 4, !.wrong = 2], [Plain EXCEPT !.gates = 4, !.steps = 5],
   [Plain EXCEPT !.blank = {"title"}], [Plain EXCEPT !.long_objective = FALSE]}
MCQuests ==
  {[b EXCEPT !.files = f] : b \in Bases, f \in UpTo(Files, 2)}
    \cup {[Plain EXCEPT !.files = f] : f \in [1..3 -> Files]}
    \cup {[Plain EXCEPT !.files = <<Named({"pay"}, <<"export", "cell", "throws">>)>> \o f] :
            f \in [1..3 -> {x \in Files : x.path # {"pay"}}]}
MCContexts ==
  {[lesson |-> TRUE, concepts |-> {"invoice"}, terms |-> {}],
   [lesson |-> TRUE, concepts |-> {"witness"}, terms |-> {"cell", "nonce", "reject", "export"}],
   [lesson |-> TRUE, concepts |-> {"browser"}, terms |-> {"clipped", "keep"}],
   [lesson |-> FALSE, concepts |-> {}, terms |-> {}]}

-----------------------------------------------------------------------------
(* The agent *)

MCEvidenceTerms == [label \in EvidenceLabels |-> {label}]
MCDenialTerms == [label \in {"keys", "approval"} |-> {label}]
MCRunRequests ==
  {[ecosystem |-> e, run_id |-> r, module_id |-> "m", text |-> {"aibtc", "agent"} \cup t \cup d] :
     e \in {None, "zcash"}, r \in {"r", None}, d \in {{}, {"keys"}},
     t \in {x \in SUBSET EvidenceLabels : Cardinality(x) >= 6}}
    \cup {[ecosystem |-> "aibtc", run_id |-> "r", module_id |-> "m", text |-> EvidenceLabels]}
MCForms ==
  [ecosystem : {None, "zcash"}, run_id : {"r"}, module_id : {"m"}, bounty_id : {"b", None},
   address : {"shaped", "other", None}, content_url : {"https", "http", None},
   message : {None, "short", "long"}]
=============================================================================
