------------------------------ MODULE LessonGate ------------------------------
(***************************************************************************)
(* What the lesson generator of src/src/lib.rs does to one draft of the AI   *)
(* provider: normalise it for the request, accept or reject it against the   *)
(* request and the lessons before it, and turn an accepted draft into the    *)
(* lesson a learner sees.                                                    *)
(*                                                                           *)
(* A text is the sequence of its words; a phrase the code searches for is a  *)
(* word.  The code's word lists and thresholds are constants; a limit in     *)
(* characters is a limit in words.  A blank text is the empty sequence.      *)
(***************************************************************************)
EXTENDS Integers, Sequences, FiniteSets

CONSTANTS
  \* word lists, sets of words
  Verifying, Failing, Qualifying,  \* the three lists of lesson_has_accuracy_nuance
  Postures,                        \* the source posture of an official anchor
  Placeholders,                    \* what a model writes instead of a lesson
  StockProbes, VagueProbes,        \* checkpoint questions rejected, or rejected
  DomainWords,                     \* unless they name a term of the domain
  Stopwords, Markers,              \* left out of fingerprints; end a lesson's own body
  \* word lists of an ecosystem, functions
  Sources, Required, Blocked, RoleWords,
  \* what the curated ecosystems add to a draft, functions of the ecosystem
  Curated, SourceSentence, NuanceSentence, RoleSentence, Checklist, Artifact, CodeLens,
  WhyAddition, BridgeAddition,
  \* thresholds
  MinExplainer, MinWhy, MinBridge, MinQuestion,  \* 500, 35, 22 and 9 words
  LastLesson,   \* index of the final lesson: 4
  PriorLimit,   \* earlier lessons a draft is compared with: 4
  ShingleSize,  \* words of a shingle: 9
  CodeFloor,    \* a code lens is compared when longer than 30 characters
  TitleLimit, QuestionLimit, SummaryLimit, CodeLimit  \* what is kept of a prior lesson

WordsOf(text) == {text[i] : i \in DOMAIN text}
Has(text, list) == WordsOf(text) \cap list # {}
Count(text, list) == Cardinality(WordsOf(text) \cap list)

Clamp(text, limit) == IF Len(text) <= limit THEN text ELSE SubSeq(text, 1, limit)

Prose(l) == l.t \o l.e \o l.w \o l.j \o l.f \o l.q \o l.a
FullText(l) == l.t \o l.e \o l.s \o l.w \o l.j \o l.f \o l.q \o l.a

-----------------------------------------------------------------------------
(* The checks *)

Anchored(ecosystem, text) ==
  Has(text, Sources[ecosystem]) /\ Count(text, Postures) >= 2

Nuanced(text) ==
  Count(text, Verifying) >= 2 /\ Count(text, Failing) >= 2 /\ Count(text, Qualifying) >= 2

GenericQuestion(q) ==
  \/ Len(q) < MinQuestion
  \/ Has(q, StockProbes)
  \/ Has(q, VagueProbes) /\ ~Has(q, DomainWords)

Mentions(ecosystem, text) == Has(text, Required[ecosystem])

Leaks(req, text) ==
  /\ ~req.compares /\ req.ecosystem # "basics"
  /\ Has(text, Blocked[req.ecosystem])

Smaller(m, n) == IF m <= n THEN m ELSE n

PlaysRole(ecosystem, place, text) ==
  LET list == RoleWords[ecosystem][Smaller(place, LastLesson)] IN
    list = {} \/ Count(text, list) >= (IF Cardinality(list) >= 5 THEN 2 ELSE 1)

(* The texts that are not blank, in their order. *)
Written(texts) ==
  LET kept[n \in 0..Len(texts)] ==
        IF n = 0 THEN <<>>
        ELSE IF texts[n] = <<>> THEN kept[n - 1] ELSE Append(kept[n - 1], texts[n])
  IN  kept[Len(texts)]

(* validate_ai_learning_lesson_compact *)
Complete(l) ==
  /\ l.t # <<>> /\ l.s # <<>> /\ l.f # <<>> /\ l.q # <<>> /\ l.a # <<>>
  /\ Len(l.e) >= MinExplainer /\ Len(l.w) >= MinWhy /\ Len(l.j) >= MinBridge
  /\ ~GenericQuestion(l.q)
  /\ ~Has(Prose(l), Placeholders)
  /\ Anchored("generic", FullText(l)) /\ Nuanced(FullText(l))
  /\ Len(Written(l.b)) = 3 /\ Len(Written(l.bf)) = 3

-----------------------------------------------------------------------------
(* Repetition of an earlier lesson *)

Fingerprint(text) == SelectSeq(text, LAMBDA word : word \notin Stopwords)

(* A body ends where the shared closing sentences begin. *)
Body(text) ==
  LET ends == {i \in DOMAIN text : text[i] \in Markers} IN
    IF ends = {} THEN text
    ELSE SubSeq(text, 1, (CHOOSE i \in ends : \A j \in ends : i <= j) - 1)

Shingles(text) ==
  LET words == Fingerprint(text) IN
    {SubSeq(words, i, i + ShingleSize - 1) : i \in 1..(Len(words) - ShingleSize + 1)}

Prior(l) ==
  [title |-> Clamp(l.t, TitleLimit), question |-> Clamp(l.q, QuestionLimit),
   summary |-> Clamp(l.e, SummaryLimit), code |-> Clamp(l.s, CodeLimit)]

(* More than 78 of 100 words of the smaller set are shared, or more than 62  *)
(* and three shingles.                                                     *)
Overlaps(l, prior) ==
  LET mine == WordsOf(Fingerprint(l.t \o Body(l.e) \o l.q))
      theirs == WordsOf(Fingerprint(prior.title \o Body(prior.summary) \o prior.question))
      shared == 100 * Cardinality(mine \cap theirs)
      smaller == Smaller(Cardinality(mine), Cardinality(theirs))
      repeated == Cardinality(Shingles(Body(l.e)) \cap Shingles(Body(prior.summary)))
  IN  \/ shared > 78 * smaller
      \/ shared > 62 * smaller /\ repeated >= 3

SameText(text, prior) == Fingerprint(text) # <<>> /\ Fingerprint(text) = Fingerprint(prior)

Repeats(l, prior) ==
  \/ SameText(l.t, prior.title)
  \/ SameText(l.q, prior.question)
  \/ Len(Fingerprint(l.s)) > CodeFloor /\ SameText(l.s, prior.code)
  \/ Overlaps(l, prior)

Redundant(l, earlier) ==
  \E i \in 1..Smaller(Len(earlier), PriorLimit) : Repeats(l, earlier[i])

-----------------------------------------------------------------------------
(* The verdict, and the failures reported with it *)

(* Everything that does not depend on the earlier lessons. *)
Fits(req, l, place) ==
  LET text == FullText(l) IN
    /\ Complete(l)
    /\ Mentions(req.ecosystem, text)
    /\ Anchored(req.ecosystem, text)
    /\ ~Leaks(req, text)
    /\ PlaysRole(req.ecosystem, place, text)

Valid(req, l, place, earlier) == Fits(req, l, place) /\ ~Redundant(l, earlier)

(* The fields that may not be blank, by name. *)
FormFailures(l) ==
  {field \in {"t", "s", "f", "q", "a"} : l[field] = <<>>}

(* ai_learning_lesson_validation_failures: a second rendering of the checks, *)
(* for the log; a rejection it cannot explain is an "unknown" failure.     *)
Failures(req, l, place, earlier) ==
  LET text == FullText(l)
      ecosystem == req.ecosystem
      failed ==
        [short |-> Len(l.e) < MinExplainer,
         why |-> Len(l.w) < MinWhy,
         bridge |-> Len(l.j) < MinBridge,
         question |-> GenericQuestion(l.q),
         placeholder |-> Has(Prose(l), Placeholders),
         anchor |-> ~Anchored("generic", text),
         nuance |-> ~Nuanced(text),
         wrong |-> Len(Written(l.b)) # 3,
         feedback |-> Len(Written(l.bf)) # 3,
         terms |-> ~Mentions(ecosystem, text),
         source |-> ~Anchored(ecosystem, text),
         leak |-> Leaks(req, text),
         role |-> ~PlaysRole(ecosystem, place, text),
         repeated |-> Redundant(l, earlier)]
  IN  FormFailures(l) \cup {check \in DOMAIN failed : failed[check]}

-----------------------------------------------------------------------------
(* Normalisation before the verdict *)

Contains(text, sentence) ==
  \E i \in 0..(Len(text) - Len(sentence)) : SubSeq(text, i + 1, i + Len(sentence)) = sentence

AppendSentence(text, sentence) ==
  IF Contains(text, sentence) THEN text ELSE text \o sentence

Padded(text, minimum, addition) ==
  IF Len(text) >= minimum THEN text ELSE AppendSentence(text, addition)

Explained(l, sentence) == [l EXCEPT !.e = AppendSentence(@, sentence)]

(* normalize_{ton_stonfi,golem,aibtc}_ai_learning_lesson: each addition looks *)
(* at the text the additions before it left.                               *)
Curate(req, place, l) ==
  LET eco == req.ecosystem
      sourced == IF Anchored(eco, FullText(l)) THEN l ELSE Explained(l, SourceSentence[eco])
      nuanced == IF Nuanced(FullText(sourced)) THEN sourced
                 ELSE Explained(sourced, NuanceSentence[eco])
      placed == IF PlaysRole(eco, place, FullText(nuanced)) THEN nuanced
                ELSE Explained(nuanced, RoleSentence[eco][Smaller(place, LastLesson)])
      closed == IF place < LastLesson THEN placed
                ELSE [Explained(placed, Checklist[eco]) EXCEPT
                        !.j = AppendSentence(@, Artifact[eco])]
  IN  IF req.wantsCode
      THEN [closed EXCEPT !.s = CodeLens[eco][Smaller(place, LastLesson)]]
      ELSE closed

Normalize(req, place, l) ==
  LET padded == [l EXCEPT !.w = Padded(@, MinWhy, WhyAddition),
                          !.j = Padded(@, MinBridge, BridgeAddition)]
  IN  IF req.ecosystem \in Curated THEN Curate(req, place, padded) ELSE padded

-----------------------------------------------------------------------------
(* An accepted draft becomes a lesson *)

(* Mutant: blank labels are counted out but not left out. *)
MutantWrongOptions(l) ==
  [i \in 1..3 |-> [label |-> l.b[i], feedback |-> Written(l.bf)[i]]]

(* learning_wrong_options: labels and feedback lose their blanks apart from  *)
(* each other, and are paired then.                                        *)
WrongOptions(l) ==
  [i \in 1..3 |-> [label |-> Written(l.b)[i], feedback |-> Written(l.bf)[i]]]

CorrectIndex(l, place, jitter) == (Smaller(l.ci, 3) + place + jitter) % 4

RightFeedback == <<"Correct">>

(* compact_ai_lesson_to_learning_lesson; options are counted from 1 here. *)
ToLesson(l, place, jitter) ==
  LET correct == CorrectIndex(l, place, jitter) + 1
      wrong == WrongOptions(l)
  IN  [title |-> l.t, why |-> l.w, explanation |-> l.e \o l.s, question |-> l.q,
       bridge |-> l.j, followUp |-> l.f, correct |-> correct,
       options |-> [i \in 1..4 |->
         IF i = correct THEN [label |-> l.a, feedback |-> RightFeedback]
         ELSE wrong[IF i < correct THEN i ELSE i - 1]]]

-----------------------------------------------------------------------------
(* Properties *)

(* The nth of the texts that are not blank. *)
IsNthWritten(texts, n, text) ==
  \E k \in DOMAIN texts :
    /\ text = texts[k] /\ text # <<>>
    /\ Cardinality({i \in 1..k : texts[i] # <<>>}) = n

NoBlank(texts) == \A i \in DOMAIN texts : texts[i] # <<>>

(* Of a lesson, the option marked right, wherever chance puts it, holds the     *)
(* answer, the others the wrong answers in the order written, each with the     *)
(* feedback written for it unless a blank stands between                       *)
(* (learning_wrong_options, compact_ai_lesson_to_learning_lesson).             *)
AnswersStand(l, place, jitter) ==
  LET lesson == ToLesson(l, place, jitter)
      right == lesson.correct
      others == [i \in 1..3 |-> lesson.options[IF i < right THEN i ELSE i + 1]]
  IN
  /\ right \in 1..4
  /\ lesson.options[right].label = l.a
  /\ \A i \in 1..3 : IsNthWritten(l.b, i, others[i].label)
  /\ NoBlank(l.b) /\ NoBlank(l.bf) =>
       \A i \in 1..3 : others[i] = [label |-> l.b[i], feedback |-> l.bf[i]]
=============================================================================
