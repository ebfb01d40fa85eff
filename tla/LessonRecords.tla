----------------------------- MODULE LessonRecords -----------------------------
(***************************************************************************)
(* What src/src/lib.rs keeps beside a generated lesson: its quality score,   *)
(* its validation, the status of each place of a module, the evaluation       *)
(* artifacts, and the bounded form a module has once it is saved.  All of it   *)
(* is computed anew on every save and, for statuses and artifacts, on every    *)
(* read.                                                                     *)
(*                                                                           *)
(* A text is what the records look at: the number of its words or the verdict  *)
(* on it, before and after it is cut to its limit.  Cutting a cut text again    *)
(* changes nothing (clamp_text).  Lists are bounded like in the code; the       *)
(* texts of titles, resources and concepts are left out but for their names.   *)
(***************************************************************************)
EXTENDS Integers, Sequences, FiniteSets, FiniteSetsExt, Absent

Places == 5  \* lessons of a module

Defaults == 41  \* resources of a lesson that has none of its own

Least(m, n) == IF m <= n THEN m ELSE n

-----------------------------------------------------------------------------
(* Scores *)

MinExplainer == 500  \* words the gate demands of an explanation
FullDepth == 650     \* words that count as full depth
Threshold == 75      \* a good score
DepthToPass == 60    \* what the refreshed score demands of depth
U16 == 65536         \* the values of a u16
U8 == 256            \* and of a u8

(* Mutant: the words are not limited before the product is taken in 16 bits. *)
MutantDepth(words) == (((words * 100) % U16) \div FullDepth) % U8

(* min(650) words, as a u16, times 100, over 650, as a u8 *)
Depth(words) == ((((IF words <= FullDepth THEN words ELSE FullDepth) * 100) % U16)
                   \div FullDepth) % U8

(* What the gate demanded of the properties the score looks at; it does not    *)
(* look for placeholders in the code lens.                                    *)
GateAccepts(d) ==
  /\ d.words >= MinExplainer
  /\ ~d.generic /\ ~d.placeholder_in_prose /\ d.mentions /\ ~d.leaks

(* learning_quality_score_for_compact: the score of a lesson just generated. *)
DraftScore(d) ==
  LET source == IF d.further_study THEN 100 ELSE 75
      depth == Depth(d.words)
      checkpoint == IF d.generic THEN 35 ELSE 95
      free == ~(d.placeholder_in_prose \/ d.placeholder_in_code)
      aligned == d.mentions /\ ~d.leaks
  IN  [source_coverage |-> source, technical_depth |-> depth,
       checkpoint_quality |-> checkpoint, placeholder_free |-> free,
       ecosystem_alignment |-> aligned,
       passed |-> /\ source >= Threshold /\ depth >= Threshold /\ checkpoint >= Threshold
                  /\ free /\ aligned]

(* refresh_lesson_validation_metadata: the score of a lesson being saved.  It   *)
(* knows no ecosystem, and passes with less depth.                           *)
RefreshedScore(l) ==
  LET source == IF l.evidence = 0 THEN 0 ELSE 100
      depth == Depth(l.words.now)
      checkpoint == IF l.question.now = "generic" THEN 40 ELSE 95
      free == ~l.placeholder /\ l.question.now # "placeholder"
  IN  [source_coverage |-> source, technical_depth |-> depth,
       checkpoint_quality |-> checkpoint, placeholder_free |-> free,
       ecosystem_alignment |-> TRUE,
       passed |-> /\ source >= Threshold /\ depth >= DepthToPass
                  /\ checkpoint >= Threshold /\ free]

-----------------------------------------------------------------------------
(* Validation *)

NoValidation ==
  [source |-> FALSE, depth |-> FALSE, placeholder |-> FALSE, repetition |-> FALSE,
   checkpoint |-> FALSE, alignment |-> FALSE, passed |-> FALSE]

(* validation_state_from_lesson: stricter on depth than the score itself. *)
LessonValidation(evidence, score) ==
  LET source == evidence > 0 /\ score.source_coverage >= Threshold
      depth == score.technical_depth >= Threshold
      checkpoint == score.checkpoint_quality >= Threshold
  IN  [source |-> source, depth |-> depth, placeholder |-> score.placeholder_free,
       repetition |-> TRUE, checkpoint |-> checkpoint,
       alignment |-> score.ecosystem_alignment,
       passed |-> /\ source /\ depth /\ checkpoint /\ score.placeholder_free
                  /\ score.ecosystem_alignment /\ score.passed]

ValidationOf(l) == LessonValidation(l.evidence, l.score)

(* module_has_learning_repetition: fingerprints of titles and questions. *)
HasRepetition(lessons) ==
  \E i, j \in DOMAIN lessons :
    /\ i < j
    /\ \/ lessons[i].title # None /\ lessons[i].title = lessons[j].title
       \/ lessons[i].question.asks # None /\ lessons[i].question.asks = lessons[j].question.asks

(* validation_state_from_module *)
ModuleValidation(lessons) ==
  LET every(check) == \A i \in DOMAIN lessons : ValidationOf(lessons[i])[check]
  IN  IF lessons = <<>> THEN NoValidation
      ELSE [check \in DOMAIN NoValidation |->
              CASE check = "repetition" -> ~HasRepetition(lessons)
                [] check = "passed" -> ~HasRepetition(lessons) /\ every("passed")
                [] OTHER -> every(check)]

(* learning_lesson_eval_warnings, and learning_eval_warnings but for the       *)
(* word lists of two ecosystems.                                             *)
LessonWarnings(l) ==
  {check \in DOMAIN NoValidation \ {"repetition", "passed"} : ~ValidationOf(l)[check]}

ModuleWarnings(lessons) ==
  {<<"module", check>> : check \in
     {c \in DOMAIN NoValidation \ {"passed"} : ~ModuleValidation(lessons)[c]}}
    \cup {<<"lesson", lessons[i].id>> : i \in
            {j \in DOMAIN lessons : LessonWarnings(lessons[j]) # {}}}
    \cup (IF Len(lessons) < Places THEN {<<"module", "short">>} ELSE {})

-----------------------------------------------------------------------------
(* The bounded module *)

FallbackId(place) == <<"lesson-1", "lesson-2", "lesson-3", "lesson-4", "lesson-5">>[place]

Padding == "not enough information"

(* The answer's place, from 0; one that was cut off becomes the first option. *)
Answer(l) == IF l.correct >= 4 THEN 0 ELSE l.correct

(* compact_learning_resources: the defaults are not bounded themselves. *)
Bounded(resources) == IF resources = 0 THEN Defaults ELSE Least(resources, 5)

(* One lesson of compact_learning_module: its score looks at the explanation   *)
(* that was cut and at the question that is still to be cut.                 *)
CompactLesson(l, place) ==
  LET cut == [l EXCEPT !.id = IF @ = None THEN FallbackId(place) ELSE @,
                       !.words.now = l.words.clipped,
                       !.resources = Bounded(@),
                       !.evidence = IF @ = 0 THEN Least(Bounded(l.resources), 3) ELSE @]
      scored == [cut EXCEPT !.score = RefreshedScore(cut)]
  IN  [scored EXCEPT
         !.options = [i \in 1..4 |-> IF i <= Len(@) THEN @[i] ELSE Padding],
         !.correct = Answer(l),
         !.question.now = l.question.clipped]

Blank(l) == l.title = None \/ l.words.now = 0 \/ l.question.asks = None

(* compact_learning_module *)
CompactModule(lessons) ==
  [i \in 1..Least(Len(lessons), Places) |-> CompactLesson(lessons[i], i)]

ModuleError(lessons) == lessons = <<>> \/ \E i \in DOMAIN CompactModule(lessons) :
                                            Blank(CompactModule(lessons)[i])

-----------------------------------------------------------------------------
(* The status of each place *)

Statuses == {"queued", "generating", "ready", "failed", "validated"}

(* normalized_module_generation_status *)
Normalized(status) == IF status \in Statuses THEN status ELSE "queued"

Settled(validation) == IF validation.passed THEN "validated" ELSE "ready"

(* learning_module_statuses_from_module, module_generation_status_for_lesson;   *)
(* places are counted from 0.                                                *)
StatusOf(lessons, place) ==
  IF place < Len(lessons)
  THEN [index |-> place, id |-> lessons[place + 1].id,
        validation |-> ValidationOf(lessons[place + 1]),
        status |-> Settled(ValidationOf(lessons[place + 1]))]
  ELSE [index |-> place, id |-> None, validation |-> NoValidation, status |-> "queued"]

(* A validation stated by the client stands where the lesson's own does not    *)
(* pass, unless it is none.                                                  *)
Kept(stated, lesson) ==
  IF stated = NoValidation \/ ValidationOf(lesson).passed THEN ValidationOf(lesson)
  ELSE stated

MergedStatus(stated, lessons) ==
  LET place == stated.index
      status == Normalized(stated.status)
  IN  IF place < Len(lessons)
      THEN LET lesson == lessons[place + 1]
               kept == Kept(stated.validation, lesson)
           IN  [index |-> place, id |-> IF stated.id = None THEN lesson.id ELSE stated.id,
                validation |-> kept,
                status |-> IF status \in {"failed", "generating"} THEN status
                           ELSE Settled(kept)]
      ELSE [stated EXCEPT !.status = status]

(* compact_module_generation_statuses: of several for a place the last stands; *)
(* one beyond the module's places is dropped.                                *)
MergeStatuses(stated, lessons) ==
  [i \in 1..Places |->
    LET mine == {n \in DOMAIN stated : stated[n].index = i - 1}
    IN  IF mine = {} THEN StatusOf(lessons, i - 1)
        ELSE MergedStatus(stated[Max(mine)], lessons)]

-----------------------------------------------------------------------------
(* Evaluation artifacts: the lessons each reports on, by id as it is and as it is cut *)

IdsOf(lessons) == {lessons[i].id : i \in DOMAIN lessons}

(* The lesson an artifact is filed under: the first it reports that is here. *)
Filed(artifact, lessons) ==
  LET known == {i \in DOMAIN artifact.reports : artifact.reports[i].now \in IdsOf(lessons)}
  IN  IF known = {} THEN None ELSE artifact.reports[Min(known)].now

(* compact_learning_eval_artifact: a bounded number of reports, each with its   *)
(* id cut.                                                                   *)
Trimmed(artifact) ==
  [artifact EXCEPT !.reports =
     [i \in 1..Least(Len(@), Places) |-> [now |-> @[i].clipped, clipped |-> @[i].clipped]]]

(* No later artifact is filed under the same lesson. *)
Newest(artifacts, lessons, n) ==
  /\ Filed(artifacts[n], lessons) # None
  /\ \A m \in (n + 1)..Len(artifacts) :
       Filed(artifacts[m], lessons) # Filed(artifacts[n], lessons)

(* Mutant: what was collected from the newest to the oldest is not turned back. *)
MutantLatest(artifacts, lessons) ==
  LET places[n \in 0..Len(artifacts)] ==
        IF n = 0 THEN <<>>
        ELSE IF Newest(artifacts, lessons, n) THEN <<n>> \o places[n - 1] ELSE places[n - 1]
  IN  places[Len(artifacts)]

(* Where the latest artifact of each lesson stands, in the order they came; the *)
(* code reads from the end and turns the result.  There are never more than     *)
(* lessons, so the bound on their number does not bite.                       *)
Latest(artifacts, lessons) ==
  LET places[n \in 0..Len(artifacts)] ==
        IF n = 0 THEN <<>>
        ELSE IF Newest(artifacts, lessons, n) THEN Append(places[n - 1], n) ELSE places[n - 1]
  IN  places[Len(artifacts)]

(* compact_learning_eval_artifacts *)
CompactArtifacts(artifacts, lessons) ==
  [i \in DOMAIN Latest(artifacts, lessons) |-> Trimmed(artifacts[Latest(artifacts, lessons)[i]])]

-----------------------------------------------------------------------------
(* A session on its way through the database *)

(* save_learning_session, of what is kept beside the module. *)
Save(s) ==
  LET lessons == CompactModule(s.lessons) IN
    [lessons |-> lessons, statuses |-> MergeStatuses(s.statuses, lessons),
     artifacts |-> CompactArtifacts(s.artifacts, lessons)]

(* LearningSessionRecord::from: the module is read as it was stored. *)
Read(s) ==
  [s EXCEPT !.statuses = MergeStatuses(@, s.lessons),
            !.artifacts = CompactArtifacts(@, s.lessons)]

-----------------------------------------------------------------------------
(* Properties *)

(* A lesson the gate accepted is good by its own score, whatever its length    *)
(* and whatever its provider wrote, unless its code lens holds a placeholder:  *)
(* three thresholds, a percentage in bytes and two word lists agree            *)
(* (learning_quality_score_for_compact, validation_state_from_lesson).         *)
AcceptedIsValidated(d) ==
  GateAccepts(d) /\ ~d.placeholder_in_code => LessonValidation(3, DraftScore(d)).passed

(* What was saved is what is read, and saving it once more changes nothing      *)
(* (save_learning_session, LearningSessionRecord::from).  Three exceptions: an   *)
(* artifact that is filed otherwise once its reports are cut, those beyond the   *)
(* fifth left out, is read otherwise; a question judged otherwise once it is     *)
(* cut is scored anew; and default resources are cut to the limit only when    *)
(* they come back.                                                           *)
SavedReadsBack(s) ==
  ~ModuleError(s.lessons) =>
    LET saved == Save(s)
        filedAlike == \A n \in DOMAIN s.artifacts :
          Filed(Trimmed(s.artifacts[n]), saved.lessons) = Filed(s.artifacts[n], saved.lessons)
    IN
      /\ filedAlike => Read(saved) = saved
      /\ filedAlike /\ (\A i \in DOMAIN s.lessons :
             /\ s.lessons[i].question.now = s.lessons[i].question.clipped
             /\ s.lessons[i].resources > 0)
           => Save(Read(saved)) = saved

(* The stored status of a place that holds a lesson tells its stored           *)
(* validation, and a lesson that passes is never kept as one that does not,     *)
(* whatever the client says; a module that did not pass has a warning that       *)
(* says why (compact_module_generation_statuses, learning_eval_warnings).     *)
StatusesTell(s) ==
  ~ModuleError(s.lessons) =>
    LET saved == Save(s) IN
      /\ \A i \in DOMAIN saved.lessons :
           LET status == saved.statuses[i] IN
             /\ status.status \in {"failed", "generating", "ready", "validated"}
             /\ status.status = "validated" => status.validation.passed
             /\ status.status = "ready" => ~status.validation.passed
             /\ ValidationOf(saved.lessons[i]).passed => status.validation.passed
      /\ ModuleWarnings(saved.lessons) = {} => ModuleValidation(saved.lessons).passed

(* The option marked as the answer is one that is shown, and it is the one       *)
(* that was marked before unless that one was cut off                          *)
(* (compact_learning_module).                                                *)
AnswerIsShown(s) ==
  ~ModuleError(s.lessons) =>
    \A i \in DOMAIN CompactModule(s.lessons) :
      LET was == s.lessons[i]
          is == CompactModule(s.lessons)[i]
      IN  /\ is.correct + 1 \in DOMAIN is.options
          /\ was.correct < Least(Len(was.options), 4)
               => is.options[is.correct + 1] = was.options[was.correct + 1]

(* Every lesson some artifact is filed under keeps its latest one, and no more    *)
(* artifacts are kept than a module has places, though nothing counts them      *)
(* against that bound (compact_learning_eval_artifacts).                      *)
LatestArtifactsAreKept(s) ==
  ~ModuleError(s.lessons) =>
    LET saved == Save(s)
        filed(n) == Filed(s.artifacts[n], saved.lessons)
    IN
      /\ Len(saved.artifacts) <= Places
      /\ \A id \in IdsOf(saved.lessons) :
           LET mine == {n \in DOMAIN s.artifacts : filed(n) = id} IN
             mine # {} => \E i \in DOMAIN saved.artifacts :
                            saved.artifacts[i] = Trimmed(s.artifacts[Max(mine)])
=============================================================================
