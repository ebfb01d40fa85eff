------------------------------- MODULE QuestGate -------------------------------
(***************************************************************************)
(* How src/src/lib.rs reads an answer of the AI provider as a quest: the      *)
(* JSON object is cut out of the text, and the quest in it is bounded and      *)
(* checked, once per file and once as a whole.                              *)
(*                                                                           *)
(* A character of the answer is one of its structural characters or another    *)
(* one.  A text of a quest is the set of its words, a phrase being a word.  The *)
(* texts are grouped by who reads them: the title; the story (premise,         *)
(* objective, boss fight); what is asked (question, invariant) and its answer;   *)
(* the hints (attack, focuses, hint); the lens (the explainer's invariant,       *)
(* denial path, artifact, boundary) and its labels (the rest of it).  A file is *)
(* a path and the sequence of its lines.  A text that may not be blank counts by *)
(* being there.                                                             *)
(***************************************************************************)
EXTENDS Integers, Sequences, FiniteSets, SequencesExt, FiniteSetsExt

CONSTANTS
  FileDomain, FileDenial, CodeWords, TestWords,      \* lists for one file
  Domain, Denial, WorkspaceTests, Specific,          \* lists for the workspace
  GenericAnswers, GenericOutput, Scaffold,           \* what a quest may not say
  MinLines, MaxLines,                                \* 220 characters, 95 lines
  ClipNote                                           \* the words of the note on a cut

-----------------------------------------------------------------------------
(* The JSON object in an answer *)

(* Mutant: a quote ends a string even behind a backslash. *)
MutantScan(state, char) ==
  CASE state.inString -> [state EXCEPT !.inString = char # "quote"]
    [] ~state.inString /\ char = "quote" -> [state EXCEPT !.inString = TRUE]
    [] ~state.inString /\ char = "{" -> [state EXCEPT !.depth = @ + 1]
    [] ~state.inString /\ char = "}" -> [state EXCEPT !.depth = IF @ = 0 THEN 0 ELSE @ - 1]
    [] OTHER -> state

(* One character of extract_json_object. *)
Scan(state, char) ==
  CASE state.inString /\ state.escaped -> [state EXCEPT !.escaped = FALSE]
    [] state.inString /\ ~state.escaped ->
         [state EXCEPT !.escaped = char = "backslash", !.inString = char # "quote"]
    [] ~state.inString /\ char = "quote" -> [state EXCEPT !.inString = TRUE]
    [] ~state.inString /\ char = "{" -> [state EXCEPT !.depth = @ + 1]
    [] ~state.inString /\ char = "}" -> [state EXCEPT !.depth = IF @ = 0 THEN 0 ELSE @ - 1]
    [] OTHER -> state

(* extract_json_object, and the whole text where there is no object. *)
Extract(text) ==
  LET opening == {i \in DOMAIN text : text[i] = "{"}
      start == Min(opening)
      before == [inString |-> FALSE, escaped |-> FALSE, depth |-> 0]
      at[i \in (start - 1)..Len(text)] ==
        IF i = start - 1 THEN before ELSE Scan(at[i - 1], text[i])
      ends == {i \in start..Len(text) :
                 text[i] = "}" /\ ~at[i - 1].inString /\ at[i].depth = 0}
  IN  IF opening = {} \/ ends = {} THEN text ELSE SubSeq(text, start, Min(ends))

-----------------------------------------------------------------------------
(* The files of a quest *)

\* A file whose path says so is judged as a test.
IsTest(file) == file.path \cap {"test", "spec"} # {}

Content(file) == UNION ToSet(file.lines)

(* ai_generated_quest_file, on the file as it came. *)
FileFits(file) ==
  /\ Len(file.lines) >= MinLines
  /\ Content(file) \cap FileDomain # {}
  /\ IF IsTest(file)
     THEN Content(file) \cap TestWords # {} /\ Content(file) \cap FileDenial # {}
     ELSE Content(file) \cap CodeWords # {}

AtMost(n, limit) == IF n <= limit THEN n ELSE limit

FirstLines(lines) == SubSeq(lines, 1, AtMost(Len(lines), MaxLines))

(* compact_file_content: a file that is cut ends in a note that says so. *)
Clipped(file) ==
  [file EXCEPT !.lines = IF Len(@) <= MaxLines THEN @ ELSE FirstLines(@) \o <<ClipNote>>]

(* What compact_quest_blueprint leaves of a quest: lists of the lengths asked for, *)
(* three files, and the files cut.                                          *)
Shown(quest) ==
  [quest EXCEPT
    !.gates = AtMost(@, 3), !.hooks = AtMost(@, 2),
    !.steps = AtMost(@, 4), !.prompts = AtMost(@, 4), !.wrong = AtMost(@, 3),
    !.files = [i \in 1..AtMost(Len(@), 3) |-> Clipped(quest.files[i])]]

FileWords(file) == file.path \cup Content(file)
Workspace(quest) == UNION {FileWords(quest.files[i]) : i \in DOMAIN quest.files}

-----------------------------------------------------------------------------
(* The quest as a whole *)

(* compact_code_explainer and compact_challenge_brief: nothing blank, enough   *)
(* steps, prompts and wrong answers; only then are their lists cut.          *)
PartsFit(quest) ==
  /\ quest.blank = {}
  /\ quest.gates >= 3 /\ quest.hooks >= 2
  /\ quest.steps >= 4 /\ quest.prompts >= 4 /\ quest.wrong >= 3

(* validate_quest_quality.  That the explainer's focus is among the words it is *)
(* looked for in, and the objective's among its own, goes without saying once  *)
(* the parts fit; what is left of the latter is a word long enough.          *)
QualityFits(quest) ==
  LET workspace == Workspace(quest)
      challenge == quest.asked \cup quest.answer \cup quest.hints \cup quest.lens \cup quest.labels
  IN
    /\ \E i \in DOMAIN quest.files : ~IsTest(quest.files[i])
    /\ workspace \cap WorkspaceTests # {}
    /\ workspace \cap Domain # {}
    /\ workspace \cap Denial # {}
    /\ workspace \cap Specific \cap challenge # {}
    /\ quest.answer \cap GenericAnswers = {}
    /\ quest.long_objective

(* validate_lesson_quest_alignment: a term of a concept, or three of the lesson. *)
Aligned(quest, context) ==
  LET said == quest.title \cup quest.story \cup quest.asked \cup quest.answer \cup Workspace(quest)
  IN
    /\ said \cap GenericOutput = {}
    /\ \/ said \cap context.concepts # {}
       \/ Cardinality(said \cap context.terms) >= 3

(* validate_no_repeated_lesson_scaffold *)
Original(quest) == (quest.title \cup quest.lens \cup Workspace(quest)) \cap Scaffold = {}

\* A quest that was asked for without a lesson is held to its quality only.
WholeFits(quest, context) ==
  /\ QualityFits(quest)
  /\ context.lesson => Aligned(quest, context) /\ Original(quest)

(* Mutant: the quest is checked before its files are cut. *)
MutantAccepts(quest, context) ==
  /\ PartsFit(quest) /\ Len(quest.files) >= 2
  /\ \A i \in DOMAIN Shown(quest).files : FileFits(quest.files[i])
  /\ WholeFits(quest, context)

(* compact_quest_blueprint: the files are checked one by one as they came, the   *)
(* quest as it is shown.                                                     *)
Accepts(quest, context) ==
  /\ PartsFit(quest) /\ Len(quest.files) >= 2
  /\ \A i \in DOMAIN Shown(quest).files : FileFits(quest.files[i])
  /\ WholeFits(Shown(quest), context)

-----------------------------------------------------------------------------
(* Properties *)

\* A quest as it is shown, but for the notes: what its author wrote of it.
Written(quest) ==
  [Shown(quest) EXCEPT !.files =
    [i \in DOMAIN @ |-> [quest.files[i] EXCEPT !.lines = FirstLines(@)]]]

(* compact_quest_blueprint checks each file before it is cut and the quest       *)
(* afterwards.  A quest it accepts would be accepted again as it is shown,      *)
(* unless a cut file lost what its own check had found; and what is left of its  *)
(* author's words is good enough, unless the lesson is about a word of the note  *)
(* that a cut file ends in: then the note alone can align the quest.           *)
StandsWhenCut(quest, context) ==
  Accepts(quest, context) =>
    LET shown == Shown(quest) IN
      /\ \/ Accepts(shown, context)
         \/ \E i \in DOMAIN shown.files :
              shown.files[i] # quest.files[i] /\ ~FileFits(shown.files[i])
      /\ \/ WholeFits(Written(quest), context)
         \/ (context.concepts \cup context.terms) \cap ClipNote # {}
=============================================================================
