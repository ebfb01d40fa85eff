-------------------------- MODULE TutorArtifactCache --------------------------
(***************************************************************************)
(* TutorArtifactCache of src/src/curriculum.rs: a bounded map of tutor       *)
(* answers that concurrent calls of `resolve` share.  A call brings a        *)
(* learner's context and, if a provider answered, its artifact; without one  *)
(* the cache or a fallback made of reviewed lesson text must do.             *)
(*                                                                           *)
(* One action stands for what a call does while it holds the lock, together  *)
(* with the checks around it, which read nothing shared.  A text is the      *)
(* sequence of its words, a limit in characters a limit in words.            *)
(***************************************************************************)
EXTENDS Integers, Sequences, FiniteSets

CONSTANTS
  Calls,          \* concurrent calls of resolve
  Contexts,       \* learner contexts, right and wrong
  Candidates,     \* artifacts a provider may hand in, right and wrong
  Lessons,        \* of the curriculum manifest
  SourcesOf, AnchorsOf, LessonText, Checkpoint,  \* functions of the lesson
  Modes, Version, Generic,                       \* of the tutor contract
  MaxPrompt, MaxOutput, MaxAnswer,
  MaxEntries,     \* what the cache was made for
  Separator,      \* the byte 0 that the key's digest is fed between fields
  Rank,           \* order of the digests of keys
  None

VARIABLES
  artifacts,  \* the map: key -> artifact, or None
  pc,         \* per call: idle, or past its look-up and building a fallback
  context,    \* the context it resolves
  answer,     \* the last answer of any call: a result, for which context, and an artifact
  racing      \* history: per key, the calls that were building a fallback for it
              \* when a provider's artifact was accepted
vars == <<artifacts, pc, context, answer, racing>>

Bound == IF MaxEntries < 1 THEN 1 ELSE MaxEntries

Blank(text) == Len(text) = 0
WordsOf(text) == {text[i] : i \in DOMAIN text}

-----------------------------------------------------------------------------
(* What is checked *)

(* validate_tutor_context *)
InBoundary(c) ==
  /\ c.version = Version
  /\ c.mode \in Modes
  /\ ~Blank(c.prompt) /\ Len(c.prompt) <= MaxPrompt
  /\ Len(c.output) <= MaxOutput
  /\ c.lesson \in Lessons

(* Mutant: the lesson is left out of the key. *)
MutantKeyOf(c) == <<c.version, c.mode, c.prompt \o <<Separator>> \o c.output>>

(* tutor_cache_key: what is digested.  The prompt may hold the separator, so  *)
(* two contexts of one lesson can have one key.                             *)
KeyOf(c) == <<c.lesson, c.version, c.mode, c.prompt \o <<Separator>> \o c.output>>

Keys == {KeyOf(c) : c \in Contexts}

(* validate_tutor_artifact: the first thing that is wrong. *)
ArtifactError(c, a) ==
  IF \/ a.lesson # c.lesson \/ a.version # c.version \/ a.mode # c.mode
     \/ Blank(a.answer) \/ Blank(a.next)
  THEN "InvalidContext"
  ELSE IF Len(a.answer) > MaxAnswer THEN "ResponseTooLong"
  ELSE IF a.cites = {} \/ ~(a.cites \subseteq SourcesOf[c.lesson])
  THEN "UnsupportedCitation"
  ELSE IF \/ WordsOf(a.answer) \cap Generic # {}
          \/ Cardinality(WordsOf(a.answer) \cap AnchorsOf[c.lesson]) < 2
  THEN "GenericResponse"
  ELSE "none"

(* reviewed_fallback *)
Fallback(c) ==
  [lesson |-> c.lesson, version |-> c.version, mode |-> c.mode,
   answer |-> LessonText[c.lesson], cites |-> SourcesOf[c.lesson],
   next |-> Checkpoint[c.lesson], origin |-> "ReviewedFallback"]

Artifacts == Candidates \cup {Fallback(c) : c \in {d \in Contexts : d.lesson \in Lessons}}

(* The digest tells keys apart, and the lessons' own texts satisfy the       *)
(* contract (they are embedded documents).                                 *)
CacheAssumption ==
  /\ IsFiniteSet(Contexts)
  /\ MaxEntries \in Nat
  /\ Rank \in [Keys -> Nat]
  /\ \A j, k \in Keys : Rank[j] = Rank[k] => j = k
  /\ None \notin Artifacts /\ None \notin Contexts
  /\ \A a \in Candidates : a.origin = "Provider"
  /\ \A c \in Contexts : InBoundary(c) => ArtifactError(c, Fallback(c)) = "none"
ASSUME CacheIsConfigured == CacheAssumption

-----------------------------------------------------------------------------
(* The map *)

Held == {k \in Keys : artifacts[k] # None}

(* What insert's loop leaves: while the map is full and the key is not in    *)
(* it, the smallest key goes, whoever inserted it and when.                 *)
Trimmed(key) ==
  {kept \in SUBSET Held :
     /\ \A k \in kept, j \in Held \ kept : Rank[j] < Rank[k]
     /\ IF key \in Held \/ Cardinality(Held) < Bound THEN kept = Held
        ELSE Cardinality(kept) = Bound - 1}

(* Mutant: the entry is inserted first, and the smallest key goes then. *)
MutantInsert(key, a) ==
  \E kept \in {some \in SUBSET (Held \cup {key}) :
                 /\ \A k \in some, j \in (Held \cup {key}) \ some : Rank[j] < Rank[k]
                 /\ Cardinality(some) = IF Cardinality(Held \cup {key}) <= Bound
                                        THEN Cardinality(Held \cup {key}) ELSE Bound} :
    artifacts' = [k \in Keys |-> IF k \notin kept THEN None
                                 ELSE IF k = key THEN a ELSE artifacts[k]]

(* insert, under the write lock *)
Insert(key, a) ==
  \E kept \in Trimmed(key) :
    artifacts' = [k \in Keys |-> IF k = key THEN a
                                 ELSE IF k \in kept THEN artifacts[k] ELSE None]

-----------------------------------------------------------------------------
(* resolve *)

Init ==
  /\ artifacts = [k \in Keys |-> None]
  /\ pc = [r \in Calls |-> "idle"]
  /\ context = [r \in Calls |-> None]
  /\ answer = None
  /\ racing = [k \in Keys |-> {}]

Give(c, result, a) == answer' = [result |-> result, to |-> c, artifact |-> a]

Building(k) == {r \in Calls : pc[r] = "building" /\ KeyOf(context[r]) = k}

RefuseContext(r, c) ==
  /\ pc[r] = "idle"
  /\ ~InBoundary(c)
  /\ Give(c, "InvalidContext", None)
  /\ UNCHANGED <<artifacts, pc, context, racing>>

RefuseCandidate(r, c, a) ==
  /\ pc[r] = "idle"
  /\ InBoundary(c)
  /\ ArtifactError(c, a) # "none"
  /\ Give(c, ArtifactError(c, a), None)
  /\ UNCHANGED <<artifacts, pc, context, racing>>

(* A candidate that passes is cached, over whatever was there. *)
AcceptCandidate(r, c, a) ==
  /\ pc[r] = "idle"
  /\ InBoundary(c)
  /\ ArtifactError(c, a) = "none"
  /\ Insert(KeyOf(c), a)
  /\ Give(c, "ok", a)
  /\ racing' = [racing EXCEPT ![KeyOf(c)] = Building(KeyOf(c))]
  /\ UNCHANGED <<pc, context>>

(* Without a candidate, under the read lock. *)
LookupHit(r, c) ==
  /\ pc[r] = "idle"
  /\ InBoundary(c)
  /\ artifacts[KeyOf(c)] # None
  /\ Give(c, "ok", artifacts[KeyOf(c)])
  /\ UNCHANGED <<artifacts, pc, context, racing>>

(* Mutant: only what a provider wrote is not built again. *)
MutantLookupMiss(r, c) ==
  /\ pc[r] = "idle"
  /\ InBoundary(c)
  /\ pc' = [pc EXCEPT ![r] = "building"]
  /\ context' = [context EXCEPT ![r] = c]
  /\ UNCHANGED <<artifacts, answer, racing>>

LookupMiss(r, c) ==
  /\ pc[r] = "idle"
  /\ InBoundary(c)
  /\ artifacts[KeyOf(c)] = None
  /\ pc' = [pc EXCEPT ![r] = "building"]
  /\ context' = [context EXCEPT ![r] = c]
  /\ UNCHANGED <<artifacts, answer, racing>>

(* The fallback is built and checked with no lock, and inserted like a        *)
(* candidate: the look-up is not repeated.                                  *)
ResolveFallback(r) ==
  /\ pc[r] = "building"
  /\ LET c == context[r] IN
       IF ArtifactError(c, Fallback(c)) = "none"
       THEN Insert(KeyOf(c), Fallback(c)) /\ Give(c, "ok", Fallback(c))
       ELSE Give(c, ArtifactError(c, Fallback(c)), None) /\ UNCHANGED artifacts
  /\ pc' = [pc EXCEPT ![r] = "idle"]
  /\ context' = [context EXCEPT ![r] = None]
  /\ UNCHANGED racing

Next ==
  \E r \in Calls :
    \/ \E c \in Contexts : RefuseContext(r, c) \/ LookupHit(r, c) \/ LookupMiss(r, c)
    \/ \E c \in Contexts, a \in Candidates : RefuseCandidate(r, c, a) \/ AcceptCandidate(r, c, a)
    \/ ResolveFallback(r)

Spec == Init /\ [][Next]_vars

-----------------------------------------------------------------------------
(* Properties *)

TypeOK ==
  /\ artifacts \in [Keys -> Artifacts \cup {None}]
  /\ pc \in [Calls -> {"idle", "building"}]
  /\ context \in [Calls -> Contexts \cup {None}]
  /\ racing \in [Keys -> SUBSET Calls]

Reviewed(c, a) == InBoundary(c) /\ ArtifactError(c, a) = "none"

(* The cache never outgrows its bound; what it holds is, for every context    *)
(* with that key, an artifact that was reviewed for it, and so is every       *)
(* answer: also one cached for another context whose prompt and test output   *)
(* run together to the same key (resolve, insert, tutor_cache_key).         *)
CacheIsSound ==
  /\ Cardinality(Held) <= Bound
  /\ \A c \in Contexts :
       InBoundary(c) /\ artifacts[KeyOf(c)] # None => Reviewed(c, artifacts[KeyOf(c)])
  /\ answer # None /\ answer.result = "ok" => Reviewed(answer.to, answer.artifact)

(* What a call is answered with is in the cache at that moment, for the next  *)
(* one to find: the eviction that makes room for an entry does not take it     *)
(* away, even where it is the smallest key (insert's loop).                 *)
AnswerIsCached ==
  [][answer' # answer /\ answer'.result = "ok" =>
       artifacts'[KeyOf(answer'.to)] = answer'.artifact]_vars

(* A fallback replaces a provider's artifact only in a race: the call that     *)
(* inserts it had looked before the artifact was accepted (resolve, which      *)
(* lets go of the lock between its look-up and its insert).                  *)
FallbackYields ==
  [][\A k \in Keys :
       /\ artifacts[k] # None /\ artifacts[k].origin = "Provider"
       /\ artifacts'[k] # None /\ artifacts'[k].origin = "ReviewedFallback"
       => \E r \in racing[k] : pc[r] = "building" /\ pc'[r] = "idle"]_vars

(* Where a call is, behind the properties. *)
CallInv ==
  \A r \in Calls :
    /\ pc[r] = "building" => context[r] \in Contexts /\ InBoundary(context[r])
    /\ pc[r] = "building" /\ artifacts[KeyOf(context[r])] # None
         /\ artifacts[KeyOf(context[r])].origin = "Provider" =>
           r \in racing[KeyOf(context[r])]

IInv == TypeOK /\ CacheIsSound /\ CallInv
===============================================================================
