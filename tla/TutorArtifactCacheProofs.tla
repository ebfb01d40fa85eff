----------------------- MODULE TutorArtifactCacheProofs -----------------------
(***************************************************************************)
(* TutorArtifactCache for any calls, contexts, candidates and bound: the     *)
(* invariant behind its properties, and the properties.                      *)
(***************************************************************************)
EXTENDS TutorArtifactCache, Functions, FiniteSetTheorems, TLAPS

-----------------------------------------------------------------------------
(* Keys and reviews *)

LEMMA KeysAreFinite == IsFiniteSet(Keys)
<1> DEFINE key == [c \in Contexts |-> KeyOf(c)]
<1>1. key \in Surjection(Contexts, Keys)
  BY DEF Surjection, Keys
<1>2. IsFiniteSet(Contexts)
  BY CacheIsConfigured DEF CacheAssumption
<1> QED  BY <1>1, <1>2, FS_Surjection

(* Two contexts of one key are judged alike: the key holds all that            *)
(* validate_tutor_artifact reads of a context (tutor_cache_key).             *)
LEMMA KeyDecidesReview ==
  ASSUME NEW c, NEW d, KeyOf(c) = KeyOf(d), NEW a
  PROVE  ArtifactError(c, a) = ArtifactError(d, a)
<1>1. c.lesson = d.lesson /\ c.version = d.version /\ c.mode = d.mode
  BY DEF KeyOf
<1> QED  BY <1>1 DEF ArtifactError

LEMMA FallbackIsReviewed ==
  ASSUME NEW c \in Contexts, InBoundary(c)
  PROVE  /\ Fallback(c) \in Artifacts
         /\ Reviewed(c, Fallback(c))
         /\ Fallback(c).origin = "ReviewedFallback"
<1>1. c.lesson \in Lessons
  BY DEF InBoundary
<1>2. Fallback(c) \in Artifacts
  BY <1>1 DEF Artifacts
<1>3. Reviewed(c, Fallback(c))
  BY CacheIsConfigured DEF CacheAssumption, Reviewed
<1>4. Fallback(c).origin = "ReviewedFallback"
  BY DEF Fallback
<1> QED  BY <1>2, <1>3, <1>4

-----------------------------------------------------------------------------
(* What an insert leaves *)

LEMMA InsertKeepsBound ==
  ASSUME TypeOK, CacheIsSound, NEW key \in Keys, NEW a \in Artifacts, Insert(key, a)
  PROVE  /\ artifacts' \in [Keys -> Artifacts \cup {None}]
         /\ artifacts'[key] = a
         /\ \A k \in Keys \ {key} : artifacts'[k] \in {artifacts[k], None}
         /\ Cardinality(Held') <= Bound
<1>1. PICK kept \in Trimmed(key) :
         artifacts' = [k \in Keys |-> IF k = key THEN a
                                      ELSE IF k \in kept THEN artifacts[k] ELSE None]
  BY DEF Insert
<1>2. artifacts' \in [Keys -> Artifacts \cup {None}]
  BY <1>1 DEF TypeOK
<1>3. artifacts'[key] = a
  BY <1>1
<1>4. \A k \in Keys \ {key} : artifacts'[k] \in {artifacts[k], None}
  BY <1>1
<1>5. kept \subseteq Held /\ IsFiniteSet(kept) /\ IsFiniteSet(Held)
  <2>1. kept \subseteq Held /\ Held \subseteq Keys
    BY <1>1 DEF Trimmed, Held
  <2> QED  BY <2>1, KeysAreFinite, FS_Subset
<1>6. Held' \subseteq kept \cup {key}
  BY <1>1 DEF Held
<1>7. IsFiniteSet(kept \cup {key}) /\ Cardinality(Held') <= Cardinality(kept \cup {key})
  BY <1>5, <1>6, FS_AddElement, FS_Subset
<1>8. Bound \in Nat /\ Bound >= 1
  BY CacheIsConfigured DEF CacheAssumption, Bound
<1>9. Cardinality(kept) \in Nat /\ Cardinality(Held) \in Nat
  BY <1>5, FS_CardinalityType
<1>10. Cardinality(kept \cup {key}) <= Bound
  <2>1. CASE key \in Held
    <3>1. kept = Held
      BY <1>1, <2>1 DEF Trimmed
    <3>2. kept \cup {key} = Held
      BY <3>1, <2>1
    <3> QED  BY <3>2 DEF CacheIsSound
  <2>2. CASE key \notin Held /\ Cardinality(Held) < Bound
    <3>1. kept = Held
      BY <1>1, <2>2 DEF Trimmed
    <3>2. Cardinality(kept \cup {key}) = Cardinality(Held) + 1
      BY <3>1, <2>2, <1>5, FS_AddElement
    <3> QED  BY <3>2, <2>2, <1>8, <1>9
  <2>3. CASE key \notin Held /\ ~(Cardinality(Held) < Bound)
    <3>1. Cardinality(kept) = Bound - 1
      BY <1>1, <2>3 DEF Trimmed
    <3>2. key \notin kept
      BY <2>3, <1>5
    <3>3. Cardinality(kept \cup {key}) = Cardinality(kept) + 1
      BY <3>2, <1>5, FS_AddElement
    <3> QED  BY <3>1, <3>3, <1>8, <1>9
  <2> QED  BY <2>1, <2>2, <2>3
<1>11. Cardinality(Held') <= Bound
  <2>1. Cardinality(kept \cup {key}) \in Nat
    BY <1>7, FS_CardinalityType
  <2>2. IsFiniteSet(Held')
    BY <1>6, <1>7, FS_Subset
  <2>3. Cardinality(Held') \in Nat
    BY <2>2, FS_CardinalityType
  <2> QED  BY <1>7, <1>8, <1>10, <2>1, <2>3
<1> QED  BY <1>2, <1>3, <1>4, <1>11

(* An insert of an artifact that was reviewed for its key keeps the cache      *)
(* sound.                                                                    *)
LEMMA InsertKeepsSound ==
  ASSUME TypeOK, CacheIsSound, NEW c \in Contexts, NEW a \in Artifacts,
         Reviewed(c, a), Insert(KeyOf(c), a), Give(c, "ok", a)
  PROVE  /\ artifacts' \in [Keys -> Artifacts \cup {None}]
         /\ CacheIsSound'
<1>1. KeyOf(c) \in Keys
  BY DEF Keys
<1>2. /\ artifacts' \in [Keys -> Artifacts \cup {None}]
      /\ artifacts'[KeyOf(c)] = a
      /\ \A k \in Keys \ {KeyOf(c)} : artifacts'[k] \in {artifacts[k], None}
      /\ Cardinality(Held') <= Bound
  BY <1>1, InsertKeepsBound
<1>3. ASSUME NEW d \in Contexts, InBoundary(d), artifacts'[KeyOf(d)] # None
      PROVE  Reviewed(d, artifacts'[KeyOf(d)])
  <2>1. KeyOf(d) \in Keys
    BY DEF Keys
  <2>2. CASE KeyOf(d) = KeyOf(c)
    <3>1. ArtifactError(d, a) = "none"
      BY <2>2, KeyDecidesReview DEF Reviewed
    <3> QED  BY <3>1, <2>2, <1>2, <1>3 DEF Reviewed
  <2>3. CASE KeyOf(d) # KeyOf(c)
    BY <2>1, <2>3, <1>2, <1>3 DEF CacheIsSound
  <2> QED  BY <2>2, <2>3
<1>4. answer'.result = "ok" => Reviewed(answer'.to, answer'.artifact)
  BY DEF Give
<1>5. CacheIsSound'
  <2>1. \A d \in Contexts : InBoundary(d) /\ artifacts'[KeyOf(d)] # None
                              => Reviewed(d, artifacts'[KeyOf(d)])
    BY <1>3
  <2>2. Bound' = Bound
    BY DEF Bound
  <2> QED  BY <1>2, <1>4, <2>1 DEF CacheIsSound, Reviewed, InBoundary, ArtifactError, Blank, WordsOf, KeyOf
<1> QED  BY <1>2, <1>5

-----------------------------------------------------------------------------
(* The invariant *)

LEMMA InitIInv == Init => IInv
<1> SUFFICES ASSUME Init PROVE IInv
  OBVIOUS
<1>1. TypeOK
  BY DEF Init, TypeOK
<1>2. \A c \in Contexts : KeyOf(c) \in Keys
  BY DEF Keys
<1>3. Held = {} /\ Cardinality({}) = 0
  BY FS_EmptySet DEF Init, Held
<1>4. CacheIsSound
  <2>1. Cardinality(Held) <= Bound
    BY <1>3, CacheIsConfigured DEF CacheAssumption, Bound
  <2> QED  BY <1>2, <2>1 DEF Init, CacheIsSound
<1>5. CallInv
  BY <1>2 DEF Init, CallInv
<1> QED  BY <1>1, <1>4, <1>5 DEF IInv

LEMMA NextIInv == IInv /\ [Next]_vars => IInv'
<1> SUFFICES ASSUME IInv, [Next]_vars PROVE IInv'
  OBVIOUS
<1> USE DEF IInv
<1>1. ASSUME NEW r \in Calls, NEW c \in Contexts, RefuseContext(r, c)
      PROVE  IInv'
  <2>1. TypeOK' /\ CallInv'
    BY <1>1 DEF RefuseContext, TypeOK, CallInv
  <2>2. CacheIsSound'
    BY <1>1 DEF RefuseContext, Give, CacheIsSound, Held
  <2> QED  BY <2>1, <2>2
<1>2. ASSUME NEW r \in Calls, NEW c \in Contexts, LookupHit(r, c)
      PROVE  IInv'
  <2>1. TypeOK' /\ CallInv'
    BY <1>2 DEF LookupHit, TypeOK, CallInv
  <2>2. CacheIsSound'
    BY <1>2 DEF LookupHit, Give, CacheIsSound, Held
  <2> QED  BY <2>1, <2>2
<1>3. ASSUME NEW r \in Calls, NEW c \in Contexts, LookupMiss(r, c)
      PROVE  IInv'
  <2>1. TypeOK'
    BY <1>3 DEF LookupMiss, TypeOK
  <2>2. CacheIsSound'
    BY <1>3 DEF LookupMiss, CacheIsSound, Held
  <2>3. CallInv'
    BY <1>3 DEF LookupMiss, CallInv, TypeOK
  <2> QED  BY <2>1, <2>2, <2>3
<1>4. ASSUME NEW r \in Calls, NEW c \in Contexts, NEW a \in Candidates,
             RefuseCandidate(r, c, a)
      PROVE  IInv'
  <2>1. TypeOK' /\ CallInv'
    BY <1>4 DEF RefuseCandidate, TypeOK, CallInv
  <2>2. ArtifactError(c, a) # "ok"
    BY DEF ArtifactError
  <2>3. CacheIsSound'
    BY <1>4, <2>2 DEF RefuseCandidate, Give, CacheIsSound, Held
  <2> QED  BY <2>1, <2>3
<1>5. ASSUME NEW r \in Calls, NEW c \in Contexts, NEW a \in Candidates,
             AcceptCandidate(r, c, a)
      PROVE  IInv'
  <2>1. /\ a \in Artifacts /\ Reviewed(c, a) /\ Insert(KeyOf(c), a) /\ Give(c, "ok", a)
        /\ racing' = [racing EXCEPT ![KeyOf(c)] = Building(KeyOf(c))]
        /\ UNCHANGED <<pc, context>>
    BY <1>5 DEF AcceptCandidate, Artifacts, Reviewed
  <2>2. artifacts' \in [Keys -> Artifacts \cup {None}] /\ CacheIsSound'
    BY <2>1, InsertKeepsSound
  <2>3. /\ KeyOf(c) \in Keys
        /\ \A k \in Keys \ {KeyOf(c)} : artifacts'[k] \in {artifacts[k], None}
    BY <2>1, InsertKeepsBound DEF Keys
  <2>4. Building(KeyOf(c)) \subseteq Calls
    BY DEF Building
  <2>5. TypeOK'
    BY <2>1, <2>2, <2>4 DEF TypeOK
  <2>6. CallInv'
    <3> SUFFICES ASSUME NEW s \in Calls, pc[s] = "building"
                 PROVE  /\ context[s] \in Contexts /\ InBoundary(context[s])
                        /\ /\ artifacts'[KeyOf(context[s])] # None
                           /\ artifacts'[KeyOf(context[s])].origin = "Provider"
                           => s \in racing'[KeyOf(context[s])]
      BY <2>1 DEF CallInv
    <3>1. context[s] \in Contexts /\ InBoundary(context[s]) /\ KeyOf(context[s]) \in Keys
      BY DEF CallInv, Keys
    <3>2. CASE KeyOf(context[s]) = KeyOf(c)
      BY <2>1, <2>3, <3>1, <3>2 DEF Building, TypeOK
    <3>3. CASE KeyOf(context[s]) # KeyOf(c)
      BY <2>1, <2>3, <3>1, <3>3 DEF CallInv, TypeOK
    <3> QED  BY <3>2, <3>3
  <2> QED  BY <2>2, <2>5, <2>6
<1>6. ASSUME NEW r \in Calls, ResolveFallback(r)
      PROVE  IInv'
  <2> DEFINE c == context[r]
  <2>1. c \in Contexts /\ InBoundary(c)
    BY <1>6 DEF ResolveFallback, CallInv
  <2>2. /\ Fallback(c) \in Artifacts /\ Reviewed(c, Fallback(c))
        /\ Fallback(c).origin = "ReviewedFallback"
    BY <2>1, FallbackIsReviewed
  <2>3. /\ Insert(KeyOf(c), Fallback(c)) /\ Give(c, "ok", Fallback(c))
        /\ pc' = [pc EXCEPT ![r] = "idle"] /\ context' = [context EXCEPT ![r] = None]
        /\ racing' = racing
    BY <1>6, <2>2 DEF ResolveFallback, Reviewed
  <2> HIDE DEF c
  <2>4. artifacts' \in [Keys -> Artifacts \cup {None}] /\ CacheIsSound'
    BY <2>1, <2>2, <2>3, InsertKeepsSound
  <2>5. /\ KeyOf(c) \in Keys /\ artifacts'[KeyOf(c)] = Fallback(c)
        /\ \A k \in Keys \ {KeyOf(c)} : artifacts'[k] \in {artifacts[k], None}
    BY <2>1, <2>2, <2>3, InsertKeepsBound DEF Keys
  <2>6. TypeOK'
    BY <2>3, <2>4 DEF TypeOK
  <2>7. CallInv'
    <3> SUFFICES ASSUME NEW s \in Calls \ {r}, pc[s] = "building"
                 PROVE  /\ context[s] \in Contexts /\ InBoundary(context[s])
                        /\ /\ artifacts'[KeyOf(context[s])] # None
                           /\ artifacts'[KeyOf(context[s])].origin = "Provider"
                           => s \in racing[KeyOf(context[s])]
      BY <2>3 DEF CallInv, TypeOK
    <3>1. context[s] \in Contexts /\ InBoundary(context[s]) /\ KeyOf(context[s]) \in Keys
      BY DEF CallInv, Keys
    <3>2. CASE KeyOf(context[s]) = KeyOf(c)
      BY <2>2, <2>5, <3>1, <3>2
    <3>3. CASE KeyOf(context[s]) # KeyOf(c)
      BY <2>5, <3>1, <3>3 DEF CallInv
    <3> QED  BY <3>2, <3>3
  <2> QED  BY <2>4, <2>6, <2>7
<1>7. CASE UNCHANGED vars
  <2>1. TypeOK' /\ CallInv'
    BY <1>7 DEF vars, TypeOK, CallInv
  <2>2. CacheIsSound'
    BY <1>7 DEF vars, CacheIsSound, Held
  <2> QED  BY <2>1, <2>2
<1> QED  BY <1>1, <1>2, <1>3, <1>4, <1>5, <1>6, <1>7 DEF Next

THEOREM InvariantHolds == Spec => []IInv
<1> QED  BY InitIInv, NextIInv, PTL DEF Spec

-----------------------------------------------------------------------------
(* The properties *)

(* The variables are what they are meant to be.                              *)
THEOREM TypesAreKept == Spec => []TypeOK
<1>1. IInv => TypeOK
  BY DEF IInv
<1> QED  BY <1>1, InvariantHolds, PTL

(* The cache keeps its bound, and every answer was reviewed for the context it  *)
(* is given to, for any calls, contexts and bound (resolve, insert).          *)
THEOREM TheCacheIsSound == Spec => []CacheIsSound
<1>1. IInv => CacheIsSound
  BY DEF IInv
<1> QED  BY <1>1, InvariantHolds, PTL

(* An insert never evicts what it inserts (insert's loop).                    *)
THEOREM AnswersAreCached == Spec => AnswerIsCached
<1>1. ASSUME IInv, [Next]_vars
      PROVE  [answer' # answer /\ answer'.result = "ok" =>
                artifacts'[KeyOf(answer'.to)] = answer'.artifact]_vars
  <2> SUFFICES ASSUME answer' # answer, answer'.result = "ok"
               PROVE  artifacts'[KeyOf(answer'.to)] = answer'.artifact
    OBVIOUS
  <2> USE DEF IInv
  <2>1. ASSUME NEW r \in Calls, NEW c \in Contexts, RefuseContext(r, c)
        PROVE  FALSE
    BY <2>1 DEF RefuseContext, Give
  <2>2. ASSUME NEW r \in Calls, NEW c \in Contexts, LookupMiss(r, c)
        PROVE  FALSE
    BY <2>2 DEF LookupMiss
  <2>3. ASSUME NEW r \in Calls, NEW c \in Contexts, LookupHit(r, c)
        PROVE  artifacts'[KeyOf(answer'.to)] = answer'.artifact
    BY <2>3 DEF LookupHit, Give
  <2>4. ASSUME NEW r \in Calls, NEW c \in Contexts, NEW a \in Candidates,
               RefuseCandidate(r, c, a)
        PROVE  FALSE
    <3>1. ArtifactError(c, a) # "ok"
      BY DEF ArtifactError
    <3> QED  BY <2>4, <3>1 DEF RefuseCandidate, Give
  <2>5. ASSUME NEW r \in Calls, NEW c \in Contexts, NEW a \in Candidates,
               AcceptCandidate(r, c, a)
        PROVE  artifacts'[KeyOf(answer'.to)] = answer'.artifact
    <3>1. KeyOf(c) \in Keys /\ a \in Artifacts /\ Insert(KeyOf(c), a) /\ Give(c, "ok", a)
      BY <2>5 DEF AcceptCandidate, Keys, Artifacts
    <3>2. artifacts'[KeyOf(c)] = a
      BY <1>1, <3>1, InsertKeepsBound
    <3> QED  BY <3>1, <3>2 DEF Give
  <2>6. ASSUME NEW r \in Calls, ResolveFallback(r)
        PROVE  artifacts'[KeyOf(answer'.to)] = answer'.artifact
    <3> DEFINE c == context[r]
    <3>1. c \in Contexts /\ InBoundary(c)
      BY <1>1, <2>6 DEF ResolveFallback, CallInv
    <3>2. Fallback(c) \in Artifacts /\ ArtifactError(c, Fallback(c)) = "none"
      BY <3>1, FallbackIsReviewed DEF Reviewed
    <3>3. Insert(KeyOf(c), Fallback(c)) /\ Give(c, "ok", Fallback(c))
      BY <2>6, <3>2 DEF ResolveFallback
    <3> HIDE DEF c
    <3>4. KeyOf(c) \in Keys
      BY <3>1 DEF Keys
    <3>5. artifacts'[KeyOf(c)] = Fallback(c)
      BY <1>1, <3>2, <3>3, <3>4, InsertKeepsBound
    <3> QED  BY <3>3, <3>5 DEF Give
  <2>7. CASE UNCHANGED vars
    BY <2>7 DEF vars
  <2> QED  BY <1>1, <2>1, <2>2, <2>3, <2>4, <2>5, <2>6, <2>7 DEF Next
<1> QED  BY <1>1, InvariantHolds, PTL DEF Spec, AnswerIsCached

(* A fallback replaces a provider's artifact only if the call that inserts it   *)
(* was under way when that artifact came (resolve).                          *)
THEOREM FallbacksYield == Spec => FallbackYields
<1> DEFINE Yields ==
      \A k \in Keys :
        /\ artifacts[k] # None /\ artifacts[k].origin = "Provider"
        /\ artifacts'[k] # None /\ artifacts'[k].origin = "ReviewedFallback"
        => \E r \in racing[k] : pc[r] = "building" /\ pc'[r] = "idle"
<1>1. ASSUME IInv, [Next]_vars
      PROVE  [Yields]_vars
  <2> SUFFICES ASSUME NEW k \in Keys,
                      artifacts[k] # None, artifacts[k].origin = "Provider",
                      artifacts'[k] # None, artifacts'[k].origin = "ReviewedFallback"
               PROVE  \E r \in racing[k] : pc[r] = "building" /\ pc'[r] = "idle"
    OBVIOUS
  <2> USE DEF IInv
  <2>1. artifacts'[k] # artifacts[k]
    OBVIOUS
  <2>2. ASSUME NEW r \in Calls, NEW c \in Contexts,
               RefuseContext(r, c) \/ LookupMiss(r, c) \/ LookupHit(r, c)
        PROVE  FALSE
    BY <2>1, <2>2 DEF RefuseContext, LookupMiss, LookupHit
  <2>3. ASSUME NEW r \in Calls, NEW c \in Contexts, NEW a \in Candidates,
               RefuseCandidate(r, c, a)
        PROVE  FALSE
    BY <2>1, <2>3 DEF RefuseCandidate
  <2>4. ASSUME NEW r \in Calls, NEW c \in Contexts, NEW a \in Candidates,
               AcceptCandidate(r, c, a)
        PROVE  FALSE
    <3>1. /\ KeyOf(c) \in Keys /\ a \in Artifacts /\ a.origin = "Provider"
          /\ Insert(KeyOf(c), a)
      BY <2>4, CacheIsConfigured DEF AcceptCandidate, Keys, Artifacts, CacheAssumption
    <3>2. artifacts'[k] \in {a, artifacts[k], None}
      BY <1>1, <3>1, InsertKeepsBound
    <3> QED  BY <3>1, <3>2, <2>1
  <2>5. ASSUME NEW r \in Calls, ResolveFallback(r)
        PROVE  r \in racing[k] /\ pc[r] = "building" /\ pc'[r] = "idle"
    <3> DEFINE c == context[r]
    <3>1. c \in Contexts /\ InBoundary(c) /\ pc[r] = "building" /\ pc'[r] = "idle"
      BY <1>1, <2>5 DEF ResolveFallback, CallInv, TypeOK
    <3>2. Fallback(c) \in Artifacts /\ ArtifactError(c, Fallback(c)) = "none"
      BY <3>1, FallbackIsReviewed DEF Reviewed
    <3>3. Insert(KeyOf(c), Fallback(c))
      BY <2>5, <3>2 DEF ResolveFallback
    <3>4. KeyOf(c) \in Keys
      BY <3>1 DEF Keys
    <3>5. KeyOf(c) = k
      BY <1>1, <3>2, <3>3, <3>4, <2>1, InsertKeepsBound
    <3> QED  BY <1>1, <3>1, <3>5 DEF CallInv
  <2>6. CASE UNCHANGED vars
    BY <2>1, <2>6 DEF vars
  <2> QED  BY <1>1, <2>2, <2>3, <2>4, <2>5, <2>6 DEF Next
<1>2. Spec => [][Yields]_vars
  BY <1>1, InvariantHolds, PTL DEF Spec
<1> QED  BY <1>2 DEF FallbackYields
===============================================================================
