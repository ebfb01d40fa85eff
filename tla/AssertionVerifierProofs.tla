----------------------- MODULE AssertionVerifierProofs -----------------------
(***************************************************************************)
(* Proofs about AssertionVerifier, for any requests, assertions, clock       *)
(* readings, skew, life-time and capacity.  The invariant's core is          *)
(* UsedIsRemembered: an assertion accepted once is in the cache, or refused  *)
(* by its expiry under the latest reading the cache was purged against; a    *)
(* second acceptance then has an older reading.                            *)
(***************************************************************************)
EXTENDS AssertionVerifier, FiniteSetTheorems, TLAPS

(* The horizon is a reading, not before the request's own nor before the     *)
(* horizon so far.                                                         *)
LEMMA LaterFacts ==
  ASSUME NEW t \in Times, horizon \in Times \cup {None}
  PROVE  /\ Later(t) \in Times /\ t <= Later(t)
         /\ horizon # None => horizon <= Later(t)
BY VerifierAssumption DEF Later

(* A purge drops entries and changes none. *)
LEMMA PurgedFacts ==
  ASSUME NEW t
  PROVE  /\ DOMAIN Purged(t) \subseteq DOMAIN cache
         /\ \A id \in DOMAIN Purged(t) : Purged(t)[id] = cache[id] /\ cache[id] > t - Skew
         /\ \A id \in DOMAIN cache : cache[id] > t - Skew => id \in DOMAIN Purged(t)
BY DEF Purged

LEMMA InitIInv == Init => IInv
<1> SUFFICES ASSUME Init PROVE IInv
  OBVIOUS
<1> USE DEF Init
<1>1. uses \in Seq(Uses) /\ Len(uses) = 0
  OBVIOUS
<1>2. DOMAIN cache = {}
  OBVIOUS
<1>3. IsFiniteSet(DOMAIN cache) /\ Cardinality(DOMAIN cache) = 0
  BY <1>2, FS_EmptySet
<1>4. TypeOK
  BY <1>1, <1>2 DEF TypeOK
<1>5. RequestInv
  BY DEF RequestInv
<1>6. HorizonInv /\ UsedIsRemembered /\ SecondUseIsLate
  BY <1>1 DEF HorizonInv, UsedIsRemembered, SecondUseIsLate
<1>7. ReplayedWasUsed
  <2>1. \A r \in Requests : verdict[r] # "replayed"
    BY VerifierAssumption DEF Verdicts
  <2> QED
    BY <1>2, <2>1 DEF ReplayedWasUsed
<1> QED
  BY <1>3, <1>4, <1>5, <1>6, <1>7, VerifierAssumption DEF IInv

(* What an earlier acceptance is made of. *)
LEMMA UseFacts ==
  ASSUME IInv, NEW i \in 1..Len(uses)
  PROVE  /\ uses[i] \in Uses /\ uses[i].assertion \in AssertionShape
         /\ horizon \in Times /\ horizon \in Int /\ uses[i].now \in Int /\ uses[i].horizon \in Int
<1>1. uses \in Seq(Uses) /\ uses # <<>>
  BY DEF IInv, TypeOK
<1>2. uses[i] \in Uses
  BY <1>1
<1>3. horizon \in Times
  BY <1>1 DEF IInv, TypeOK, HorizonInv
<1> QED
  BY <1>2, <1>3, VerifierAssumption DEF Uses

(* A purge at a reading t forgets no use whose expiry is still ahead of it. *)
LEMMA StillRemembered ==
  ASSUME IInv, NEW t \in Times, NEW h \in Times,
         t <= h, horizon # None => horizon <= h,
         NEW i \in 1..Len(uses)
  PROVE  LET b == uses[i].assertion IN
         \/ b.id \in DOMAIN Purged(t) /\ Purged(t)[b.id] >= b.exp
         \/ b.exp <= h - Skew
<1> DEFINE b == uses[i].assertion
<1>1. b.exp \in Int /\ b.id \in Ids /\ horizon \in Int /\ horizon <= h
  BY UseFacts, VerifierAssumption DEF AssertionShape, IInv, HorizonInv
<1>2. t \in Int /\ h \in Int /\ Skew \in Int
  BY VerifierAssumption
<1>3. CASE b.id \in DOMAIN cache /\ cache[b.id] >= b.exp
  <2>1. cache[b.id] \in Int
    BY <1>3 DEF IInv, TypeOK
  <2>2. CASE cache[b.id] > t - Skew
    BY <1>3, <2>2, PurgedFacts
  <2>3. CASE ~(cache[b.id] > t - Skew)
    <3>1. b.exp <= h - Skew
      BY <1>1, <1>2, <1>3, <2>1, <2>3
    <3> QED
      BY <3>1
  <2> QED
    BY <2>2, <2>3
<1>4. CASE b.exp <= horizon - Skew
  BY <1>1, <1>2, <1>4
<1> QED
  BY <1>3, <1>4 DEF IInv, UsedIsRemembered

(* verify before the cache: only a fresh request changes. *)
LEMMA VerifyStep ==
  ASSUME IInv, NEW r \in Requests, Verify(r)
  PROVE  IInv'
<1> USE DEF IInv
<1>1. PICK a \in Assertions, t \in Times :
        /\ carried' = [carried EXCEPT ![r] = a]
        /\ now' = [now EXCEPT ![r] = t]
        /\ verdict' = [verdict EXCEPT ![r] = IF Admissible(a, t) THEN None ELSE "refused"]
  BY DEF Verify
<1>2. UNCHANGED <<cache, uses, horizon>>
  BY DEF Verify
<1>3. TypeOK'
  BY <1>1, <1>2 DEF TypeOK, Verdicts, Uses
<1>4. RequestInv'
  <2> SUFFICES ASSUME NEW q \in Requests
               PROVE  /\ carried'[q] = None => verdict'[q] = None
                      /\ carried'[q] # None => now'[q] \in Times
                      /\ carried'[q] # None /\ verdict'[q] = None =>
                           Admissible(carried'[q], now'[q])
    BY DEF RequestInv, Admissible, InWindows
  <2>1. CASE q = r
    BY <1>1, <2>1, VerifierAssumption DEF TypeOK, Verdicts
  <2>2. CASE q # r
    BY <1>1, <2>2 DEF TypeOK, RequestInv
  <2> QED
    BY <2>1, <2>2
<1>5. HorizonInv' /\ UsedIsRemembered' /\ SecondUseIsLate'
  BY <1>2 DEF HorizonInv, UsedIsRemembered, SecondUseIsLate
<1>6. ReplayedWasUsed'
  <2>1. \A q \in Requests : verdict'[q] = "replayed" =>
          verdict[q] = "replayed" /\ carried'[q] = carried[q]
    <3> SUFFICES ASSUME NEW q \in Requests, verdict'[q] = "replayed"
                 PROVE  verdict[q] = "replayed" /\ carried'[q] = carried[q]
      OBVIOUS
    <3>1. q # r
      BY <1>1, VerifierAssumption DEF TypeOK, Verdicts
    <3> QED
      BY <1>1, <3>1 DEF TypeOK
  <2> QED
    BY <1>2, <2>1 DEF ReplayedWasUsed
<1>7. IsFiniteSet(DOMAIN cache') /\ Cardinality(DOMAIN cache') <= Capacity
  BY <1>2
<1> QED
  BY <1>3, <1>4, <1>5, <1>6, <1>7

(* The critical section. *)
LEMMA ConsumeStep ==
  ASSUME IInv, NEW r \in Requests, Consume(r)
  PROVE  IInv'
<1> DEFINE kept == Purged(now[r])
           a == carried[r]
           t == now[r]
<1>1. /\ a \in Assertions /\ t \in Times /\ Admissible(a, t)
      /\ verdict[r] = None
      /\ horizon' = Later(t)
      /\ UNCHANGED <<carried, now>>
      /\ Replay(r, kept) \/ Full(r, kept) \/ Accept(r, kept)
  BY DEF Consume, IInv, TypeOK, RequestInv
<1>2. /\ horizon' \in Times /\ t <= horizon'
      /\ horizon # None => horizon <= horizon'
  BY <1>1, LaterFacts DEF IInv, TypeOK
<1>3. /\ DOMAIN kept \subseteq DOMAIN cache
      /\ \A id \in DOMAIN kept : kept[id] = cache[id]
      /\ \A id \in DOMAIN cache : cache[id] > t - Skew => id \in DOMAIN kept
  BY PurgedFacts
<1>4. IsFiniteSet(DOMAIN kept) /\ Cardinality(DOMAIN kept) <= Capacity
  <2>1. IsFiniteSet(DOMAIN kept) /\ Cardinality(DOMAIN kept) <= Cardinality(DOMAIN cache)
    BY <1>3, FS_Subset DEF IInv
  <2>2. Cardinality(DOMAIN kept) \in Nat /\ Cardinality(DOMAIN cache) \in Nat
    BY <2>1, FS_CardinalityType DEF IInv
  <2> QED
    BY <2>1, <2>2, VerifierAssumption DEF IInv
<1>5. PICK v \in Verdicts : verdict' = [verdict EXCEPT ![r] = v]
  BY <1>1 DEF Replay, Full, Accept, Verdicts
<1>6. RequestInv'
  <2> SUFFICES ASSUME NEW q \in Requests
               PROVE  /\ carried'[q] = None => verdict'[q] = None
                      /\ carried'[q] # None => now'[q] \in Times
                      /\ carried'[q] # None /\ verdict'[q] = None =>
                           Admissible(carried'[q], now'[q])
    BY DEF RequestInv, Admissible, InWindows
  <2>1. CASE q = r
    BY <1>1, <1>5, <2>1, VerifierAssumption DEF IInv, TypeOK
  <2>2. CASE q # r
    BY <1>1, <1>5, <2>2 DEF IInv, TypeOK, RequestInv
  <2> QED
    BY <2>1, <2>2
<1> DEFINE use == [assertion |-> a, now |-> t, horizon |-> horizon']
<1>7. CASE uses' = uses /\ cache' = kept
           /\ (verdict'[r] = "replayed" => a.id \in DOMAIN kept)
  <2>1. TypeOK'
    <3>1. DOMAIN cache' \subseteq Ids /\ \A id \in DOMAIN cache' : cache'[id] \in Int
      BY <1>3, <1>7 DEF IInv, TypeOK
    <3> QED
      BY <1>1, <1>2, <1>5, <1>7, <3>1 DEF IInv, TypeOK
  <2>2. HorizonInv'
    <3>1. ASSUME NEW i \in 1..Len(uses)
          PROVE  uses[i].now <= uses[i].horizon /\ uses[i].horizon <= horizon'
      <4>1. horizon <= horizon' /\ horizon' \in Int
        BY <1>2, UseFacts, VerifierAssumption
      <4>2. uses[i].now <= uses[i].horizon /\ uses[i].horizon <= horizon
        BY DEF IInv, HorizonInv
      <4> QED
        BY <4>1, <4>2, UseFacts
    <3> QED
      BY <1>2, <1>7, <3>1, VerifierAssumption DEF HorizonInv
  <2>3. UsedIsRemembered'
    BY <1>1, <1>2, <1>7, StillRemembered DEF UsedIsRemembered
  <2>4. SecondUseIsLate'
    BY <1>7 DEF IInv, SecondUseIsLate
  <2>5. ReplayedWasUsed'
    <3>1. ASSUME NEW q \in Requests, verdict'[q] = "replayed"
          PROVE  \E i \in 1..Len(uses) : uses[i].assertion.id = carried[q].id
      <4>1. CASE q = r
        BY <1>3, <1>7, <3>1, <4>1 DEF IInv, ReplayedWasUsed
      <4>2. CASE q # r
        BY <1>5, <3>1, <4>2 DEF IInv, TypeOK, ReplayedWasUsed
      <4> QED
        BY <4>1, <4>2
    <3>2. \A id \in DOMAIN kept :
            \E i \in 1..Len(uses) : uses[i].assertion.id = id /\ uses[i].assertion.exp = kept[id]
      BY <1>3 DEF IInv, ReplayedWasUsed
    <3> QED
      BY <1>1, <1>7, <3>1, <3>2 DEF ReplayedWasUsed
  <2> QED
    BY <1>4, <1>6, <1>7, <2>1, <2>2, <2>3, <2>4, <2>5 DEF IInv
<1>8. CASE Accept(r, kept)
  <2>1. /\ a.id \notin DOMAIN kept /\ Cardinality(DOMAIN kept) < Capacity
        /\ verdict' = [verdict EXCEPT ![r] = "accepted"]
        /\ cache' = [id \in DOMAIN kept \cup {a.id} |-> IF id = a.id THEN a.exp ELSE kept[id]]
        /\ uses' = Append(uses, use)
    BY <1>1, <1>8 DEF Accept
  <2>2. /\ uses \in Seq(Uses) /\ use \in Uses /\ Len(uses') = Len(uses) + 1
        /\ \A i \in 1..Len(uses) : uses'[i] = uses[i] /\ uses[i] \in Uses
        /\ uses'[Len(uses) + 1] = use
    <3>1. uses \in Seq(Uses)
      BY DEF IInv, TypeOK
    <3>2. use \in Uses
      BY <1>1, <1>2 DEF Uses
    <3> HIDE DEF use
    <3> QED
      BY <2>1, <3>1, <3>2
  <2>3. a \in AssertionShape
    BY <1>1, VerifierAssumption
  <2>4. TypeOK'
    <3>1. DOMAIN cache' \subseteq Ids /\ \A id \in DOMAIN cache' : cache'[id] \in Int
      BY <1>3, <2>1, <2>3 DEF IInv, TypeOK, AssertionShape
    <3>2. uses' \in Seq(Uses)
      BY <2>1, <2>2
    <3> QED
      BY <1>1, <1>2, <1>5, <3>1, <3>2 DEF IInv, TypeOK
  <2>5. HorizonInv'
    <3>1. uses' # <<>> => horizon' # None
      BY <1>2, VerifierAssumption
    <3>2. ASSUME NEW i \in 1..Len(uses')
          PROVE  uses'[i].now <= uses'[i].horizon /\ uses'[i].horizon <= horizon'
      <4>1. CASE i \in 1..Len(uses)
        <5>1. horizon <= horizon' /\ horizon' \in Int
          BY <1>2, <4>1, UseFacts, VerifierAssumption
        <5>2. uses[i].now <= uses[i].horizon /\ uses[i].horizon <= horizon
          BY <4>1 DEF IInv, HorizonInv
        <5> QED
          BY <2>2, <4>1, <5>1, <5>2, UseFacts
      <4>2. CASE i = Len(uses) + 1
        BY <1>1, <1>2, <2>2, <4>2, VerifierAssumption
      <4> QED
        BY <2>2, <4>1, <4>2
    <3> QED
      BY <3>1, <3>2 DEF HorizonInv
  <2>6. \A i \in 1..Len(uses) :
          LET b == uses[i].assertion IN
          \/ b.id \in DOMAIN kept /\ kept[b.id] >= b.exp
          \/ b.exp <= horizon' - Skew
    BY <1>1, <1>2, StillRemembered
  <2>7. UsedIsRemembered'
    <3> SUFFICES ASSUME NEW i \in 1..Len(uses')
                 PROVE  LET b == uses'[i].assertion IN
                        \/ b.id \in DOMAIN cache' /\ cache'[b.id] >= b.exp
                        \/ b.exp <= horizon' - Skew
      BY DEF UsedIsRemembered
    <3>1. CASE i \in 1..Len(uses)
      BY <2>1, <2>2, <2>6, <3>1
    <3>2. CASE i = Len(uses) + 1
      BY <2>1, <2>2, <2>3, <3>2 DEF AssertionShape
    <3> QED
      BY <2>2, <3>1, <3>2
  <2>8. SecondUseIsLate'
    <3> SUFFICES ASSUME NEW i \in 1..Len(uses'), NEW j \in 1..Len(uses'),
                        i < j, uses'[i].assertion = uses'[j].assertion
                 PROVE  uses'[j].now < uses'[j].horizon
      BY DEF SecondUseIsLate
    <3>1. CASE j \in 1..Len(uses)
      BY <2>2, <3>1 DEF IInv, SecondUseIsLate
    <3>2. CASE j = Len(uses) + 1
      <4>1. i \in 1..Len(uses) /\ uses[i].assertion = a
        BY <2>2, <3>2
      <4>2. a.exp <= horizon' - Skew
        BY <2>1, <2>6, <4>1
      <4>3. a.exp > t - Skew
        BY <1>1 DEF Admissible, InWindows
      <4> QED
        BY <1>1, <1>2, <2>2, <2>3, <3>2, <4>2, <4>3, VerifierAssumption DEF AssertionShape
    <3> QED
      BY <2>2, <3>1, <3>2
  <2>9. ReplayedWasUsed'
    <3>1. ASSUME NEW q \in Requests, verdict'[q] = "replayed"
          PROVE  \E i \in 1..Len(uses') : uses'[i].assertion.id = carried'[q].id
      <4>1. q # r
        BY <2>1, <3>1 DEF IInv, TypeOK
      <4>2. PICK i \in 1..Len(uses) : uses[i].assertion.id = carried[q].id
        BY <2>1, <3>1, <4>1 DEF IInv, TypeOK, ReplayedWasUsed
      <4> QED
        BY <1>1, <2>2, <4>2
    <3>2. ASSUME NEW id \in DOMAIN cache'
          PROVE  \E i \in 1..Len(uses') :
                   uses'[i].assertion.id = id /\ uses'[i].assertion.exp = cache'[id]
      <4>1. CASE id = a.id
        BY <2>1, <2>2, <4>1
      <4>2. CASE id # a.id
        <5>1. id \in DOMAIN kept /\ cache'[id] = cache[id]
          BY <1>3, <2>1, <3>2, <4>2
        <5>2. PICK i \in 1..Len(uses) :
                uses[i].assertion.id = id /\ uses[i].assertion.exp = cache[id]
          BY <1>3, <5>1 DEF IInv, ReplayedWasUsed
        <5> QED
          BY <2>2, <5>1, <5>2
      <4> QED
        BY <4>1, <4>2
    <3> QED
      BY <3>1, <3>2 DEF ReplayedWasUsed
  <2>10. IsFiniteSet(DOMAIN cache') /\ Cardinality(DOMAIN cache') <= Capacity
    <3>1. DOMAIN cache' = DOMAIN kept \cup {a.id}
      BY <2>1
    <3>2. IsFiniteSet(DOMAIN cache') /\ Cardinality(DOMAIN cache') = Cardinality(DOMAIN kept) + 1
      BY <1>4, <2>1, <3>1, FS_AddElement
    <3>3. Cardinality(DOMAIN kept) \in Nat
      BY <1>4, FS_CardinalityType
    <3> QED
      BY <2>1, <3>2, <3>3, VerifierAssumption
  <2> QED
    BY <1>6, <2>4, <2>5, <2>7, <2>8, <2>9, <2>10 DEF IInv
<1>9. CASE Replay(r, kept)
  BY <1>7, <1>9 DEF Replay
<1>10. CASE Full(r, kept)
  <2>1. verdict'[r] # "replayed"
    BY <1>10 DEF Full, IInv, TypeOK
  <2> QED
    BY <1>7, <1>10, <2>1 DEF Full
<1> QED
  BY <1>1, <1>8, <1>9, <1>10

LEMMA StepIInv == IInv /\ [Next]_vars => IInv'
<1> SUFFICES ASSUME IInv, [Next]_vars PROVE IInv'
  OBVIOUS
<1>1. CASE \E r \in Requests : Verify(r)
  BY <1>1, VerifyStep
<1>2. CASE \E r \in Requests : Consume(r)
  BY <1>2, ConsumeStep
<1>3. CASE UNCHANGED vars
  BY <1>3 DEF vars, IInv, TypeOK, RequestInv, HorizonInv, UsedIsRemembered,
              SecondUseIsLate, ReplayedWasUsed, Admissible, InWindows
<1> QED
  BY <1>1, <1>2, <1>3 DEF Next

(* The inductive invariant of the verifier holds in every reachable state    *)
(* (verify_now and consume_assertion_id, for any number of requests).       *)
THEOREM Invariance == Spec => []IInv
<1>1. Init => IInv
  BY InitIInv
<1>2. IInv /\ [Next]_vars => IInv'
  BY StepIInv
<1> QED
  BY <1>1, <1>2, PTL DEF Spec

(* Only a request whose reading is older than a purge's can use an assertion *)
(* a second time (consume_assertion_id under requests in any order).        *)
THEOREM SecondUsesAreLate == Spec => []SecondUseIsLate
<1>1. IInv => SecondUseIsLate
  BY DEF IInv
<1> QED
  BY <1>1, Invariance, PTL

(* A used assertion is remembered until its expiry refuses it (the purge of  *)
(* consume_assertion_id against the windows of verify).                     *)
THEOREM UsesAreRemembered == Spec => []UsedIsRemembered
<1>1. IInv => UsedIsRemembered
  BY DEF IInv
<1> QED
  BY <1>1, Invariance, PTL

(* An id is refused as replayed only after it was used, and a request turned *)
(* away leaves no entry (the order of consume_assertion_id).                *)
THEOREM ReplaysWereUsed == Spec => []ReplayedWasUsed
<1>1. IInv => ReplayedWasUsed
  BY DEF IInv
<1> QED
  BY <1>1, Invariance, PTL

(* The cache stays within its capacity and drops nothing that is still valid *)
(* (consume_assertion_id refuses when it is full).                          *)
THEOREM CacheFailsClosed == Spec => FailsClosed
<1> DEFINE A == /\ Cardinality(DOMAIN cache') <= Capacity
                /\ \A id \in DOMAIN cache : cache[id] > horizon' - Skew =>
                     id \in DOMAIN cache' /\ cache'[id] = cache[id]
<1>1. ASSUME IInv, IInv', [Next]_vars PROVE [A]_vars
  <2> SUFFICES ASSUME Next PROVE A
    BY <1>1
  <2>1. Cardinality(DOMAIN cache') <= Capacity
    BY <1>1 DEF IInv
  <2>2. ASSUME NEW r \in Requests, Verify(r) PROVE A
    BY <2>1, <2>2 DEF Verify
  <2>3. ASSUME NEW r \in Requests, Consume(r) PROVE A
    <3> DEFINE kept == Purged(now[r])
    <3>1. now[r] \in Times /\ horizon' = Later(now[r])
      BY <1>1, <2>3 DEF Consume, IInv, RequestInv
    <3>2. now[r] <= horizon' /\ horizon' \in Times
      BY <1>1, <3>1, LaterFacts DEF IInv, TypeOK
    <3>3. ASSUME NEW id \in DOMAIN cache, cache[id] > horizon' - Skew
          PROVE  id \in DOMAIN cache' /\ cache'[id] = cache[id]
      <4>1. cache[id] > now[r] - Skew
        BY <1>1, <3>1, <3>2, <3>3, VerifierAssumption DEF IInv, TypeOK
      <4>2. id \in DOMAIN kept /\ kept[id] = cache[id]
        BY <4>1, PurgedFacts
      <4> QED
        BY <2>3, <4>2 DEF Consume, Replay, Full, Accept
    <3> QED
      BY <2>1, <3>3
  <2> QED
    BY <2>2, <2>3 DEF Next
<1>2. IInv /\ IInv' /\ [Next]_vars => [A]_vars
  BY <1>1
<1> QED
  BY <1>2, Invariance, PTL DEF Spec, FailsClosed
=============================================================================
