-------------------------- MODULE AssertionVerifier --------------------------
(***************************************************************************)
(* AuthVerifier::verify_now (src/src/auth.rs), called for every protected   *)
(* request: the clock is read first, the claims are checked against that    *)
(* reading, and only then is the replay cache locked, purged against the    *)
(* same reading, and the assertion's id looked up and recorded.  Requests   *)
(* reach the lock in any order.                                            *)
(***************************************************************************)
EXTENDS Integers, Sequences, FiniteSets

CONSTANTS
  Requests,    \* protected requests
  Ids,         \* values of jti
  Assertions,  \* what requests carry; [id, iat, exp, genuine]
  Times,       \* what the clock may read: SystemTime, which may be set back
  Skew,        \* CLOCK_SKEW_SECONDS
  MaxTtl,      \* MAX_ASSERTION_TTL_SECONDS
  Capacity,    \* MAX_REPLAY_ENTRIES
  None

(* `genuine`: form, key, signature, issuer, audience, provider, subject and  *)
(* id are in order; what is left to check depends on the clock.             *)
AssertionShape == [id : Ids, iat : Int, exp : Int, genuine : BOOLEAN]

Verdicts == {"accepted", "refused", "replayed", "unavailable"}

ASSUME VerifierAssumption ==
  /\ Assertions \subseteq AssertionShape
  /\ Times \subseteq Int
  /\ Skew \in Nat /\ MaxTtl \in Nat /\ Capacity \in Nat
  /\ None \notin Assertions /\ None \notin Times /\ None \notin Verdicts

VARIABLES
  carried,  \* the assertion of a request that came
  now,      \* its reading of the clock
  verdict,  \* the answer of verify
  cache,    \* replay_cache: expiry by id
  uses,     \* history: the acceptances, in order
  horizon   \* history: the latest reading the cache was purged against

vars == <<carried, now, verdict, cache, uses, horizon>>

Init ==
  /\ carried = [r \in Requests |-> None]
  /\ now = [r \in Requests |-> None]
  /\ verdict = [r \in Requests |-> None]
  /\ cache = <<>>
  /\ uses = <<>>
  /\ horizon = None

(* The three windows of verify. *)
InWindows(a, t) ==
  /\ a.iat <= t + Skew /\ a.iat >= t - MaxTtl
  /\ a.exp > t - Skew
  /\ a.exp > a.iat /\ a.exp - a.iat <= MaxTtl

Admissible(a, t) == a.genuine /\ InWindows(a, t)

(* verify up to the cache: nothing shared is touched. *)
Verify(r) ==
  /\ carried[r] = None
  /\ \E a \in Assertions, t \in Times :
       /\ carried' = [carried EXCEPT ![r] = a]
       /\ now' = [now EXCEPT ![r] = t]
       /\ verdict' = [verdict EXCEPT ![r] = IF Admissible(a, t) THEN None ELSE "refused"]
  /\ UNCHANGED <<cache, uses, horizon>>

(* Mutant: an entry is dropped at its expiry, while the skew still lets its  *)
(* assertion in.                                                           *)
MutantPurgedAtExpiry(t) == [id \in {i \in DOMAIN cache : cache[i] > t} |-> cache[id]]

(* retain *)
Purged(t) == [id \in {i \in DOMAIN cache : cache[i] > t - Skew} |-> cache[id]]

Later(t) == IF horizon = None \/ horizon < t THEN t ELSE horizon

(* Mutant: the entry is made before the cache is found full. *)
MutantInsertThenCount(r) ==
  LET kept == Purged(now[r])
      id == carried[r].id
      grown == [i \in DOMAIN kept \cup {id} |-> IF i = id THEN carried[r].exp ELSE kept[i]]
      answer(v) == verdict' = [verdict EXCEPT ![r] = v] IN
  /\ carried[r] # None /\ verdict[r] = None
  /\ horizon' = Later(now[r])
  /\ \/ id \in DOMAIN kept /\ answer("replayed") /\ cache' = kept /\ UNCHANGED uses
     \/ id \notin DOMAIN kept /\ Cardinality(DOMAIN kept) >= Capacity
          /\ answer("unavailable") /\ cache' = grown /\ UNCHANGED uses
     \/ id \notin DOMAIN kept /\ Cardinality(DOMAIN kept) < Capacity
          /\ answer("accepted") /\ cache' = grown
          /\ uses' = Append(uses, [assertion |-> carried[r], now |-> now[r], horizon |-> Later(now[r])])
  /\ UNCHANGED <<carried, now>>

(* Mutant: a full cache makes room by forgetting everything. *)
MutantClearWhenFull(r) ==
  LET kept == IF Cardinality(DOMAIN Purged(now[r])) >= Capacity THEN <<>> ELSE Purged(now[r])
      id == carried[r].id
      answer(v) == verdict' = [verdict EXCEPT ![r] = v] IN
  /\ carried[r] # None /\ verdict[r] = None
  /\ horizon' = Later(now[r])
  /\ \/ id \in DOMAIN kept /\ answer("replayed") /\ cache' = kept /\ UNCHANGED uses
     \/ id \notin DOMAIN kept
          /\ answer("accepted")
          /\ cache' = [i \in DOMAIN kept \cup {id} |-> IF i = id THEN carried[r].exp ELSE kept[i]]
          /\ uses' = Append(uses, [assertion |-> carried[r], now |-> now[r], horizon |-> Later(now[r])])
  /\ UNCHANGED <<carried, now>>

Replay(r, kept) ==
  /\ carried[r].id \in DOMAIN kept
  /\ verdict' = [verdict EXCEPT ![r] = "replayed"]
  /\ cache' = kept
  /\ UNCHANGED uses

Full(r, kept) ==
  /\ carried[r].id \notin DOMAIN kept
  /\ Cardinality(DOMAIN kept) >= Capacity
  /\ verdict' = [verdict EXCEPT ![r] = "unavailable"]
  /\ cache' = kept
  /\ UNCHANGED uses

Accept(r, kept) ==
  /\ carried[r].id \notin DOMAIN kept
  /\ Cardinality(DOMAIN kept) < Capacity
  /\ verdict' = [verdict EXCEPT ![r] = "accepted"]
  /\ cache' = [id \in DOMAIN kept \cup {carried[r].id} |->
                 IF id = carried[r].id THEN carried[r].exp ELSE kept[id]]
  /\ uses' = Append(uses, [assertion |-> carried[r], now |-> now[r], horizon |-> Later(now[r])])

(* consume_assertion_id: one critical section. *)
Consume(r) ==
  LET kept == Purged(now[r]) IN
  /\ carried[r] # None /\ verdict[r] = None
  /\ Replay(r, kept) \/ Full(r, kept) \/ Accept(r, kept)
  /\ horizon' = Later(now[r])
  /\ UNCHANGED <<carried, now>>

Next == \E r \in Requests : Verify(r) \/ Consume(r)

Spec == Init /\ [][Next]_vars
-----------------------------------------------------------------------------
(* Properties *)

Uses == [assertion : Assertions, now : Times, horizon : Times]

TypeOK ==
  /\ carried \in [Requests -> Assertions \cup {None}]
  /\ now \in [Requests -> Times \cup {None}]
  /\ verdict \in [Requests -> Verdicts \cup {None}]
  /\ DOMAIN cache \subseteq Ids
  /\ \A id \in DOMAIN cache : cache[id] \in Int
  /\ uses \in Seq(Uses)
  /\ horizon \in Times \cup {None}

(* "A second use is rejected" (docs/authentication.md), as far as the code   *)
(* carries it: an assertion is accepted again only by a request whose        *)
(* reading of the clock is older than one the cache was already purged      *)
(* against.  Requests that reach the lock in the order of their readings     *)
(* never use an assertion twice.                                           *)
SecondUseIsLate ==
  \A i, j \in 1..Len(uses) :
    i < j /\ uses[i].assertion = uses[j].assertion => uses[j].now < uses[j].horizon

(* The purge and the windows agree: an id leaves the cache only when its     *)
(* assertion is refused by its expiry under every reading from then on.     *)
UsedIsRemembered ==
  \A i \in 1..Len(uses) :
    LET a == uses[i].assertion IN
    \/ a.id \in DOMAIN cache /\ cache[a.id] >= a.exp
    \/ a.exp <= horizon - Skew

(* A request is refused as a replay only if its id was used, and turned away  *)
(* for want of room without leaving an entry behind, so that it may try      *)
(* again (consume_assertion_id answers before it inserts).                 *)
ReplayedWasUsed ==
  /\ \A r \in Requests : verdict[r] = "replayed" =>
       \E i \in 1..Len(uses) : uses[i].assertion.id = carried[r].id
  /\ \A id \in DOMAIN cache :
       \E i \in 1..Len(uses) : uses[i].assertion.id = id /\ uses[i].assertion.exp = cache[id]

(* The cache is never larger than its capacity, and it makes room only by    *)
(* expiry: nothing that is still valid at the latest reading is dropped     *)
(* ("an unavailable or full cache fails closed", docs/authentication.md).    *)
FailsClosed ==
  [][ /\ Cardinality(DOMAIN cache') <= Capacity
      /\ \A id \in DOMAIN cache : cache[id] > horizon' - Skew =>
           id \in DOMAIN cache' /\ cache'[id] = cache[id] ]_vars

(* The inductive invariant. *)
RequestInv ==
  \A r \in Requests :
    /\ carried[r] = None => verdict[r] = None
    /\ carried[r] # None => now[r] \in Times
    /\ carried[r] # None /\ verdict[r] = None => Admissible(carried[r], now[r])

HorizonInv ==
  /\ uses # <<>> => horizon # None
  /\ \A i \in 1..Len(uses) : uses[i].now <= uses[i].horizon /\ uses[i].horizon <= horizon

IInv ==
  /\ TypeOK
  /\ RequestInv
  /\ HorizonInv
  /\ IsFiniteSet(DOMAIN cache) /\ Cardinality(DOMAIN cache) <= Capacity
  /\ UsedIsRemembered
  /\ SecondUseIsLate
  /\ ReplayedWasUsed
=============================================================================
