----------------------- MODULE LearningSessionsProofs -----------------------
(***************************************************************************)
(* What LearningSessions states of owners, answers and what is kept, for any  *)
(* users, sessions and concurrent requests.  DraftIsOwn carries the owner    *)
(* from the look-up to the write, LogIsPast and FoundOrDeleted what is known *)
(* of a command when it is answered; HistoryInv, in the second half, relates *)
(* each entry of the log to its session and to the drafts read after it.    *)
(***************************************************************************)
EXTENDS LearningSessions, FiniteSetTheorems, TLAPS

LEMMA Tail30Type ==
  ASSUME NEW exchanges \in Seq(Requests)
  PROVE  Tail30(exchanges) \in Seq(Requests)
<1>1. CASE Len(exchanges) <= MaxExchanges
  BY <1>1 DEF Tail30
<1>2. CASE ~(Len(exchanges) <= MaxExchanges)
  <2> DEFINE a == Len(exchanges) - MaxExchanges + 1
  <2>1. a \in 1..Len(exchanges) + 1 /\ Len(exchanges) \in Nat
    BY <1>2, SessionsAssumption
  <2>2. \A i \in a..Len(exchanges) : exchanges[i] \in Requests
    BY <2>1
  <2> HIDE DEF a
  <2>3. SubSeq(exchanges, a, Len(exchanges)) \in Seq(Requests)
    BY <2>1, <2>2
  <2> QED  BY <1>2, <2>3 DEF Tail30, a
<1> QED  BY <1>1, <1>2

LEMMA InitInv == Init => IInv
<1> SUFFICES ASSUME Init PROVE IInv
  OBVIOUS
<1>1. TypeOK
  BY DEF Init, OfRequests, TypeOK
<1>2. ASSUME NEW r \in Requests PROVE RequestOf(r)
  BY SessionsAssumption DEF Init, OfRequests, RequestOf
<1>3. DraftIsOwn
  BY DEF Init, OfRequests, DraftIsOwn
<1>4. LogIsPast
  <2>1. \A i \in 1..Len(log) : FALSE
    BY DEF Init
  <2>2. \A r \in Requests : matched[r] # TRUE
    BY SessionsAssumption DEF Init, OfRequests
  <2>3. \A r \in Requests : readAt[r] <= Len(log)
    BY DEF Init, OfRequests
  <2> QED  BY <2>1, <2>2, <2>3 DEF LogIsPast
<1>5. FoundOrDeleted
  BY SessionsAssumption DEF Init, OfRequests, FoundOrDeleted, Operations
<1> QED  BY <1>1, <1>2, <1>3, <1>4, <1>5 DEF IInv

-----------------------------------------------------------------------------
(* The steps of handlers leave the sessions and the log alone. *)

LEMMA BeginStep ==
  ASSUME IInv, NEW r \in Requests, Begin(r)
  PROVE  IInv'
<1>1. PICK o \in Operations, u \in Users, m \in Modules \cup {None} :
        /\ m = None => o = "tutor"
        /\ op' = [op EXCEPT ![r] = o]
        /\ user' = [user EXCEPT ![r] = u]
        /\ module' = [module EXCEPT ![r] = m]
        /\ copy' = [copy EXCEPT ![r] =
                      IF o = "save" /\ Matches(m, u) THEN sessions[m].exchanges ELSE <<>>]
        /\ target' = [target EXCEPT ![r] = m]
        /\ pc' = [pc EXCEPT ![r] = IF o \in {"save", "tutor"} THEN "finding" ELSE "writing"]
        /\ sent' = [sent EXCEPT ![r] = o \in {"archive", "delete"}]
  BY DEF Begin
<1>2. /\ pc[r] = "idle" /\ readAt' = [readAt EXCEPT ![r] = Len(log)]
      /\ UNCHANGED <<sessions, draft, matched, answer, log>>
  BY DEF Begin
<1>3. op[r] = None /\ matched[r] = None /\ answer[r] = None
  BY <1>2 DEF IInv, RequestOf
<1>4. TypeOK'
  <2>1. (IF o = "save" /\ Matches(m, u) THEN sessions[m].exchanges ELSE <<>>) \in Seq(Requests)
    <3>1. CASE o = "save" /\ Matches(m, u)
      <4>1. sessions[m] \in Sessions
        BY <1>1, <3>1 DEF IInv, TypeOK, Matches
      <4> QED  BY <3>1, <4>1 DEF Sessions
    <3> QED  BY <3>1
  <2>2. copy' \in [Requests -> Seq(Requests)]
    BY <1>1, <2>1 DEF IInv, TypeOK
  <2> QED  BY <1>1, <1>2, <2>2 DEF IInv, TypeOK
<1>5. \A i \in 1..Len(log) : log[i] # r
  BY <1>2 DEF IInv, LogIsPast
<1>6. \A i \in 1..Len(log) : log[i] \in Requests
  BY DEF IInv, TypeOK
<1>7. ASSUME NEW q \in Requests PROVE RequestOf(q)'
  <2>1. CASE q = r
    BY <2>1, <1>1, <1>2, <1>3, SessionsAssumption DEF IInv, TypeOK, RequestOf, Operations
  <2>2. CASE q # r
    BY <2>2, <1>1, <1>2 DEF IInv, TypeOK, RequestOf
  <2> QED  BY <2>1, <2>2
<1>8. DraftIsOwn'
  BY <1>1, <1>2 DEF IInv, TypeOK, DraftIsOwn
<1>9. LogIsPast'
  <2>1. \A i \in 1..Len(log) : pc'[log[i]] \in {"writing", "answered"}
    BY <1>1, <1>5, <1>6 DEF IInv, TypeOK, LogIsPast
  <2>2. \A q \in Requests : readAt'[q] <= Len(log)
    BY <1>2 DEF IInv, TypeOK, LogIsPast
  <2> QED  BY <1>2, <2>1, <2>2 DEF IInv, LogIsPast
<1>10. FoundOrDeleted'
  <2> SUFFICES ASSUME NEW q \in Requests, op'[q] = "tutor"
               PROVE  /\ sent'[q] => Matches(target[q], user[q])' \/ DeletedSince(q)'
                      /\ matched'[q] = FALSE => DeletedSince(q)'
    BY DEF FoundOrDeleted
  <2>1. CASE q = r
    BY <2>1, <1>1, <1>2, <1>3, SessionsAssumption DEF IInv, TypeOK
  <2>2. CASE q # r
    <3>1. DeletedSince(q) => DeletedSince(q)'
      BY <2>2, <1>1, <1>2, <1>5, <1>6 DEF IInv, TypeOK, DeletedSince
    <3>2. Matches(target[q], user[q]) => Matches(target[q], user[q])'
      BY <2>2, <1>1, <1>2 DEF IInv, TypeOK, Matches
    <3> QED  BY <2>2, <3>1, <3>2, <1>1, <1>2 DEF IInv, TypeOK, FoundOrDeleted
  <2> QED  BY <2>1, <2>2
<1> QED  BY <1>4, <1>7, <1>8, <1>9, <1>10 DEF IInv

LEMMA PrepareStep ==
  ASSUME IInv, NEW r \in Requests, NEW m \in Modules, NEW session \in Sessions,
         op[r] \in {"save", "tutor"}, session.user = user[r],
         op[r] = "tutor" => Matches(m, user[r]),
         Prepare(r, m, session)
  PROVE  IInv'
<1>1. /\ pc[r] = "finding"
      /\ target' = [target EXCEPT ![r] = m]
      /\ draft' = [draft EXCEPT ![r] = session]
      /\ sent' = [sent EXCEPT ![r] = TRUE]
      /\ pc' = [pc EXCEPT ![r] = "writing"]
      /\ readAt' = [readAt EXCEPT ![r] = Len(log)]
      /\ UNCHANGED <<sessions, op, user, module, copy, matched, answer, log>>
  BY DEF Prepare, request
<1>2. matched[r] = None /\ answer[r] = None
  BY <1>1 DEF IInv, RequestOf
<1>3. TypeOK'
  BY <1>1 DEF IInv, TypeOK
<1>4. \A i \in 1..Len(log) : log[i] \in Requests /\ log[i] # r
  <2>1. \A i \in 1..Len(log) : log[i] \in Requests
    BY DEF IInv, TypeOK
  <2>2. \A i \in 1..Len(log) : log[i] # r
    BY <1>1 DEF IInv, LogIsPast
  <2> QED  BY <2>1, <2>2
<1>5. ASSUME NEW q \in Requests PROVE RequestOf(q)'
  <2>1. CASE q = r
    BY <2>1, <1>1, <1>2, SessionsAssumption DEF IInv, TypeOK, RequestOf
  <2>2. CASE q # r
    BY <2>2, <1>1 DEF IInv, TypeOK, RequestOf
  <2> QED  BY <2>1, <2>2
<1>6. DraftIsOwn'
  BY <1>1 DEF IInv, TypeOK, DraftIsOwn
<1>7. LogIsPast'
  <2>1. \A i \in 1..Len(log) : pc'[log[i]] \in {"writing", "answered"}
    BY <1>1, <1>4 DEF IInv, TypeOK, LogIsPast
  <2>2. \A q \in Requests : readAt'[q] <= Len(log)
    BY <1>1 DEF IInv, TypeOK, LogIsPast
  <2> QED  BY <1>1, <2>1, <2>2 DEF IInv, LogIsPast
<1>8. FoundOrDeleted'
  <2> SUFFICES ASSUME NEW q \in Requests, op'[q] = "tutor"
               PROVE  /\ sent'[q] => Matches(target[q], user[q])' \/ DeletedSince(q)'
                      /\ matched'[q] = FALSE => DeletedSince(q)'
    BY DEF FoundOrDeleted
  <2>1. CASE q = r
    BY <2>1, <1>1, <1>2, SessionsAssumption DEF IInv, TypeOK, Matches
  <2>2. CASE q # r
    <3>1. DeletedSince(q) => DeletedSince(q)'
      BY <2>2, <1>1, <1>4 DEF IInv, TypeOK, DeletedSince
    <3>2. Matches(target[q], user[q]) => Matches(target[q], user[q])'
      BY <2>2, <1>1 DEF IInv, TypeOK, Matches
    <3> QED  BY <2>2, <3>1, <3>2, <1>1 DEF IInv, TypeOK, FoundOrDeleted
  <2> QED  BY <2>1, <2>2
<1> QED  BY <1>3, <1>5, <1>6, <1>7, <1>8 DEF IInv

(* A look-up hands its command a document of the request's own user. *)
LEMMA FindStep ==
  ASSUME IInv, NEW r \in Requests, FindForSave(r) \/ FindForTutor(r)
  PROVE  IInv'
<1>1. CASE FindForSave(r)
  <2> DEFINE session == [user |-> user[r], status |-> "active", exchanges |-> Tail30(copy[r])]
  <2>1. op[r] = "save" /\ pc[r] = "finding" /\ Prepare(r, module[r], session)
    BY <1>1 DEF FindForSave, Prepare
  <2>2. module[r] \in Modules /\ user[r] \in Users
    BY <2>1 DEF IInv, RequestOf
  <2>3. session \in Sessions /\ session.user = user[r]
    BY <2>2, Tail30Type DEF IInv, TypeOK, Sessions
  <2> QED  BY <2>1, <2>2, <2>3, PrepareStep
<1>2. CASE FindForTutor(r)
  <2>1. PICK m \in Modules :
          Matches(m, user[r]) /\
          Prepare(r, m, [sessions[m] EXCEPT !.exchanges = Tail30(Append(@, r))])
    BY <1>2 DEF FindForTutor
  <2> DEFINE session == [sessions[m] EXCEPT !.exchanges = Tail30(Append(@, r))]
  <2>2. sessions[m] \in Sessions /\ sessions[m].user = user[r]
    BY <2>1 DEF Matches, IInv, TypeOK
  <2>3. Tail30(Append(sessions[m].exchanges, r)) \in Seq(Requests)
    <3>1. Append(sessions[m].exchanges, r) \in Seq(Requests)
      BY <2>2 DEF Sessions
    <3> QED  BY <3>1, Tail30Type
  <2>4. session \in Sessions /\ session.user = user[r]
    BY <2>2, <2>3 DEF Sessions
  <2> QED  BY <1>2, <2>1, <2>4, PrepareStep DEF FindForTutor
<1> QED  BY <1>1, <1>2

LEMMA TellStep ==
  ASSUME IInv, NEW r \in Requests, NEW what \in {"saved", "unsaved"},
         pc[r] \in {"finding", "writing"}, Tell(r, what),
         what = "saved" => matched[r] = TRUE \/ (op[r] = "tutor" /\ matched[r] = FALSE)
  PROVE  IInv'
<1>1. /\ pc' = [pc EXCEPT ![r] = "answered"]
      /\ answer' = [answer EXCEPT ![r] = what]
      /\ UNCHANGED <<sessions, op, user, module, copy, target, draft, sent, matched, log, readAt>>
  BY DEF Tell, request
<1>2. TypeOK'
  BY <1>1 DEF IInv, TypeOK
<1>3. ASSUME NEW q \in Requests PROVE RequestOf(q)'
  <2>1. CASE q = r
    BY <2>1, <1>1 DEF IInv, TypeOK, RequestOf
  <2>2. CASE q # r
    BY <2>2, <1>1 DEF IInv, TypeOK, RequestOf
  <2> QED  BY <2>1, <2>2
<1>4. DraftIsOwn'
  BY <1>1 DEF IInv, DraftIsOwn
<1>5. LogIsPast'
  <2>1. \A i \in 1..Len(log) : log[i] \in Requests
    BY DEF IInv, TypeOK
  <2>2. \A i \in 1..Len(log) : pc'[log[i]] \in {"writing", "answered"}
    BY <1>1, <2>1 DEF IInv, TypeOK, LogIsPast
  <2> QED  BY <1>1, <2>2 DEF IInv, LogIsPast
<1>6. FoundOrDeleted'
  BY <1>1 DEF IInv, FoundOrDeleted, Matches, DeletedSince
<1> QED  BY <1>2, <1>3, <1>4, <1>5, <1>6 DEF IInv

LEMMA AnswerStep ==
  ASSUME IInv, NEW r \in Requests, FindsNone(r) \/ AnswerSession(r) \/ GiveUp(r)
  PROVE  IInv'
<1>1. CASE FindsNone(r)
  <2>1. Tell(r, "unsaved") /\ pc[r] = "finding"
    BY <1>1 DEF FindsNone, Tell
  <2> QED  BY <2>1, TellStep
<1>2. CASE AnswerSession(r)
  <2> DEFINE what == IF matched[r] \/ op[r] \in {"save", "tutor"} THEN "saved" ELSE "unsaved"
  <2>1. pc[r] = "writing" /\ matched[r] \in BOOLEAN /\ Tell(r, what)
    BY <1>2 DEF AnswerSession, IInv, TypeOK
  <2>2. op[r] = "save" => matched[r] = TRUE
    BY <2>1 DEF IInv, RequestOf
  <2>3. what \in {"saved", "unsaved"}
    OBVIOUS
  <2>4. what = "saved" => matched[r] = TRUE \/ (op[r] = "tutor" /\ matched[r] = FALSE)
    BY <2>1, <2>2
  <2> QED  BY <2>1, <2>3, <2>4, TellStep
<1>3. CASE GiveUp(r)
  BY <1>3, TellStep DEF GiveUp
<1> QED  BY <1>1, <1>2, <1>3

-----------------------------------------------------------------------------
(* The steps of the database *)

(* A command that takes effect writes for its own user, where it may write.  *)
OwnEffect(r, session) ==
  /\ target[r] \in Modules
  /\ sessions[target[r]] = None \/ Matches(target[r], user[r])
  /\ session \in Sessions \cup {None}
  /\ session # None => session.user = user[r]
  /\ session = None => op[r] = "delete"
  /\ Effect(r, session)

LEMMA EffectsAreOwn ==
  ASSUME IInv, NEW r \in Requests, Apply(r)
  PROVE  ApplyNothing(r) \/ \E session : OwnEffect(r, session)
<1>1. sent[r] /\ target[r] \in Modules
  BY DEF Apply, IInv, RequestOf
<1>2. CASE ApplySave(r) \/ ApplyTutor(r)
  <2>1. draft[r] \in Sessions /\ draft[r].user = user[r] /\ draft[r] # None
    BY <1>1, <1>2, NoneIsNoSession DEF ApplySave, ApplyTutor, IInv, DraftIsOwn
  <2>2. OwnEffect(r, draft[r])
    BY <1>1, <1>2, <2>1 DEF ApplySave, ApplyTutor, OwnEffect
  <2> QED  BY <2>2
<1>3. CASE ApplyArchive(r)
  <2> DEFINE session == [sessions[target[r]] EXCEPT !.status = "archived"]
  <2>1. sessions[target[r]] \in Sessions /\ Matches(target[r], user[r])
    BY <1>1, <1>3 DEF ApplyArchive, Matches, IInv, TypeOK
  <2>2. session \in Sessions /\ session.user = user[r] /\ session # None
    BY <2>1, NoneIsNoSession DEF Matches, Sessions
  <2>3. OwnEffect(r, session)
    BY <1>1, <1>3, <2>1, <2>2 DEF ApplyArchive, OwnEffect
  <2> QED  BY <2>3
<1>4. CASE ApplyDelete(r)
  <2>1. OwnEffect(r, None)
    BY <1>1, <1>4 DEF ApplyDelete, OwnEffect
  <2> QED  BY <2>1
<1> QED  BY <1>2, <1>3, <1>4 DEF Apply

LEMMA EffectStep ==
  ASSUME IInv, NEW r \in Requests, sent[r], NEW session, OwnEffect(r, session)
  PROVE  IInv'
<1>1. /\ sessions' = [sessions EXCEPT ![target[r]] = session]
      /\ log' = Append(log, r)
      /\ sent' = [sent EXCEPT ![r] = FALSE]
      /\ matched' = [matched EXCEPT ![r] = TRUE]
      /\ UNCHANGED <<op, user, module, copy, pc, target, draft, answer, readAt>>
  BY DEF OwnEffect, Effect, Applied, request
<1>2. pc[r] \in {"writing", "answered"}
  BY DEF IInv, TypeOK, RequestOf
<1>3. /\ Len(log') = Len(log) + 1 /\ log'[Len(log) + 1] = r /\ Len(log) \in Nat
      /\ \A i \in 1..Len(log) : log'[i] = log[i]
  BY <1>1 DEF IInv, TypeOK
<1>4. TypeOK'
  <2>1. sessions' \in [Modules -> Sessions \cup {None}]
    BY <1>1 DEF IInv, TypeOK, OwnEffect
  <2>2. log' \in Seq(Requests)
    BY <1>1 DEF IInv, TypeOK
  <2>3. sent' \in [Requests -> BOOLEAN] /\ matched' \in [Requests -> BOOLEAN \cup {None}]
    BY <1>1 DEF IInv, TypeOK
  <2> QED  BY <1>1, <2>1, <2>2, <2>3 DEF IInv, TypeOK
<1>5. ASSUME NEW q \in Requests PROVE RequestOf(q)'
  <2>1. CASE q = r
    <3>1. sent'[q] = FALSE /\ matched'[q] = TRUE
      BY <2>1, <1>1 DEF IInv, TypeOK
    <3> QED  BY <2>1, <3>1, <1>1, <1>2 DEF IInv, RequestOf
  <2>2. CASE q # r
    <3>1. sent'[q] = sent[q] /\ matched'[q] = matched[q]
      BY <2>2, <1>1 DEF IInv, TypeOK
    <3> QED  BY <3>1, <1>1 DEF IInv, RequestOf
  <2> QED  BY <2>1, <2>2
<1>6. DraftIsOwn'
  BY <1>1 DEF IInv, TypeOK, DraftIsOwn
<1>7. LogIsPast'
  <2>1. \A i \in 1..Len(log') : pc[log'[i]] \in {"writing", "answered"}
    BY <1>2, <1>3 DEF IInv, LogIsPast
  <2>2. \A q \in Requests : readAt[q] <= Len(log')
    BY <1>3 DEF IInv, TypeOK, LogIsPast
  <2>3. ASSUME NEW q \in Requests, matched'[q] = TRUE
        PROVE  \E i \in 1..Len(log') : log'[i] = q
    <3>1. CASE q = r
      BY <3>1, <1>3
    <3>2. CASE q # r
      <4>1. matched[q] = TRUE
        BY <2>3, <3>2, <1>1 DEF IInv, TypeOK
      <4>2. PICK i \in 1..Len(log) : log[i] = q
        BY <4>1 DEF IInv, LogIsPast
      <4> QED  BY <4>2, <1>3
    <3> QED  BY <3>1, <3>2
  <2> QED  BY <1>1, <2>1, <2>2, <2>3 DEF LogIsPast
<1>8. FoundOrDeleted'
  <2> SUFFICES ASSUME NEW q \in Requests, op[q] = "tutor"
               PROVE  /\ sent'[q] => Matches(target[q], user[q])' \/ DeletedSince(q)'
                      /\ matched'[q] = FALSE => DeletedSince(q)'
    BY <1>1 DEF FoundOrDeleted
  <2>1. CASE q = r
    <3>1. sent'[q] = FALSE /\ matched'[q] = TRUE
      BY <2>1, <1>1 DEF IInv, TypeOK
    <3> QED  BY <3>1
  <2>2. CASE q # r
    <3>1. sent'[q] = sent[q] /\ matched'[q] = matched[q]
      BY <2>2, <1>1 DEF IInv, TypeOK
    <3>2. readAt[q] \in Nat /\ readAt[q] <= Len(log)
      BY DEF IInv, TypeOK, LogIsPast
    <3>3. ASSUME DeletedSince(q) PROVE DeletedSince(q)'
      <4>1. PICK i \in readAt[q] + 1..Len(log) : op[log[i]] = "delete" /\ target[log[i]] = target[q]
        BY <3>3 DEF DeletedSince
      <4>2. i \in readAt[q] + 1..Len(log') /\ log'[i] = log[i]
        BY <3>2, <4>1, <1>3
      <4> QED  BY <4>1, <4>2, <1>1 DEF DeletedSince
    <3>4. ASSUME sent[q], Matches(target[q], user[q])
          PROVE  Matches(target[q], user[q])' \/ DeletedSince(q)'
      <4>1. target[q] \in Modules
        BY <3>4 DEF IInv, RequestOf
      <4>2. CASE target[q] # target[r]
        <5>1. sessions'[target[q]] = sessions[target[q]]
          BY <4>1, <4>2, <1>1 DEF IInv, TypeOK
        <5> QED  BY <3>4, <5>1, <1>1 DEF Matches
      <4>3. CASE target[q] = target[r] /\ session # None
        <5>1. sessions'[target[q]] = session
          BY <4>1, <4>3, <1>1 DEF IInv, TypeOK
        <5> QED  BY <3>4, <4>3, <5>1, <1>1 DEF Matches, OwnEffect
      <4>4. CASE target[q] = target[r] /\ session = None
        <5>1. Len(log) + 1 \in readAt[q] + 1..Len(log')
          BY <3>2, <1>3
        <5> QED  BY <4>4, <5>1, <1>1, <1>3 DEF OwnEffect, DeletedSince
      <4> QED  BY <4>2, <4>3, <4>4
    <3> QED  BY <3>1, <3>3, <3>4 DEF IInv, FoundOrDeleted
  <2> QED  BY <2>1, <2>2
<1> QED  BY <1>4, <1>5, <1>6, <1>7, <1>8 DEF IInv

LEMMA NothingStep ==
  ASSUME IInv, NEW r \in Requests, sent[r], ApplyNothing(r)
  PROVE  IInv'
<1>1. /\ sent' = [sent EXCEPT ![r] = FALSE]
      /\ matched' = [matched EXCEPT ![r] = FALSE]
      /\ UNCHANGED <<sessions, op, user, module, copy, pc, target, draft, answer, log, readAt>>
      /\ op[r] \in {"tutor", "archive", "delete"} /\ ~Matches(target[r], user[r])
  BY DEF ApplyNothing, Applied, request
<1>2. pc[r] \in {"writing", "answered"} /\ matched[r] = None
  BY DEF IInv, TypeOK, RequestOf
<1>3. /\ sent'[r] = FALSE /\ matched'[r] = FALSE
      /\ \A q \in Requests \ {r} : sent'[q] = sent[q] /\ matched'[q] = matched[q]
  BY <1>1 DEF IInv, TypeOK
<1>4. TypeOK'
  BY <1>1 DEF IInv, TypeOK
<1>5. ASSUME NEW q \in Requests PROVE RequestOf(q)'
  <2>1. CASE q = r
    <3>1. answer[r] # "saved"
      BY <1>2, SessionsAssumption DEF IInv, RequestOf
    <3> QED  BY <2>1, <3>1, <1>1, <1>2, <1>3 DEF IInv, RequestOf
  <2>2. CASE q # r
    BY <2>2, <1>1, <1>3 DEF IInv, RequestOf
  <2> QED  BY <2>1, <2>2
<1>6. DraftIsOwn'
  BY <1>1 DEF IInv, TypeOK, DraftIsOwn
<1>7. LogIsPast'
  <2>1. \A q \in Requests : matched'[q] = TRUE => matched[q] = TRUE
    BY <1>3
  <2> QED  BY <1>1, <2>1 DEF IInv, LogIsPast
<1>8. FoundOrDeleted'
  <2> SUFFICES ASSUME NEW q \in Requests, op[q] = "tutor"
               PROVE  /\ sent'[q] => Matches(target[q], user[q]) \/ DeletedSince(q)
                      /\ matched'[q] = FALSE => DeletedSince(q)
    BY <1>1 DEF FoundOrDeleted, Matches, DeletedSince
  <2>1. CASE q = r
    BY <2>1, <1>1, <1>3 DEF IInv, FoundOrDeleted
  <2>2. CASE q # r
    BY <2>2, <1>3 DEF IInv, FoundOrDeleted
  <2> QED  BY <2>1, <2>2
<1> QED  BY <1>4, <1>5, <1>6, <1>7, <1>8 DEF IInv

-----------------------------------------------------------------------------
LEMMA Step == IInv /\ [Next]_vars => IInv'
<1> SUFFICES ASSUME IInv, [Next]_vars PROVE IInv'
  OBVIOUS
<1>1. ASSUME NEW r \in Requests, Handle(r) PROVE IInv'
  BY <1>1, BeginStep, FindStep, AnswerStep DEF Handle
<1>2. ASSUME NEW r \in Requests, Apply(r) PROVE IInv'
  <2>1. sent[r]
    BY <1>2 DEF Apply
  <2> QED  BY <1>2, <2>1, EffectsAreOwn, EffectStep, NothingStep
<1>3. CASE UNCHANGED vars
  <2>1. UNCHANGED <<sessions, op, user, module, copy, pc, target, draft, sent, matched, answer,
                    log, readAt>>
    BY <1>3 DEF vars, request, handler
  <2>2. TypeOK' /\ DraftIsOwn' /\ LogIsPast'
    BY <2>1 DEF IInv, TypeOK, DraftIsOwn, LogIsPast
  <2>3. FoundOrDeleted'
    BY <2>1 DEF IInv, FoundOrDeleted, Matches, DeletedSince
  <2>4. \A r \in Requests : RequestOf(r)'
    BY <2>1 DEF IInv, RequestOf
  <2> QED  BY <2>2, <2>3, <2>4 DEF IInv
<1> QED  BY <1>1, <1>2, <1>3 DEF Next

(* IInv holds in every reachable state (the learning-session operations of    *)
(* MongoStore under concurrent requests).                                  *)
THEOREM Invariance == Spec => []IInv
  BY InitInv, Step, PTL DEF Spec

(* Whoever changes a session has a command under way in the name of its       *)
(* owner, and a session never changes hands (the filter of every command).   *)
THEOREM SessionsAreTheirOwners == Spec => OwnersOnly
<1> DEFINE Own(m) ==
      sessions[m] # None /\ sessions'[m] # sessions[m] =>
        /\ \E r \in Requests :
             sent[r] /\ ~sent'[r] /\ target[r] = m /\ user[r] = sessions[m].user
        /\ sessions'[m] # None => sessions'[m].user = sessions[m].user
<1>1. ASSUME IInv, Next, NEW m \in Modules PROVE Own(m)
  <2> SUFFICES ASSUME sessions[m] # None, sessions'[m] # sessions[m]
               PROVE  /\ \E r \in Requests :
                           sent[r] /\ ~sent'[r] /\ target[r] = m /\ user[r] = sessions[m].user
                      /\ sessions'[m] # None => sessions'[m].user = sessions[m].user
    OBVIOUS
  <2>1. PICK r \in Requests : Handle(r) \/ Apply(r)
    BY <1>1 DEF Next
  <2>2. ~Handle(r) /\ ~ApplyNothing(r)
    BY DEF Handle, Begin, FindForSave, FindForTutor, Prepare, FindsNone, AnswerSession, GiveUp, Tell,
           ApplyNothing
  <2>3. sent[r]
    BY <2>1, <2>2 DEF Apply
  <2>4. PICK session : OwnEffect(r, session)
    BY <2>1, <2>2, <1>1, EffectsAreOwn
  <2>5. /\ sessions' = [sessions EXCEPT ![target[r]] = session]
        /\ sent' = [sent EXCEPT ![r] = FALSE]
    BY <2>4 DEF OwnEffect, Effect, Applied
  <2>6. ~sent'[r] /\ target[r] = m
    BY <2>5, <1>1 DEF IInv, TypeOK
  <2>7. user[r] = sessions[m].user /\ sessions'[m] = session
    BY <2>4, <2>5, <2>6, <1>1 DEF OwnEffect, Matches, IInv, TypeOK
  <2>8. session # None => session.user = user[r]
    BY <2>4 DEF OwnEffect
  <2> QED  BY <2>3, <2>6, <2>7, <2>8
<1>2. IInv /\ [Next]_vars => [\A m \in Modules : Own(m)]_vars
  BY <1>1
<1> QED  BY Invariance, <1>2, PTL DEF Spec, OwnersOnly

(* `saved` is told of commands that took effect, but for an exchange whose    *)
(* session was deleted since it was looked up (api_save_learning_session and *)
(* the handlers beside it).                                                *)
THEOREM SavedIsTrue == Spec => []SavedIsWritten
<1>1. IInv => SavedIsWritten
  <2> SUFFICES ASSUME IInv, NEW r \in Requests, answer[r] = "saved"
               PROVE  (\E i \in 1..Len(log) : log[i] = r) \/ (op[r] = "tutor" /\ DeletedSince(r))
    BY DEF SavedIsWritten
  <2>1. matched[r] = TRUE \/ (op[r] = "tutor" /\ matched[r] = FALSE)
    BY DEF IInv, RequestOf
  <2> QED  BY <2>1 DEF IInv, LogIsPast, FoundOrDeleted
<1> QED  BY Invariance, <1>1, PTL

-----------------------------------------------------------------------------
(* What the history says of the sessions now *)

(* An entry's followers are finitely many. *)
LEMMA FollowersAreFinite ==
  ASSUME IInv, NEW i \in 1..Len(log)
  PROVE  IsFiniteSet(Followers(i)) /\ Cardinality(Followers(i)) \in Nat
<1>1. Len(log) \in Nat /\ i \in Nat
  BY DEF IInv, TypeOK
<1>2. IsFiniteSet(i + 1..Len(log))
  BY <1>1, FS_Interval
<1>3. Followers(i) \subseteq i + 1..Len(log)
  BY DEF Followers, Later
<1> QED  BY <1>2, <1>3, FS_Subset, FS_CardinalityType

(* A step that leaves the log and the requests in it alone says the same of  *)
(* every entry.                                                            *)
Recorded ==
  /\ log' = log
  /\ \A i \in 1..Len(log) :
       /\ op'[log[i]] = op[log[i]]
       /\ target'[log[i]] = target[log[i]]
       /\ readAt'[log[i]] = readAt[log[i]]

LEMMA RecordedAlike ==
  ASSUME IInv, Recorded, NEW i \in 1..Len(log)
  PROVE  /\ Followers(i)' = Followers(i)
         /\ Overtaken(i)' <=> Overtaken(i)
         /\ Reopened(i)' <=> Reopened(i)
         /\ (target[log[i]])' = target[log[i]] /\ (op[log[i]])' = op[log[i]]
<1>1. Len(log) \in Nat /\ i \in Nat /\ log' = log
  BY DEF IInv, TypeOK, Recorded
<1>2. /\ (target[log[i]])' = target[log[i]] /\ (op[log[i]])' = op[log[i]]
      /\ \A j \in i + 1..Len(log) : /\ op'[log[j]] = op[log[j]]
                                    /\ target'[log[j]] = target[log[j]]
                                    /\ readAt'[log[j]] = readAt[log[j]]
  BY <1>1 DEF Recorded
<1>3. Later(i, target[log[i]])' = Later(i, target[log[i]])
  BY <1>1, <1>2 DEF Later
<1>4. \A j \in Later(i, target[log[i]]) : j \in i + 1..Len(log)
  BY DEF Later
<1>5. Followers(i)' = Followers(i)
  BY <1>1, <1>2, <1>3, <1>4 DEF Followers
<1>6. Overtaken(i)' <=> Overtaken(i)
  BY <1>1, <1>2, <1>3, <1>4 DEF Overtaken
<1>7. Reopened(i)' <=> Reopened(i)
  BY <1>1, <1>2, <1>3, <1>4 DEF Reopened
<1> QED  BY <1>2, <1>5, <1>6, <1>7

(* A command that takes effect is one more entry, later than all. *)
Grows(r) == log' = Append(log, r) /\ UNCHANGED <<op, target, readAt>>

LEMMA GrowsLater ==
  ASSUME IInv, NEW r \in Requests, Grows(r), NEW i \in 1..Len(log)
  PROVE  /\ log'[i] = log[i] /\ Len(log) \in Nat /\ i \in Nat
         /\ Len(log') = Len(log) + 1 /\ log'[Len(log) + 1] = r
         /\ \A j \in 1..Len(log) : log'[j] = log[j]
         /\ \A j \in Later(i, target[log[i]]) :
              j \in Later(i, target[log[i]])' /\ j \in i + 1..Len(log)
         /\ target[r] = target[log[i]] => Len(log) + 1 \in Later(i, target[log[i]])'
         /\ \A j \in Later(i, target[log[i]])' :
              \/ j \in Later(i, target[log[i]])
              \/ j = Len(log) + 1 /\ target[r] = target[log[i]]
<1>1. /\ Len(log) \in Nat /\ i \in Nat /\ Len(log') = Len(log) + 1
      /\ \A j \in 1..Len(log) : log'[j] = log[j]
      /\ log'[Len(log) + 1] = r /\ target' = target
  BY DEF Grows, IInv, TypeOK
<1>2. Later(i, target[log[i]])' = {j \in i + 1..Len(log) + 1 : target[log'[j]] = target[log[i]]}
  BY <1>1 DEF Later
<1>3. \A j : j \in i + 1..Len(log) + 1 <=> j \in i + 1..Len(log) \/ j = Len(log) + 1
  BY <1>1
<1>4. \A j \in i + 1..Len(log) : log'[j] = log[j]
  BY <1>1
<1> QED  BY <1>1, <1>2, <1>3, <1>4 DEF Later

LEMMA GrowsAlike ==
  ASSUME IInv, NEW r \in Requests, Grows(r), NEW i \in 1..Len(log)
  PROVE  /\ Overtaken(i) => Overtaken(i)'
         /\ Reopened(i) => Reopened(i)'
         /\ op[r] = "tutor" /\ target[r] = target[log[i]] =>
              /\ Cardinality(Followers(i)') = Cardinality(Followers(i)) + 1
              /\ readAt[r] < i => Overtaken(i)' /\ (op[log[i]] = "archive" => Reopened(i)')
         /\ ~(op[r] = "tutor" /\ target[r] = target[log[i]]) => Followers(i)' = Followers(i)
         /\ op[r] = "save" /\ target[r] = target[log[i]] => Overtaken(i)' /\ Reopened(i)'
         /\ op[r] = "delete" /\ target[r] = target[log[i]] => Overtaken(i)'
<1> DEFINE new == Len(log) + 1
<1>1. /\ log'[i] = log[i] /\ i \in 1..Len(log) /\ Len(log) \in Nat /\ i \in Nat
      /\ log'[new] = r /\ op' = op /\ target' = target /\ readAt' = readAt
      /\ \A j \in Later(i, target[log[i]]) :
           j \in Later(i, target[log[i]])' /\ log'[j] = log[j] /\ j # new
      /\ target[r] = target[log[i]] => new \in Later(i, target[log[i]])'
      /\ \A j \in Later(i, target[log[i]])' :
           j \in Later(i, target[log[i]]) \/ (j = new /\ target[r] = target[log[i]])
  <2>1. \A j \in i + 1..Len(log) : j \in 1..Len(log) /\ j # new
    BY GrowsLater
  <2> QED  BY <2>1, GrowsLater DEF Grows
<1> HIDE DEF new
<1>2. Overtaken(i) => Overtaken(i)'
  BY <1>1 DEF Overtaken
<1>3. Reopened(i) => Reopened(i)'
  BY <1>1 DEF Reopened
<1>4. ASSUME op[r] = "tutor", target[r] = target[log[i]]
      PROVE  Cardinality(Followers(i)') = Cardinality(Followers(i)) + 1
  <2>1. Followers(i)' = Followers(i) \cup {new} /\ new \notin Followers(i)
    BY <1>1, <1>4 DEF Followers
  <2> QED  BY <2>1, FollowersAreFinite, FS_AddElement
<1>5. ASSUME op[r] = "tutor", target[r] = target[log[i]], readAt[r] < i
      PROVE  Overtaken(i)' /\ (op[log[i]] = "archive" => Reopened(i)')
  BY <1>1, <1>5 DEF Overtaken, Reopened
<1>6. ASSUME ~(op[r] = "tutor" /\ target[r] = target[log[i]])
      PROVE  Followers(i)' = Followers(i)
  BY <1>1, <1>6 DEF Followers
<1>7. ASSUME op[r] = "save", target[r] = target[log[i]] PROVE Overtaken(i)' /\ Reopened(i)'
  BY <1>1, <1>7 DEF Overtaken, Reopened
<1>8. ASSUME op[r] = "delete", target[r] = target[log[i]] PROVE Overtaken(i)'
  BY <1>1, <1>8 DEF Overtaken
<1> QED  BY <1>2, <1>3, <1>4, <1>5, <1>6, <1>7, <1>8

-----------------------------------------------------------------------------
(* The history under the steps of handlers *)

LEMMA RecordedDraft ==
  ASSUME IInv, Recorded, NEW q \in Requests, DraftKnows(q),
         draft'[q] = draft[q], readAt'[q] = readAt[q], target'[q] = target[q]
  PROVE  DraftKnows(q)'
<1>1. readAt[q] \in Nat /\ Len(log) \in Nat /\ readAt[q] <= Len(log) /\ log' = log
  BY DEF IInv, TypeOK, LogIsPast, Recorded
<1>2. ASSUME NEW i \in 1..readAt[q], target'[log'[i]] = target'[q]
      PROVE  /\ op'[log'[i]] = "tutor" => KeptInDraft(i, q)'
             /\ op'[log'[i]] = "archive" /\ draft'[q].status = "active" => Reopened(i)'
  <2>1. i \in 1..Len(log)
    BY <1>1
  <2>2. /\ Followers(i)' = Followers(i) /\ (Overtaken(i)' <=> Overtaken(i))
        /\ (Reopened(i)' <=> Reopened(i))
        /\ target'[log'[i]] = target[log[i]] /\ op'[log'[i]] = op[log[i]]
    BY <2>1, RecordedAlike
  <2>3. /\ op[log[i]] = "tutor" => KeptInDraft(i, q)
        /\ op[log[i]] = "archive" /\ draft[q].status = "active" => Reopened(i)
    BY <1>2, <2>2 DEF DraftKnows
  <2>4. KeptInDraft(i, q) => KeptInDraft(i, q)'
    BY <1>1, <2>2 DEF KeptInDraft, StandsIn
  <2> QED  BY <2>2, <2>3, <2>4
<1> QED  BY <1>2 DEF DraftKnows

LEMMA RecordedHistory ==
  ASSUME IInv, HistoryInv, Recorded, sessions' = sessions,
         \A q \in Requests : sent'[q] /\ op'[q] = "tutor" => DraftKnows(q)'
  PROVE  HistoryInv'
<1>1. log' = log
  BY DEF Recorded
<1>2. ASSUME NEW i \in 1..Len(log)
      PROVE  /\ Followers(i)' = Followers(i) /\ (Overtaken(i)' <=> Overtaken(i))
             /\ (Reopened(i)' <=> Reopened(i))
             /\ target'[log'[i]] = target[log[i]] /\ op'[log'[i]] = op[log[i]]
  BY RecordedAlike
<1>3. \A i \in 1..Len(log') : target'[log'[i]] \in Modules
  BY <1>1, <1>2 DEF HistoryInv
<1>4. ASSUME NEW i \in 1..Len(log), op'[log'[i]] = "tutor" PROVE KeptInSession(i)'
  <2>1. KeptInSession(i)
    BY <1>2, <1>4 DEF HistoryInv
  <2> QED  BY <2>1, <1>1, <1>2 DEF KeptInSession, StandsIn
<1>5. ClosedStaysClosed'
  BY <1>1, <1>2 DEF HistoryInv, ClosedStaysClosed
<1> QED  BY <1>1, <1>3, <1>4, <1>5 DEF HistoryInv

(* A request in the log is past its look-up. *)
LEMMA RecordedOthers ==
  ASSUME IInv, NEW r \in Requests, pc[r] \in {"idle", "finding"}, log' = log,
         \A q \in Requests \ {r} :
           op'[q] = op[q] /\ target'[q] = target[q] /\ readAt'[q] = readAt[q]
  PROVE  Recorded
<1>1. \A i \in 1..Len(log) : log[i] \in Requests
  BY DEF IInv, TypeOK
<1>2. \A i \in 1..Len(log) : log[i] # r
  BY DEF IInv, LogIsPast
<1> QED  BY <1>1, <1>2 DEF Recorded

LEMMA BeginKeepsHistory ==
  ASSUME IInv, HistoryInv, NEW r \in Requests, Begin(r)
  PROVE  HistoryInv'
<1>1. /\ pc[r] = "idle" /\ log' = log /\ sessions' = sessions /\ draft' = draft
      /\ \A q \in Requests \ {r} : /\ op'[q] = op[q] /\ target'[q] = target[q]
                                   /\ readAt'[q] = readAt[q] /\ sent'[q] = sent[q]
      /\ sent'[r] => op'[r] # "tutor"
  <2>1. PICK o \in Operations, m \in Modules \cup {None} :
          /\ op' = [op EXCEPT ![r] = o] /\ target' = [target EXCEPT ![r] = m]
          /\ sent' = [sent EXCEPT ![r] = o \in {"archive", "delete"}]
    BY DEF Begin
  <2>2. /\ pc[r] = "idle" /\ readAt' = [readAt EXCEPT ![r] = Len(log)]
        /\ UNCHANGED <<sessions, draft, log>>
    BY DEF Begin
  <2>3. op'[r] = o /\ sent'[r] = (o \in {"archive", "delete"})
    BY <2>1 DEF IInv, TypeOK
  <2>4. \A q \in Requests \ {r} : /\ op'[q] = op[q] /\ target'[q] = target[q]
                                  /\ readAt'[q] = readAt[q] /\ sent'[q] = sent[q]
    BY <2>1, <2>2 DEF IInv, TypeOK
  <2> QED  BY <2>2, <2>3, <2>4
<1>2. Recorded
  BY <1>1, RecordedOthers
<1>3. ASSUME NEW q \in Requests, sent'[q], op'[q] = "tutor" PROVE DraftKnows(q)'
  <2>1. q # r
    BY <1>1, <1>3
  <2>2. DraftKnows(q)
    BY <1>1, <1>3, <2>1 DEF HistoryInv
  <2> QED  BY <1>1, <1>2, <2>1, <2>2, RecordedDraft
<1> QED  BY <1>1, <1>2, <1>3, RecordedHistory

LEMMA TellKeepsHistory ==
  ASSUME IInv, HistoryInv, NEW r \in Requests, NEW what, Tell(r, what)
  PROVE  HistoryInv'
<1>1. UNCHANGED <<sessions, op, target, draft, sent, log, readAt>>
  BY DEF Tell, request
<1>2. Recorded
  BY <1>1 DEF Recorded
<1>3. ASSUME NEW q \in Requests, sent'[q], op'[q] = "tutor" PROVE DraftKnows(q)'
  BY <1>1, <1>2, <1>3, RecordedDraft DEF HistoryInv
<1> QED  BY <1>1, <1>2, <1>3, RecordedHistory

(* Where the place p of a sequence is after its first a - 1 are cut. *)
LEMMA CutPlace ==
  ASSUME NEW length \in Nat, NEW max \in Nat, NEW a \in Nat, length - a + 1 = max,
         NEW behind \in Nat, behind < max, NEW p \in 1..length, length - p <= behind
  PROVE  /\ p - a + 1 \in 1..max /\ max - (p - a + 1) <= behind
         /\ a + (p - a + 1) - 1 = p
  OBVIOUS

(* A kept exchange is kept by the next one too, one place further. *)
LEMMA TailKeeps ==
  ASSUME NEW s \in Seq(Requests), NEW r \in Requests, NEW entry,
         NEW n \in Nat, n + 1 < MaxExchanges,
         NEW p \in 1..Len(s), s[p] = entry, Len(s) - p <= n
  PROVE  LET t == Tail30(Append(s, r)) IN
         \E k \in 1..Len(t) : t[k] = entry /\ Len(t) - k <= n + 1
<1> DEFINE all == Append(s, r)
           t == Tail30(all)
<1>1. /\ all \in Seq(Requests) /\ Len(all) = Len(s) + 1 /\ Len(s) \in Nat /\ p \in Nat
      /\ p \in 1..Len(all) /\ all[p] = entry /\ Len(all) - p <= n + 1
  OBVIOUS
<1> HIDE DEF all
<1>2. CASE Len(all) <= MaxExchanges
  BY <1>1, <1>2 DEF Tail30
<1>3. CASE ~(Len(all) <= MaxExchanges)
  <2> DEFINE a == Len(all) - MaxExchanges + 1
             k == p - a + 1
  <2>1. /\ a \in Nat /\ a >= 1 /\ a <= Len(all) /\ Len(all) - a + 1 = MaxExchanges
        /\ Len(all) \in Nat /\ MaxExchanges \in Nat
    BY <1>1, <1>3, SessionsAssumption
  <2>2. k \in 1..MaxExchanges /\ MaxExchanges - k <= n + 1 /\ a + k - 1 = p
    <3> HIDE DEF a
    <3>1. n + 1 \in Nat /\ n + 1 < MaxExchanges
      OBVIOUS
    <3> QED  BY <1>1, <2>1, <3>1, CutPlace DEF k
  <2>3. t = SubSeq(all, a, Len(all))
    BY <1>3 DEF Tail30
  <2> HIDE DEF a, k
  <2>4. Len(t) = MaxExchanges /\ \A j \in 1..MaxExchanges : t[j] = all[a + j - 1]
    BY <1>1, <2>1, <2>3, SessionsAssumption
  <2> HIDE DEF t
  <2>5. t[k] = entry
    BY <1>1, <2>2, <2>4
  <2> QED  BY <2>2, <2>4, <2>5 DEF t, all
<1> QED  BY <1>2, <1>3

LEMMA TailEnds ==
  ASSUME NEW s \in Seq(Requests), NEW r \in Requests
  PROVE  LET t == Tail30(Append(s, r)) IN Len(t) > 0 /\ t[Len(t)] = r
<1> DEFINE all == Append(s, r)
           t == Tail30(all)
<1>1. all \in Seq(Requests) /\ Len(all) > 0 /\ Len(all) \in Nat /\ all[Len(all)] = r
  OBVIOUS
<1> HIDE DEF all
<1>2. CASE Len(all) <= MaxExchanges
  BY <1>1, <1>2 DEF Tail30, all
<1>3. CASE ~(Len(all) <= MaxExchanges)
  <2> DEFINE a == Len(all) - MaxExchanges + 1
  <2>1. /\ a \in Nat /\ a >= 1 /\ a <= Len(all) /\ Len(all) - a + 1 = MaxExchanges
        /\ a + MaxExchanges - 1 = Len(all) /\ MaxExchanges > 0
    BY <1>1, <1>3, SessionsAssumption
  <2>2. t = SubSeq(all, a, Len(all))
    BY <1>3 DEF Tail30
  <2> HIDE DEF a
  <2>3. Len(t) = MaxExchanges /\ \A j \in 1..MaxExchanges : t[j] = all[a + j - 1]
    BY <1>1, <2>1, <2>2, SessionsAssumption
  <2> HIDE DEF t
  <2>4. t[MaxExchanges] = r
    BY <1>1, <2>1, <2>3, SessionsAssumption
  <2> QED  BY <2>1, <2>3, <2>4 DEF t, all
<1> QED  BY <1>2, <1>3

LEMMA PrepareKeepsHistory ==
  ASSUME IInv, HistoryInv, NEW r \in Requests, FindForSave(r) \/ FindForTutor(r)
  PROVE  HistoryInv'
<1>1. PICK m, session : Prepare(r, m, session)
  BY DEF FindForSave, FindForTutor
<1>2. /\ pc[r] = "finding" /\ log' = log /\ sessions' = sessions /\ op' = op
      /\ \A q \in Requests \ {r} : /\ target'[q] = target[q] /\ draft'[q] = draft[q]
                                   /\ readAt'[q] = readAt[q] /\ sent'[q] = sent[q]
  BY <1>1 DEF Prepare, request, IInv, TypeOK
<1>3. Recorded
  BY <1>2, RecordedOthers
<1>4. ASSUME op[r] = "tutor" PROVE DraftKnows(r)'
  <2>1. PICK m2 \in Modules :
          Matches(m2, user[r]) /\
          Prepare(r, m2, [sessions[m2] EXCEPT !.exchanges = Tail30(Append(@, r))])
    BY <1>4 DEF FindForSave, FindForTutor
  <2> DEFINE s == sessions[m2].exchanges
  <2>2. /\ sessions[m2] \in Sessions /\ sessions[m2] # None /\ s \in Seq(Requests)
    <3>1. sessions[m2] \in Sessions /\ sessions[m2] # None
      BY <2>1 DEF Matches, IInv, TypeOK
    <3> QED  BY <3>1 DEF Sessions
  <2>3. /\ target'[r] = m2 /\ readAt'[r] = Len(log)
        /\ draft'[r] = [sessions[m2] EXCEPT !.exchanges = Tail30(Append(@, r))]
    BY <2>1 DEF Prepare, IInv, TypeOK
  <2>4. draft'[r].exchanges = Tail30(Append(s, r)) /\ draft'[r].status = sessions[m2].status
    BY <2>2, <2>3 DEF Sessions
  <2> HIDE DEF s
  <2>5. Len(draft'[r].exchanges) > 0 /\ draft'[r].exchanges[Len(draft'[r].exchanges)] = r
    BY <2>2, <2>4, TailEnds
  <2>6. ASSUME NEW i \in 1..Len(log), target'[log'[i]] = m2
        PROVE  /\ op'[log'[i]] = "tutor" => KeptInDraft(i, r)'
               /\ op'[log'[i]] = "archive" /\ draft'[r].status = "active" => Reopened(i)'
    <3>1. /\ Followers(i)' = Followers(i) /\ (Overtaken(i)' <=> Overtaken(i))
          /\ (Reopened(i)' <=> Reopened(i))
          /\ target'[log'[i]] = target[log[i]] /\ op'[log'[i]] = op[log[i]]
      BY <1>3, RecordedAlike
    <3>2. target[log[i]] = m2
      BY <2>6, <3>1
    <3> DEFINE n == Cardinality(Followers(i))
    <3>3. n \in Nat
      BY FollowersAreFinite
    <3>4. ASSUME op[log[i]] = "tutor", ~Overtaken(i), n + 1 < MaxExchanges
          PROVE  StandsIn(i, Tail30(Append(s, r)), n + 1)
      <4>1. KeptInSession(i) /\ n < MaxExchanges
        BY <3>3, <3>4, SessionsAssumption DEF HistoryInv
      <4>2. StandsIn(i, s, n)
        BY <3>2, <3>4, <4>1 DEF KeptInSession, s
      <4>3. PICK p \in 1..Len(s) : s[p] = log[i] /\ Len(s) - p <= n
        BY <4>2 DEF StandsIn
      <4> HIDE DEF n
      <4> QED  BY <2>2, <3>3, <3>4, <4>3, TailKeeps DEF StandsIn
    <3>5. op[log[i]] = "tutor" => KeptInDraft(i, r)'
      <4>1. StandsIn(i, Tail30(Append(s, r)), n + 1) =>
              StandsIn(i, draft[r].exchanges, Cardinality(Followers(i)) + 1)'
        BY <1>2, <2>4, <3>1 DEF StandsIn
      <4> QED  BY <3>1, <3>4, <4>1 DEF KeptInDraft
    <3>6. ASSUME op[log[i]] = "archive", sessions[m2].status = "active" PROVE Reopened(i)
      BY <2>2, <3>2, <3>6 DEF HistoryInv, ClosedStaysClosed
    <3> QED  BY <2>4, <3>1, <3>5, <3>6
  <2> QED  BY <2>3, <2>5, <2>6 DEF DraftKnows
<1>5. ASSUME NEW q \in Requests, sent'[q], op'[q] = "tutor" PROVE DraftKnows(q)'
  <2>1. CASE q = r
    BY <2>1, <1>2, <1>4, <1>5
  <2>2. CASE q # r
    <3>1. DraftKnows(q)
      BY <1>2, <1>5, <2>2 DEF HistoryInv
    <3> QED  BY <1>2, <1>3, <2>2, <3>1, RecordedDraft
  <2> QED  BY <2>1, <2>2
<1> QED  BY <1>2, <1>3, <1>5, RecordedHistory

-----------------------------------------------------------------------------
(* The history under the commands of the database *)

(* What a command's effect leaves alone, and where it writes. *)
Wrote(r, session) ==
  /\ Grows(r) /\ target[r] \in Modules /\ draft' = draft
  /\ sessions' = [sessions EXCEPT ![target[r]] = session]
  /\ sent' = [sent EXCEPT ![r] = FALSE]

LEMMA EffectWrites ==
  ASSUME IInv, NEW r \in Requests, sent[r], NEW session, Effect(r, session)
  PROVE  Wrote(r, session)
<1>1. target[r] \in Modules
  BY DEF IInv, RequestOf
<1> QED  BY <1>1 DEF Effect, Applied, request, Grows, Wrote

(* What another request's exchange would write is still right. *)
LEMMA WroteDraft ==
  ASSUME IInv, NEW r \in Requests, Grows(r), draft' = draft,
         NEW q \in Requests, DraftKnows(q), draft[q] \in Sessions
  PROVE  DraftKnows(q)'
<1>1. readAt' = readAt /\ target' = target /\ op' = op /\ draft' = draft
  BY DEF Grows
<1>2. readAt[q] \in Nat /\ readAt[q] <= Len(log) /\ Len(log) \in Nat
  BY DEF IInv, TypeOK, LogIsPast
<1>3. ASSUME NEW i \in 1..readAt[q], target[log'[i]] = target[q]
      PROVE  /\ op[log'[i]] = "tutor" => KeptInDraft(i, q)'
             /\ op[log'[i]] = "archive" /\ draft[q].status = "active" => Reopened(i)'
  <2>1. i \in 1..Len(log)
    BY <1>2
  <2>2. log'[i] = log[i]
    BY <2>1, GrowsLater
  <2>3. /\ op[log[i]] = "tutor" => KeptInDraft(i, q)
        /\ op[log[i]] = "archive" /\ draft[q].status = "active" => Reopened(i)
    BY <1>3, <2>2 DEF DraftKnows
  <2> DEFINE n == Cardinality(Followers(i))
             after == Cardinality(Followers(i)')
  <2>4. n \in Nat /\ (after = n \/ after = n + 1)
    BY <2>1, FollowersAreFinite, GrowsAlike
  <2>5. (Overtaken(i) => Overtaken(i)') /\ (Reopened(i) => Reopened(i)')
    BY <2>1, GrowsAlike
  <2>6. ASSUME KeptInDraft(i, q), ~Overtaken(i)', after + 1 < MaxExchanges
        PROVE  \E p \in 1..Len(draft[q].exchanges) :
                 draft[q].exchanges[p] = log[i] /\ Len(draft[q].exchanges) - p <= after + 1
    <3>1. n + 1 < MaxExchanges /\ ~Overtaken(i) /\ n \in Nat /\ after \in Nat /\ n <= after
      BY <2>4, <2>5, <2>6, SessionsAssumption
    <3>2. PICK p \in 1..Len(draft[q].exchanges) :
            draft[q].exchanges[p] = log[i] /\ Len(draft[q].exchanges) - p <= n + 1
      BY <2>6, <3>1 DEF KeptInDraft, StandsIn
    <3>3. Len(draft[q].exchanges) \in Nat /\ p \in Nat
      BY DEF Sessions
    <3> HIDE DEF n, after
    <3>4. Len(draft[q].exchanges) - p <= after + 1
      BY <3>1, <3>2, <3>3
    <3> QED  BY <3>2, <3>4
  <2>7. KeptInDraft(i, q) => KeptInDraft(i, q)'
    BY <1>1, <2>2, <2>6 DEF KeptInDraft, StandsIn
  <2> QED  BY <2>2, <2>3, <2>5, <2>7
<1> QED  BY <1>1, <1>3 DEF DraftKnows

(* What a command must write for the entries of the log. *)
WritesWell(r, session) ==
  /\ \A i \in 1..Len(log) : target[log[i]] = target[r] =>
       /\ op[log[i]] = "tutor" => KeptInSession(i)'
       /\ \/ op[log[i]] = "delete" /\ session # None
          \/ op[log[i]] = "archive" /\ session # None /\ session.status = "active"
          => Reopened(i)'
  /\ op[r] = "tutor" =>
       /\ session # None /\ Len(session.exchanges) > 0
       /\ session.exchanges[Len(session.exchanges)] = r
       /\ Len(session.exchanges) \in Nat
  /\ op[r] = "archive" => session = None \/ session.status # "active"
  /\ op[r] = "delete" => session = None

LEMMA WriteKeepsHistory ==
  ASSUME IInv, HistoryInv, NEW r \in Requests, NEW session,
         Wrote(r, session), WritesWell(r, session)
  PROVE  HistoryInv'
<1> DEFINE new == Len(log) + 1
<1>1. /\ op' = op /\ target' = target /\ readAt' = readAt /\ draft' = draft
      /\ target[r] \in Modules /\ Len(log) \in Nat
      /\ Len(log') = new /\ log'[new] = r
      /\ \A i \in 1..Len(log) : log'[i] = log[i]
  BY DEF Wrote, Grows, IInv, TypeOK
<1>2. \A i \in 1..Len(log') : i \in 1..Len(log) \/ i = new
  BY <1>1
<1>3. /\ sessions'[target[r]] = session
      /\ \A m \in Modules : m # target[r] => sessions'[m] = sessions[m]
      /\ \A q \in Requests : sent'[q] => sent[q]
  BY <1>1 DEF Wrote, IInv, TypeOK
<1> HIDE DEF new
<1>4. \A i \in 1..Len(log') : target'[log'[i]] \in Modules
  BY <1>1, <1>2 DEF HistoryInv
<1>5. ASSUME NEW i \in 1..Len(log'), op'[log'[i]] = "tutor" PROVE KeptInSession(i)'
  <2>1. CASE i \in 1..Len(log) /\ target[log[i]] = target[r]
    BY <2>1, <1>1, <1>5 DEF WritesWell
  <2>2. CASE i \in 1..Len(log) /\ target[log[i]] # target[r]
    <3>1. KeptInSession(i) /\ sessions'[target[log[i]]] = sessions[target[log[i]]]
      BY <2>2, <1>1, <1>3, <1>5 DEF HistoryInv
    <3>2. Followers(i)' = Followers(i) /\ (Overtaken(i) => Overtaken(i)')
      BY <2>2, GrowsAlike DEF Wrote
    <3> QED  BY <2>2, <3>1, <3>2, <1>1 DEF KeptInSession, StandsIn
  <2>3. CASE i = new
    <3> DEFINE length == Len(session.exchanges)
    <3>1. /\ op[r] = "tutor" /\ sessions'[target'[log'[i]]] = session /\ log'[i] = r
      BY <2>3, <1>1, <1>3, <1>5
    <3>2. /\ session # None /\ length \in Nat /\ length > 0 /\ session.exchanges[length] = r
      BY <3>1 DEF WritesWell
    <3>3. Followers(i)' = {}
      <4>1. i + 1..Len(log') = {}
        BY <2>3, <1>1 DEF new
      <4> QED  BY <4>1 DEF Followers, Later
    <3>4. Cardinality(Followers(i)') = 0
      BY <3>3, FS_EmptySet
    <3>5. length \in 1..length /\ length - length <= 0
      BY <3>2
    <3> QED  BY <3>1, <3>2, <3>4, <3>5 DEF KeptInSession, StandsIn
  <2> QED  BY <1>2, <2>1, <2>2, <2>3
<1>6. ASSUME NEW q \in Requests, sent'[q], op'[q] = "tutor" PROVE DraftKnows(q)'
  <2>1. DraftKnows(q) /\ draft[q] \in Sessions
    BY <1>1, <1>3, <1>6 DEF HistoryInv, IInv, DraftIsOwn
  <2> QED  BY <2>1, WroteDraft DEF Wrote
<1>7. ASSUME NEW i \in 1..Len(log'),
             LET now == sessions'[target'[log'[i]]] IN
             \/ op'[log'[i]] = "delete" /\ now # None
             \/ op'[log'[i]] = "archive" /\ now # None /\ now.status = "active"
      PROVE  Reopened(i)'
  <2>1. CASE i \in 1..Len(log) /\ target[log[i]] = target[r]
    BY <2>1, <1>1, <1>3, <1>7 DEF WritesWell
  <2>2. CASE i \in 1..Len(log) /\ target[log[i]] # target[r]
    <3>1. sessions'[target[log[i]]] = sessions[target[log[i]]]
      BY <2>2, <1>3 DEF HistoryInv
    <3>2. Reopened(i)
      BY <2>2, <3>1, <1>1, <1>7 DEF HistoryInv, ClosedStaysClosed
    <3> QED  BY <2>2, <3>2, GrowsAlike DEF Wrote
  <2>3. CASE i = new
    <3>1. log'[i] = r /\ sessions'[target'[log'[i]]] = session
      BY <2>3, <1>1, <1>3
    <3> QED  BY <3>1, <1>1, <1>7 DEF WritesWell
  <2> QED  BY <1>2, <2>1, <2>2, <2>3
<1>8. ClosedStaysClosed'
  BY <1>7 DEF ClosedStaysClosed
<1> QED  BY <1>4, <1>5, <1>6, <1>8 DEF HistoryInv

LEMMA ApplyKeepsHistory ==
  ASSUME IInv, HistoryInv, NEW r \in Requests, Apply(r)
  PROVE  HistoryInv'
<1>1. sent[r] /\ target[r] \in Modules /\ op[r] \in Operations \cup {None}
  BY DEF Apply, IInv, TypeOK, RequestOf
<1>2. CASE ApplyNothing(r)
  <2>1. /\ UNCHANGED <<sessions, op, target, draft, log, readAt>>
        /\ sent' = [sent EXCEPT ![r] = FALSE]
    BY <1>2 DEF ApplyNothing, Applied, request
  <2>2. Recorded
    BY <2>1 DEF Recorded
  <2>3. ASSUME NEW q \in Requests, sent'[q], op'[q] = "tutor" PROVE DraftKnows(q)'
    <3>1. sent[q]
      BY <2>1, <2>3 DEF IInv, TypeOK
    <3>2. DraftKnows(q)
      BY <2>1, <2>3, <3>1 DEF HistoryInv
    <3> QED  BY <2>1, <2>2, <3>2, RecordedDraft
  <2> QED  BY <2>1, <2>2, <2>3, RecordedHistory
<1>3. CASE ApplySave(r)
  <2>1. op[r] = "save" /\ Wrote(r, draft[r])
    BY <1>1, <1>3, EffectWrites DEF ApplySave
  <2>2. \A i \in 1..Len(log) : target[log[i]] = target[r] => Overtaken(i)' /\ Reopened(i)'
    BY <2>1, GrowsAlike DEF Wrote
  <2>3. WritesWell(r, draft[r])
    BY <2>1, <2>2 DEF WritesWell, KeptInSession
  <2> QED  BY <2>1, <2>3, WriteKeepsHistory
<1>4. CASE ApplyDelete(r)
  <2>1. op[r] = "delete" /\ Wrote(r, None)
    BY <1>1, <1>4, EffectWrites DEF ApplyDelete
  <2>2. \A i \in 1..Len(log) : target[log[i]] = target[r] => Overtaken(i)'
    BY <2>1, GrowsAlike DEF Wrote
  <2>3. WritesWell(r, None)
    BY <2>1, <2>2 DEF WritesWell, KeptInSession
  <2> QED  BY <2>1, <2>3, WriteKeepsHistory
<1>5. CASE ApplyArchive(r)
  <2> DEFINE before == sessions[target[r]]
             session == [before EXCEPT !.status = "archived"]
  <2>1. op[r] = "archive" /\ Wrote(r, session)
    BY <1>1, <1>5, EffectWrites DEF ApplyArchive
  <2>2. before \in Sessions /\ before # None
    BY <1>1, <1>5 DEF ApplyArchive, Matches, IInv, TypeOK
  <2>3. session \in Sessions /\ session.exchanges = before.exchanges /\ session.status = "archived"
    BY <2>2 DEF Sessions
  <2>4. session # None /\ sessions'[target[r]] = session
    BY <1>1, <2>1, <2>3, NoneIsNoSession DEF Wrote, IInv, TypeOK
  <2> HIDE DEF session
  <2>5. ASSUME NEW i \in 1..Len(log), target[log[i]] = target[r]
        PROVE  /\ op[log[i]] = "tutor" => KeptInSession(i)'
               /\ op[log[i]] = "delete" => Reopened(i)'
    <3>1. /\ Followers(i)' = Followers(i) /\ (Overtaken(i) => Overtaken(i)')
          /\ (Reopened(i) => Reopened(i)')
      BY <2>1, GrowsAlike DEF Wrote
    <3>2. log'[i] = log[i] /\ target' = target
      BY <2>1, GrowsLater DEF Wrote, Grows
    <3>3. op[log[i]] = "tutor" => KeptInSession(i)
      BY DEF HistoryInv
    <3>4. KeptInSession(i) => KeptInSession(i)'
      BY <2>3, <2>4, <2>5, <3>1, <3>2 DEF KeptInSession, StandsIn
    <3>5. op[log[i]] = "delete" => Reopened(i)
      BY <2>2, <2>5 DEF HistoryInv, ClosedStaysClosed
    <3> QED  BY <3>1, <3>3, <3>4, <3>5
  <2>6. WritesWell(r, session)
    BY <2>1, <2>3, <2>5 DEF WritesWell
  <2> QED  BY <2>1, <2>6, WriteKeepsHistory
<1>6. CASE ApplyTutor(r)
  <2> DEFINE session == draft[r]
  <2>1. op[r] = "tutor" /\ Wrote(r, session) /\ sessions[target[r]] # None
    BY <1>1, <1>6, EffectWrites DEF ApplyTutor, Matches
  <2>2. session \in Sessions /\ session # None /\ Len(session.exchanges) \in Nat
    <3>1. session \in Sessions
      BY <1>1, <2>1 DEF IInv, DraftIsOwn
    <3> QED  BY <3>1, NoneIsNoSession DEF Sessions
  <2>3. DraftKnows(r) /\ sessions'[target[r]] = session /\ readAt[r] \in Nat
    BY <1>1, <2>1 DEF HistoryInv, Wrote, IInv, TypeOK
  <2>4. ASSUME NEW i \in 1..Len(log), target[log[i]] = target[r]
        PROVE  /\ op[log[i]] = "tutor" => KeptInSession(i)'
               /\ \/ op[log[i]] = "delete"
                  \/ op[log[i]] = "archive" /\ session.status = "active"
                  => Reopened(i)'
    <3>1. /\ Cardinality(Followers(i)') = Cardinality(Followers(i)) + 1
          /\ readAt[r] < i => Overtaken(i)' /\ (op[log[i]] = "archive" => Reopened(i)')
          /\ (Overtaken(i) => Overtaken(i)') /\ (Reopened(i) => Reopened(i)')
      BY <2>1, <2>4, GrowsAlike DEF Wrote
    <3>2. log'[i] = log[i] /\ target' = target /\ i \in Nat
      BY <2>1, GrowsLater DEF Wrote, Grows
    <3>3. i \in 1..readAt[r] \/ readAt[r] < i
      BY <2>3, <3>2
    <3>4. CASE i \in 1..readAt[r]
      <4>1. /\ op[log[i]] = "tutor" => KeptInDraft(i, r)
            /\ op[log[i]] = "archive" /\ session.status = "active" => Reopened(i)
        BY <2>3, <2>4, <3>4 DEF DraftKnows
      <4>2. KeptInDraft(i, r) => KeptInSession(i)'
        BY <2>2, <2>3, <2>4, <3>1, <3>2 DEF KeptInDraft, KeptInSession, StandsIn
      <4>3. op[log[i]] = "delete" => Reopened(i)
        BY <2>1, <2>4 DEF HistoryInv, ClosedStaysClosed
      <4> QED  BY <3>1, <4>1, <4>2, <4>3
    <3>5. CASE readAt[r] < i
      <4>1. op[log[i]] = "delete" => Reopened(i)
        BY <2>1, <2>4 DEF HistoryInv, ClosedStaysClosed
      <4> QED  BY <3>1, <3>5, <4>1 DEF KeptInSession
    <3> QED  BY <3>3, <3>4, <3>5
  <2>5. WritesWell(r, session)
    BY <2>1, <2>2, <2>3, <2>4 DEF WritesWell, DraftKnows
  <2> QED  BY <2>1, <2>5, WriteKeepsHistory
<1> QED  BY <1>2, <1>3, <1>4, <1>5, <1>6 DEF Apply

-----------------------------------------------------------------------------
LEMMA InitHistory == Init => HistoryInv
<1> SUFFICES ASSUME Init PROVE HistoryInv
  OBVIOUS
<1>1. \A i \in 1..Len(log) : FALSE
  BY DEF Init
<1>2. \A r \in Requests : ~sent[r]
  BY DEF Init, OfRequests
<1> QED  BY <1>1, <1>2 DEF HistoryInv, ClosedStaysClosed

LEMMA StepHistory == IInv /\ HistoryInv /\ [Next]_vars => HistoryInv'
<1> SUFFICES ASSUME IInv, HistoryInv, [Next]_vars PROVE HistoryInv'
  OBVIOUS
<1>1. ASSUME NEW r \in Requests, Handle(r) PROVE HistoryInv'
  <2>1. CASE FindsNone(r) \/ AnswerSession(r) \/ GiveUp(r)
    <3>1. \E what : Tell(r, what)
      BY <2>1 DEF FindsNone, AnswerSession, GiveUp, Tell
    <3> QED  BY <3>1, TellKeepsHistory
  <2> QED  BY <1>1, <2>1, BeginKeepsHistory, PrepareKeepsHistory DEF Handle
<1>2. ASSUME NEW r \in Requests, Apply(r) PROVE HistoryInv'
  BY <1>2, ApplyKeepsHistory
<1>3. CASE UNCHANGED vars
  <2>1. UNCHANGED <<sessions, op, target, draft, sent, log, readAt>>
    BY <1>3 DEF vars, request, handler
  <2>2. Recorded
    BY <2>1 DEF Recorded
  <2>3. ASSUME NEW q \in Requests, sent'[q], op'[q] = "tutor" PROVE DraftKnows(q)'
    BY <2>1, <2>2, <2>3, RecordedDraft DEF HistoryInv
  <2> QED  BY <2>1, <2>2, <2>3, RecordedHistory
<1> QED  BY <1>1, <1>2, <1>3 DEF Next

(* HistoryInv holds in every reachable state (save_learning_session,          *)
(* append_tutor_exchange and the commands beside them, interleaved).         *)
THEOREM HistoryHolds == Spec => []HistoryInv
  BY Invariance, InitHistory, StepHistory, PTL DEF Spec

(* A written exchange is in its session, unless something that followed is    *)
(* known to take it away (append_tutor_exchange).                           *)
THEOREM ExchangesStay == Spec => []ExchangesAreKept
<1>1. IInv /\ HistoryInv => ExchangesAreKept
  <2> SUFFICES ASSUME IInv, HistoryInv, NEW i \in 1..Len(log), op[log[i]] = "tutor",
                      ~Overtaken(i), ~(Cardinality(Followers(i)) >= MaxExchanges)
               PROVE  log[i] \in Exchanges(target[log[i]])
    BY DEF ExchangesAreKept
  <2>1. Cardinality(Followers(i)) < MaxExchanges
    BY FollowersAreFinite, SessionsAssumption
  <2>2. /\ sessions[target[log[i]]] # None
        /\ StandsIn(i, sessions[target[log[i]]].exchanges, Cardinality(Followers(i)))
    BY <2>1 DEF HistoryInv, KeptInSession
  <2> QED  BY <2>2 DEF StandsIn, Exchanges
<1> QED  BY Invariance, HistoryHolds, <1>1, PTL

(* Only a save, or an exchange that had read it open, brings a closed session *)
(* back (the filters and the missing upsert of the commands).               *)
THEOREM ClosedOnesStayClosed == Spec => []ClosedStaysClosed
<1>1. HistoryInv => ClosedStaysClosed
  BY DEF HistoryInv
<1> QED  BY HistoryHolds, <1>1, PTL
=============================================================================
