--------------------------- MODULE LearningSessions ---------------------------
(***************************************************************************)
(* MongoStore's learning sessions (src/src/lib.rs) under concurrent          *)
(* requests.  A request is a look-up and a command, or a command alone.  Its *)
(* handler waits three seconds: it may answer that nothing was saved while   *)
(* the command is still with the database, which carries it out later or     *)
(* never.  A tutor exchange is named by the request that saved it.  What     *)
(* only reads (get, list, export, events) changes nothing and is left out.   *)
(***************************************************************************)
EXTENDS Naturals, Sequences, FiniteSets

CONSTANTS
  Users,
  Modules,       \* session ids, chosen by clients
  Requests,
  MaxExchanges,  \* exchanges kept of a session: half of the 30 messages
  None

Operations == {"save", "tutor", "archive", "delete"}

ASSUME SessionsAssumption ==
  /\ MaxExchanges \in Nat \ {0}
  /\ None \notin Users /\ None \notin Modules
  /\ None \notin Operations /\ None \notin BOOLEAN /\ None \notin {"saved", "unsaved"}

Sessions == [user : Users, status : {"active", "archived"}, exchanges : Seq(Requests)]

ASSUME NoneIsNoSession == None \notin Sessions

VARIABLES
  sessions,  \* the collection learning_sessions, by _id
  op, user, module, copy,  \* a request: what it asks, for whom, of which session,
                           \* and the exchanges its client has of it
  pc,        \* where its handler is
  target,    \* the session its command names
  draft,     \* the document its command would write
  sent,      \* the command is with the database
  matched,   \* what the database replied: did the command match?
  answer,    \* what the client is told of persistence
  log,       \* history: the requests whose commands took effect
  readAt     \* history: the length of log when the request read

request == <<op, user, module, copy>>
handler == <<pc, target, draft, sent, matched, answer>>
vars == <<sessions, request, handler, log, readAt>>

OfRequests(value) == [r \in Requests |-> value]

Init ==
  /\ sessions = [m \in Modules |-> None]
  /\ op = OfRequests(None) /\ user = OfRequests(None)
  /\ module = OfRequests(None) /\ copy = OfRequests(<<>>)
  /\ pc = OfRequests("idle") /\ target = OfRequests(None) /\ draft = OfRequests(None)
  /\ sent = OfRequests(FALSE) /\ matched = OfRequests(None) /\ answer = OfRequests(None)
  /\ log = <<>> /\ readAt = OfRequests(0)

(* Mutant: the filter names the session only. *)
MutantMatchesAnyone(m, u) == sessions[m] # None

(* The filter {_id, user_id} of every command on a session. *)
Matches(m, u) == sessions[m] # None /\ sessions[m].user = u

-----------------------------------------------------------------------------
(* A request comes *)

(* An archive and a delete go straight to their command; a save and a tutor  *)
(* exchange look first.  An exchange may name no session.                   *)
Begin(r) ==
  /\ pc[r] = "idle"
  /\ \E o \in Operations, u \in Users, m \in Modules \cup {None} :
       /\ m = None => o = "tutor"
       /\ op' = [op EXCEPT ![r] = o]
       /\ user' = [user EXCEPT ![r] = u]
       /\ module' = [module EXCEPT ![r] = m]
       /\ copy' = [copy EXCEPT ![r] =
                     IF o = "save" /\ Matches(m, u) THEN sessions[m].exchanges ELSE <<>>]
       /\ target' = [target EXCEPT ![r] = m]
       /\ pc' = [pc EXCEPT ![r] = IF o \in {"save", "tutor"} THEN "finding" ELSE "writing"]
       /\ sent' = [sent EXCEPT ![r] = o \in {"archive", "delete"}]
  /\ readAt' = [readAt EXCEPT ![r] = Len(log)]
  /\ UNCHANGED <<sessions, draft, matched, answer, log>>

-----------------------------------------------------------------------------
(* The look-up of a save and of a tutor exchange *)

Tail30(exchanges) ==
  IF Len(exchanges) <= MaxExchanges THEN exchanges
  ELSE SubSeq(exchanges, Len(exchanges) - MaxExchanges + 1, Len(exchanges))

Prepare(r, m, session) ==
  /\ pc[r] = "finding"
  /\ target' = [target EXCEPT ![r] = m]
  /\ draft' = [draft EXCEPT ![r] = session]
  /\ sent' = [sent EXCEPT ![r] = TRUE]
  /\ pc' = [pc EXCEPT ![r] = "writing"]
  /\ readAt' = [readAt EXCEPT ![r] = Len(log)]
  /\ UNCHANGED <<sessions, request, matched, answer, log>>

(* save_learning_session builds the whole document anew; of the one it finds *)
(* it keeps the creation time only.                                        *)
FindForSave(r) ==
  /\ op[r] = "save"
  /\ Prepare(r, module[r],
       [user |-> user[r], status |-> "active", exchanges |-> Tail30(copy[r])])

(* Mutant: the exchange replaces those before it. *)
MutantForgetsExchanges(r) ==
  /\ op[r] = "tutor"
  /\ \E m \in Modules :
       /\ module[r] \in {m, None} /\ Matches(m, user[r])
       /\ Prepare(r, m, [sessions[m] EXCEPT !.exchanges = <<r>>])

(* append_tutor_exchange: the session named, or any of the user's, archived  *)
(* ones too.                                                               *)
FindForTutor(r) ==
  /\ op[r] = "tutor"
  /\ \E m \in Modules :
       /\ module[r] \in {m, None} /\ Matches(m, user[r])
       /\ Prepare(r, m, [sessions[m] EXCEPT !.exchanges = Tail30(Append(@, r))])

(* No session: answered, and nothing saved. *)
FindsNone(r) ==
  /\ pc[r] = "finding" /\ op[r] = "tutor"
  /\ \A m \in Modules : module[r] \in {m, None} => ~Matches(m, user[r])
  /\ pc' = [pc EXCEPT ![r] = "answered"]
  /\ answer' = [answer EXCEPT ![r] = "unsaved"]
  /\ UNCHANGED <<sessions, request, target, draft, sent, matched, log, readAt>>

-----------------------------------------------------------------------------
(* The database carries out a command, while its handler waits or after *)

Applied(r, didMatch) ==
  /\ sent' = [sent EXCEPT ![r] = FALSE]
  /\ matched' = [matched EXCEPT ![r] = didMatch]
  /\ UNCHANGED <<request, pc, target, draft, answer, readAt>>

Effect(r, session) ==
  /\ sessions' = [sessions EXCEPT ![target[r]] = session]
  /\ log' = Append(log, r)
  /\ Applied(r, TRUE)

(* replace_one with upsert; another user's session of that id is a duplicate *)
(* key, and the command fails.                                             *)
ApplySave(r) ==
  /\ op[r] = "save"
  /\ sessions[target[r]] = None \/ Matches(target[r], user[r])
  /\ Effect(r, draft[r])

(* Mutant: the exchange is written with upsert. *)
MutantTutorUpserts(r) == op[r] = "tutor" /\ Effect(r, draft[r])

(* replace_one without upsert *)
ApplyTutor(r) == op[r] = "tutor" /\ Matches(target[r], user[r]) /\ Effect(r, draft[r])

ApplyArchive(r) ==
  /\ op[r] = "archive" /\ Matches(target[r], user[r])
  /\ Effect(r, [sessions[target[r]] EXCEPT !.status = "archived"])

ApplyDelete(r) == op[r] = "delete" /\ Matches(target[r], user[r]) /\ Effect(r, None)

ApplyNothing(r) ==
  /\ op[r] \in {"tutor", "archive", "delete"}
  /\ ~Matches(target[r], user[r])
  /\ Applied(r, FALSE)
  /\ UNCHANGED <<sessions, log>>

-----------------------------------------------------------------------------
(* The handler's answer *)

Tell(r, what) ==
  /\ pc' = [pc EXCEPT ![r] = "answered"]
  /\ answer' = [answer EXCEPT ![r] = what]
  /\ UNCHANGED <<sessions, request, target, draft, sent, matched, log, readAt>>

(* Mutant: a command that was sent is told as saved. *)
MutantAnswerEarly(r) ==
  /\ pc[r] = "writing"
  /\ Tell(r, "saved")

(* A save and an exchange do not look at what matched. *)
AnswerSession(r) ==
  /\ pc[r] = "writing" /\ matched[r] # None
  /\ Tell(r, IF matched[r] \/ op[r] \in {"save", "tutor"} THEN "saved" ELSE "unsaved")

(* Three seconds passed, or the database failed the command. *)
GiveUp(r) ==
  /\ pc[r] \in {"finding", "writing"}
  /\ Tell(r, "unsaved")

-----------------------------------------------------------------------------
Handle(r) ==
  \/ Begin(r)
  \/ FindForSave(r) \/ FindForTutor(r) \/ FindsNone(r)
  \/ AnswerSession(r) \/ GiveUp(r)

Apply(r) ==
  /\ sent[r]
  /\ ApplySave(r) \/ ApplyTutor(r) \/ ApplyArchive(r) \/ ApplyDelete(r) \/ ApplyNothing(r)

Next == \E r \in Requests : Handle(r) \/ Apply(r)

Spec == Init /\ [][Next]_vars
-----------------------------------------------------------------------------
(* Properties *)

TypeOK ==
  /\ sessions \in [Modules -> Sessions \cup {None}]
  /\ op \in [Requests -> Operations \cup {None}]
  /\ user \in [Requests -> Users \cup {None}]
  /\ module \in [Requests -> Modules \cup {None}]
  /\ target \in [Requests -> Modules \cup {None}]
  /\ copy \in [Requests -> Seq(Requests)]
  /\ pc \in [Requests -> {"idle", "finding", "writing", "answered"}]
  /\ draft \in [Requests -> Sessions \cup {None}]
  /\ sent \in [Requests -> BOOLEAN]
  /\ matched \in [Requests -> BOOLEAN \cup {None}]
  /\ answer \in [Requests -> {"saved", "unsaved", None}]
  /\ log \in Seq(Requests)
  /\ readAt \in [Requests -> Nat]

(* Steps of others leave a learner's session alone, also where session ids    *)
(* collide: whoever changes one has a command under way for it, in the name   *)
(* of its owner, and a session never changes hands (the filters of           *)
(* save_learning_session and the operations beside it).                     *)
OwnersOnly ==
  [][\A m \in Modules :
       sessions[m] # None /\ sessions'[m] # sessions[m] =>
         /\ \E r \in Requests :
              sent[r] /\ ~sent'[r] /\ target[r] = m /\ user[r] = sessions[m].user
         /\ sessions'[m] # None => sessions'[m].user = sessions[m].user]_vars

Exchanges(m) ==
  IF sessions[m] = None THEN {}
  ELSE {sessions[m].exchanges[k] : k \in 1..Len(sessions[m].exchanges)}

Later(i, m) == {j \in i + 1..Len(log) : target[log[j]] = m}

(* What followed an entry of the log: exchanges of its session; something      *)
(* that removes it, or does not know of it; a command that reopens it.       *)
Followers(i) == {j \in Later(i, target[log[i]]) : op[log[j]] = "tutor"}

Overtaken(i) ==
  \E j \in Later(i, target[log[i]]) :
    \/ op[log[j]] \in {"save", "delete"}
    \/ op[log[j]] = "tutor" /\ readAt[log[j]] < i

Reopened(i) ==
  \E j \in Later(i, target[log[i]]) :
    \/ op[log[j]] = "save"
    \/ op[log[i]] = "archive" /\ op[log[j]] = "tutor" /\ readAt[log[j]] < i

(* An exchange that was written is in its session, unless a save or a delete  *)
(* followed, or an exchange that had read the session before, or so many      *)
(* that it is no longer among the latest (append_tutor_exchange).           *)
ExchangesAreKept ==
  \A i \in 1..Len(log) : op[log[i]] = "tutor" =>
    \/ log[i] \in Exchanges(target[log[i]])
    \/ Overtaken(i)
    \/ Cardinality(Followers(i)) >= MaxExchanges

(* A session that was archived or deleted comes back only by a save, or, an   *)
(* archived one, by an exchange that had read it before: neither exchanges    *)
(* that come later nor late commands create or reopen one.                  *)
ClosedStaysClosed ==
  \A i \in 1..Len(log) :
    LET session == sessions[target[log[i]]] IN
    \/ op[log[i]] = "delete" /\ session # None
    \/ op[log[i]] = "archive" /\ session # None /\ session.status = "active"
    => Reopened(i)

DeletedSince(r) ==
  \E i \in readAt[r] + 1..Len(log) : op[log[i]] = "delete" /\ target[log[i]] = target[r]

(* A client is told `saved` only if its command took effect; an exchange      *)
(* only, if its session was deleted between its look-up and its write, is     *)
(* told saved and is not (its handler does not look at what matched).        *)
SavedIsWritten ==
  \A r \in Requests : answer[r] = "saved" =>
    \/ \E i \in 1..Len(log) : log[i] = r
    \/ op[r] = "tutor" /\ DeletedSince(r)

(* The inductive strengthening of OwnersOnly and SavedIsWritten: where each   *)
(* request is, what its command would write, and what the history knows.     *)
RequestOf(r) ==
  /\ pc[r] = "idle" => op[r] = None /\ ~sent[r] /\ matched[r] = None /\ answer[r] = None
  /\ pc[r] # "idle" => op[r] \in Operations /\ user[r] \in Users
  /\ pc[r] = "finding" => ~sent[r] /\ matched[r] = None /\ answer[r] = None
  /\ pc[r] = "finding" /\ op[r] = "save" => module[r] \in Modules
  /\ pc[r] = "writing" => answer[r] = None
  /\ sent[r] => target[r] \in Modules /\ matched[r] = None
  /\ op[r] = "save" => matched[r] # FALSE
  /\ answer[r] = "saved" => matched[r] = TRUE \/ (op[r] = "tutor" /\ matched[r] = FALSE)

DraftIsOwn ==
  \A r \in Requests : sent[r] /\ op[r] \in {"save", "tutor"} =>
    draft[r] \in Sessions /\ draft[r].user = user[r]

LogIsPast ==
  /\ \A i \in 1..Len(log) : pc[log[i]] \in {"writing", "answered"}
  /\ \A r \in Requests : readAt[r] <= Len(log)
  /\ \A r \in Requests : matched[r] = TRUE => \E i \in 1..Len(log) : log[i] = r

FoundOrDeleted ==
  \A r \in Requests : op[r] = "tutor" =>
    /\ sent[r] => Matches(target[r], user[r]) \/ DeletedSince(r)
    /\ matched[r] = FALSE => DeletedSince(r)

IInv ==
  /\ TypeOK /\ DraftIsOwn /\ LogIsPast /\ FoundOrDeleted
  /\ \A r \in Requests : RequestOf(r)

(* The inductive strengthening of ExchangesAreKept and ClosedStaysClosed: an    *)
(* exchange with few followers stands as near to the end as they allow, in its *)
(* session and in what a later exchange would write; and what would reopen an  *)
(* archived session had read it open.                                      *)
StandsIn(i, exchanges, followers) ==
  \E p \in 1..Len(exchanges) : exchanges[p] = log[i] /\ Len(exchanges) - p <= followers

KeptInSession(i) ==
  LET followers == Cardinality(Followers(i)) IN
  ~Overtaken(i) /\ followers < MaxExchanges =>
    /\ sessions[target[log[i]]] # None
    /\ StandsIn(i, sessions[target[log[i]]].exchanges, followers)

KeptInDraft(i, r) ==
  LET followers == Cardinality(Followers(i)) + 1 IN
  ~Overtaken(i) /\ followers < MaxExchanges => StandsIn(i, draft[r].exchanges, followers)

DraftKnows(r) ==
  /\ Len(draft[r].exchanges) > 0 /\ draft[r].exchanges[Len(draft[r].exchanges)] = r
  /\ \A i \in 1..readAt[r] : target[log[i]] = target[r] =>
       /\ op[log[i]] = "tutor" => KeptInDraft(i, r)
       /\ op[log[i]] = "archive" /\ draft[r].status = "active" => Reopened(i)

HistoryInv ==
  /\ \A i \in 1..Len(log) : target[log[i]] \in Modules
  /\ \A i \in 1..Len(log) : op[log[i]] = "tutor" => KeptInSession(i)
  /\ \A r \in Requests : sent[r] /\ op[r] = "tutor" => DraftKnows(r)
  /\ ClosedStaysClosed
=============================================================================
