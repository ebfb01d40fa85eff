---------------------------- MODULE AccountRecords ----------------------------
(***************************************************************************)
(* PlatformStore (src/src/platform.rs): the account records of the database *)
(* MONGODB_DATABASE_V3, which the requests on /v3/me write, export and       *)
(* delete, one command per collection.  A request may fail, or be dropped,   *)
(* at any of its commands; the database may carry that command out later.   *)
(***************************************************************************)
EXTENDS Naturals, Sequences

CONSTANTS
  Holders,  \* users with an account
  Calls,    \* requests
  None

ASSUME AccountAssumption ==
  None \notin Holders /\ None \notin {"upsert", "export", "delete", "ok", "unavailable"}

Owned == {"learning_sessions", "submissions", "completion_receipts"}
Collections == Owned \cup {"users"}

(* delete_account's order, and export_account's. *)
DeletionOrder == <<"learning_sessions", "submissions", "completion_receipts", "users">>
ExportOrder == <<"users", "learning_sessions", "submissions", "completion_receipts">>

VARIABLES
  records,    \* who has records in each collection
  asked,      \* what a request asks: "upsert", "export", "delete"
  holder,     \* its user
  done,       \* how many of its commands were answered
  found,      \* the collections in which it found something
  told,       \* its answer: "ok" or "unavailable"
  late,       \* its last command is with the database, and nobody waits for it
  rewritten,  \* history: the collections written for its user since it began
  vanished    \* history: the collections its user lost records of since it began

calls == <<asked, holder, done, found, told, late>>
vars == <<records, calls, rewritten, vanished>>

Init ==
  /\ records = [c \in Collections |-> {}]
  /\ asked = [q \in Calls |-> None] /\ holder = [q \in Calls |-> None]
  /\ done = [q \in Calls |-> 0] /\ found = [q \in Calls |-> {}]
  /\ told = [q \in Calls |-> None] /\ late = [q \in Calls |-> FALSE]
  /\ rewritten = [q \in Calls |-> {}] /\ vanished = [q \in Calls |-> {}]

Ask(q, what, u) ==
  /\ asked[q] = None
  /\ asked' = [asked EXCEPT ![q] = what]
  /\ holder' = [holder EXCEPT ![q] = u]
  /\ UNCHANGED <<records, done, found, told, late, rewritten, vanished>>

Waiting(q, what) == asked[q] = what /\ told[q] = None

(* What the requests of the same user see change. *)
Noting(history, c, u) ==
  [q \in Calls |-> IF holder[q] = u THEN history[q] \cup {c} ELSE history[q]]

Written(c, u) ==
  /\ records' = [records EXCEPT ![c] = @ \cup {u}]
  /\ rewritten' = Noting(rewritten, c, u)
  /\ UNCHANGED vanished

Emptied(c, u) ==
  /\ records' = [records EXCEPT ![c] = @ \ {u}]
  /\ vanished' = IF u \in records[c] THEN Noting(vanished, c, u) ELSE vanished
  /\ UNCHANGED rewritten

(* upsert_identity: one command. *)
UpsertIdentity(q) ==
  /\ Waiting(q, "upsert")
  /\ Written("users", holder[q])
  /\ told' = [told EXCEPT ![q] = "ok"]
  /\ UNCHANGED <<asked, holder, done, found, late>>

(* The other collections are indexed, exported and deleted here, and written  *)
(* by no code of the Core: by another service, for a user with a profile.    *)
ServiceWrites(c, u) ==
  /\ c \in Owned /\ u \in records["users"]
  /\ Written(c, u)
  /\ UNCHANGED calls

(* The answer to the command of a request on a collection. *)
Advance(q, c) ==
  /\ done' = [done EXCEPT ![q] = @ + 1]
  /\ found' = [found EXCEPT ![q] = IF holder[q] \in records[c] THEN @ \cup {c} ELSE @]
  /\ told' = [told EXCEPT ![q] = IF done[q] = 3 THEN "ok" ELSE None]
  /\ UNCHANGED <<asked, holder, late>>

(* Mutant: the profile is deleted first. *)
MutantProfileFirst(q) ==
  LET c == ExportOrder[done[q] + 1] IN
  /\ Waiting(q, "delete")
  /\ Emptied(c, holder[q])
  /\ Advance(q, c)

(* Mutant: a collection is deleted twice, and the receipts are forgotten. *)
MutantForgetsReceipts(q) ==
  LET c == DeletionOrder[IF done[q] = 2 THEN 2 ELSE done[q] + 1] IN
  /\ Waiting(q, "delete")
  /\ Emptied(c, holder[q])
  /\ Advance(q, c)

(* delete_account *)
DeleteNext(q) ==
  LET c == DeletionOrder[done[q] + 1] IN
  /\ Waiting(q, "delete")
  /\ Emptied(c, holder[q])
  /\ Advance(q, c)

(* Mutant: the submissions are exported in the place of the receipts. *)
MutantExportsTwice(q) ==
  LET c == ExportOrder[IF done[q] = 3 THEN 3 ELSE done[q] + 1] IN
  /\ Waiting(q, "export")
  /\ Advance(q, c)
  /\ UNCHANGED <<records, rewritten, vanished>>

(* export_account *)
ExportNext(q) ==
  LET c == ExportOrder[done[q] + 1] IN
  /\ Waiting(q, "export")
  /\ Advance(q, c)
  /\ UNCHANGED <<records, rewritten, vanished>>

(* A command fails, or its reply is lost: identity-store-unavailable. *)
Fails(q) ==
  /\ asked[q] # None /\ told[q] = None
  /\ told' = [told EXCEPT ![q] = "unavailable"]
  /\ \E with \in BOOLEAN : late' = [late EXCEPT ![q] = with]
  /\ UNCHANGED <<records, asked, holder, done, found, rewritten, vanished>>

(* The database carries out a command that nobody waits for. *)
LateCommand(q) ==
  /\ late[q]
  /\ late' = [late EXCEPT ![q] = FALSE]
  /\ \/ asked[q] = "upsert" /\ Written("users", holder[q])
     \/ asked[q] = "delete" /\ Emptied(DeletionOrder[done[q] + 1], holder[q])
  /\ UNCHANGED <<asked, holder, done, found, told>>

Call(q) ==
  \/ \E what \in {"upsert", "export", "delete"}, u \in Holders : Ask(q, what, u)
  \/ UpsertIdentity(q) \/ DeleteNext(q) \/ ExportNext(q)
  \/ Fails(q) \/ LateCommand(q)

Next ==
  \/ \E q \in Calls : Call(q)
  \/ \E c \in Owned, u \in Holders : ServiceWrites(c, u)

Spec == Init /\ [][Next]_vars
-----------------------------------------------------------------------------
(* Properties *)

TypeOK ==
  /\ records \in [Collections -> SUBSET Holders]
  /\ asked \in [Calls -> {"upsert", "export", "delete", None}]
  /\ holder \in [Calls -> Holders \cup {None}]
  /\ done \in [Calls -> 0..4]
  /\ found \in [Calls -> SUBSET Collections]
  /\ told \in [Calls -> {"ok", "unavailable", None}]
  /\ late \in [Calls -> BOOLEAN]
  /\ rewritten \in [Calls -> SUBSET Collections]
  /\ vanished \in [Calls -> SUBSET Collections]

(* When a deletion is answered, all that is left of its user was written      *)
(* after it began, whoever else deletes, fails or writes (delete_account).   *)
DeletionIsComplete ==
  \A q \in Calls : asked[q] = "delete" /\ told[q] = "ok" =>
    \A c \in Collections : holder[q] \in records[c] => c \in rewritten[q]

(* A user has records without a profile only by a service that wrote them     *)
(* while a deletion of that user had begun: a deletion that failed half-way    *)
(* leaves the account known, and a later one can finish it (the profile is    *)
(* the last that delete_account deletes).                                  *)
OrphansAreOfRaces ==
  \A c \in Owned, u \in Holders \ records["users"] : u \in records[c] =>
    \E q \in Calls : asked[q] = "delete" /\ holder[q] = u /\ c \in rewritten[q]

(* Of the collections that nobody touched since an export began, it tells     *)
(* what they hold, all of them and nothing of what was deleted beside it.    *)
ExportIsExact ==
  \A q \in Calls : asked[q] = "export" /\ told[q] = "ok" =>
    \A c \in Collections \ (rewritten[q] \cup vanished[q]) :
      c \in found[q] <=> holder[q] \in records[c]

(* The inductive strengthening: how far a request has come, and, of the       *)
(* collections behind it, what the properties above say of all of them.      *)
ProgressOf(q) ==
  /\ asked[q] = None => done[q] = 0 /\ told[q] = None /\ ~late[q] /\ found[q] = {}
  /\ asked[q] \in {"upsert", "export", "delete"} => holder[q] \in Holders
  /\ asked[q] \in {"delete", "export"} => (told[q] = "ok" <=> done[q] = 4)
  /\ asked[q] = "upsert" => done[q] = 0
  /\ late[q] => told[q] = "unavailable" /\ done[q] < 4

Progress == \A q \in Calls : ProgressOf(q)

DeletedSoFar ==
  \A q \in Calls : asked[q] = "delete" =>
    \A i \in 1..done[q] :
      holder[q] \in records[DeletionOrder[i]] => DeletionOrder[i] \in rewritten[q]

ExportedSoFar ==
  \A q \in Calls : asked[q] = "export" =>
    /\ found[q] \subseteq {ExportOrder[i] : i \in 1..done[q]}
    /\ \A i \in 1..done[q] : LET c == ExportOrder[i] IN
         c \notin rewritten[q] \cup vanished[q] =>
           (c \in found[q] <=> holder[q] \in records[c])

IInv == TypeOK /\ Progress /\ DeletedSoFar /\ ExportedSoFar /\ OrphansAreOfRaces
=============================================================================
