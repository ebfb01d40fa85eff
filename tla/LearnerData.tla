----------------------------- MODULE LearnerData -----------------------------
(***************************************************************************)
(* What the Core keeps of a learner, in the two databases that app_state     *)
(* (src/src/lib.rs) opens: MongoStore's learning sessions in the one,        *)
(* PlatformStore's account records in the other.  Requests for both run      *)
(* side by side, and no step touches both.                                  *)
(***************************************************************************)
EXTENDS LearningSessions

CONSTANT Calls  \* requests on /v3/me

VARIABLES
  records, asked, holder, done, found, told, late, rewritten, vanished,
  settled  \* history: the requests on sessions that were over when a call began

Account == INSTANCE AccountRecords WITH Holders <- Users

account == <<records, asked, holder, done, found, told, late, rewritten, vanished>>
allVars == <<vars, account, settled>>

InitBoth == Init /\ Account!Init /\ settled = [q \in Calls |-> {}]

Over == {r \in Requests : pc[r] = "answered" /\ ~sent[r]}

SessionStep == Next /\ UNCHANGED <<account, settled>>

(* A call notes which requests are over as it begins. *)
AccountStep ==
  /\ Account!Next
  /\ settled' = [q \in Calls |-> IF asked[q] = None /\ asked'[q] # None THEN Over ELSE settled[q]]
  /\ UNCHANGED vars

NextBoth == SessionStep \/ AccountStep

SpecBoth == InitBoth /\ [][NextBoth]_allVars
-----------------------------------------------------------------------------
(* "Export and deletion ... filter users, learning sessions, submissions, and *)
(* completion receipts" (docs/authentication.md): after an answered deletion  *)
(* of an account, no learning session is left of a user whose every request   *)
(* for sessions was over before (delete_account).                          *)
DeletionReachesSessions ==
  \A q \in Calls :
    /\ asked[q] = "delete" /\ told[q] = "ok"
    /\ \A r \in Requests \ settled[q] : user[r] # holder[q]
    => \A m \in Modules : ~Matches(m, holder[q])
=============================================================================
