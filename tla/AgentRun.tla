-------------------------------- MODULE AgentRun --------------------------------
(***************************************************************************)
(* The bounded dry run of the AIBTC agent and the bounty application that      *)
(* follows it (src/src/lib.rs).  The run judges the text of a quest by word     *)
(* lists; the client carries its report back, and the application judges the    *)
(* report and the client's own fields.  Nothing of either is stored, and the    *)
(* application takes the report as it comes.                                *)
(*                                                                           *)
(* A text is the set of its phrases.                                         *)
(***************************************************************************)
EXTENDS Integers, Sequences, FiniteSets, Absent

CONSTANTS
  EvidenceTerms,  \* phrases that show each kind of evidence
  DenialTerms     \* phrases that fail each denial check

DryRun == "bounded-autonomous-dry-run"

EvidenceLabels ==
  {"identity", "signed action", "replay boundary", "workflow", "payment proof",
   "memo binding", "reputation", "paid interaction"}

(* Mutant: the memo is not among the critical evidence. *)
MutantCritical == EvidenceLabels \ {"paid interaction", "memo binding"}

(* aibtc_agent_missing_critical_evidence: all but x402. *)
Critical == EvidenceLabels \ {"paid interaction"}

(* aibtc_agent_evidence *)
EvidenceIn(text) == {label \in EvidenceLabels : EvidenceTerms[label] \cap text # {}}

(* aibtc_agent_denial_checks: those that fail. *)
DenialsOf(text) == {label \in DOMAIN DenialTerms : DenialTerms[label] \cap text # {}}

(* aibtc_agent_actions: the evidence each of five steps rests on. *)
Steps ==
  <<{"identity"}, {"signed action", "replay boundary"}, {"workflow"},
    {"payment proof", "memo binding"}, {"reputation"}>>

ActionsOf(evidence, blocked) ==
  [i \in 1..6 |->
    IF i < 6 THEN IF Steps[i] \subseteq evidence THEN "completed" ELSE "needs-review"
    ELSE IF blocked THEN "blocked" ELSE "completed"]

(* build_aibtc_agent_run; the request states an ecosystem or none, and ids. *)
RunError(request) ==
  \/ request.ecosystem \notin {"aibtc", None}
  \/ request.run_id = None \/ request.module_id = None
  \/ ~({"aibtc", "agent"} \subseteq request.text)

Run(request) ==
  LET evidence == EvidenceIn(request.text)
      denied == DenialsOf(request.text)
      blocked == ~(Critical \subseteq evidence) \/ denied # {}
  IN  [mode |-> DryRun, status |-> IF blocked THEN "blocked" ELSE "passed",
       evidence |-> evidence, denied |-> denied, actions |-> ActionsOf(evidence, blocked)]

-----------------------------------------------------------------------------
(* The application *)

(* compact_optional_url, valid_btc_address_shape *)
Url(field) == IF field = "https" THEN field ELSE None

(* What stands between the packet and a signature. *)
Blockers(form, run) ==
  {what \in {"run", "evidence", "denials", "bounty", "address", "content", "message"} :
    CASE what = "run" -> run.status = "blocked"
      [] what = "evidence" -> ~(Critical \subseteq run.evidence)
      [] what = "denials" -> run.denied # {}
      [] what = "bounty" -> form.bounty_id = None
      [] what = "address" -> form.address # "shaped"
      [] what = "content" -> Url(form.content_url) = None
      [] what = "message" -> form.message = "short"}

(* aibtc_application_evidence_checklist *)
Checklist(form, run) ==
  [bounty |-> form.bounty_id # None,
   content |-> Url(form.content_url) # None,
   passed |-> run.status = "passed",
   signed |-> "signed action" \in run.evidence,
   workflow |-> "workflow" \in run.evidence,
   payment |-> {"payment proof", "memo binding"} \subseteq run.evidence,
   reputation |-> "reputation" \in run.evidence]

PacketError(form, run) ==
  \/ form.ecosystem \notin {"aibtc", None}
  \/ form.run_id = None \/ form.module_id = None
  \/ run.mode # DryRun

(* build_aibtc_bounty_application_packet; a message left out is written by the  *)
(* server, and long enough.                                                 *)
Packet(form, run) ==
  LET blockers == Blockers(form, run) IN
    [ready_for_signature |-> blockers = {}, ready_for_live_submit |-> FALSE,
     status |-> IF blockers = {} THEN "ready-for-signature"
                ELSE IF run.status = "blocked" \/ run.denied # {} THEN "blocked"
                ELSE "needs-input",
     blockers |-> blockers, checklist |-> Checklist(form, run)]

-----------------------------------------------------------------------------
(* Properties *)

(* Of a run of the server itself, report and application tell one story: a run  *)
(* passes exactly when all its actions are completed and no denial check failed, *)
(* and a packet is ready for a signature exactly when its checklist is full,     *)
(* its address has the form of one and its message says something; a blocked    *)
(* run never makes a packet that only needs input (build_aibtc_agent_run,       *)
(* build_aibtc_bounty_application_packet).                                   *)
PacketFollowsRun(request, form) ==
  ~RunError(request) =>
    LET run == Run(request)
        packet == Packet(form, run)
        full == \A item \in DOMAIN packet.checklist : packet.checklist[item]
    IN  /\ run.status = "passed" <=>
             run.denied = {} /\ \A i \in DOMAIN run.actions : run.actions[i] = "completed"
        /\ ~PacketError(form, run) =>
             /\ ~packet.ready_for_live_submit
             /\ packet.ready_for_signature <=>
                  full /\ form.address = "shaped" /\ form.message # "short"
             /\ packet.status = "blocked" <=> run.status = "blocked"
=============================================================================
