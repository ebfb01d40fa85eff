---------------------------- MODULE RunnerProtocol ----------------------------
(***************************************************************************)
(* What ties a signed result to the job it is of: RunnerJob and              *)
(* RunnerEvidence of src/src/runner/protocol.rs, the signer and the verifier  *)
(* of src/src/runner/signature.rs.                                           *)
(*                                                                           *)
(* Cryptography is symbolic.  A digest is what was digested, a signature is    *)
(* the secret it was made with and what was signed; a public key is named by   *)
(* its secret.  An identifier is a record of its form and its name.           *)
(***************************************************************************)
EXTENDS Integers, Sequences, FiniteSets, Absent

CONSTANTS
  ProtocolVersion, RunnerVersion, Ecosystem, Track, TrackVersion, ContentVersion,
  Scenario, ScenarioVersion, TestBundle,  \* the reviewed artifact
  MaxSource, MaxId, MaxKeyId

-----------------------------------------------------------------------------
(* Jobs *)

DigestOf(content) == <<"sha256", content>>

(* RunnerJob *)
JobFields ==
  {"protocol_version", "runner_version", "job_id", "submission_id", "user_id",
   "ecosystem_id", "track_id", "track_version", "content_version", "scenario_id",
   "scenario_manifest_version", "source_digest", "test_bundle_digest", "source"}
IsJob(job) == job = [field \in JobFields |-> job[field]]

BoundedId(id, prefix) == id.prefix = prefix /\ id.length <= MaxId /\ id.plain

(* RunnerJob::validate *)
JobError(job) ==
  IF \/ job.protocol_version # ProtocolVersion \/ job.runner_version # RunnerVersion
     \/ job.ecosystem_id # Ecosystem \/ job.track_id # Track
     \/ job.track_version # TrackVersion \/ job.content_version # ContentVersion
     \/ job.scenario_id # Scenario \/ job.scenario_manifest_version # ScenarioVersion
     \/ job.test_bundle_digest # TestBundle
  THEN "ArtifactBinding"
  ELSE IF \/ ~BoundedId(job.job_id, "job") \/ ~BoundedId(job.submission_id, "sub")
          \/ ~BoundedId(job.user_id, "usr")
  THEN "InvalidIdentifier"
  ELSE IF Len(job.source) = 0 \/ Len(job.source) > MaxSource THEN "SourceLimit"
  ELSE IF job.source_digest # DigestOf(job.source) THEN "SourceDigest"
  ELSE "none"

(* RunnerJob::reviewed, before its own validate *)
Reviewed(job, submission, user, source) ==
  [protocol_version |-> ProtocolVersion, runner_version |-> RunnerVersion,
   ecosystem_id |-> Ecosystem, track_id |-> Track, track_version |-> TrackVersion,
   content_version |-> ContentVersion, scenario_id |-> Scenario,
   scenario_manifest_version |-> ScenarioVersion, test_bundle_digest |-> TestBundle,
   job_id |-> job, submission_id |-> submission, user_id |-> user,
   source |-> source, source_digest |-> DigestOf(source)]

(* RunnerJob::binding: neither the source itself nor the track. *)
Binding(job) ==
  [protocol_version |-> job.protocol_version, runner_version |-> job.runner_version,
   job_id |-> job.job_id, submission_id |-> job.submission_id, user_id |-> job.user_id,
   scenario_id |-> job.scenario_id,
   scenario_manifest_version |-> job.scenario_manifest_version,
   source_digest |-> job.source_digest, test_bundle_digest |-> job.test_bundle_digest]

-----------------------------------------------------------------------------
(* Evidence *)

(* RunnerEvidence *)
EvidenceFields ==
  {"binding", "classification", "public_cases", "hidden_summary", "worker_attempts",
   "output_bytes", "output_truncated", "diagnostic_code", "result_digest"}
IsEvidence(e) == e = [field \in EvidenceFields |-> e[field]]

(* deterministic_result_digest: what two executions of one job agree on.  How *)
(* often and how loudly it ran is left out.                                  *)
ResultDigest(e) ==
  DigestOf(<<e.binding, e.classification, e.public_cases, e.hidden_summary, e.diagnostic_code>>)

Finalized(e) == [e EXCEPT !.result_digest = ResultDigest(e)]

-----------------------------------------------------------------------------
(* Keys *)

(* split_config: an entry "id:key" of the configuration. *)
EntryError(entry) ==
  IF ~entry.separated THEN "InvalidKey"
  ELSE IF ~entry.plain \/ entry.length = 0 \/ entry.length > MaxKeyId THEN "InvalidKeyId"
  ELSE IF entry.key = None THEN "InvalidKey"
  ELSE "none"

(* RunnerResultVerifier::from_config: the error of the first entry that is     *)
(* wrong or that repeats a key's id.                                         *)
ConfigError(entries) ==
  LET wrong(i) == IF EntryError(entries[i]) # "none" THEN EntryError(entries[i])
                  ELSE IF \E j \in 1..(i - 1) : entries[j].id = entries[i].id
                  THEN "DuplicateKey" ELSE "none"
      bad == {i \in DOMAIN entries : wrong(i) # "none"}
  IN  IF bad # {} THEN wrong(CHOOSE i \in bad : \A j \in bad : i <= j)
      ELSE IF entries = <<>> THEN "MissingKey"
      ELSE "none"

(* The keys of a configuration without error. *)
KeysOf(entries) ==
  [id \in {entries[i].id : i \in DOMAIN entries} |->
     entries[CHOOSE i \in DOMAIN entries : entries[i].id = id].key]

-----------------------------------------------------------------------------
(* Results *)

(* Mutant: only the digest is signed. *)
MutantPayload(e) == e.result_digest

(* What is signed: the whole evidence, its digest included. *)
Payload(e) == e

(* RunnerResultSigner::sign *)
Sign(id, secret, e) ==
  [evidence |-> Finalized(e), key_id |-> id,
   signature |-> [by |-> secret, of |-> Payload(Finalized(e))]]

(* RunnerResultVerifier::verify *)
VerifyError(keys, r) ==
  IF r.evidence.result_digest # ResultDigest(r.evidence) THEN "ResultDigest"
  ELSE IF r.key_id \notin DOMAIN keys THEN "UnknownKey"
  ELSE IF r.signature = None THEN "InvalidEncoding"
  ELSE IF r.signature # [by |-> keys[r.key_id], of |-> Payload(r.evidence)]
  THEN "InvalidSignature"
  ELSE "none"

(* What worker_loop stores for a job. *)
Accepted(keys, job, r) == VerifyError(keys, r) = "none" /\ r.evidence.binding = Binding(job)

-----------------------------------------------------------------------------
(* Properties *)

(* A job is known by its binding: what validate demands and the digest of the  *)
(* source leave nothing that two jobs with one binding could differ in        *)
(* (RunnerJob::validate, binding).                                           *)
BindingDeterminesJob(a, b) ==
  /\ IsJob(a) /\ IsJob(b)
  /\ JobError(a) = "none" /\ JobError(b) = "none"
  /\ Binding(a) = Binding(b)
  => a = b

(* A result accepted for a job is one that a holder of a configured key signed *)
(* for that very job, in every field, those the digest leaves out included     *)
(* (sign, verify, and the comparison of worker_loop).  `signed` are the        *)
(* results that were ever signed, with the job that ran.                     *)
OnlySignedIsAccepted(keys, job, r, signed) ==
  Accepted(keys, job, r) =>
    \E s \in signed :
      /\ s.result.signature.by = keys[r.key_id]
      /\ s.result.evidence = r.evidence
      /\ s.job = job
===============================================================================
