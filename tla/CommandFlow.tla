----------------------------- MODULE CommandFlow -----------------------------
(***************************************************************************)
(* One command of any kind, from the request an operator makes to the      *)
(* result the Controller settles.  Four programs look at the same payload, *)
(* each with checks and tables of its own: the Controller validates and    *)
(* signs it (operations and userstate), the Agent validates it again and   *)
(* keeps its journal (agent), privd validates it, performs and attests it  *)
(* (privd, privd-attestation, ocserv-adapter), transportd and the          *)
(* Controller check the receipt (transportd, privdattestation).  A payload *)
(* that one of them refuses after it was signed never settles, because a   *)
(* refusal has no receipt: the tables must agree.                          *)
(*                                                                         *)
(* A payload is its kind and at most one flaw: the field that a validator  *)
(* may look at.  A validator is the set of flaws it refuses.  Two          *)
(* executions of one command do not overlap here (PrivdEffects has them),  *)
(* and a second execution of a desired-state mutation finds the evidence   *)
(* of the first (PrivdEffects, ConfigApply).                               *)
(***************************************************************************)
EXTENDS Naturals

CONSTANTS MaxDeliveries,   \* frames the Controller sends for the command
          MaxFaults        \* crashes, lost frames and failing host calls

ASSUME BoundsAssumption == MaxDeliveries \in Nat /\ MaxFaults \in Nat

VARIABLES payload,      \* what was signed
          op,           \* the operation at the Controller
          mode,         \* delivery mode of the envelope that is queued or sent
          deliveries, faults,
          offered,      \* the session offers ocserv.session.terminate
          expired,      \* the signed deadline has passed
          journal,      \* the Agent's record of the command
          call,         \* what the Agent waits for privd to answer
          job,          \* the execution inside privd
          reply,        \* privd's answer to the call
          row,          \* the authorised effect of the command
          performed,    \* how often the host was changed
          result        \* the Agent's answer on its way to the Controller

ctlVars == <<payload, op, mode, deliveries>>
agentVars == <<journal, call>>
privdVars == <<job, row, performed>>
flowVars == <<ctlVars, faults, offered, expired, agentVars, privdVars, reply, result>>

(***************************************************************************)
(* Payloads.                                                               *)
(***************************************************************************)

Synthetic == {"synthetic_noop", "synthetic_echo"}
Sessions == {"session_disconnect", "session_terminate"}
Plans == {"config_plan", "complete_config_plan"}
Applies == {"config_apply", "complete_config_apply"}
Certificates == {"certificate_csr", "certificate_p12", "certificate_revoke"}
Secrets == {"user_create", "user_password_rotate"}
Users == Secrets \cup {"user_disable", "user_enable"}
Kinds ==
  Synthetic \cup Sessions \cup Plans \cup Applies \cup Certificates \cup Users
    \cup {"ip_ban_remove", "service_reload", "group_apply", "agent_upgrade"}

\* The fields of each payload message that can be wrong.
CertificateFlaws(k) ==
  CASE k = "certificate_csr" ->
         {"id", "name", "many", "key_bits", "upper", "duplicate", "long_name"}
    [] k = "certificate_p12" -> {"id", "version", "chain", "secret", "expiry"}
    [] k = "certificate_revoke" -> {"id", "version", "reason"}
\* A release version or digest, an architecture no package is published for, and
\* one that is not this host's.
ReleaseFlaws == {"release", "architecture", "other_host"}
Flaws(k) ==
  CASE k = "synthetic_echo" -> {"long"}
    [] k \in Sessions -> {"session_id", "boot_id", "nil_boot"}
    [] k = "ip_ban_remove" -> {"ip", "mapped_ip"}
    [] k = "config_plan" -> {"candidate"}
    [] k = "config_apply" -> {"candidate", "current_hash", "revision"}
    [] k = "complete_config_plan" -> {"candidate", "node"}
    [] k = "complete_config_apply" ->
         {"candidate", "node", "materialized", "current_hash", "revision", "expiry"}
    [] k \in Certificates -> CertificateFlaws(k)
    [] k \in Secrets -> {"name", "secret", "large_secret"}
    [] k \in Users \ Secrets -> {"name"}
    [] k = "group_apply" -> {"name", "members", "unsorted"}
    [] k = "agent_upgrade" -> ReleaseFlaws
    [] OTHER -> {}

Payloads == UNION {[kind : {k}, flaw : Flaws(k) \cup {"none"}] : k \in Kinds}

(***************************************************************************)
(* The Controller's checks: what it refuses to sign.                       *)
(***************************************************************************)

validateCreate(k) == Flaws(k) \ {"upper", "duplicate", "long_name", "other_host"}

\* The release is looked up in the catalogue for the architecture the node reports.
resolveUpgradeTarget == {"other_host"}

validateMutation(k) == Flaws(k) \ {"unsorted"}

\* Mutant: the members are signed in the order of the request.
MembersAsGiven(p) == p

\* Members are sorted and deduplicated before the command is signed.
normalizeMembers(p) == IF p.flaw = "unsorted" THEN [p EXCEPT !.flaw = "none"] ELSE p

Refuses(p) ==
  p.flaw \in IF p.kind \in Users \cup {"group_apply"} THEN validateMutation(p.kind)
             ELSE validateCreate(p.kind) \cup resolveUpgradeTarget

(***************************************************************************)
(* The checks of the Agent, of the semantic hash that Agent and privd      *)
(* recompute, of privd and of the adapter.                                 *)
(***************************************************************************)

validate_session_payload == {"session_id", "boot_id"}
validate_agent_upgrade == ReleaseFlaws
validate_typed_secret == {"secret"}      \* 32 bytes to 16 KiB

canonical_config_hash(k) ==
  CASE k = "config_apply" -> {"current_hash", "revision"}
    [] k \in Applies \cup Plans -> Flaws(k) \ {"candidate"}
canonical_certificate_hash(k) ==
  CASE k = "certificate_csr" -> {"many", "key_bits"}
    [] k = "certificate_p12" -> {"chain", "version", "expiry"} \cup validate_typed_secret
    [] k = "certificate_revoke" -> {"reason", "version"}
canonical_semantic_payload_hash(k) ==
  CASE k \in Plans \cup Applies -> canonical_config_hash(k)
         \cup IF k \in {"config_plan", "config_apply"} THEN {} ELSE {"candidate"}
    [] k \in Certificates -> canonical_certificate_hash(k)
    [] k \in Sessions -> {"session_id"}
    [] k \in Users \cup {"group_apply"} ->
         {"name", "members"} \cup (IF k \in Secrets THEN validate_typed_secret ELSE {})
    [] k = "agent_upgrade" -> {"release", "architecture"}
    [] OTHER -> {}

validate_payload(k) ==
  canonical_semantic_payload_hash(k) \cup
  CASE k = "synthetic_echo" -> {"long"}
    [] k \in Sessions -> validate_session_payload
    [] k = "ip_ban_remove" -> {"ip"}
    [] k = "config_plan" -> {"candidate"}
    [] k = "config_apply" -> {"candidate", "current_hash", "revision"}
    [] k = "certificate_csr" -> {"many", "key_bits"}
    [] k = "certificate_p12" -> {"chain", "version", "expiry"} \cup validate_typed_secret
    [] k = "certificate_revoke" -> {"reason", "version"}
    [] k \in Users -> {"name"} \cup (IF k \in Secrets THEN validate_typed_secret ELSE {})
    [] k = "group_apply" -> {"name", "members", "unsorted"}
    [] k = "agent_upgrade" -> validate_agent_upgrade
    [] OTHER -> {}

\* The same release rules as the Agent's, checked again by privd.
validate_upgrade_release == ReleaseFlaws
validate_uuid == {"id"}

validate_privileged_payload(k) ==
  canonical_semantic_payload_hash(k) \cup
  CASE k \in {"config_plan", "config_apply"} -> {"candidate"}
    [] k \in Sessions -> {"session_id", "boot_id"}
    [] k = "ip_ban_remove" -> {"ip"}
    [] k = "group_apply" -> {"members", "unsorted"}
    [] k = "certificate_csr" -> validate_uuid
    [] k = "certificate_revoke" -> validate_uuid \cup {"version"}
    [] k = "certificate_p12" -> validate_uuid \cup {"secret", "version", "expiry"}
    [] k \in Secrets -> {"secret"}
    [] k = "agent_upgrade" -> validate_upgrade_release
    [] OTHER -> {}

\* What the adapter's operation itself refuses before it touches the host.
adapter_checks(k) ==
  CASE k = "certificate_csr" -> {"id", "name", "many", "key_bits"}
    [] k = "certificate_p12" -> {"id", "version", "chain", "secret", "expiry"}
    [] k = "certificate_revoke" -> {"id", "version"}
    [] k \in Secrets -> {"name", "secret", "large_secret"}
    [] k \in (Users \ Secrets) \cup {"group_apply"} -> {"name", "members", "unsorted"}
    [] k \in Plans \cup Applies \cup Sessions -> Flaws(k)
    [] k = "ip_ban_remove" -> {"ip"}
    [] OTHER -> {}

(***************************************************************************)
(* What each program calls the command, its resource and its result.       *)
(***************************************************************************)

\* The row of the authorised effect and, for desired state, of its evidence.
effect_binding(k) ==
  CASE k \in Plans -> <<"config_plan", "candidate">>
    [] k \in Applies -> <<"config_apply", "ocserv.conf">>
    [] k = "agent_upgrade" -> <<"agent_upgrade_prepare", "release">>
    [] k \in Users -> <<k, "username">>
    [] k = "group_apply" -> <<k, "group_name">>
    [] OTHER -> <<k, "target">>

NoBinding == <<"none", "none">>
desired_effect_binding(k) ==
  CASE k \in Users -> <<k, "username">>
    [] k = "group_apply" -> <<k, "group_name">>
    [] k \in Applies -> <<"config_apply", "ocserv.conf">>
    [] OTHER -> NoBinding

\* The Agent asks privd to observe these.
desired_effect_identity(k) ==
  CASE k \in Users -> <<k, "username">>
    [] k = "group_apply" -> <<k, "group_name">>
    [] k \in Applies -> <<"config_apply", "ocserv.conf">>
    [] OTHER -> NoBinding

\* The Agent's journal: the revision its fence reads for the next command ...
fenced_resource(k) ==
  CASE k \in Users -> "user"
    [] k = "group_apply" -> "group"
    [] k \in Applies -> "config"
    [] OTHER -> "none"

\* Mutant: enabling a user is forgotten where the revision is recorded.
ResourceWithoutEnable(k) ==
  CASE k \in Users \ {"user_enable"} -> "user"
    [] k = "group_apply" -> "group"
    [] k \in Applies -> "config"
    [] k \in Certificates -> k
    [] OTHER -> "none"

\* ... and the one the completion records.
desired_resource(k) ==
  CASE k \in Users -> "user"
    [] k = "group_apply" -> "group"
    [] k \in Applies -> "config"
    [] k \in Certificates -> k
    [] OTHER -> "none"

Fixed == Sessions \cup {"ip_ban_remove", "service_reload"}
fixed_host_effect(k) == k \in Fixed
fixedHostEffect(k) == k \in Fixed

\* execute_signed_payload and schedule_agent_upgrade: the message of a success.
ResultOf(k) ==
  CASE k \in Plans -> "config_plan"
    [] k \in Applies -> "config_apply"
    [] k \in Certificates -> k
    [] k = "agent_upgrade" -> "agent_upgrade_scheduled"
    [] OTHER -> "mutation"

Errors == {"invalid_request", "capacity_exceeded", "unavailable"}
Outcomes == Errors \cup {ResultOf(k) : k \in Kinds \ Synthetic}

terminal_result_error_code(out) ==
  CASE out = "capacity_exceeded" -> "capacity_exceeded"
    [] out = "invalid_request" -> "privd_rejected"
    [] OTHER -> "none"
terminal_privd_error_code(out) ==
  CASE out = "capacity_exceeded" -> "capacity_exceeded"
    [] out = "invalid_request" -> "privd_rejected"
    [] OTHER -> "none"

privileged_result_kind(out) == IF out \in Errors THEN "error" ELSE out
privileged_command_kind(k) ==
  CASE k \in Plans -> "config_plan"
    [] k \in Applies -> "config_apply"
    [] OTHER -> k

\* The subject of a CSR is attested only in this form; append_string also caps
\* every name at 128 bytes.
requested_subject_digest == {"upper", "duplicate", "long_name"}

\* Mutant: the receipt of a refused CSR carries no binding.
BindingOfSuccess(k, out) ==
  CASE k = "certificate_csr" /\ out \notin Errors -> "subject"
    [] k \in Certificates \ {"certificate_csr"} -> "empty"
    [] OTHER -> "absent"

certificate_binding(k, out) ==
  CASE k = "certificate_csr" /\ out \notin Errors -> "subject"
    [] k \in Certificates /\ (k # "certificate_csr" \/ out \in Errors) -> "empty"
    [] OTHER -> "absent"

Proofs ==
  [command : Kinds, result : Outcomes \cup {"error"},
   state : {"succeeded", "failed"}, code : {"none", "privd_rejected", "capacity_exceeded"},
   certificate : {"absent", "empty", "subject"}, late : BOOLEAN]
NoProof == [command |-> "none"]

\* build_result_proof: late when it is signed after the command's deadline.
build_result_proof(k, out) ==
  [command |-> privileged_command_kind(k), result |-> privileged_result_kind(out),
   state |-> IF out \in Errors THEN "failed" ELSE "succeeded",
   code |-> terminal_result_error_code(out),
   certificate |-> certificate_binding(k, out), late |-> expired]

\* validate_receipt and valid_certificate_binding: what sign_receipt accepts.
validate_receipt(k, out) ==
  LET certificate == certificate_binding(k, out) IN
  /\ (certificate # "absent") <=> (privileged_command_kind(k) \in Certificates)
  /\ (certificate = "subject") <=> (privileged_result_kind(out) = "certificate_csr")

Attestable(p, out) ==
  /\ validate_receipt(p.kind, out)
  /\ certificate_binding(p.kind, out) = "subject" => p.flaw \notin requested_subject_digest

commandKind(k) ==
  CASE k \in Synthetic -> "unspecified"
    [] k \in Plans -> "config_plan"
    [] k \in Applies -> "config_apply"
    [] OTHER -> k
resultKind(k, state) ==
  CASE state = "failed" -> "error"
    [] state # "failed" /\ k \in Plans -> "config_plan"
    [] state # "failed" /\ k \in Applies -> "config_apply"
    [] state # "failed" /\ k \in Certificates -> k
    [] state # "failed" /\ k = "agent_upgrade" -> "agent_upgrade_scheduled"
    [] OTHER -> "mutation"
certificateClaimsMatch(k, state, binding) ==
  CASE k = "certificate_csr" /\ state # "failed" -> binding = "subject"
    [] k \in Certificates /\ (k # "certificate_csr" \/ state = "failed") -> binding = "empty"
    [] OTHER -> binding = "absent"

receiptClaimsMatch(k, r) ==
  /\ r.proof.command = commandKind(k)
  /\ r.proof.result = resultKind(k, r.state)
  /\ r.proof.state = r.state /\ r.proof.code = r.code
  /\ ~r.proof.late                                   \* receiptWithinCommandWindow
  /\ certificateClaimsMatch(k, r.state, r.proof.certificate)

(***************************************************************************)
(* State.                                                                  *)
(***************************************************************************)

Modes == {"execute", "reconcile", "retry"}
\* What the Agent's call of privd is at: the frame has arrived, the command was
\* sent, privd works on it; or a reconciliation asks for the receipt, or for an
\* observation.
Calls == {"idle", "arrived", "command", "waiting", "receipt", "observation"}
Settled == {"succeeded", "failed"}
Codes == {"none", "payload_refused", "capability_rejected", "command_expired",
          "command_not_accepted", "not_permitted", "effect_absent",
          "outcome_requires_reconciliation", "privd_transport_unknown",
          "privd_receipt_missing_or_malformed", "observed", "privd_rejected",
          "capacity_exceeded"}
NoResult == [state |-> "none", code |-> "none", proof |-> NoProof]
NoJournal == [state |-> "none", code |-> "none", proof |-> NoProof, resource |-> "none"]
NoReply == [out |-> "none", proof |-> NoProof]
Replies ==
  [out : Outcomes \cup {"absent", "applied_exact", "unknown", "no_binding"},
   proof : Proofs \cup {NoProof}] \cup {NoReply}
IdleJob == [stage |-> "idle", mode |-> "execute", out |-> "none"]
NoRow == [state |-> "none", mode |-> "execute", reply |-> NoReply]
NoPayload == [kind |-> "none", flaw |-> "none"]
K == payload.kind

FlowTypeOK ==
  /\ payload \in Payloads \cup {NoPayload}
  /\ op \in {"none", "refused", "queued", "sent", "unknown", "accepted",
             "succeeded", "failed", "rejected"}
  /\ mode \in Modes /\ deliveries \in 0..MaxDeliveries /\ faults \in 0..MaxFaults
  /\ offered \in BOOLEAN /\ expired \in BOOLEAN
  /\ journal.state \in {"none", "accepted", "running", "unknown"} \cup Settled
  /\ journal.code \in Codes /\ journal.proof \in Proofs \cup {NoProof}
  /\ call \in Calls /\ reply \in Replies
  /\ job.stage \in {"idle", "perform", "attest"}
  /\ row.state \in {"none", "prepared", "applied"} /\ row.mode \in Modes
  /\ performed \in 0..2
  /\ result.state \in {"none", "unknown", "rejected"} \cup Settled
  /\ result.code \in Codes /\ result.proof \in Proofs \cup {NoProof}

FlowInit ==
  /\ payload = NoPayload /\ op = "none" /\ mode = "execute"
  /\ deliveries = 0 /\ faults = 0
  /\ offered \in BOOLEAN /\ expired = FALSE
  /\ journal = NoJournal /\ call = "idle"
  /\ job = IdleJob /\ row = NoRow /\ performed = 0
  /\ reply = NoReply /\ result = NoResult

Fault == faults < MaxFaults /\ faults' = faults + 1

(***************************************************************************)
(* The Controller signs and sends.                                         *)
(***************************************************************************)

Create(p) ==
  /\ op = "none"
  /\ IF Refuses(p) \/ (p.kind = "session_terminate" /\ ~offered)
     THEN op' = "refused" /\ UNCHANGED payload
     ELSE op' = "queued" /\ payload' = normalizeMembers(p)
  /\ UNCHANGED <<mode, deliveries, faults, offered, expired, agentVars, privdVars,
                 reply, result>>

Send ==
  /\ op = "queued" /\ call = "idle" /\ deliveries < MaxDeliveries
  /\ op' = "sent" /\ deliveries' = deliveries + 1
  /\ call' = "arrived"
  /\ UNCHANGED <<payload, mode, faults, offered, expired, journal, privdVars, reply, result>>

\* The signed deadline passes; a queued command that was never sent expires.
DeadlinePasses ==
  /\ op \notin {"none", "refused"} /\ ~expired
  /\ expired' = TRUE
  /\ op' = IF op = "queued" /\ mode = "execute" THEN "failed" ELSE op
  /\ UNCHANGED <<payload, mode, deliveries, faults, offered, agentVars, privdVars,
                 reply, result>>

\* session_capabilities: a new session offers terminate only when privd answers
\* with a version that has it.  The Controller reconciles what was in flight
\* (RecoverAmbiguousDispatched); the frame and the Agent's call are gone.
Reconnect ==
  /\ Fault
  /\ \E terminate \in BOOLEAN : offered' = terminate
  /\ call' = "idle" /\ reply' = NoReply /\ result' = NoResult
  /\ IF op \in {"sent", "unknown"} THEN op' = "queued" /\ mode' = "reconcile"
     ELSE UNCHANGED <<op, mode>>
  /\ UNCHANGED <<payload, deliveries, expired, journal, privdVars>>

(***************************************************************************)
(* The Agent.                                                              *)
(***************************************************************************)

Answer(state, code, proof) ==
  /\ result' = [state |-> state, code |-> code, proof |-> proof]
  /\ call' = "idle"

\* transition_command without a result.
Journal(state, code) == journal' = [NoJournal EXCEPT !.state = state, !.code = code]

\* command_result: what the journal says.
Replay == Answer(journal.state, journal.code, journal.proof) /\ UNCHANGED journal

\* validate_command: every refusal is a result without a receipt.
AgentRefuses ==
  /\ call = "arrived"
  /\ \/ /\ mode # "reconcile" /\ expired
        /\ Answer("rejected", "command_expired", NoProof)
     \/ /\ payload.flaw \in validate_payload(K)
        /\ Answer("rejected", "payload_refused", NoProof)
     \/ /\ K = "session_terminate" /\ ~offered
        /\ Answer("rejected", "capability_rejected", NoProof)
  /\ UNCHANGED <<ctlVars, faults, offered, expired, journal, privdVars, reply>>

Arrives(m) ==
  /\ call = "arrived" /\ mode = m
  /\ m = "reconcile" \/ ~expired
  /\ payload.flaw \notin validate_payload(K)
  /\ K = "session_terminate" => offered

\* The Agent performs a synthetic command itself, effect and result in one
\* transaction.
execute_and_complete_synthetic ==
  /\ Journal("succeeded", "none") /\ Answer("succeeded", "none", NoProof)
  /\ performed' = performed + 1

\* The synthetic effect of an open record is absent: it commits with the result.
reconcile_replay(explicit) ==
  LET code == IF explicit THEN "effect_absent" ELSE "outcome_requires_reconciliation" IN
  /\ IF journal.state \in Settled THEN Replay
     ELSE Journal("unknown", code) /\ Answer("unknown", code, NoProof)
  /\ UNCHANGED performed

matching_record == journal # NoJournal

NotPermitted(code) ==
  Answer("rejected", code, NoProof) /\ UNCHANGED <<journal, performed>>

execute ==
  IF matching_record THEN reconcile_replay(FALSE) ELSE execute_and_complete_synthetic
reconcile ==
  IF matching_record THEN reconcile_replay(TRUE) ELSE NotPermitted("command_not_accepted")
retry_unknown ==
  IF journal.state = "unknown" /\ journal.code = "effect_absent"
  THEN execute_and_complete_synthetic ELSE NotPermitted("not_permitted")

deliver ==
  /\ K \in Synthetic
  /\ \/ Arrives("execute") /\ execute
     \/ Arrives("reconcile") /\ reconcile
     \/ Arrives("retry") /\ retry_unknown
  /\ UNCHANGED <<ctlVars, faults, offered, expired, job, row, reply>>

\* The Agent stops after it accepted the command and before anything is done.
AcceptInterrupted ==
  /\ Fault
  /\ Arrives("execute") /\ journal = NoJournal
  /\ Journal("accepted", "none") /\ call' = "idle"
  /\ UNCHANGED <<ctlVars, offered, expired, privdVars, reply, result>>

\* prepare_external, retry_external and the first call of a reconciliation.
execute_external_command ==
  /\ K \notin Synthetic
  /\ \/ /\ Arrives("execute") /\ journal = NoJournal
        /\ Journal("running", "none") /\ call' = "command" /\ UNCHANGED result
     \/ /\ Arrives("execute") /\ journal.state \in Settled /\ Replay
     \/ /\ Arrives("execute") /\ journal.state \in {"accepted", "running", "unknown"}
        /\ Journal("unknown", "outcome_requires_reconciliation")
        /\ Answer("unknown", "outcome_requires_reconciliation", NoProof)
     \/ /\ Arrives("retry") /\ journal.code = "effect_absent"
        /\ Journal("running", "none") /\ call' = "command" /\ UNCHANGED result
     \/ /\ Arrives("retry") /\ journal.code # "effect_absent"
        /\ Answer("rejected", "not_permitted", NoProof) /\ UNCHANGED journal
     \/ /\ Arrives("reconcile")
        /\ call' = "receipt" /\ UNCHANGED <<journal, result>>
  /\ UNCHANGED <<ctlVars, faults, offered, expired, privdVars, reply>>

(***************************************************************************)
(* privd.                                                                  *)
(***************************************************************************)

Respond(out, proof) == reply' = [out |-> out, proof |-> proof] /\ call' = "waiting"

\* execute_command up to the effect: the decision of prepare_authorized.
execute_command ==
  /\ call = "command" /\ job = IdleJob
  /\ LET refused == expired \/ payload.flaw \in validate_privileged_payload(K)
         replayOnly == mode = "retry" /\ fixed_host_effect(K)
         executes == \/ row.state = "none"
                     \/ row.state = "prepared" /\ mode = "retry" /\ row.mode = "execute"
         continues == row.state = "prepared" /\ K = "agent_upgrade"
         starts == ~refused /\ ~replayOnly /\ (executes \/ continues)
     IN
     \/ /\ starts
        /\ job' = [IdleJob EXCEPT !.stage = "perform", !.mode = mode]
        /\ row' = IF executes THEN [NoRow EXCEPT !.state = "prepared", !.mode = mode] ELSE row
        /\ call' = "waiting" /\ UNCHANGED reply
     \/ /\ ~starts /\ ~refused /\ row.state = "applied"
        /\ Respond(row.reply.out, row.reply.proof) /\ UNCHANGED <<job, row>>
     \/ /\ ~starts /\ (refused \/ row.state # "applied")
        /\ Respond(IF refused THEN "invalid_request" ELSE "unavailable", NoProof)
        /\ UNCHANGED <<job, row>>
  /\ UNCHANGED <<ctlVars, faults, offered, expired, journal, performed, result>>

\* Mutant: the evidence of a configuration is not looked at.
AppliesUserEvidence(k) == performed = 0 \/ k \notin Users \cup {"group_apply"}

\* The evidence of a desired state, or the intent of an upgrade, shows that the
\* host has it already; a configuration in place is published again unchanged.
ChangesHost(k) ==
  performed = 0 \/ ~(desired_effect_binding(k) # NoBinding \/ k = "agent_upgrade")

\* The adapter's operation: it refuses, changes the host, or fails at some point.
execute_signed_payload ==
  /\ job.stage = "perform"
  /\ LET fresh == ChangesHost(K) IN
     \/ /\ payload.flaw \notin adapter_checks(K)
        /\ performed > 0 => K # "user_create"
        /\ job' = [job EXCEPT !.stage = "attest", !.out = ResultOf(K)]
        /\ performed' = IF fresh THEN performed + 1 ELSE performed
        /\ UNCHANGED faults
     \/ /\ job' = [job EXCEPT !.stage = "attest", !.out = "invalid_request"]
        /\ UNCHANGED <<performed, faults>>
     \/ /\ K \in {"user_create", "group_apply"} /\ Fault
        /\ job' = [job EXCEPT !.stage = "attest", !.out = "capacity_exceeded"]
        /\ UNCHANGED performed
     \/ /\ Fault
        /\ job' = [job EXCEPT !.stage = "attest", !.out = "unavailable"]
        /\ performed' \in {performed} \cup
             (IF fresh /\ payload.flaw \notin adapter_checks(K) THEN {performed + 1} ELSE {})
  /\ performed' <= 2
  /\ UNCHANGED <<ctlVars, offered, expired, agentVars, row, reply, result>>

\* Only the call that started the job is answered by it.
Finish(out, proof) ==
  /\ job' = IdleJob
  /\ IF call = "waiting" /\ reply = NoReply THEN reply' = [out |-> out, proof |-> proof]
     ELSE UNCHANGED reply
  /\ UNCHANGED call

\* A result that is final is attested and completes the row; one that is not, or
\* that cannot be attested, leaves the row prepared.
Attest ==
  /\ job.stage = "attest"
  /\ LET final == job.out \notin Errors \/ terminal_result_error_code(job.out) # "none" IN
     IF final /\ Attestable(payload, job.out)
     THEN LET proof == build_result_proof(K, job.out) IN
          /\ row' = [state |-> "applied", mode |-> row.mode,
                     reply |-> [out |-> job.out, proof |-> proof]]
          /\ Finish(job.out, proof)
     ELSE Finish("unavailable", NoProof) /\ UNCHANGED row
  /\ UNCHANGED <<ctlVars, faults, offered, expired, journal, performed, result>>

\* privd stops, or cannot complete the row.
PrivdCrash ==
  /\ Fault /\ job.stage # "idle"
  /\ job' = IdleJob
  /\ UNCHANGED <<ctlVars, offered, expired, agentVars, row, performed, reply, result>>

\* What privd observes of a desired state: the evidence of PrivdEffects, and of
\* ConfigApply, where an applied file may still be reported as absent.
Observed == {"unknown"} \cup
  (IF performed > 0 THEN {"applied_exact"} ELSE {"absent"}) \cup
  (IF K \in Applies THEN {"absent"} ELSE {})

reconcile_command ==
  /\ call \in {"receipt", "observation"} /\ reply = NoReply
  /\ IF row.state = "applied" THEN reply' = row.reply
     ELSE IF desired_effect_binding(K) # NoBinding
     THEN \E seen \in Observed : reply' = [out |-> seen, proof |-> NoProof]
     ELSE reply' = [out |-> "no_binding", proof |-> NoProof]
  /\ UNCHANGED <<ctlVars, faults, offered, expired, agentVars, privdVars, result>>

(***************************************************************************)
(* The Agent takes privd's answer.                                         *)
(***************************************************************************)

transition_command_attested(state, code, proof) ==
  journal' = [state |-> state, code |-> code, proof |-> proof, resource |-> "none"]

complete_external_with_revision_attested(resource, proof) ==
  journal' = [state |-> "succeeded", code |-> "none", proof |-> proof, resource |-> resource]

\* complete_external_attested and complete_external_applied_attested
Complete(out, proof) ==
  LET state == IF out \in Errors THEN "failed" ELSE "succeeded"
      code == terminal_privd_error_code(out)
  IN
  IF out = "config_apply" /\ desired_resource(K) = "none"
  THEN Answer("rejected", "not_permitted", NoProof) /\ UNCHANGED journal
  ELSE /\ IF out \in {"mutation", "config_apply"} /\ desired_resource(K) # "none"
          THEN complete_external_with_revision_attested(desired_resource(K), proof)
          ELSE transition_command_attested(state, code, proof)
       /\ Answer(state, code, proof)

mark_external_unknown(code) == Journal("unknown", code) /\ Answer("unknown", code, NoProof)

\* reconcile_external: an observation never settles the command.
reconcile_external(seen) ==
  IF journal.state \in Settled THEN Replay
  ELSE mark_external_unknown(IF seen = "absent" THEN "effect_absent" ELSE "observed")

\* What the Agent concludes without privd: planning and certificate work may be
\* repeated; sessions and bans are listed; a reload and an upgrade leave nothing.
observe_external_effect(k) ==
  CASE k \in Plans \cup Certificates -> {"absent"}
    [] k \in Sessions \cup {"ip_ban_remove"} -> {"absent", "applied_exact", "unknown"}
    [] OTHER -> {"unknown"}

\* No receipt: a desired state is observed by privd with a second call.
Observe ==
  IF desired_effect_identity(K) # NoBinding
  THEN call' = "observation" /\ UNCHANGED <<journal, result>>
  ELSE \E seen \in observe_external_effect(K) : reconcile_external(seen)

begin_attested_recovery(out, proof) ==
  IF journal.state \in {"none", "accepted", "unknown"} THEN Complete(out, proof)
  ELSE Answer("rejected", "not_permitted", NoProof) /\ UNCHANGED journal

map_external_effect(out) == IF out \in {"absent", "applied_exact"} THEN out ELSE "unknown"

TakeReply ==
  /\ reply # NoReply
  /\ \/ /\ call = "waiting" /\ reply.proof # NoProof
        /\ Complete(reply.out, reply.proof)
     \/ /\ call = "waiting" /\ reply.proof = NoProof
        /\ mark_external_unknown("privd_receipt_missing_or_malformed")
     \/ /\ call = "receipt" /\ reply.proof # NoProof
        /\ begin_attested_recovery(reply.out, reply.proof)
     \/ /\ call = "receipt" /\ reply.proof = NoProof
        /\ Observe
     \/ /\ call = "observation"
        /\ reconcile_external(map_external_effect(reply.out))
  /\ reply' = NoReply
  /\ UNCHANGED <<ctlVars, faults, offered, expired, privdVars>>

\* privd cannot be reached or does not answer in time; its job goes on.
CallFails ==
  /\ Fault
  /\ \/ call \in {"command", "waiting"} /\ mark_external_unknown("privd_transport_unknown")
     \/ call = "receipt" /\ Observe
     \/ call = "observation" /\ reconcile_external("unknown")
  /\ reply' = NoReply
  /\ UNCHANGED <<ctlVars, offered, expired, privdVars>>

(***************************************************************************)
(* transportd and the Controller take the result.                          *)
(***************************************************************************)

Unsettled == [state |-> "unknown", code |-> "outcome_requires_reconciliation",
              proof |-> NoProof]

\* valid_privileged_result_proof, publish_command_unknown: a final or refused
\* result of a privileged command without a receipt is not passed on.
Published(r) ==
  IF r.state \in Settled \cup {"rejected"} /\ K \notin Synthetic /\ r.proof = NoProof
  THEN Unsettled ELSE r

\* verifyResult: a receipt that does not match leaves the outcome open.
Verified(r) ==
  IF r.state \in Settled \cup {"rejected"} /\ commandKind(K) # "unspecified"
       /\ ~(r.proof # NoProof /\ receiptClaimsMatch(K, r))
  THEN Unsettled ELSE r

scheduleCommandRecovery(r) ==
  CASE r.code = "effect_absent" ->
         IF mode = "reconcile" /\ ~fixedHostEffect(K) /\ ~expired THEN "retry" ELSE "none"
    [] r.code \in {"outcome_requires_reconciliation", "privd_transport_unknown"} -> "reconcile"
    [] OTHER -> "none"

IngestCommandResult ==
  LET r == Verified(Published(result))
      recovery == scheduleCommandRecovery(r) IN
  /\ op = "sent" /\ result # NoResult
  /\ \/ /\ r.state = "unknown"
        /\ op' = IF recovery = "none" THEN "unknown" ELSE "queued"
        /\ mode' = IF recovery = "none" THEN mode ELSE recovery
     \/ /\ r.state # "unknown"
        /\ op' = IF K = "agent_upgrade" /\ r.state = "succeeded" THEN "accepted" ELSE r.state
        /\ UNCHANGED mode
  /\ result' = NoResult
  /\ UNCHANGED <<payload, deliveries, faults, offered, expired, agentVars, privdVars, reply>>

\* The result is lost; the Controller asks again (reconcileMissingResults).
ResultLost ==
  /\ Fault
  /\ op = "sent" /\ (result # NoResult \/ call \in {"arrived", "idle"})
  /\ op' = "queued" /\ mode' = "reconcile"
  /\ result' = NoResult /\ call' = IF call = "arrived" THEN "idle" ELSE call
  /\ UNCHANGED <<payload, deliveries, offered, expired, journal, privdVars, reply>>

FlowNext ==
  \/ \E p \in Payloads : Create(p)
  \/ Send \/ DeadlinePasses \/ Reconnect
  \/ AgentRefuses \/ deliver \/ AcceptInterrupted \/ execute_external_command
  \/ execute_command \/ execute_signed_payload \/ Attest \/ PrivdCrash
  \/ reconcile_command \/ TakeReply \/ CallFails
  \/ IngestCommandResult \/ ResultLost

FlowSpec == FlowInit /\ [][FlowNext]_flowVars

(***************************************************************************)
(* Properties.                                                             *)
(***************************************************************************)

\* What the Controller has signed is never refused for its content, by the
\* Agent, by privd or by the adapter, and an observation the Agent asks of privd
\* is one privd can make: a refusal has no receipt, so the command could never
\* settle (validateCreate, validate_payload, validate_privileged_payload,
\* desired_effect_identity, desired_effect_binding).
SignedIsAdmitted ==
  /\ result.code # "payload_refused"
  /\ call = "command" => payload.flaw \notin validate_privileged_payload(K)
  /\ job.stage = "perform" => payload.flaw \notin adapter_checks(K)
  /\ call = "observation" => reply.out # "no_binding"

\* Every final outcome that privd reaches in time is attested, and the
\* Controller accepts the receipt: only a CSR whose names the subject digest
\* refuses is performed and never settles, and only a receipt signed after the
\* deadline is turned down (build_result_proof, verifyResult).
ReceiptAccepted ==
  /\ result.proof # NoProof => receiptClaimsMatch(K, result) \/ result.proof.late
  /\ job.stage = "attest" /\ job.out # "unavailable" /\ ~Attestable(payload, job.out) =>
       payload.flaw \in requested_subject_digest

\* The host is changed twice only by work that may be repeated: a plan or
\* certificate work, which the Agent reports as absent without looking, never
\* a session, a ban, a reload, a user, a group, a configuration or an upgrade
\* (fixed_host_effect, scheduleCommandRecovery, observe_external_effect).
NoBlindRetry == performed > 1 => K \in Plans \cup Certificates

\* A command is settled as succeeded only when the host was changed, and the
\* revision the Agent's fence reads for the next command is the one that this
\* success recorded (complete_external_applied_attested, desired_revision_fence).
SuccessIsRecorded ==
  /\ op \in {"succeeded", "accepted"} => performed > 0
  /\ journal.state = "succeeded" =>
       (fenced_resource(K) # "none" => journal.resource = fenced_resource(K))
=============================================================================
