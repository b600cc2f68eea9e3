------------------------- MODULE CommandFlow_proof -------------------------
(***************************************************************************)
(* What the four programs promise together about one command of any kind,  *)
(* proved for any number of deliveries and faults.                         *)
(***************************************************************************)
EXTENDS CommandFlow, TLAPS

\* The outcomes that privd attests for a command of kind k.
Finals(k) == {ResultOf(k), "invalid_request", "capacity_exceeded"}

\* The receipt of an outcome, signed before or after the deadline.
ProofOf(k, out, late) ==
  [command |-> privileged_command_kind(k), result |-> privileged_result_kind(out),
   state |-> IF out \in Errors THEN "failed" ELSE "succeeded",
   code |-> terminal_result_error_code(out),
   certificate |-> certificate_binding(k, out), late |-> late]

StateOf(out) == IF out \in Errors THEN "failed" ELSE "succeeded"

\* A receipt for this outcome, of an effect that is on the host when it succeeded.
Attested(out, proof) ==
  /\ K \in Kinds \ Synthetic /\ out \in Finals(K)
  /\ \E late \in BOOLEAN : proof = ProofOf(K, out, late)
  /\ out \notin Errors => performed > 0

\* The same, as the Agent's journal and its results have it.
AttestedAs(state, code, proof) ==
  \E out \in Finals(K) :
    Attested(out, proof) /\ state = StateOf(out) /\ code = terminal_privd_error_code(out)

Journals ==
  [state : {"none", "accepted", "running", "unknown"} \cup Settled, code : Codes,
   proof : Proofs \cup {NoProof}, resource : {"none", "user", "group", "config"} \cup Certificates]
Jobs == [stage : {"idle", "perform", "attest"}, mode : Modes, out : Outcomes \cup {"none"}]
Rows == [state : {"none", "prepared", "applied"}, mode : Modes, reply : Replies]
Results ==
  [state : {"none", "unknown", "rejected"} \cup Settled, code : Codes,
   proof : Proofs \cup {NoProof}]

\* The type invariant, with the records in full.
ShapeInv ==
  /\ payload \in Payloads \cup {NoPayload}
  /\ op \in {"none", "refused", "queued", "sent", "unknown", "accepted",
             "succeeded", "failed", "rejected"}
  /\ mode \in Modes /\ deliveries \in 0..MaxDeliveries /\ faults \in 0..MaxFaults
  /\ offered \in BOOLEAN /\ expired \in BOOLEAN
  /\ call \in Calls /\ reply \in Replies /\ performed \in 0..2
  /\ journal \in Journals /\ job \in Jobs /\ row \in Rows /\ result \in Results

\* Before a command is signed nothing has happened; the only flaws that are signed
\* are the forms of a name that the subject digest refuses.
PayloadInv ==
  \/ /\ payload = NoPayload /\ op \in {"none", "refused"}
     /\ journal = NoJournal /\ call = "idle" /\ job = IdleJob /\ row = NoRow
     /\ performed = 0 /\ reply = NoReply /\ result = NoResult
  \/ /\ payload.kind \in Kinds /\ payload.flaw \in {"none"} \cup requested_subject_digest
     /\ op \notin {"none", "refused"}

\* A synthetic command never leaves the Agent and is performed with its result.
SyntheticInv ==
  K \in Synthetic =>
    /\ job = IdleJob /\ row = NoRow /\ reply = NoReply /\ call \in {"idle", "arrived"}
    /\ journal.proof = NoProof /\ result.proof = NoProof
    /\ performed = IF journal.state = "succeeded" THEN 1 ELSE 0
    /\ result.state = "succeeded" => performed > 0

\* A receipt says what was done, wherever it is kept.
ReceiptsInv ==
  /\ row.state = "applied" => Attested(row.reply.out, row.reply.proof)
  /\ reply.proof # NoProof => Attested(reply.out, reply.proof)
  /\ journal.proof # NoProof => AttestedAs(journal.state, journal.code, journal.proof)
  /\ result.proof # NoProof => AttestedAs(result.state, result.code, result.proof)
  /\ K \notin Synthetic /\ journal.state \in Settled => journal.proof # NoProof

\* The job of privd, and what the row says of the host.
JobInv ==
  /\ K \notin Synthetic /\ row.state = "none" => performed = 0 /\ job = IdleJob
  /\ job.stage = "perform" /\ K \in Fixed => performed = 0
  /\ job.stage = "attest" =>
       /\ job.out \in Finals(K) \cup {"unavailable"}
       /\ job.out \notin Errors => performed > 0

\* An answer says something, no refusal of the content is kept, and only a command
\* with a desired state is observed.
CodesInv ==
  /\ result # NoResult => result.state # "none"
  /\ result.code # "payload_refused" /\ journal.code # "payload_refused"
  /\ call = "observation" => desired_effect_identity(K) # NoBinding
  /\ reply.out = "no_binding" => desired_effect_binding(K) = NoBinding

FlowInv ==
  /\ ShapeInv
  /\ PayloadInv
  /\ SyntheticInv
  /\ ReceiptsInv
  /\ JobInv
  /\ CodesInv
  /\ NoBlindRetry
  /\ SuccessIsRecorded

\* What a step that performs and attests nothing may write: an open record, an answer
\* that settles nothing or repeats the journal, a reply that repeats the row.
OpenCodes == Codes \ {"payload_refused"}

JournalOpen ==
  \/ journal' = journal
  \/ /\ K \in Synthetic => journal.state # "succeeded"
     /\ \E s \in {"accepted", "running", "unknown"}, c \in OpenCodes : Journal(s, c)

ResultOpen ==
  \/ result' \in {result, NoResult}
  \/ \E s \in {"unknown", "rejected"}, c \in OpenCodes :
       result' = [state |-> s, code |-> c, proof |-> NoProof]
  \/ /\ journal.state \in Settled
     /\ result' = [state |-> journal.state, code |-> journal.code, proof |-> journal.proof]

ReplyOpen ==
  \/ reply' \in {reply, NoReply}
  \/ K \notin Synthetic /\ row.state = "applied" /\ reply' = row.reply
  \/ /\ K \notin Synthetic
     /\ \E out \in Errors \cup {"absent", "applied_exact", "unknown", "no_binding"} :
          /\ reply' = [out |-> out, proof |-> NoProof]
          /\ out = "no_binding" => desired_effect_binding(K) = NoBinding

OpenStep ==
  /\ payload' = payload /\ K \in Kinds
  /\ row' = row /\ performed' = performed /\ job' \in {job, IdleJob}
  /\ op' \notin {"none", "refused"}
  /\ op' \in {"succeeded", "accepted"} => op \in {"succeeded", "accepted"} \/ performed > 0
  /\ call' = "observation" => desired_effect_identity(K) # NoBinding
  /\ K \in Synthetic => call' \in {"idle", "arrived"}
  /\ JournalOpen /\ ResultOpen /\ ReplyOpen

-----------------------------------------------------------------------------
(* The tables of the four programs                                         *)

\* The kinds of a privileged command, one family after the other.
LEMMA PrivilegedKinds ==
  ASSUME NEW k \in Kinds \ Synthetic
  PROVE  \/ k \in Sessions \/ k \in Plans \/ k \in Applies \/ k \in Certificates
         \/ k \in Users \/ k \in {"ip_ban_remove", "service_reload"}
         \/ k = "group_apply" \/ k = "agent_upgrade"
  BY DEF Kinds

\* What stands for no command is not of any kind.
LEMMA NoKind ==
  NoPayload.kind \notin Kinds
  BY DEF NoPayload, Kinds, Synthetic, Sessions, Plans, Applies, Certificates, Users,
         Secrets

\* What the Controller signs has no flaw, or one that only the subject digest sees.
LEMMA SignedIsPlain ==
  ASSUME NEW p \in Payloads, ~Refuses(p)
  PROVE  /\ normalizeMembers(p) \in Payloads
         /\ normalizeMembers(p).kind \in Kinds
         /\ normalizeMembers(p).flaw \in {"none"} \cup requested_subject_digest
<1>1. PICK k \in Kinds : p \in [kind : {k}, flaw : Flaws(k) \cup {"none"}]
  BY DEF Payloads
<1>2. [p EXCEPT !.flaw = "none"] \in [kind : {k}, flaw : Flaws(k) \cup {"none"}]
  BY <1>1
<1>3. normalizeMembers(p) \in [kind : {k}, flaw : Flaws(k) \cup {"none"}]
  BY <1>1, <1>2 DEF normalizeMembers
<1>4. normalizeMembers(p) \in Payloads
  BY <1>3 DEF Payloads
<1>5. p.flaw \in {"none", "unsorted"} \cup requested_subject_digest
  BY <1>1
     DEF Refuses, validateMutation, validateCreate, resolveUpgradeTarget,
         requested_subject_digest
<1>6. p.flaw # "unsorted" => normalizeMembers(p) = p
  BY DEF normalizeMembers
<1>7. p.flaw = "unsorted" => normalizeMembers(p).flaw = "none"
  BY <1>1 DEF normalizeMembers
<1> QED
  BY <1>3, <1>4, <1>5, <1>6, <1>7

\* No validator behind the signature refuses what is left.
LEMMA PlainIsAdmitted ==
  ASSUME NEW k \in Kinds, NEW f \in {"none"} \cup requested_subject_digest
  PROVE  f \notin validate_payload(k) \cup validate_privileged_payload(k) \cup adapter_checks(k)
<1> DEFINE Plain(S) == S \cap {"none", "upper", "duplicate", "long_name"} = {}
<1>1. Plain(canonical_semantic_payload_hash(k))
  BY DEF canonical_semantic_payload_hash, canonical_config_hash,
         canonical_certificate_hash, validate_typed_secret, Flaws, Certificates
<1> HIDE DEF Plain
<1>2. Plain(validate_payload(k))
  BY <1>1
     DEF Plain, validate_payload, validate_session_payload, validate_typed_secret,
         validate_agent_upgrade, ReleaseFlaws
<1>3. Plain(validate_privileged_payload(k))
  BY <1>1
     DEF Plain, validate_privileged_payload, validate_uuid, validate_upgrade_release,
         ReleaseFlaws
<1>4. Plain(adapter_checks(k))
  <2>1. k \in Plans \cup Applies \cup Sessions => Plain(Flaws(k))
    BY DEF Plain, Flaws, Plans, Applies, Sessions, Certificates
  <2> QED
    BY <2>1 DEF Plain, adapter_checks
<1> QED
  BY <1>2, <1>3, <1>4 DEF Plain, requested_subject_digest

\* A success is no error, and every final outcome is one of the outcomes.
LEMMA FinalOutcomes ==
  ASSUME NEW k \in Kinds \ Synthetic
  PROVE  /\ ResultOf(k) \notin Errors /\ Finals(k) \subseteq Outcomes
         /\ \A out \in Finals(k) : out \notin Errors => out = ResultOf(k)
         /\ \A out \in Finals(k) : out \notin {"unavailable", "no_binding"} /\ (out \in Errors =>
              terminal_result_error_code(out) \in {"privd_rejected", "capacity_exceeded"})
<1>1. ResultOf(k) \notin Errors
  BY DEF ResultOf, Errors, Certificates
<1>2. ResultOf(k) # "no_binding"
  BY DEF ResultOf, Certificates
<1> QED
  BY <1>1, <1>2 DEF Finals, Outcomes, Errors, terminal_result_error_code

\* A receipt has the form of a receipt, and is not mistaken for none.
LEMMA ProofTyped ==
  ASSUME NEW k \in Kinds \ Synthetic, NEW out \in Finals(k), NEW late \in BOOLEAN
  PROVE  ProofOf(k, out, late) \in Proofs /\ ProofOf(k, out, late) # NoProof
<1>1. privileged_command_kind(k) \in Kinds
  BY DEF privileged_command_kind, Kinds, Plans, Applies
<1>2. privileged_result_kind(out) \in Outcomes \cup {"error"}
  BY FinalOutcomes DEF privileged_result_kind
<1>3. terminal_result_error_code(out) \in {"none", "privd_rejected", "capacity_exceeded"}
  BY DEF terminal_result_error_code
<1>4. certificate_binding(k, out) \in {"absent", "empty", "subject"}
  BY DEF certificate_binding
<1>5. ProofOf(k, out, late) \in Proofs
  BY <1>1, <1>2, <1>3, <1>4 DEF ProofOf, Proofs
<1>6. ProofOf(k, out, late).command \in Kinds /\ "none" \notin Kinds
  BY <1>1
     DEF ProofOf, Kinds, Synthetic, Sessions, Plans, Applies, Certificates, Users, Secrets
<1>7. NoProof.command = "none"
  BY DEF NoProof
<1> QED
  BY <1>5, <1>6, <1>7

\* sign_receipt accepts every final outcome, but for the names of a CSR.
LEMMA FinalIsAttestable ==
  ASSUME NEW k \in Kinds \ Synthetic, NEW out \in Finals(k)
  PROVE  validate_receipt(k, out)
<1>1. CASE out \in Errors
  BY <1>1
     DEF validate_receipt, certificate_binding, privileged_command_kind,
         privileged_result_kind, Certificates, Plans, Applies
<1>2. CASE out \notin Errors
  <2>1. out = ResultOf(k)
    BY <1>2, FinalOutcomes
  <2>2. (certificate_binding(k, out) # "absent") <=> (k \in Certificates)
    BY <1>2 DEF certificate_binding, Certificates
  <2>3. (privileged_command_kind(k) \in Certificates) <=> (k \in Certificates)
    BY DEF privileged_command_kind, Certificates, Plans, Applies
  <2>4. (certificate_binding(k, out) = "subject") <=> (k = "certificate_csr")
    BY <1>2 DEF certificate_binding
  <2>5. (privileged_result_kind(out) = "certificate_csr") <=> (k = "certificate_csr")
    BY <1>2, <2>1 DEF privileged_result_kind, ResultOf, Certificates
  <2> QED
    BY <2>2, <2>3, <2>4, <2>5 DEF validate_receipt
<1> QED
  BY <1>1, <1>2

\* The Controller computes from the command what privd put into the receipt.
LEMMA ReceiptMatches ==
  ASSUME NEW k \in Kinds \ Synthetic, NEW out \in Finals(k), NEW r, NEW late \in BOOLEAN,
         r.state = StateOf(out), r.code = terminal_privd_error_code(out),
         r.proof = ProofOf(k, out, late)
  PROVE  receiptClaimsMatch(k, r) \/ r.proof.late
<1>1. /\ r.proof.command = privileged_command_kind(k)
      /\ r.proof.result = privileged_result_kind(out)
      /\ r.proof.state = StateOf(out) /\ r.proof.code = terminal_result_error_code(out)
      /\ r.proof.certificate = certificate_binding(k, out) /\ r.proof.late = late
  BY DEF ProofOf, StateOf
<1>2. privileged_command_kind(k) = commandKind(k)
  BY DEF privileged_command_kind, commandKind
<1>3. terminal_result_error_code(out) = terminal_privd_error_code(out)
  BY DEF terminal_result_error_code, terminal_privd_error_code
<1>4. privileged_result_kind(out) = resultKind(k, StateOf(out))
  <2>1. CASE out \in Errors
    BY <2>1 DEF privileged_result_kind, resultKind, StateOf
  <2>2. CASE out \notin Errors
    <3>1. out = ResultOf(k) /\ StateOf(out) = "succeeded"
      BY <2>2, FinalOutcomes DEF StateOf
    <3> QED
      BY <2>2, <3>1 DEF privileged_result_kind, resultKind, ResultOf
  <2> QED
    BY <2>1, <2>2
<1>5. certificateClaimsMatch(k, StateOf(out), certificate_binding(k, out))
  BY DEF certificateClaimsMatch, certificate_binding, StateOf
<1> QED
  BY <1>1, <1>2, <1>3, <1>4, <1>5 DEF receiptClaimsMatch

\* The tables of the Agent, privd and the journal agree on what is desired state.
LEMMA TablesAgree ==
  ASSUME NEW k
  PROVE  /\ desired_effect_identity(k) = desired_effect_binding(k)
         /\ fenced_resource(k) # "none" =>
              /\ desired_resource(k) = fenced_resource(k)
              /\ ResultOf(k) \in {"mutation", "config_apply"}
              /\ fenced_resource(k) \in {"user", "group", "config"}
         /\ ResultOf(k) = "config_apply" => desired_resource(k) = "config"
<1>1. desired_effect_identity(k) = desired_effect_binding(k)
  BY DEF desired_effect_identity, desired_effect_binding
<1>2. k \in Users \cup {"group_apply"} => k \notin Plans \cup Applies \cup Certificates
  BY DEF Users, Secrets, Plans, Applies, Certificates
<1>3. k \in Users \cup {"group_apply"} => ResultOf(k) = "mutation"
  BY <1>2 DEF ResultOf, Users, Secrets
<1>4. k \in Applies => ResultOf(k) = "config_apply"
  BY DEF ResultOf, Applies, Certificates
<1>5. k \in Applies => k \notin Users \cup Certificates /\ k # "group_apply"
  BY DEF Applies, Users, Secrets, Certificates
<1>6. ResultOf(k) = "config_apply" => k \in Applies
  BY DEF ResultOf, Certificates
<1>7. fenced_resource(k) # "none" =>
        /\ k \in Users \/ k = "group_apply" \/ k \in Applies
        /\ fenced_resource(k) \in {"user", "group", "config"}
        /\ desired_resource(k) = fenced_resource(k)
  BY <1>2 DEF fenced_resource, desired_resource
<1>8. k \in Applies => desired_resource(k) = "config"
  BY <1>5 DEF desired_resource
<1> QED
  BY <1>1, <1>3, <1>4, <1>6, <1>7, <1>8

\* The values that records are set to have the types of the records.
LEMMA ValuesTyped ==
  /\ NoJournal \in Journals /\ NoResult \in Results /\ NoReply \in Replies
  /\ IdleJob \in Jobs /\ NoRow \in Rows
  /\ NoJournal.state = "none" /\ NoJournal.proof = NoProof /\ NoReply.proof = NoProof
  /\ NoResult.state = "none" /\ NoResult.proof = NoProof /\ NoRow.state = "none"
  /\ IdleJob.stage = "idle" /\ NoResult.code = "none" /\ NoJournal.code = "none"
  /\ NoReply.out = "none"
<1>1. NoJournal \in Journals
  BY DEF NoJournal, Journals, Codes
<1>2. NoResult \in Results
  BY DEF NoResult, Results, Codes
<1>3. NoReply \in Replies
  BY DEF Replies
<1>4. IdleJob \in Jobs
  BY DEF IdleJob, Jobs, Modes
<1>5. NoRow \in Rows
  BY <1>3 DEF NoRow, Rows, Modes
<1> QED
  BY <1>1, <1>2, <1>3, <1>4, <1>5 DEF NoJournal, NoResult, NoReply, IdleJob, NoRow

\* An open record of the journal.
LEMMA JournalTyped ==
  ASSUME NEW s \in {"none", "accepted", "running", "unknown"} \cup Settled, NEW c \in Codes,
         Journal(s, c)
  PROVE  /\ journal' \in Journals /\ journal'.state = s /\ journal'.code = c
         /\ journal'.proof = NoProof
  BY DEF Journal, NoJournal, Journals

\* What a step that performs and attests nothing leaves typed.
LEMMA OpenTyped ==
  ASSUME ShapeInv, OpenStep
  PROVE  /\ journal' \in Journals /\ result' \in Results /\ reply' \in Replies
         /\ job' \in Jobs /\ row' \in Rows /\ performed' \in 0..2
         /\ payload' \in Payloads \cup {NoPayload}
<1>1. journal' \in Journals
  BY JournalTyped DEF ShapeInv, OpenStep, JournalOpen, OpenCodes
<1>2. result' \in Results
  <2>1. ASSUME NEW s \in {"unknown", "rejected"}, NEW c \in OpenCodes
        PROVE  [state |-> s, code |-> c, proof |-> NoProof] \in Results
    BY DEF Results, OpenCodes
  <2>2. ASSUME journal.state \in Settled
        PROVE  [state |-> journal.state, code |-> journal.code, proof |-> journal.proof] \in Results
    BY <2>2 DEF ShapeInv, Journals, Results
  <2> QED
    BY <2>1, <2>2, ValuesTyped DEF ShapeInv, OpenStep, ResultOpen
<1>3. reply' \in Replies
  <2>1. ASSUME NEW out \in Errors \cup {"absent", "applied_exact", "unknown", "no_binding"}
        PROVE  [out |-> out, proof |-> NoProof] \in Replies
    BY DEF Replies, Outcomes
  <2>2. row.reply \in Replies
    BY DEF ShapeInv, Rows
  <2> QED
    BY <2>1, <2>2, ValuesTyped DEF ShapeInv, OpenStep, ReplyOpen
<1> QED
  BY <1>1, <1>2, <1>3, ValuesTyped DEF ShapeInv, OpenStep

\* A receipt stays true while the command is the same and nothing is undone.
LEMMA AttestedKept ==
  ASSUME payload' = payload, performed' \in Nat, performed \in Nat, performed' >= performed
  PROVE  /\ \A out, proof : Attested(out, proof) => Attested(out, proof)'
         /\ \A state, code, proof :
              AttestedAs(state, code, proof) => AttestedAs(state, code, proof)'
<1>1. \A out, proof : Attested(out, proof) => Attested(out, proof)'
  BY DEF Attested, K
<1> QED
  BY <1>1 DEF AttestedAs, K

\* A step that performs and attests nothing keeps the invariant.
LEMMA OpenStepInv ==
  ASSUME FlowInv, OpenStep, ShapeInv'
  PROVE  FlowInv'
<1>1. /\ payload' = payload /\ row' = row /\ performed' = performed /\ K' = K /\ K \in Kinds
      /\ performed \in Nat
  BY DEF ShapeInv, OpenStep, K
<1>2. \/ journal' = journal
      \/ /\ journal'.state \in {"accepted", "running", "unknown"}
         /\ journal'.proof = NoProof /\ journal'.code \in OpenCodes
         /\ K \in Synthetic => journal.state # "succeeded"
  BY JournalTyped DEF OpenStep, JournalOpen, OpenCodes
<1>3. \/ result' = result
      \/ result'.state \notin Settled /\ result'.proof = NoProof /\ result'.code \in OpenCodes
      \/ /\ journal.state \in Settled /\ result'.state = journal.state
         /\ result'.code = journal.code /\ result'.proof = journal.proof
  BY ValuesTyped DEF OpenStep, ResultOpen, Settled, OpenCodes, Codes
<1>4. result' = result \/ result' = NoResult \/ result'.state # "none"
  BY DEF OpenStep, ResultOpen, Settled
<1>5. \/ reply' \in {reply, NoReply}
      \/ K \notin Synthetic /\ row.state = "applied" /\ reply' = row.reply
      \/ /\ K \notin Synthetic /\ reply'.proof = NoProof
         /\ reply'.out = "no_binding" => desired_effect_binding(K) = NoBinding
  BY DEF OpenStep, ReplyOpen
<1>6. PayloadInv'
  <2>1. payload # NoPayload
    BY <1>1, NoKind DEF K
  <2> QED
    BY <1>1, <2>1 DEF FlowInv, PayloadInv, OpenStep
<1>7. SyntheticInv'
  <2> SUFFICES ASSUME K \in Synthetic
               PROVE  SyntheticInv'
    BY <1>1 DEF SyntheticInv
  <2>1. job' = IdleJob /\ row' = NoRow /\ reply' = NoReply /\ call' \in {"idle", "arrived"}
    BY <1>1, <1>5 DEF FlowInv, SyntheticInv, OpenStep
  <2>2. journal'.proof = NoProof /\ result'.proof = NoProof
    BY <1>2, <1>3 DEF FlowInv, SyntheticInv
  <2>3. performed' = IF journal'.state = "succeeded" THEN 1 ELSE 0
    BY <1>1, <1>2 DEF FlowInv, SyntheticInv
  <2>4. result'.state = "succeeded" => performed' > 0
    BY <1>1, <1>3 DEF FlowInv, SyntheticInv, Settled
  <2> QED
    BY <2>1, <2>2, <2>3, <2>4 DEF SyntheticInv
<1>8. ReceiptsInv'
  <2>1. /\ \A out, proof : Attested(out, proof) => Attested(out, proof)'
        /\ \A state, code, proof :
             AttestedAs(state, code, proof) => AttestedAs(state, code, proof)'
    BY <1>1, AttestedKept
  <2>2. row'.state = "applied" => Attested(row.reply.out, row.reply.proof)'
    BY <1>1, <2>1 DEF FlowInv, ReceiptsInv
  <2>3. reply'.proof # NoProof => Attested(reply.out, reply.proof)'
    BY <1>5, <2>1, ValuesTyped DEF FlowInv, ReceiptsInv
  <2>4. journal'.proof # NoProof => AttestedAs(journal.state, journal.code, journal.proof)'
    BY <1>2, <2>1 DEF FlowInv, ReceiptsInv
  <2>5. result'.proof # NoProof => AttestedAs(result.state, result.code, result.proof)'
    BY <1>3, <2>1 DEF FlowInv, ReceiptsInv
  <2>6. K' \notin Synthetic /\ journal'.state \in Settled => journal'.proof # NoProof
    BY <1>1, <1>2 DEF FlowInv, ReceiptsInv, Settled
  <2> QED
    BY <2>2, <2>3, <2>4, <2>5, <2>6 DEF ReceiptsInv
<1>9. JobInv'
  BY <1>1, ValuesTyped DEF FlowInv, JobInv, OpenStep
<1>10. CodesInv'
  <2>1. row.state = "applied" => row.reply.out # "no_binding"
    BY FinalOutcomes DEF FlowInv, ReceiptsInv, Attested
  <2> QED
    BY <1>1, <1>2, <1>3, <1>5, <1>4, <2>1, ValuesTyped
       DEF FlowInv, CodesInv, OpenStep, OpenCodes
<1>11. NoBlindRetry'
  BY <1>1 DEF FlowInv, NoBlindRetry
<1>12. SuccessIsRecorded'
  BY <1>1, <1>2 DEF FlowInv, SuccessIsRecorded, OpenStep
<1> QED
  BY <1>6, <1>7, <1>8, <1>9, <1>10, <1>11, <1>12 DEF FlowInv

\* Once anything has happened there is a signed command.
LEMMA Signed ==
  ASSUME FlowInv, op \notin {"none", "refused"} \/ call # "idle" \/ job.stage # "idle" \/ reply # NoReply
  PROVE  /\ K \in Kinds /\ op \notin {"none", "refused"}
         /\ payload.flaw \in {"none"} \cup requested_subject_digest
  BY ValuesTyped DEF FlowInv, PayloadInv, K

\* Until then, nothing but the session changes.
LEMMA UnsignedStepInv ==
  ASSUME FlowInv, ShapeInv', payload = NoPayload, op' \in {"none", "refused"},
         UNCHANGED <<payload, journal, call, job, row, performed, reply, result>>
  PROVE  FlowInv'
<1>1. PayloadInv'
  BY NoKind DEF FlowInv, PayloadInv
<1>2. SyntheticInv' /\ JobInv' /\ CodesInv' /\ NoBlindRetry' /\ SuccessIsRecorded'
  BY DEF FlowInv, SyntheticInv, JobInv, CodesInv, NoBlindRetry, SuccessIsRecorded, K
<1>3. ReceiptsInv'
  BY DEF FlowInv, ReceiptsInv, Attested, AttestedAs, K
<1> QED
  BY <1>1, <1>2, <1>3 DEF FlowInv

\* Without desired state or an upgrade's intent there are the fixed effects, and
\* the work that may be repeated.
LEMMA UnboundKinds ==
  ASSUME NEW k \in Kinds \ Synthetic, desired_effect_binding(k) = NoBinding, k # "agent_upgrade"
  PROVE  k \in Fixed \cup Plans \cup Certificates
<1>1. k \notin Users /\ k # "group_apply" /\ k \notin Applies
  BY DEF desired_effect_binding, NoBinding, Users, Applies
<1> QED
  BY <1>1, PrivilegedKinds DEF Fixed

\* The Controller has a name for every privileged command.
LEMMA NoUnspecified ==
  ASSUME NEW k \in Kinds \ Synthetic
  PROVE  commandKind(k) # "unspecified"
  BY DEF commandKind, Kinds, Sessions, Certificates, Users, Secrets

\* A settled record and its result carry the receipt of what was done, and the
\* revision that the next command's fence reads.
LEMMA CompleteInv ==
  ASSUME FlowInv, K \in Kinds, K \notin Synthetic, op \notin {"none", "refused"},
         reply.proof # NoProof, Complete(reply.out, reply.proof), reply' = NoReply,
         UNCHANGED <<payload, op, mode, deliveries, faults, offered, expired, job, row, performed>>
  PROVE  FlowInv'
<1> DEFINE out == reply.out
           proof == reply.proof
<1>1. Attested(out, proof) /\ out \in Finals(K)
  BY DEF FlowInv, ReceiptsInv, Attested
<1>2. proof \in Proofs
  BY DEF FlowInv, ShapeInv, Replies, NoReply
<1> HIDE DEF out, proof
<1>3. out \notin Errors => out = ResultOf(K)
  BY <1>1, FinalOutcomes
<1>4. ~(out = "config_apply" /\ desired_resource(K) = "none")
  BY <1>3, TablesAgree DEF Errors
<1>5. /\ result' = [state |-> StateOf(out), code |-> terminal_privd_error_code(out),
                    proof |-> proof]
      /\ call' = "idle"
  BY <1>4 DEF Complete, Answer, StateOf, out, proof
<1>6. \/ /\ out \in {"mutation", "config_apply"} /\ desired_resource(K) # "none"
         /\ journal' = [state |-> "succeeded", code |-> "none", proof |-> proof,
                        resource |-> desired_resource(K)]
      \/ /\ ~(out \in {"mutation", "config_apply"} /\ desired_resource(K) # "none")
         /\ journal' = [state |-> StateOf(out), code |-> terminal_privd_error_code(out),
                        proof |-> proof, resource |-> "none"]
  BY <1>4
     DEF Complete, complete_external_with_revision_attested, transition_command_attested,
         StateOf, out, proof
<1>7. terminal_privd_error_code(out) \in Codes /\ StateOf(out) \in Settled /\ "none" \in Codes
  BY DEF terminal_privd_error_code, Codes, StateOf, Settled
<1>8. out \in {"mutation", "config_apply"} =>
        StateOf(out) = "succeeded" /\ terminal_privd_error_code(out) = "none"
  BY DEF StateOf, Errors, terminal_privd_error_code
<1>9. /\ journal'.state = StateOf(out) /\ journal'.code = terminal_privd_error_code(out)
      /\ journal'.proof = proof
  BY <1>6, <1>8
<1>10. desired_resource(K) \in {"none", "user", "group", "config"} \cup Certificates
  BY DEF desired_resource
<1>11. journal' \in Journals
  BY <1>2, <1>6, <1>7, <1>10 DEF Journals, Settled
<1>12. result' \in Results
  BY <1>2, <1>5, <1>7 DEF Results
<1>13. ShapeInv'
  BY <1>5, <1>11, <1>12, ValuesTyped DEF FlowInv, ShapeInv, Calls
<1>14. K' = K /\ performed \in Nat
  BY DEF FlowInv, ShapeInv, K
<1>15. PayloadInv'
  BY DEF FlowInv, PayloadInv
<1>16. SyntheticInv' /\ JobInv' /\ NoBlindRetry'
  BY <1>14 DEF FlowInv, SyntheticInv, JobInv, NoBlindRetry
<1>17. CodesInv'
  BY <1>5, <1>7, <1>9, <1>14, ValuesTyped DEF CodesInv, Settled, terminal_privd_error_code
<1>18. ReceiptsInv'
  <2>1. /\ \A o, q : Attested(o, q) => Attested(o, q)'
        /\ \A state, code, q : AttestedAs(state, code, q) => AttestedAs(state, code, q)'
    BY <1>14, AttestedKept
  <2>2. AttestedAs(StateOf(out), terminal_privd_error_code(out), proof)
    BY <1>1 DEF AttestedAs
  <2>3. AttestedAs(journal.state, journal.code, journal.proof)'
    BY <1>9, <2>1, <2>2
  <2>4. AttestedAs(result.state, result.code, result.proof)'
    BY <1>5, <2>1, <2>2
  <2>5. row'.state = "applied" => Attested(row.reply.out, row.reply.proof)'
    BY <2>1 DEF FlowInv, ReceiptsInv
  <2>6. journal'.proof # NoProof
    BY <1>9 DEF proof
  <2> QED
    BY <2>3, <2>4, <2>5, <2>6, ValuesTyped DEF ReceiptsInv
<1>19. SuccessIsRecorded'
  <2>1. op' \in {"succeeded", "accepted"} => performed' > 0
    BY DEF FlowInv, SuccessIsRecorded
  <2>2. ASSUME journal'.state = "succeeded", fenced_resource(K) # "none"
        PROVE  journal'.resource = fenced_resource(K)
    <3>1. out = ResultOf(K)
      BY <1>3, <1>9, <2>2 DEF StateOf
    <3>2. out \in {"mutation", "config_apply"} /\ desired_resource(K) = fenced_resource(K)
      BY <2>2, <3>1, TablesAgree
    <3> QED
      BY <1>6, <2>2, <3>2
  <2> QED
    BY <1>14, <2>1, <2>2 DEF SuccessIsRecorded
<1> QED
  BY <1>13, <1>15, <1>16, <1>17, <1>18, <1>19 DEF FlowInv

-----------------------------------------------------------------------------
(* The invariant                                                           *)

\* Before a command there is nothing.
LEMMA FlowInitInv ==
  ASSUME FlowInit
  PROVE  FlowInv
<1>1. ShapeInv
  <2>1. deliveries \in 0..MaxDeliveries /\ faults \in 0..MaxFaults /\ performed \in 0..2
    BY BoundsAssumption DEF FlowInit
  <2>2. offered \in BOOLEAN /\ expired \in BOOLEAN
    BY DEF FlowInit
  <2> QED
    BY <2>1, <2>2, ValuesTyped DEF FlowInit, ShapeInv, Modes, Calls
<1>2. PayloadInv
  BY DEF FlowInit, PayloadInv
<1>3. K \notin Synthetic
  BY DEF FlowInit, K, NoPayload, Synthetic
<1>4. SyntheticInv /\ ReceiptsInv /\ JobInv /\ CodesInv /\ NoBlindRetry /\ SuccessIsRecorded
  BY <1>3, ValuesTyped
     DEF FlowInit, SyntheticInv, ReceiptsInv, JobInv, CodesInv, NoBlindRetry,
         SuccessIsRecorded, Settled
<1> QED
  BY <1>1, <1>2, <1>4 DEF FlowInv

\* Create signs a payload that no later program refuses, or leaves nothing behind.
LEMMA CreateInv ==
  ASSUME FlowInv, NEW p \in Payloads, Create(p)
  PROVE  FlowInv'
<1>1. payload = NoPayload /\ UNCHANGED <<journal, call, job, row, performed, reply, result>>
  BY DEF FlowInv, PayloadInv, Create, agentVars, privdVars
<1>2. \/ op' = "refused" /\ payload' = payload
      \/ op' = "queued" /\ payload' = normalizeMembers(p) /\ ~Refuses(p)
  BY DEF Create
<1>3. ShapeInv'
  BY <1>2, SignedIsPlain DEF FlowInv, ShapeInv, Create, agentVars, privdVars
<1>4. CASE op' = "refused" /\ payload' = payload
  BY <1>1, <1>3, <1>4, UnsignedStepInv
<1>5. CASE op' = "queued" /\ payload' = normalizeMembers(p) /\ ~Refuses(p)
  <2>1. K' \in Kinds /\ payload'.flaw \in {"none"} \cup requested_subject_digest
    BY <1>5, SignedIsPlain DEF K
  <2>2. /\ journal' = NoJournal /\ call' = "idle" /\ job' = IdleJob /\ row' = NoRow
        /\ performed' = 0 /\ reply' = NoReply /\ result' = NoResult
    BY <1>1, NoKind DEF FlowInv, PayloadInv
  <2>3. PayloadInv'
    BY <1>5, <2>1 DEF PayloadInv, K
  <2>4. SyntheticInv' /\ ReceiptsInv' /\ JobInv' /\ CodesInv' /\ NoBlindRetry' /\ SuccessIsRecorded'
    BY <1>5, <2>2, ValuesTyped
       DEF SyntheticInv, ReceiptsInv, JobInv, CodesInv, NoBlindRetry, SuccessIsRecorded,
           Settled
  <2> QED
    BY <1>3, <2>3, <2>4 DEF FlowInv
<1> QED
  BY <1>2, <1>4, <1>5

\* Send puts a frame on its way.
LEMMA SendInv ==
  ASSUME FlowInv, Send
  PROVE  FlowInv'
<1>1. K \in Kinds /\ op \notin {"none", "refused"}
  BY Signed DEF Send
<1>2. OpenStep
  BY <1>1 DEF Send, OpenStep, JournalOpen, ResultOpen, ReplyOpen, privdVars
<1>3. ShapeInv'
  BY <1>1, <1>2, BoundsAssumption DEF FlowInv, ShapeInv, Send, Calls, privdVars
<1> QED
  BY <1>2, <1>3, OpenStepInv

\* The deadline passes over whatever is done; a command that was never sent fails.
LEMMA DeadlinePassesInv ==
  ASSUME FlowInv, DeadlinePasses
  PROVE  FlowInv'
<1>1. K \in Kinds /\ op \notin {"none", "refused"}
  BY Signed DEF DeadlinePasses
<1>2. OpenStep
  BY <1>1
     DEF FlowInv, SyntheticInv, CodesInv, DeadlinePasses, OpenStep, JournalOpen,
         ResultOpen, ReplyOpen, privdVars, agentVars
<1>3. ShapeInv'
  BY <1>1, <1>2 DEF FlowInv, ShapeInv, DeadlinePasses, privdVars, agentVars
<1> QED
  BY <1>2, <1>3, OpenStepInv

\* Reconnect forgets the frame, the call and the answer, and nothing durable.
LEMMA ReconnectInv ==
  ASSUME FlowInv, Reconnect
  PROVE  FlowInv'
<1>1. ShapeInv'
  BY BoundsAssumption, ValuesTyped
     DEF FlowInv, ShapeInv, Reconnect, Fault, Calls, Modes, privdVars
<1>2. CASE payload = NoPayload
  <2>1. op \in {"none", "refused"} /\ call = "idle" /\ reply = NoReply /\ result = NoResult
    BY <1>2, NoKind DEF FlowInv, PayloadInv
  <2> QED
    BY <1>1, <1>2, <2>1, UnsignedStepInv DEF Reconnect, privdVars
<1>3. CASE payload # NoPayload
  <2>1. K \in Kinds /\ op \notin {"none", "refused"}
    BY <1>3 DEF FlowInv, PayloadInv, K
  <2>2. OpenStep
    BY <2>1 DEF Reconnect, OpenStep, JournalOpen, ResultOpen, ReplyOpen, privdVars
  <2> QED
    BY <1>1, <2>2, OpenStepInv
<1> QED
  BY <1>2, <1>3

\* A refusal settles nothing, and none of them is for the content of the payload.
LEMMA AgentRefusesInv ==
  ASSUME FlowInv, AgentRefuses
  PROVE  FlowInv'
<1>1. K \in Kinds /\ op \notin {"none", "refused"}
  BY Signed DEF AgentRefuses
<1>2. OpenStep
  <2>1. payload.flaw \notin validate_payload(K)
    BY <1>1, Signed, PlainIsAdmitted DEF AgentRefuses
  <2>2. \E c \in OpenCodes : Answer("rejected", c, NoProof)
    BY <2>1 DEF AgentRefuses, OpenCodes, Codes
  <2> QED
    BY <1>1, <2>2
       DEF AgentRefuses, Answer, OpenStep, JournalOpen, ResultOpen, ReplyOpen, ctlVars,
           privdVars
<1>3. ShapeInv'
  BY <1>1, <1>2, OpenTyped DEF FlowInv, ShapeInv, AgentRefuses, Answer, Calls, ctlVars
<1> QED
  BY <1>2, <1>3, OpenStepInv

\* The Agent performs a synthetic command once, with its result, and only replays it
\* afterwards.
LEMMA deliverInv ==
  ASSUME FlowInv, deliver
  PROVE  FlowInv'
<1>1. K \in Kinds /\ op \notin {"none", "refused"} /\ K \in Synthetic
  BY Signed DEF deliver, Arrives
<1>2. UNCHANGED <<ctlVars, faults, offered, expired, job, row, reply>>
  BY DEF deliver
<1>3. {"none", "effect_absent", "outcome_requires_reconciliation", "not_permitted",
       "command_not_accepted"} \subseteq OpenCodes
  BY DEF OpenCodes, Codes
<1>4. \/ execute_and_complete_synthetic /\ journal.state # "succeeded"
      \/ \E explicit \in BOOLEAN : reconcile_replay(explicit)
      \/ \E c \in {"not_permitted", "command_not_accepted"} : NotPermitted(c)
  BY ValuesTyped DEF deliver, execute, reconcile, retry_unknown, matching_record
<1>5. CASE execute_and_complete_synthetic /\ journal.state # "succeeded"
  <2>1. /\ performed = 0 /\ performed' = 1 /\ call' = "idle"
        /\ job' = IdleJob /\ row' = NoRow /\ reply' = NoReply
    BY <1>1, <1>2, <1>5 DEF FlowInv, SyntheticInv, execute_and_complete_synthetic, Answer
  <2>2. /\ journal' \in Journals /\ journal'.state = "succeeded" /\ journal'.code = "none"
        /\ journal'.proof = NoProof
    BY <1>3, <1>5, JournalTyped DEF execute_and_complete_synthetic, Settled, OpenCodes
  <2>3. result' = [state |-> "succeeded", code |-> "none", proof |-> NoProof]
    BY <1>5 DEF execute_and_complete_synthetic, Answer
  <2>4. result' \in Results
    BY <1>3, <2>3 DEF Results, OpenCodes, Settled
  <2>5. ShapeInv'
    BY <1>2, <2>1, <2>2, <2>4 DEF FlowInv, ShapeInv, ctlVars, Calls
  <2>6. K' = K /\ payload' = payload /\ op' = op
    BY <1>2 DEF K, ctlVars
  <2>7. PayloadInv'
    BY <1>1, <2>6 DEF FlowInv, PayloadInv
  <2>8. SyntheticInv'
    BY <2>1, <2>2, <2>3 DEF SyntheticInv
  <2>9. ReceiptsInv'
    BY <1>1, <2>1, <2>2, <2>3, <2>6, ValuesTyped DEF ReceiptsInv
  <2>10. JobInv' /\ CodesInv' /\ NoBlindRetry'
    BY <1>1, <2>1, <2>2, <2>3, <2>6, ValuesTyped DEF JobInv, CodesInv, NoBlindRetry
  <2>11. fenced_resource(K) = "none"
    BY <1>1 DEF fenced_resource, Synthetic, Users, Secrets, Applies
  <2>12. SuccessIsRecorded'
    BY <2>1, <2>6, <2>11 DEF SuccessIsRecorded
  <2> QED
    BY <2>5, <2>7, <2>8, <2>9, <2>10, <2>12 DEF FlowInv
<1>6. CASE \/ \E explicit \in BOOLEAN : reconcile_replay(explicit)
           \/ \E c \in {"not_permitted", "command_not_accepted"} : NotPermitted(c)
  <2>1. JournalOpen
    BY <1>3, <1>6 DEF JournalOpen, reconcile_replay, NotPermitted, Replay, Settled
  <2>2. ResultOpen
    BY <1>3, <1>6 DEF ResultOpen, reconcile_replay, NotPermitted, Replay, Answer
  <2>3. call' = "idle" /\ performed' = performed
    BY <1>6 DEF reconcile_replay, NotPermitted, Replay, Answer
  <2>4. OpenStep
    BY <1>1, <1>2, <2>1, <2>2, <2>3 DEF OpenStep, ReplyOpen, ctlVars
  <2>5. ShapeInv'
    BY <1>2, <2>3, <2>4, OpenTyped DEF FlowInv, ShapeInv, ctlVars, Calls
  <2> QED
    BY <2>4, <2>5, OpenStepInv
<1> QED
  BY <1>4, <1>5, <1>6

\* An accepted record is open.
LEMMA AcceptInterruptedInv ==
  ASSUME FlowInv, AcceptInterrupted
  PROVE  FlowInv'
<1>1. K \in Kinds /\ op \notin {"none", "refused"}
  BY Signed DEF AcceptInterrupted, Arrives
<1>2. OpenStep
  <2>1. "none" \in OpenCodes
    BY DEF OpenCodes, Codes
  <2> QED
    BY <1>1, <2>1, ValuesTyped
       DEF AcceptInterrupted, OpenStep, JournalOpen, ResultOpen, ReplyOpen, ctlVars,
           privdVars
<1>3. ShapeInv'
  BY <1>1, <1>2, OpenTyped, BoundsAssumption
     DEF FlowInv, ShapeInv, AcceptInterrupted, Calls, ctlVars, Fault
<1> QED
  BY <1>2, <1>3, OpenStepInv

\* A frame opens a record, replays the journal, is turned down or starts a reconciliation.
LEMMA execute_external_commandInv ==
  ASSUME FlowInv, execute_external_command
  PROVE  FlowInv'
<1>1. K \in Kinds /\ op \notin {"none", "refused"}
  BY Signed DEF execute_external_command, Arrives
<1>2. OpenStep
  <2>1. {"none", "outcome_requires_reconciliation", "not_permitted"} \subseteq OpenCodes
    BY DEF OpenCodes, Codes
  <2>2. JournalOpen
    BY <2>1 DEF execute_external_command, JournalOpen, Replay
  <2>3. ResultOpen
    BY <2>1 DEF execute_external_command, ResultOpen, Replay, Answer
  <2> QED
    BY <1>1, <2>2, <2>3
       DEF execute_external_command, Replay, Answer, OpenStep, ReplyOpen, ctlVars,
           privdVars
<1>3. ShapeInv'
  BY <1>1, <1>2, OpenTyped
     DEF FlowInv, ShapeInv, execute_external_command, Replay, Answer, Calls, ctlVars
<1> QED
  BY <1>2, <1>3, OpenStepInv

\* privd starts a job once, again only for a signed retry and never for a fixed host
\* effect, or answers from the row.
LEMMA execute_commandInv ==
  ASSUME FlowInv, execute_command
  PROVE  FlowInv'
<1>1. /\ K \in Kinds /\ K \notin Synthetic /\ op \notin {"none", "refused"}
      /\ call = "command" /\ job = IdleJob
  BY Signed DEF FlowInv, SyntheticInv, execute_command
<1>2. UNCHANGED <<payload, op, mode, deliveries, faults, offered, expired, journal, performed, result>>
  BY DEF execute_command, ctlVars
<1> DEFINE refused == expired \/ payload.flaw \in validate_privileged_payload(K)
           replayOnly == mode = "retry" /\ fixed_host_effect(K)
           executes == \/ row.state = "none"
                       \/ row.state = "prepared" /\ mode = "retry" /\ row.mode = "execute"
           continues == row.state = "prepared" /\ K = "agent_upgrade"
           starts == ~refused /\ ~replayOnly /\ (executes \/ continues)
<1>3. CASE /\ starts
           /\ job' = [IdleJob EXCEPT !.stage = "perform", !.mode = mode]
           /\ row' = IF executes THEN [NoRow EXCEPT !.state = "prepared", !.mode = mode] ELSE row
           /\ call' = "waiting" /\ UNCHANGED reply
  <2>1. job' \in Jobs /\ job'.stage = "perform"
    BY <1>3 DEF FlowInv, ShapeInv, Jobs, IdleJob
  <2>2. row' \in Rows /\ row'.state = "prepared"
    BY <1>3, ValuesTyped DEF FlowInv, ShapeInv, Rows, NoRow
  <2>3. K \in Fixed => performed = 0
    <3>1. K \in Fixed => row.state = "none"
      BY <1>3 DEF fixed_host_effect, Fixed, Sessions
    <3> QED
      BY <1>1, <3>1 DEF FlowInv, JobInv
  <2>4. ShapeInv'
    BY <1>2, <1>3, <2>1, <2>2 DEF FlowInv, ShapeInv, Calls
  <2>5. K' = K
    BY <1>2 DEF K
  <2>6. PayloadInv'
    BY <1>1, <1>2 DEF FlowInv, PayloadInv
  <2>7. SyntheticInv' /\ JobInv' /\ NoBlindRetry' /\ SuccessIsRecorded'
    BY <1>1, <1>2, <2>1, <2>2, <2>3, <2>5
       DEF FlowInv, SyntheticInv, JobInv, NoBlindRetry, SuccessIsRecorded
  <2>8. CodesInv'
    BY <1>1, <1>2, <1>3, <2>5 DEF FlowInv, CodesInv
  <2>9. ReceiptsInv'
    <3>1. performed \in Nat
      BY DEF FlowInv, ShapeInv
    <3>2. /\ \A out, proof : Attested(out, proof) => Attested(out, proof)'
          /\ \A state, code, proof :
               AttestedAs(state, code, proof) => AttestedAs(state, code, proof)'
      BY <1>2, <3>1, AttestedKept
    <3> QED
      BY <1>2, <1>3, <2>2, <2>5, <3>2 DEF FlowInv, ReceiptsInv
  <2> QED
    BY <2>4, <2>6, <2>7, <2>8, <2>9 DEF FlowInv
<1>4. CASE /\ UNCHANGED <<job, row>> /\ call' = "waiting"
           /\ \/ row.state = "applied" /\ reply' = [out |-> row.reply.out, proof |-> row.reply.proof]
              \/ \E out \in {"invalid_request", "unavailable"} :
                   reply' = [out |-> out, proof |-> NoProof]
  <2>1. row.state = "applied" => row.reply = [out |-> row.reply.out, proof |-> row.reply.proof]
    <3>1. row.reply \in Replies
      BY DEF FlowInv, ShapeInv, Rows
    <3> QED
      BY <3>1 DEF Replies, NoReply
  <2>2. ReplyOpen
    BY <1>1, <1>4, <2>1 DEF ReplyOpen, Errors
  <2>3. OpenStep
    BY <1>1, <1>2, <1>4, <2>2 DEF OpenStep, JournalOpen, ResultOpen
  <2>4. ShapeInv'
    BY <1>2, <1>4, <2>3, OpenTyped DEF FlowInv, ShapeInv, Calls
  <2> QED
    BY <2>3, <2>4, OpenStepInv
<1> QED
  BY <1>3, <1>4 DEF execute_command, Respond

\* The host is changed again only where it leaves no evidence and may be repeated.
LEMMA execute_signed_payloadInv ==
  ASSUME FlowInv, execute_signed_payload
  PROVE  FlowInv'
<1>1. /\ K \in Kinds /\ K \notin Synthetic /\ op \notin {"none", "refused"}
      /\ job.stage = "perform" /\ row.state # "none" /\ performed \in 0..2
  BY Signed, ValuesTyped
     DEF FlowInv, ShapeInv, SyntheticInv, JobInv, execute_signed_payload
<1>2. UNCHANGED <<payload, op, mode, deliveries, offered, expired, journal, call, row, reply, result>>
  BY DEF execute_signed_payload, ctlVars, agentVars
<1>3. /\ performed' \in {performed, performed + 1} /\ performed' <= 2
      /\ performed' # performed => ChangesHost(K)
      /\ faults' \in {faults, faults + 1} /\ (faults' # faults => faults < MaxFaults)
  BY DEF execute_signed_payload, Fault
<1>4. PICK out \in Finals(K) \cup {"unavailable"} :
        /\ job' = [job EXCEPT !.stage = "attest", !.out = out]
        /\ out = ResultOf(K) => performed' = IF ChangesHost(K) THEN performed + 1 ELSE performed
  BY <1>1, FinalOutcomes DEF execute_signed_payload, Finals, Errors
<1>5. out \notin Errors => performed' > 0
  <2>1. out \notin Errors => out = ResultOf(K)
    BY <1>1, FinalOutcomes DEF Errors
  <2>2. ~ChangesHost(K) => performed # 0
    BY DEF ChangesHost
  <2> QED
    BY <1>1, <1>4, <2>1, <2>2
<1>6. job' \in Jobs /\ job'.stage = "attest" /\ job'.out = out
  <2>1. out \in Outcomes
    BY <1>1, FinalOutcomes DEF Outcomes, Errors
  <2> QED
    BY <1>4, <2>1 DEF FlowInv, ShapeInv, Jobs
<1>7. ShapeInv'
  <2>1. performed' \in 0..2 /\ faults' \in 0..MaxFaults
    BY <1>1, <1>3, BoundsAssumption DEF FlowInv, ShapeInv
  <2> QED
    BY <1>2, <1>6, <2>1 DEF FlowInv, ShapeInv
<1>8. K' = K /\ performed' >= performed /\ performed' \in Nat /\ performed \in Nat
  BY <1>1, <1>2, <1>3 DEF K
<1>9. PayloadInv'
  BY <1>1, <1>2 DEF FlowInv, PayloadInv
<1>10. SyntheticInv' /\ JobInv'
  BY <1>1, <1>2, <1>4, <1>5, <1>6, <1>8 DEF SyntheticInv, JobInv
<1>11. ReceiptsInv'
  <2>1. /\ \A o, proof : Attested(o, proof) => Attested(o, proof)'
        /\ \A state, code, proof :
             AttestedAs(state, code, proof) => AttestedAs(state, code, proof)'
    BY <1>2, <1>8, AttestedKept
  <2> QED
    BY <1>2, <1>8, <2>1 DEF FlowInv, ReceiptsInv
<1>12. CodesInv'
  BY <1>2, <1>8 DEF FlowInv, CodesInv
<1>13. NoBlindRetry'
  <2>1. CASE performed' = performed
    BY <2>1, <1>8 DEF FlowInv, NoBlindRetry
  <2>2. CASE performed' = performed + 1 /\ performed # 0
    <3>1. desired_effect_binding(K) = NoBinding /\ K # "agent_upgrade" /\ K \notin Fixed
      BY <1>1, <1>3, <1>8, <2>2 DEF FlowInv, JobInv, ChangesHost
    <3> QED
      BY <1>1, <1>8, <3>1, UnboundKinds DEF NoBlindRetry
  <2>3. CASE performed' = performed + 1 /\ performed = 0
    BY <2>3 DEF NoBlindRetry
  <2> QED
    BY <1>3, <2>1, <2>2, <2>3
<1>14. SuccessIsRecorded'
  BY <1>2, <1>8 DEF FlowInv, SuccessIsRecorded
<1> QED
  BY <1>7, <1>9, <1>10, <1>11, <1>12, <1>13, <1>14 DEF FlowInv

\* A final outcome completes the row with a receipt that says what was done.
LEMMA AttestInv ==
  ASSUME FlowInv, Attest
  PROVE  FlowInv'
<1>1. /\ K \in Kinds /\ K \notin Synthetic /\ op \notin {"none", "refused"}
      /\ job.stage = "attest"
  BY Signed, ValuesTyped DEF FlowInv, SyntheticInv, Attest
<1>2. UNCHANGED <<payload, op, mode, deliveries, faults, offered, expired, journal, call, performed, result>>
  BY DEF Attest, Finish, ctlVars
<1> DEFINE final == job.out \notin Errors \/ terminal_result_error_code(job.out) # "none"
<1>3. CASE final /\ Attestable(payload, job.out)
  <2> DEFINE proof == build_result_proof(K, job.out)
             answer == [out |-> job.out, proof |-> proof]
  <2>1. job.out \in Finals(K)
    <3>1. job.out \in Finals(K) \cup {"unavailable"}
      BY <1>1 DEF FlowInv, JobInv
    <3>2. job.out # "unavailable"
      BY <1>3 DEF Errors, terminal_result_error_code
    <3> QED
      BY <3>1, <3>2
  <2>2. expired \in BOOLEAN /\ proof = ProofOf(K, job.out, expired)
    BY DEF FlowInv, ShapeInv, build_result_proof, ProofOf
  <2>3. proof \in Proofs
    BY <1>1, <2>1, <2>2, ProofTyped
  <2>4. Attested(job.out, proof)
    BY <1>1, <2>1, <2>2 DEF FlowInv, JobInv, Attested
  <2>5. /\ job' = IdleJob /\ reply' \in {reply, answer}
        /\ row' = [state |-> "applied", mode |-> row.mode, reply |-> answer]
    BY <1>3 DEF Attest, Finish
  <2> HIDE DEF proof
  <2>6. answer \in Replies
    BY <1>1, <2>1, <2>3, FinalOutcomes DEF Replies
  <2>7. row' \in Rows
    BY <2>5, <2>6 DEF FlowInv, ShapeInv, Rows
  <2>8. ShapeInv'
    BY <1>2, <2>5, <2>6, <2>7, ValuesTyped DEF FlowInv, ShapeInv
  <2>9. K' = K /\ performed' = performed /\ performed \in Nat
    BY <1>2 DEF FlowInv, ShapeInv, K
  <2>10. PayloadInv'
    BY <1>1, <1>2 DEF FlowInv, PayloadInv
  <2>11. SyntheticInv' /\ JobInv' /\ NoBlindRetry' /\ SuccessIsRecorded'
    BY <1>1, <1>2, <2>5, <2>9, ValuesTyped
       DEF FlowInv, SyntheticInv, JobInv, NoBlindRetry, SuccessIsRecorded
  <2>12. CodesInv'
    <3>1. job.out # "no_binding"
      BY <1>1, <2>1, FinalOutcomes
    <3> QED
      BY <1>2, <2>5, <2>9, <3>1 DEF FlowInv, CodesInv
  <2>13. ReceiptsInv'
    <3>1. /\ \A o, q : Attested(o, q) => Attested(o, q)'
          /\ \A state, code, q : AttestedAs(state, code, q) => AttestedAs(state, code, q)'
      BY <1>2, <2>9, AttestedKept
    <3>2. row'.reply.out = job.out /\ row'.reply.proof = proof
      BY <2>5
    <3>3. Attested(row.reply.out, row.reply.proof)'
      BY <2>4, <3>1, <3>2
    <3>4. reply'.proof # NoProof => Attested(reply.out, reply.proof)'
      BY <2>4, <2>5, <3>1 DEF FlowInv, ReceiptsInv
    <3> QED
      BY <1>2, <2>9, <3>1, <3>3, <3>4 DEF FlowInv, ReceiptsInv
  <2> QED
    BY <2>8, <2>10, <2>11, <2>12, <2>13 DEF FlowInv
<1>4. CASE ~(final /\ Attestable(payload, job.out))
  <2>1. job' = IdleJob /\ row' = row /\ reply' \in {reply, [out |-> "unavailable", proof |-> NoProof]}
    BY <1>4 DEF Attest, Finish
  <2>2. ReplyOpen
    BY <1>1, <2>1 DEF ReplyOpen, Errors
  <2>3. OpenStep
    BY <1>1, <1>2, <2>1, <2>2 DEF FlowInv, CodesInv, OpenStep, JournalOpen, ResultOpen
  <2>4. ShapeInv'
    BY <1>2, <2>3, OpenTyped DEF FlowInv, ShapeInv
  <2> QED
    BY <2>3, <2>4, OpenStepInv
<1> QED
  BY <1>3, <1>4

\* A crash of privd ends its job and leaves the row prepared.
LEMMA PrivdCrashInv ==
  ASSUME FlowInv, PrivdCrash
  PROVE  FlowInv'
<1>1. K \in Kinds /\ op \notin {"none", "refused"}
  BY Signed DEF PrivdCrash
<1>2. OpenStep
  <2>1. K \notin Synthetic
    BY ValuesTyped DEF FlowInv, SyntheticInv, PrivdCrash
  <2> QED
    BY <1>1, <2>1
       DEF FlowInv, CodesInv, PrivdCrash, OpenStep, JournalOpen, ResultOpen, ReplyOpen,
           ctlVars, agentVars
<1>3. ShapeInv'
  BY <1>1, <1>2, OpenTyped, BoundsAssumption
     DEF FlowInv, ShapeInv, PrivdCrash, ctlVars, agentVars, Fault
<1> QED
  BY <1>2, <1>3, OpenStepInv

\* privd answers a reconciliation with the receipt of the row or what it observes.
LEMMA reconcile_commandInv ==
  ASSUME FlowInv, reconcile_command
  PROVE  FlowInv'
<1>1. K \in Kinds /\ op \notin {"none", "refused"}
  BY Signed DEF reconcile_command
<1>2. OpenStep
  <2>1. K \notin Synthetic
    BY DEF FlowInv, SyntheticInv, reconcile_command
  <2>2. Observed \subseteq {"absent", "applied_exact", "unknown"}
    BY DEF Observed
  <2>3. ReplyOpen
    BY <2>1, <2>2 DEF reconcile_command, ReplyOpen
  <2> QED
    BY <1>1, <2>1, <2>3
       DEF FlowInv, CodesInv, reconcile_command, OpenStep, JournalOpen, ResultOpen,
           ctlVars, agentVars, privdVars
<1>3. ShapeInv'
  BY <1>1, <1>2, OpenTyped DEF FlowInv, ShapeInv, reconcile_command, ctlVars, agentVars
<1> QED
  BY <1>2, <1>3, OpenStepInv

\* The Agent settles the command with the receipt, or leaves it open.
LEMMA TakeReplyInv ==
  ASSUME FlowInv, TakeReply
  PROVE  FlowInv'
<1>1. /\ K \in Kinds /\ K \notin Synthetic /\ op \notin {"none", "refused"}
      /\ call \in {"waiting", "receipt", "observation"}
  BY Signed DEF FlowInv, SyntheticInv, TakeReply
<1>2. /\ UNCHANGED <<payload, op, mode, deliveries, faults, offered, expired, job, row, performed>>
      /\ reply' = NoReply
  BY DEF TakeReply, ctlVars, privdVars
<1>3. CASE reply.proof # NoProof /\ Complete(reply.out, reply.proof)
  BY <1>1, <1>2, <1>3, CompleteInv
<1>4. CASE ~(reply.proof # NoProof /\ Complete(reply.out, reply.proof))
  <2>1. {"privd_receipt_missing_or_malformed", "effect_absent", "observed", "not_permitted"}
          \subseteq OpenCodes
    BY DEF OpenCodes, Codes
  <2>2. \/ mark_external_unknown("privd_receipt_missing_or_malformed")
        \/ Answer("rejected", "not_permitted", NoProof) /\ UNCHANGED journal
        \/ Observe
        \/ \E seen \in {"absent", "applied_exact", "unknown"} : reconcile_external(seen)
    BY <1>4 DEF TakeReply, begin_attested_recovery, map_external_effect
  <2>3. JournalOpen /\ ResultOpen
    BY <1>1, <2>1, <2>2
       DEF JournalOpen, ResultOpen, mark_external_unknown, Observe, reconcile_external,
           Replay, Answer
  <2>4. call' \in Calls /\ (call' = "observation" => desired_effect_identity(K) # NoBinding)
    BY <2>2 DEF mark_external_unknown, Observe, reconcile_external, Replay, Answer, Calls
  <2>5. OpenStep
    BY <1>1, <1>2, <2>3, <2>4 DEF OpenStep, ReplyOpen
  <2>6. ShapeInv'
    BY <1>2, <2>4, <2>5, OpenTyped DEF FlowInv, ShapeInv
  <2> QED
    BY <2>5, <2>6, OpenStepInv
<1> QED
  BY <1>3, <1>4

\* A call that is not answered leaves the record open.
LEMMA CallFailsInv ==
  ASSUME FlowInv, CallFails
  PROVE  FlowInv'
<1>1. K \in Kinds /\ op \notin {"none", "refused"}
  BY Signed DEF CallFails
<1>2. OpenStep
  <2>1. K \notin Synthetic /\ call \in {"command", "waiting", "receipt", "observation"}
    BY DEF FlowInv, SyntheticInv, CallFails
  <2>2. {"privd_transport_unknown", "effect_absent", "observed"} \subseteq OpenCodes
    BY DEF OpenCodes, Codes
  <2>3. JournalOpen /\ ResultOpen
    BY <2>1, <2>2
       DEF CallFails, JournalOpen, ResultOpen, mark_external_unknown, Observe,
           reconcile_external, Replay, Answer
  <2>4. call' \in Calls /\ (call' = "observation" => desired_effect_identity(K) # NoBinding)
    BY <2>1
       DEF CallFails, mark_external_unknown, Observe, reconcile_external, Replay, Answer,
           Calls
  <2> QED
    BY <1>1, <2>1, <2>3, <2>4 DEF CallFails, OpenStep, ReplyOpen, ctlVars, privdVars
<1>3. ShapeInv'
  BY <1>1, <1>2, OpenTyped, BoundsAssumption
     DEF FlowInv, ShapeInv, CallFails, ctlVars, Fault, mark_external_unknown, Observe,
         reconcile_external, Replay, Answer, Calls
<1> QED
  BY <1>2, <1>3, OpenStepInv

\* The Controller believes a success only with its receipt.
LEMMA IngestCommandResultInv ==
  ASSUME FlowInv, IngestCommandResult
  PROVE  FlowInv'
<1>1. K \in Kinds /\ op \notin {"none", "refused"}
  BY Signed DEF IngestCommandResult
<1> DEFINE r == Verified(Published(result))
<1>2. /\ UNCHANGED <<payload, deliveries, faults, offered, expired, journal, call, job, row,
                     performed, reply>>
      /\ result' = NoResult
  BY DEF IngestCommandResult, agentVars, privdVars
<1>3. r = Unsettled \/ r = result
  BY DEF Verified, Published
<1>4. r.state = "succeeded" => performed > 0
  <2>1. Unsettled.state = "unknown"
    BY DEF Unsettled
  <2>2. CASE K \in Synthetic
    BY <1>3, <2>1, <2>2 DEF FlowInv, SyntheticInv
  <2>3. CASE K \notin Synthetic
    <3>1. commandKind(K) # "unspecified"
      BY <1>1, <2>3, NoUnspecified
    <3>2. r.state = "succeeded" => r = result /\ result.proof # NoProof
      BY <2>1, <3>1 DEF Verified, Published, Settled
    <3>3. result.proof # NoProof /\ result.state = "succeeded" => performed > 0
      BY DEF FlowInv, ReceiptsInv, AttestedAs, Attested, StateOf
    <3> QED
      BY <3>2, <3>3
  <2> QED
    BY <2>2, <2>3
<1>5. r.state \in {"unknown", "rejected"} \cup Settled
  <2>1. result.state \in {"unknown", "rejected"} \cup Settled
    BY DEF FlowInv, ShapeInv, Results, CodesInv, IngestCommandResult
  <2> QED
    BY <1>3, <2>1 DEF Unsettled
<1>6. mode' \in Modes
  BY DEF FlowInv, ShapeInv, IngestCommandResult, scheduleCommandRecovery, Modes
<1>7. /\ op' \in {"unknown", "queued", "accepted"} \cup {r.state} /\ op' # "none"
      /\ op' \in {"accepted", "succeeded"} => r.state = "succeeded"
  <2>1. \/ op' \in {"unknown", "queued"}
        \/ op' = IF K = "agent_upgrade" /\ r.state = "succeeded" THEN "accepted" ELSE r.state
    BY DEF IngestCommandResult
  <2> HIDE DEF r
  <2> QED
    BY <1>5, <2>1 DEF Settled
<1>8. OpenStep
  BY <1>1, <1>2, <1>4, <1>5, <1>7
     DEF FlowInv, SyntheticInv, CodesInv, OpenStep, JournalOpen, ResultOpen, ReplyOpen,
         Settled
<1>9. ShapeInv'
  BY <1>2, <1>5, <1>6, <1>7, <1>8, OpenTyped DEF FlowInv, ShapeInv, Settled
<1> QED
  BY <1>8, <1>9, OpenStepInv

\* A lost result is asked for again.
LEMMA ResultLostInv ==
  ASSUME FlowInv, ResultLost
  PROVE  FlowInv'
<1>1. K \in Kinds /\ op \notin {"none", "refused"}
  BY Signed DEF ResultLost
<1>2. OpenStep
  BY <1>1
     DEF FlowInv, SyntheticInv, CodesInv, ResultLost, OpenStep, JournalOpen, ResultOpen,
         ReplyOpen, privdVars
<1>3. ShapeInv'
  BY <1>1, <1>2, OpenTyped, BoundsAssumption
     DEF FlowInv, ShapeInv, ResultLost, Fault, Calls, Modes
<1> QED
  BY <1>2, <1>3, OpenStepInv

\* Every step of the specification keeps the invariant.
LEMMA FlowNextInv ==
  ASSUME FlowInv, [FlowNext]_flowVars
  PROVE  FlowInv'
<1>1. ASSUME NEW p \in Payloads, Create(p)
      PROVE  FlowInv'
  BY <1>1, CreateInv
<1>2. CASE Send
  BY <1>2, SendInv
<1>3. CASE DeadlinePasses
  BY <1>3, DeadlinePassesInv
<1>4. CASE Reconnect
  BY <1>4, ReconnectInv
<1>5. CASE AgentRefuses
  BY <1>5, AgentRefusesInv
<1>6. CASE deliver
  BY <1>6, deliverInv
<1>7. CASE AcceptInterrupted
  BY <1>7, AcceptInterruptedInv
<1>8. CASE execute_external_command
  BY <1>8, execute_external_commandInv
<1>9. CASE execute_command
  BY <1>9, execute_commandInv
<1>10. CASE execute_signed_payload
  BY <1>10, execute_signed_payloadInv
<1>11. CASE Attest
  BY <1>11, AttestInv
<1>12. CASE PrivdCrash
  BY <1>12, PrivdCrashInv
<1>13. CASE reconcile_command
  BY <1>13, reconcile_commandInv
<1>14. CASE TakeReply
  BY <1>14, TakeReplyInv
<1>15. CASE CallFails
  BY <1>15, CallFailsInv
<1>16. CASE IngestCommandResult
  BY <1>16, IngestCommandResultInv
<1>17. CASE ResultLost
  BY <1>17, ResultLostInv
<1>18. CASE UNCHANGED flowVars
  BY <1>18
     DEF FlowInv, ShapeInv, PayloadInv, SyntheticInv, ReceiptsInv, JobInv, CodesInv,
         NoBlindRetry, SuccessIsRecorded, Attested, AttestedAs, K, flowVars, ctlVars,
         agentVars, privdVars
<1> QED
  BY <1>1, <1>2, <1>3, <1>4, <1>5, <1>6, <1>7, <1>8, <1>9, <1>10, <1>11, <1>12, <1>13,
     <1>14, <1>15, <1>16, <1>17, <1>18
     DEF FlowNext

-----------------------------------------------------------------------------
(* Theorems                                                                *)

\* Every behaviour of the command keeps the invariant: the receipts say what was
\* done, the row says what may be on the host, an open record settles nothing.
THEOREM FlowInvariant == FlowSpec => []FlowInv
<1>1. FlowInit => FlowInv
  BY FlowInitInv
<1>2. FlowInv /\ [FlowNext]_flowVars => FlowInv'
  BY FlowNextInv
<1> QED
  BY <1>1, <1>2, PTL DEF FlowSpec

\* Every variable of the four programs keeps its type.
THEOREM FlowTypeCorrect == FlowSpec => []FlowTypeOK
<1>1. FlowInv => FlowTypeOK
  <2> SUFFICES ASSUME FlowInv
               PROVE  FlowTypeOK
    OBVIOUS
  <2>1. /\ journal.state \in {"none", "accepted", "running", "unknown"} \cup Settled
        /\ journal.code \in Codes /\ journal.proof \in Proofs \cup {NoProof}
    BY DEF FlowInv, ShapeInv, Journals
  <2>2. job.stage \in {"idle", "perform", "attest"}
    BY DEF FlowInv, ShapeInv, Jobs
  <2>3. row.state \in {"none", "prepared", "applied"} /\ row.mode \in Modes
    BY DEF FlowInv, ShapeInv, Rows
  <2>4. /\ result.state \in {"none", "unknown", "rejected"} \cup Settled
        /\ result.code \in Codes /\ result.proof \in Proofs \cup {NoProof}
    BY DEF FlowInv, ShapeInv, Results
  <2> QED
    BY <2>1, <2>2, <2>3, <2>4 DEF FlowInv, ShapeInv, FlowTypeOK
<1> QED
  BY <1>1, FlowInvariant, PTL

\* What the Controller signs is refused by none of the Agent, privd and the adapter
\* for its content, whatever is delivered, lost or interrupted: validateCreate and
\* validateMutation refuse all that validate_payload, validate_privileged_payload and
\* the adapter would.
THEOREM FlowSignedIsAdmitted == FlowSpec => []SignedIsAdmitted
<1>1. FlowInv => SignedIsAdmitted
  <2> SUFFICES ASSUME FlowInv
               PROVE  SignedIsAdmitted
    OBVIOUS
  <2>1. result.code # "payload_refused"
    BY DEF FlowInv, CodesInv
  <2>2. call = "command" => payload.flaw \notin validate_privileged_payload(K)
    BY Signed, PlainIsAdmitted
  <2>3. job.stage = "perform" => payload.flaw \notin adapter_checks(K)
    BY Signed, PlainIsAdmitted
  <2>4. call = "observation" => reply.out # "no_binding"
    BY TablesAgree DEF FlowInv, CodesInv
  <2> QED
    BY <2>1, <2>2, <2>3, <2>4 DEF SignedIsAdmitted
<1> QED
  BY <1>1, FlowInvariant, PTL

\* The Controller accepts every receipt that privd signs in time, and privd signs one
\* for every final outcome but that of a CSR whose names the subject digest refuses.
THEOREM FlowReceiptAccepted == FlowSpec => []ReceiptAccepted
<1>1. FlowInv => ReceiptAccepted
  <2> SUFFICES ASSUME FlowInv
               PROVE  ReceiptAccepted
    OBVIOUS
  <2>1. ASSUME result.proof # NoProof
        PROVE  receiptClaimsMatch(K, result) \/ result.proof.late
    <3>1. K \in Kinds \ Synthetic
      BY <2>1 DEF FlowInv, ReceiptsInv, AttestedAs, Attested
    <3>2. PICK out \in Finals(K), late \in BOOLEAN :
            /\ result.proof = ProofOf(K, out, late) /\ result.state = StateOf(out)
            /\ result.code = terminal_privd_error_code(out)
      BY <2>1 DEF FlowInv, ReceiptsInv, AttestedAs, Attested
    <3> QED
      BY <3>1, <3>2, ReceiptMatches
  <2>2. ASSUME job.stage = "attest", job.out # "unavailable", ~Attestable(payload, job.out)
        PROVE  payload.flaw \in requested_subject_digest
    <3>1. K \in Kinds /\ K \notin Synthetic
      BY <2>2, Signed, ValuesTyped DEF FlowInv, SyntheticInv
    <3>2. job.out \in Finals(K)
      BY <2>2 DEF FlowInv, JobInv
    <3>3. validate_receipt(K, job.out)
      BY <3>1, <3>2, FinalIsAttestable
    <3> QED
      BY <2>2, <3>3 DEF Attestable, K
  <2> QED
    BY <2>1, <2>2 DEF ReceiptAccepted
<1> QED
  BY <1>1, FlowInvariant, PTL

\* However often a command is delivered, retried or interrupted, only planning and
\* certificate work is done twice.
THEOREM FlowNoBlindRetry == FlowSpec => []NoBlindRetry
<1>1. FlowInv => NoBlindRetry
  BY DEF FlowInv
<1> QED
  BY <1>1, FlowInvariant, PTL

\* A settled success was performed, and the Agent's fence reads its revision.
THEOREM FlowSuccessIsRecorded == FlowSpec => []SuccessIsRecorded
<1>1. FlowInv => SuccessIsRecorded
  BY DEF FlowInv
<1> QED
  BY <1>1, FlowInvariant, PTL

=============================================================================
