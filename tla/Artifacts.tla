----------------------------- MODULE Artifacts -----------------------------
(***************************************************************************)
(* The export of one certificate's private key as a single-use P12: the    *)
(* node's root ledger and spool, the Controller's artifact row, the        *)
(* downloads and the reconciler between them, and the revocation of the    *)
(* certificate.  Requests to the node are delayed or answered too late,    *)
(* privd and the Controller crash between any two durable writes, and the  *)
(* grants and the artifact expire at any time.                             *)
(*                                                                         *)
(* Abstractions: a content stands for the P12's bytes, size and digest and *)
(* fits one chunk; a grant stands for its signed claims, its subject and   *)
(* the download that asked for it; the two sides share one clock.          *)
(***************************************************************************)
EXTENDS Naturals, FiniteSets

CONSTANTS
    Grants,      \* download attempts, each with a grant of its own
    NoGrant,     \* no active grant
    MaxMade,     \* bound: P12 files created
    MaxCrashes   \* bound: crashes of privd and of the Controller

ASSUME ArtifactConstants ==
    /\ IsFiniteSet(Grants) /\ NoGrant \notin Grants
    /\ MaxMade \in Nat /\ MaxCrashes \in Nat

VARIABLES
    db,        \* the Controller's artifact row: state, active grant, digest
    cert,      \* the certificate: state, and whether the row names its version
    download,  \* download[g]: where the download with grant g is
    recon,     \* the reconciler's pass over the consuming row
    net,       \* requests on their way to privd
    root,      \* the root ledger's record: state, lease, offset, digest
    file,      \* the content in the spool, 0 when there is none
    key,       \* whether the certificate's private key is on the node
    hand,      \* what the holder of the certificate artifact lock has left to do
    p12,       \* the export command, as the Controller follows it
    expired,   \* grants past their expiry
    over,      \* whether the artifact is past its expiry
    made, crashes

ctrl == <<db, cert, download, recon>>
node == <<root, file, key, hand>>
artifactVars ==
    <<db, cert, download, recon, net, root, file, key, hand, p12, expired, over, made, crashes>>

Idle      == [op |-> "idle", grant |-> NoGrant]
NoPass    == [step |-> "idle", grant |-> NoGrant]
NoRecord  == [state |-> "none", grant |-> NoGrant, read |-> FALSE, digest |-> 0]
Requests  == [op : {"fetch", "consume", "reconsume"}, grant : Grants]
Terminal  == {"consumed", "expired", "revoked"}

\* The requests the Controller sends: for the bytes, and, from a download or
\* from the reconciler, for their consumption.
ArtifactFetchRequest(g)       == [op |-> "fetch", grant |-> g]
ArtifactConsumeRequest(op, g) == [op |-> op, grant |-> g]

\* The states of the row, the certificate, a download, the reconciler's pass, the
\* ledger's record and the holder of the lock.
ArtifactRows ==
    [state : {"pending", "ready", "leased", "consuming", "failed"} \cup Terminal,
     grant : Grants \cup {NoGrant}, digest : 0..MaxMade]
Certificates ==
    [state : {"requested", "issued", "expiring", "revoking", "revocation_unknown", "revoked"},
     current : BOOLEAN]
DownloadStages == {"none", "open", "fetched", "consume", "finalize", "delivered", "denied"}
Passes == [step : {"idle", "absent", "consume", "consumed"}, grant : Grants \cup {NoGrant}]
LedgerRecords ==
    [state : {"none", "prepared", "available", "leased"} \cup Terminal,
     grant : Grants \cup {NoGrant}, read : BOOLEAN, digest : 0..MaxMade]
Holders ==
    [op : {"idle", "publish", "register", "remove", "reremove", "revoke", "remove_key"},
     grant : Grants \cup {NoGrant}]

ArtifactsTypeOK ==
    /\ db \in ArtifactRows /\ cert \in Certificates
    /\ download \in [Grants -> DownloadStages]
    /\ recon \in Passes /\ net \subseteq Requests
    /\ root \in LedgerRecords /\ hand \in Holders
    /\ file \in 0..MaxMade /\ key \in BOOLEAN
    /\ p12 \in {"none", "sent", "ready", "failed", "closed"}
    /\ expired \subseteq Grants /\ over \in BOOLEAN
    /\ made \in 0..MaxMade /\ crashes \in 0..MaxCrashes

ArtifactsInit ==
    /\ db = [state |-> "pending", grant |-> NoGrant, digest |-> 0]
    /\ cert = [state |-> "requested", current |-> TRUE]
    /\ download = [g \in Grants |-> "none"] /\ recon = NoPass /\ net = {}
    /\ root = NoRecord /\ file = 0 /\ key = FALSE /\ hand = Idle
    /\ p12 = "none" /\ expired = {} /\ over = FALSE
    /\ made = 0 /\ crashes = 0

Issued == cert.state \in {"issued", "expiring"} /\ cert.current

\* privd answers one lock holder at a time.
Free == hand = Idle

-----------------------------------------------------------------------------
(* Export: the key, the P12 and the result                                 *)

\* The key is generated once; the certificate is issued from its request.
certificate_csr ==
    /\ Free /\ cert.state = "requested"
    /\ key' = TRUE /\ cert' = [cert EXCEPT !.state = "issued"]
    /\ UNCHANGED <<db, download, recon, net, root, file, hand, p12, expired, over, made, crashes>>

\* An approved export creates the row's command.
CreateP12 ==
    /\ p12 = "none" /\ Issued
    /\ p12' = "sent"
    /\ UNCHANGED <<ctrl, node, net, expired, over, made, crashes>>

\* The record precedes every file; a known artifact must still be open.
prepare_artifact ==
    /\ root.state \in {"none", "prepared", "available", "leased"}
    /\ root' = IF root.state = "none" THEN [root EXCEPT !.state = "prepared"] ELSE root

artifact_is_registered == root.state \in {"available", "leased"}

\* certificate_p12: a published file is registered again, a registered one that
\* has vanished is an error, otherwise the export is built.
BeginP12 ==
    /\ Free /\ p12 = "sent"
    /\ \/ /\ key /\ ~over /\ prepare_artifact
          /\ \/ /\ file = 0 /\ artifact_is_registered
                /\ p12' = "failed" /\ UNCHANGED hand
             \/ /\ ~(file = 0 /\ artifact_is_registered)
                /\ hand' = [Idle EXCEPT !.op = IF file = 0 THEN "publish" ELSE "register"]
                /\ UNCHANGED p12
       \/ /\ ~(key /\ ~over /\ root.state \notin Terminal)
          /\ p12' = "failed" /\ UNCHANGED <<root, hand>>
    /\ UNCHANGED <<ctrl, file, key, net, expired, over, made, crashes>>

\* The bundle, salted anew each time, is written, verified and renamed.
PublishP12 ==
    /\ hand.op = "publish" /\ made < MaxMade
    /\ made' = made + 1 /\ file' = made + 1
    /\ hand' = [Idle EXCEPT !.op = "register"]
    /\ UNCHANGED <<ctrl, root, key, net, p12, expired, over, crashes>>

\* The digest of the published file is registered, once.
register_artifact ==
    /\ hand.op = "register"
    /\ \/ /\ ~over /\ root.state = "prepared"
          /\ root' = [root EXCEPT !.state = "available", !.digest = file]
          /\ p12' = "ready"
       \/ /\ ~over /\ root.state \in {"available", "leased"} /\ root.digest = file
          /\ p12' = "ready" /\ UNCHANGED root
       \/ /\ over \/ (root.state # "prepared" /\ root.digest # file)
          /\ p12' = "failed" /\ UNCHANGED root
    /\ hand' = Idle
    /\ UNCHANGED <<ctrl, file, key, net, expired, over, made, crashes>>

\* The attested result sets the row, whatever state it is in by then.
ArtifactOutcome ==
    /\ p12 \in {"ready", "failed"}
    /\ db' = [db EXCEPT !.state = p12, !.digest = IF p12 = "ready" THEN root.digest ELSE @]
    /\ p12' = "closed"
    /\ UNCHANGED <<cert, download, recon, node, net, expired, over, made, crashes>>

-----------------------------------------------------------------------------
(* Download                                                                *)

\* A ready row, or one whose lease ran out, is leased to a new grant.
OpenArtifact(g) ==
    /\ download[g] = "none" /\ g \notin expired /\ Issued /\ ~over
    /\ db.state = "ready" \/ (db.state = "leased" /\ db.grant \in expired)
    /\ db' = [db EXCEPT !.state = "leased", !.grant = g]
    /\ download' = [download EXCEPT ![g] = "open"]
    /\ net' = net \cup {ArtifactFetchRequest(g)}
    /\ UNCHANGED <<cert, recon, node, p12, expired, over, made, crashes>>

\* The signed claims name the node, the artifact and the request; a confirmation
\* changes nothing and alone may use a grant that has expired.
verify_artifact_grant_inner(g, require_unexpired) ==
    /\ download[g] # "none"
    /\ require_unexpired => g \notin expired

verify_artifact_grant(g) == verify_artifact_grant_inner(g, TRUE)

\* Mutant: a confirmation needs an unexpired grant like a consumption.
verify_for_confirmation_Unexpired(g) == verify_artifact_grant_inner(g, TRUE)

verify_artifact_grant_for_confirmation(g) == verify_artifact_grant_inner(g, FALSE)

\* The Agent verifies the grant and hands the request to privd.
handle_artifact_stream(request) ==
    /\ request \in net /\ request.op = "fetch"
    /\ net' = net \ {request}

handle_artifact_consume(request) ==
    /\ request \in net /\ request.op # "fetch"
    /\ net' = net \ {request}

\* The owner term that the request is bound to has ended when the Agent or privd
\* looks at it: whoever asked gets no bytes and no answer but the refusal.
verify_artifact_fence(request) ==
    LET g == request.grant
    IN  /\ request \in net /\ net' = net \ {request}
        /\ download' = [download EXCEPT ![g] =
                IF <<request.op, @>> \in {<<"fetch", "open">>, <<"consume", "consume">>}
                THEN "denied" ELSE @]
        /\ recon' = IF request.op = "reconsume" /\ recon = [step |-> "consume", grant |-> g]
                    THEN NoPass ELSE recon
        /\ UNCHANGED <<db, cert, node, p12, expired, over, made, crashes>>

\* What the exact grant may do with the root lease.
MayLease(g) ==
    /\ verify_artifact_grant(g) /\ ~over /\ root.state \in {"available", "leased"}
    /\ root.state = "leased" => root.grant = g \/ root.grant \in expired

\* The lease restarts from the first byte for a new grant only.
Leased(g) ==
    IF root.state = "leased" /\ root.grant = g THEN root
    ELSE [root EXCEPT !.state = "leased", !.grant = g, !.read = FALSE]

\* artifact_read: lease, compare the offset and the digest, advance, answer.
artifact_read(g) ==
    LET request == ArtifactFetchRequest(g)
        ok      == MayLease(g) /\ ~Leased(g).read /\ file = root.digest /\ file # 0
    IN  /\ Free /\ handle_artifact_stream(request)
        /\ root' = IF MayLease(g) THEN [Leased(g) EXCEPT !.read = @ \/ ok] ELSE root
        /\ download' = [download EXCEPT ![g] = IF @ # "open" THEN @
                            ELSE IF ok /\ file = db.digest THEN "fetched" ELSE "denied"]
        /\ UNCHANGED <<db, cert, recon, file, key, hand, p12, expired, over, made, crashes>>

\* Mutant: a replay is not compared with the grant that was consumed.
StartConsumption_AnyReplay(g) ==
    /\ download[g] = "fetched"
    /\ \/ /\ db.state = "leased" /\ db.grant = g /\ ~over /\ Issued
          /\ db' = [db EXCEPT !.state = "consuming"]
          /\ download' = [download EXCEPT ![g] = "consume"]
          /\ net' = net \cup {ArtifactConsumeRequest("consume", g)}
       \/ /\ ~(db.state = "leased" /\ db.grant = g /\ ~over /\ Issued)
          /\ download' = [download EXCEPT ![g] =
                IF db.state = "consumed" THEN "delivered" ELSE "denied"]
          /\ UNCHANGED <<db, net>>
    /\ UNCHANGED <<cert, recon, node, p12, expired, over, made, crashes>>

\* CompleteArtifact first makes the row consuming, then asks privd to consume;
\* only the exact replay of a finished consumption succeeds without it.
StartConsumption(g) ==
    /\ download[g] = "fetched"
    /\ \/ /\ db.state = "leased" /\ db.grant = g /\ ~over /\ Issued
          /\ db' = [db EXCEPT !.state = "consuming"]
          /\ download' = [download EXCEPT ![g] = "consume"]
          /\ net' = net \cup {ArtifactConsumeRequest("consume", g)}
       \/ /\ ~(db.state = "leased" /\ db.grant = g /\ ~over /\ Issued)
          /\ download' = [download EXCEPT ![g] =
                IF db.state = "consumed" /\ db.grant = g THEN "delivered" ELSE "denied"]
          /\ UNCHANGED <<db, net>>
    /\ UNCHANGED <<cert, recon, node, p12, expired, over, made, crashes>>

\* The request is abandoned: its deadline, or the client or a stream is gone.
GiveUp(g) ==
    /\ download[g] \in {"open", "consume"}
    /\ download' = [download EXCEPT ![g] = "denied"]
    /\ UNCHANGED <<db, cert, recon, node, net, p12, expired, over, made, crashes>>

\* The record that the exact grant read to its end.
ExactLease(g) == root.grant = g /\ root.read

\* consume_artifact commits the consumption; the bytes go in a step of its own.
consume_artifact(request) ==
    LET g  == request.grant
        ok == verify_artifact_grant(g) /\ root.state \in {"leased", "consumed"} /\ ExactLease(g)
    IN  /\ Free /\ handle_artifact_consume(request)
        /\ IF ok
           THEN /\ root' = [root EXCEPT !.state = "consumed"]
                /\ hand' = [op |-> IF request.op = "consume" THEN "remove" ELSE "reremove",
                            grant |-> g]
                /\ UNCHANGED <<download, recon>>
           ELSE /\ download' = [download EXCEPT ![g] =
                        IF request.op = "consume" /\ @ = "consume" THEN "denied" ELSE @]
                /\ recon' = IF request.op = "reconsume" THEN NoPass ELSE recon
                /\ UNCHANGED <<root, hand>>
        /\ UNCHANGED <<db, cert, file, key, p12, expired, over, made, crashes>>

\* transportd passes an acknowledgement on for the exact grant only.
finalize_artifact_consumption(op, g) ==
    /\ download' = [download EXCEPT ![g] =
            IF op = "remove" /\ @ = "consume" THEN "finalize" ELSE @]
    /\ recon' = IF op = "reremove" /\ recon = [step |-> "consume", grant |-> g]
                THEN [recon EXCEPT !.step = "consumed"] ELSE recon

\* artifact_consume removes the file and answers whoever asked.
RemoveBytes ==
    /\ hand.op \in {"remove", "reremove"}
    /\ file' = 0
    /\ finalize_artifact_consumption(hand.op, hand.grant)
    /\ hand' = Idle
    /\ UNCHANGED <<db, cert, net, root, key, p12, expired, over, made, crashes>>

\* Mutant: a revocation that won is taken for the success it is to the reconciler.
finalizeArtifactConsumption_Revoked(g) ==
    /\ download[g] = "finalize"
    /\ db' = IF db.grant = g /\ db.state = "consuming" THEN [db EXCEPT !.state = "consumed"]
             ELSE db
    /\ download' = [download EXCEPT ![g] =
            IF db.grant = g /\ db.state \in {"consuming", "consumed", "revoked"} THEN "delivered" ELSE "denied"]
    /\ UNCHANGED <<cert, recon, node, net, p12, expired, over, made, crashes>>

\* The row becomes consumed, or the request learns what it became meanwhile.
finalizeArtifactConsumption(g) ==
    /\ download[g] = "finalize"
    /\ db' = IF db.grant = g /\ db.state = "consuming" THEN [db EXCEPT !.state = "consumed"]
             ELSE db
    /\ download' = [download EXCEPT ![g] =
            IF db.grant = g /\ db.state \in {"consuming", "consumed"} THEN "delivered" ELSE "denied"]
    /\ UNCHANGED <<cert, recon, node, net, p12, expired, over, made, crashes>>

-----------------------------------------------------------------------------
(* Reconciliation of a consuming row                                       *)

\* confirm_artifact_consumed answers for the exact record and changes nothing.
ConfirmConsumed ==
    /\ recon = NoPass /\ db.state = "consuming" /\ Free
    /\ verify_artifact_grant_for_confirmation(db.grant)
    /\ \/ /\ root.state = "consumed" /\ ExactLease(db.grant)
          /\ recon' = [step |-> "consumed", grant |-> db.grant]
       \/ /\ \/ root.state = "leased" /\ ExactLease(db.grant)
             \/ root.state \in {"available", "expired", "revoked"}
          /\ recon' = [step |-> "absent", grant |-> db.grant]
    /\ UNCHANGED <<db, cert, download, node, net, p12, expired, over, made, crashes>>

\* With the grant still valid the reconciler consumes in the request's place.
ReconcileConsume ==
    /\ recon.step = "absent" /\ recon.grant \notin expired
    /\ recon' = [recon EXCEPT !.step = "consume"]
    /\ net' = net \cup {ArtifactConsumeRequest("reconsume", recon.grant)}
    /\ UNCHANGED <<db, cert, download, node, p12, expired, over, made, crashes>>

ReconcileGivesUp ==
    /\ recon.step = "consume"
    /\ recon' = NoPass
    /\ UNCHANGED <<db, cert, download, node, net, p12, expired, over, made, crashes>>

ReconcileFinalize ==
    /\ recon.step = "consumed"
    /\ db' = IF db.grant = recon.grant /\ db.state = "consuming"
             THEN [db EXCEPT !.state = "consumed"] ELSE db
    /\ recon' = NoPass
    /\ UNCHANGED <<cert, download, node, net, p12, expired, over, made, crashes>>

\* With the grant expired nothing can consume it any more: the row is reset.
ResetConsumption ==
    /\ recon.step = "absent" /\ recon.grant \in expired
    /\ db' = IF db.grant = recon.grant /\ db.state = "consuming"
             THEN [db EXCEPT !.state = IF over THEN "expired" ELSE "ready", !.grant = NoGrant]
             ELSE db
    /\ recon' = NoPass
    /\ UNCHANGED <<cert, download, node, net, p12, expired, over, made, crashes>>

-----------------------------------------------------------------------------
(* Expiry, cleanup, revocation and crashes                                 *)

GrantExpires(g) ==
    /\ g \notin expired /\ download[g] # "none"
    /\ expired' = expired \cup {g}
    /\ UNCHANGED <<ctrl, node, net, p12, over, made, crashes>>

\* A grant never outlives the artifact.
ArtifactExpires ==
    /\ ~over /\ p12 # "none"
    /\ over' = TRUE /\ expired' = {g \in Grants : download[g] # "none"} \cup expired
    /\ UNCHANGED <<ctrl, node, net, p12, made, crashes>>

Maintain ==
    /\ over /\ db.state \in {"pending", "ready", "leased"}
    /\ db' = [db EXCEPT !.state = "expired"]
    /\ UNCHANGED <<cert, download, recon, node, net, p12, expired, over, made, crashes>>

\* The certificate nears its end: its version moves past the row's.
CertificateExpiring ==
    /\ cert.state = "issued"
    /\ cert' = [state |-> "expiring", current |-> FALSE]
    /\ UNCHANGED <<db, download, recon, node, net, p12, expired, over, made, crashes>>

\* Past its expiry an open record expires; an expired lease is given back.
reconcile_artifacts ==
    root' = IF over /\ root.state \in {"prepared", "available", "leased"}
            THEN [root EXCEPT !.state = "expired"]
            ELSE IF root.state = "leased" /\ root.grant \in expired
            THEN [root EXCEPT !.state = "available", !.grant = NoGrant, !.read = FALSE]
            ELSE root

\* Mutant: only the records this pass expires lose their files.
cleanup_ExpiredOnly ==
    /\ Free /\ reconcile_artifacts
    /\ file' = IF root'.state # root.state /\ root'.state = "expired" THEN 0 ELSE file
    /\ UNCHANGED <<ctrl, key, hand, net, p12, expired, over, made, crashes>>

\* The files of terminal and of unknown records go.
cleanup_stale_certificate_artifacts ==
    /\ Free /\ reconcile_artifacts
    /\ file' = IF root'.state \in Terminal \cup {"none"} THEN 0 ELSE file
    /\ UNCHANGED <<ctrl, key, hand, net, p12, expired, over, made, crashes>>

\* The certificate and its open artifact row are withdrawn together.
BeginRevocation ==
    /\ cert.state \in {"issued", "expiring", "revocation_unknown"}
    /\ cert' = [state |-> "revoking", current |-> FALSE]
    /\ db' = IF db.state \in {"pending", "ready", "leased", "consuming"}
             THEN [db EXCEPT !.state = "revoked"] ELSE db
    /\ UNCHANGED <<download, recon, node, net, p12, expired, over, made, crashes>>

\* The signer does not answer: the revocation is retried later.
RevocationUnknown ==
    /\ cert.state = "revoking" /\ hand.op \notin {"revoke", "remove_key"}
    /\ crashes < MaxCrashes /\ crashes' = crashes + 1
    /\ cert' = [cert EXCEPT !.state = "revocation_unknown"]
    /\ UNCHANGED <<db, download, recon, node, net, p12, expired, over, made>>

\* The released command: every record but a consumed one is revoked, then the
\* files and the key are removed.
revoke_certificate_artifacts ==
    /\ Free /\ cert.state = "revoking"
    /\ root' = IF root.state \in {"none", "consumed"} THEN root
               ELSE [root EXCEPT !.state = "revoked"]
    /\ hand' = [Idle EXCEPT !.op = "revoke"]
    /\ UNCHANGED <<ctrl, file, key, net, p12, expired, over, made, crashes>>

RemoveRevokedFiles ==
    /\ hand.op = "revoke"
    /\ file' = IF root.state = "none" THEN file ELSE 0
    /\ hand' = [Idle EXCEPT !.op = "remove_key"]
    /\ UNCHANGED <<ctrl, root, key, net, p12, expired, over, made, crashes>>

RemoveKey ==
    /\ hand.op = "remove_key"
    /\ key' = FALSE /\ hand' = Idle
    /\ cert' = [cert EXCEPT !.state = "revoked"]
    /\ UNCHANGED <<db, download, recon, net, root, file, p12, expired, over, made, crashes>>

\* privd dies holding the lock: whoever waits for it gets no answer.
CrashPrivd ==
    /\ hand # Idle /\ crashes < MaxCrashes
    /\ crashes' = crashes + 1 /\ hand' = Idle
    /\ download' = [g \in Grants |-> IF hand.op = "remove" /\ hand.grant = g
                                        /\ download[g] = "consume"
                                     THEN "denied" ELSE download[g]]
    /\ recon' = IF hand.op = "reremove" THEN NoPass ELSE recon
    /\ UNCHANGED <<db, cert, net, root, file, key, p12, expired, over, made>>

\* The Controller dies: its downloads and its reconciliation pass are gone.
CrashController ==
    /\ crashes < MaxCrashes /\ crashes' = crashes + 1
    /\ download' = [g \in Grants |-> IF download[g] \in {"none", "delivered"} THEN download[g]
                                     ELSE "denied"]
    /\ recon' = NoPass
    /\ UNCHANGED <<db, cert, node, net, p12, expired, over, made>>

Downloads == \E g \in Grants :
    \/ OpenArtifact(g) \/ artifact_read(g) \/ StartConsumption(g) \/ GiveUp(g)
    \/ finalizeArtifactConsumption(g) \/ GrantExpires(g)

ArtifactsNext ==
    \/ certificate_csr \/ CreateP12 \/ BeginP12 \/ PublishP12 \/ register_artifact
    \/ ArtifactOutcome \/ Downloads
    \/ \E request \in net : consume_artifact(request) \/ verify_artifact_fence(request)
    \/ RemoveBytes \/ ConfirmConsumed \/ ReconcileConsume \/ ReconcileGivesUp
    \/ ReconcileFinalize \/ ResetConsumption
    \/ ArtifactExpires \/ Maintain \/ CertificateExpiring
    \/ cleanup_stale_certificate_artifacts
    \/ BeginRevocation \/ RevocationUnknown \/ revoke_certificate_artifacts
    \/ RemoveRevokedFiles \/ RemoveKey \/ CrashPrivd \/ CrashController

\* privd's lock holder runs on, requests are served or dropped, time passes, and
\* the cleanup and the reconciler come round again while the node is reachable.
ArtifactsFairness ==
    /\ WF_artifactVars(PublishP12 \/ register_artifact \/ RemoveBytes \/ RemoveRevokedFiles
               \/ RemoveKey)
    /\ SF_artifactVars(cleanup_stale_certificate_artifacts) /\ SF_artifactVars(ConfirmConsumed)
    /\ WF_artifactVars(ReconcileConsume \/ ReconcileGivesUp \/ ReconcileFinalize \/ ResetConsumption)
    /\ \A g \in Grants : WF_artifactVars(GrantExpires(g))

ArtifactsSpec == ArtifactsInit /\ [][ArtifactsNext]_artifactVars /\ ArtifactsFairness

-----------------------------------------------------------------------------
(* Properties                                                              *)

\* CompleteArtifact: the private key leaves the Controller at most once, and only
\* for the grant that the root ledger and the Controller's row both name consumed.
DeliveredOnce ==
    /\ Cardinality({g \in Grants : download[g] = "delivered"}) <= 1
    /\ \A g \in Grants : download[g] = "delivered" =>
        /\ root.state = "consumed" /\ root.grant = g
        /\ db.grant = g

\* BeginRevocation: once the certificate is being revoked no download is completed,
\* except one whose row was already consumed, although late results, resets and
\* the node's own acknowledgement still arrive.
RevocationWins ==
    [][\A g \in Grants : download[g] # "delivered" /\ download'[g] = "delivered"
        => cert.state \in {"issued", "expiring"} \/ db.state = "consumed"]_artifactVars

\* artifact_consume, certificate_revoke and the cleanup: the bytes of a consumed,
\* revoked or expired artifact are removed, even after a crash between the
\* ledger's commit and the removal.
SpoolCleared == root.state \in Terminal ~> file = 0

\* reconcileConsumingArtifacts: a consumption whose answer was lost is settled one
\* way or the other; a dropped response never strands the Controller's row.
ConsumptionSettles == db.state = "consuming" ~> db.state # "consuming"
=============================================================================
