-------------------------- MODULE CommandAdmission --------------------------
(***************************************************************************)
(* Who may command one node: the Controller processes that own its         *)
(* connection in turn, the fences and bindings they sign, the Agent        *)
(* processes that negotiate a session and admit commands, and privd, which *)
(* verifies every command again before it acts as root.                    *)
(*                                                                         *)
(* What the Controller signs travels through processes that cannot sign:   *)
(* it can be late, repeated, and put together again with other signed      *)
(* parts.  Controllers and Agents crash, Agent processes overlap.          *)
(*                                                                         *)
(* Abstractions: a signed message is known by its claims, its signature    *)
(* and its key by having been issued; all clocks are one, so that fences,  *)
(* signed with ever later lease deadlines, expire in the order in which    *)
(* they were signed; a binding does not expire, as its lifetime can only   *)
(* narrow what is admitted; capabilities are the fencing one or none.      *)
(***************************************************************************)
EXTENDS Naturals, FiniteSets, Sequences

CONSTANTS
    Owners,        \* incarnations of Controller processes
    NoOwner,
    Agents,        \* Agent processes on the node that share its journal
    ReadOnly,      \* those that may start without sealing keys, and are then read-only
    Cmds,
    Kind,          \* Kind[c]: "synthetic", "config_plan" or "mutation"
    MaxFences,     \* bound: fences signed
    MaxRevision,   \* bound: authorization revisions
    MaxFaults      \* bound: crashes, broken connections, failed openings, revisions

ASSUME AdmissionConstants ==
    /\ IsFiniteSet(Owners) /\ NoOwner \notin Owners
    /\ ReadOnly \subseteq Agents
    /\ Kind \in [Cmds -> {"synthetic", "config_plan", "mutation"}]
    /\ MaxFences \in Nat /\ MaxRevision \in Nat \ {0} /\ MaxFaults \in Nat

VARIABLES
    row,        \* connection_owner_fencing: the owner, its epoch, released or not
    session,    \* session[o]: the epoch owner o holds in memory, 0 for none
    fences,     \* the fences signed, oldest first
    gone,       \* how many of them have an expired lease
    revision,   \* the node's authorization revision
    proofs,     \* the command authorizations signed and not expired
    bindings,   \* the operation bindings signed
    conn,       \* conn[a]: the Agent process's connection to the Controller
    floor,      \* floor[a]: the epoch floor in the process's memory
    durable,    \* the epoch floor in the journal
    decision,   \* history: the command just let through by the Agent or by privd
    crashed,    \* owners that crashed
    given,      \* history: the last replaced term given up while its lease lived
    faults

controller == <<row, session, fences, revision, proofs, bindings, crashed, given>>
agent      == <<conn, floor, durable>>
vars       == <<row, session, fences, gone, revision, proofs, bindings, conn, floor,
                durable, crashed, given, decision, faults>>

Epochs   == 0..MaxFences

\* A payload's content, and whether it has a field this build does not know.
Payloads   == [of : Cmds, state : {0, 1}, extra : BOOLEAN]
Payload(c) == [of |-> c, state |-> 1, extra |-> FALSE]
NoDecision == [by |-> "none"]
\* A session is being negotiated, or active with a fence or as read-only.
SessionStates == {"down", "reply", "checked", "fenced", "read_only"}
Down     == [st |-> "down", fence |-> 0, rev |-> 0]

\* The claims the signatures cover.  A fence's owner follows from its epoch.
FenceClaims   == [epoch : Epochs, owner : Owners, rev : 1..MaxRevision]
CommandClaims == [cmd : Cmds, rev : 1..MaxRevision, version : {1, 2}, hash : Payloads]
BindingClaims == [cmd : Cmds, epoch : Epochs, rev : 1..MaxRevision]

AdmissionTypeOK ==
    /\ row \in [owner : Owners \cup {NoOwner}, epoch : Epochs, released : BOOLEAN]
    /\ session \in [Owners -> Epochs]
    /\ fences \in Seq(FenceClaims) /\ Len(fences) <= MaxFences
    /\ gone \in 0..Len(fences) /\ revision \in 1..MaxRevision
    /\ proofs \subseteq CommandClaims /\ bindings \subseteq BindingClaims
    /\ conn \in [Agents -> [st : SessionStates, fence : Epochs, rev : 0..MaxRevision]]
    /\ floor \in [Agents -> Epochs] /\ durable \in Epochs
    /\ decision \in [by : {"none", "agent", "privd"}, cmd : Cmds, payload : Payloads,
                    fence : 1..MaxFences] \cup {NoDecision}
    /\ crashed \subseteq Owners
    /\ given \in Epochs /\ faults \in 0..MaxFaults

Init ==
    /\ row = [owner |-> NoOwner, epoch |-> 0, released |-> TRUE]
    /\ session = [o \in Owners |-> 0] /\ fences = <<>> /\ gone = 0
    /\ revision = 1 /\ proofs = {} /\ bindings = {}
    /\ conn = [a \in Agents |-> Down] /\ floor = [a \in Agents |-> 0] /\ durable = 0
    /\ decision = NoDecision /\ crashed = {} /\ given = 0 /\ faults = 0

Fault == faults < MaxFaults /\ faults' = faults + 1

-----------------------------------------------------------------------------
(* Signatures                                                              *)

\* A signature verifies if a key of the pinned keyring made it.
Signed(x, issued) == x \in issued

payload_authorization(p) == Kind[p.of]

\* The Agent refuses an unknown field; privd's decoder drops it.
decode_strict_command_envelope(p) == ~p.extra
decode(p) == [p EXCEPT !.extra = FALSE]

\* Version 1 of the payload hash leaves a configuration plan's state revision out.
semantic_payload_hash(p, version) ==
    IF version = 1 /\ payload_authorization(p) = "config_plan"
    THEN [decode(p) EXCEPT !.state = 0] ELSE decode(p)

\* A command's claims must fit the payload that came with them: its kind is the
\* signed kind and its hash the signed hash.
verify_command(claims, p) ==
    /\ Signed(claims, proofs)
    /\ payload_authorization(p) = Kind[claims.cmd]
    /\ semantic_payload_hash(p, claims.version) = claims.hash

lease_expired(n) == n <= gone

verify_connection_fence_v2(n) == n \in 1..Len(fences)

verify_fence_binding_v2(b) == Signed(b, bindings)

\* One term signs one fence identity, however often the lease is renewed.
matches_fence(b, n) == b.epoch = fences[n].epoch /\ b.rev = fences[n].rev

same_fence_term(n, k) == fences[n].epoch = fences[k].epoch

-----------------------------------------------------------------------------
(* The Controller's ownership of the connection                            *)

\* The last fence signed carries the row's lease.
RowLive == ~row.released /\ gone < Len(fences)

MayAcquire(o) == ~RowLive \/ row.owner = o

\* The grant that answers a handshake names the node's revision.
SessionGrant == revision

SignFence(epoch, o) == Append(fences, [epoch |-> epoch, owner |-> o, rev |-> revision])

\* The epoch is raised in place.
Acquire(o, released) ==
    /\ MayAcquire(o) /\ Len(fences) < MaxFences
    /\ row' = [owner |-> o, epoch |-> row.epoch + 1, released |-> released]
    /\ fences' = SignFence(row.epoch + 1, o)
    /\ given' = IF row.released THEN row.epoch ELSE given

\* A handshake answered with a session: the fence is signed and registered, the
\* grant signed for the same revision.
OpenSession(o, a) ==
    /\ conn[a].st = "down" /\ o \notin crashed
    /\ Acquire(o, FALSE)
    /\ session' = [session EXCEPT ![o] = row.epoch + 1]
    /\ conn' = [conn EXCEPT ![a] = [st |-> "reply", fence |-> Len(fences) + 1,
                                    rev |-> SessionGrant]]
    /\ UNCHANGED <<gone, revision, proofs, bindings, floor, durable, crashed, faults>>

\* The fence could not be registered with transportd: the new term is given up
\* and the handshake fails.
OpenSessionFails(o, a) ==
    /\ conn[a].st = "down" /\ o \notin crashed /\ Fault
    /\ Acquire(o, TRUE)
    /\ session' = [session EXCEPT ![o] = 0]
    /\ UNCHANGED <<gone, revision, proofs, bindings, agent, crashed>>

\* Another owner's lease lives: the own session, if any, has ended; the handshake
\* is refused, never answered read-only, and the Agent must dial again.
OwnerLeaseHeld(o, a) ==
    /\ conn[a].st = "down" /\ o \notin crashed /\ ~MayAcquire(o)
    /\ session' = [session EXCEPT ![o] = 0]
    /\ UNCHANGED <<row, fences, gone, revision, proofs, bindings, crashed, given, agent, faults>>

\* A process without sealing keys gets a grant and no fence.
AnswerReadOnly(o, a) ==
    /\ a \in ReadOnly /\ conn[a].st = "down" /\ o \notin crashed
    /\ conn' = [conn EXCEPT ![a] = [st |-> "read_only", fence |-> 0, rev |-> SessionGrant]]
    /\ UNCHANGED <<controller, gone, floor, durable, faults>>

\* refresh: the lease is renewed while the row still names this live term, and
\* the fence is signed again with the later deadline.
Renew(o) ==
    /\ o \notin crashed /\ session[o] # 0 /\ Len(fences) < MaxFences
    /\ row.epoch = session[o] /\ RowLive
    /\ fences' = Append(fences, fences[Len(fences)])
    /\ UNCHANGED <<row, session, gone, revision, proofs, bindings, crashed, given, agent,
                   faults>>

Connected(e) == \E a \in Agents : conn[a].fence # 0 /\ fences[conn[a].fence].epoch = e

\* The session ends: its connection is gone, or the row has moved on.  A term the
\* row still names is released.
endSession(o) ==
    /\ o \notin crashed /\ session[o] # 0
    /\ \/ row.epoch # session[o] \/ ~RowLive
       \/ ~Connected(session[o])
    /\ session' = [session EXCEPT ![o] = 0]
    /\ \/ /\ row.epoch = session[o] /\ RowLive
          /\ row' = [row EXCEPT !.released = TRUE]
       \/ /\ ~(row.epoch = session[o] /\ RowLive)
          /\ UNCHANGED row
    /\ UNCHANGED <<fences, gone, revision, proofs, bindings, crashed, given, agent,
                   faults>>

LeaseExpires ==
    /\ gone < Len(fences)
    /\ gone' = gone + 1
    /\ UNCHANGED <<controller, agent, faults>>

\* Another incarnation takes the place of a crashed process; one always remains.
CrashOwner(o) ==
    /\ Fault /\ o \notin crashed /\ crashed \cup {o} # Owners
    /\ crashed' = crashed \cup {o} /\ session' = [session EXCEPT ![o] = 0]
    /\ UNCHANGED <<row, fences, gone, revision, proofs, bindings, given, agent>>

-----------------------------------------------------------------------------
(* Commands                                                                *)

\* An approval or trust change of the node moves its authorization revision.
ReviseNode ==
    /\ revision < MaxRevision /\ Fault
    /\ revision' = revision + 1
    /\ UNCHANGED <<row, session, fences, gone, proofs, bindings, crashed, given, agent>>

\* A delivery of a command is authorized at the node's revision then, and again
\* when it is retried.  (Asking after its outcome is authorized on its own, needs
\* no fence and decides nothing here.)
SignCommand(c) ==
    /\ \A p \in proofs : p.cmd # c
    /\ proofs' = proofs \cup {[cmd |-> c, rev |-> revision, version |-> 2,
                               hash |-> semantic_payload_hash(Payload(c), 2)]}
    /\ UNCHANGED <<row, session, fences, gone, revision, bindings, crashed, given, agent, faults>>

CommandExpires(c) ==
    /\ \E p \in proofs : p.cmd = c
    /\ proofs' = {p \in proofs : p.cmd # c}
    /\ UNCHANGED <<row, session, fences, gone, revision, bindings, crashed, given, agent, faults>>

BindingFor(c, n) == [cmd |-> c, epoch |-> fences[n].epoch, rev |-> fences[n].rev]

\* The owner's own session signs while the deadline it knows is ahead; another
\* process signs for the registered fence while it holds the row of a live term.
BindOperation(c) ==
    /\ \E p \in proofs : p.cmd = c
    /\ \E n \in 1..Len(fences) :
          /\ \/ \E o \in Owners : session[o] = fences[n].epoch /\ ~lease_expired(n)
             \/ fences[n].epoch = row.epoch /\ RowLive
          /\ bindings' = bindings \cup {BindingFor(c, n)}
    /\ bindings' # bindings
    /\ UNCHANGED <<row, session, fences, gone, revision, proofs, crashed, given, agent,
                   faults>>

-----------------------------------------------------------------------------
(* Agent sessions                                                          *)

refresh_fence_epoch_floor(a) == IF durable > floor[a] THEN durable ELSE floor[a]

\* negotiate_session_mode: a fence of the granted revision whose lease lives, with
\* an epoch above everything the node has activated before.
CheckFence(a) ==
    LET n == conn[a].fence
    IN  /\ verify_connection_fence_v2(n) /\ fences[n].rev = conn[a].rev
        /\ ~lease_expired(n)
        /\ fences[n].epoch > refresh_fence_epoch_floor(a)

Negotiate(a) ==
    /\ conn[a].st = "reply"
    /\ floor' = [floor EXCEPT ![a] = refresh_fence_epoch_floor(a)]
    /\ conn' = [conn EXCEPT ![a] = IF CheckFence(a) THEN [@ EXCEPT !.st = "checked"] ELSE Down]
    /\ UNCHANGED <<controller, gone, durable, faults>>

\* The floor is raised in one statement that returns what the journal holds.
raise_owner_fence_epoch_floor(e) == IF e > durable THEN e ELSE durable

\* The session is active if the journal's floor is now its own epoch.
RaisedByMe(a) == raise_owner_fence_epoch_floor(fences[conn[a].fence].epoch)
                   = fences[conn[a].fence].epoch

activate_session_connection_fence(a) ==
    /\ conn[a].st = "checked"
    /\ durable' = raise_owner_fence_epoch_floor(fences[conn[a].fence].epoch)
    /\ floor' = [floor EXCEPT ![a] = durable']
    /\ conn' = [conn EXCEPT ![a] = IF RaisedByMe(a) THEN [@ EXCEPT !.st = "fenced"] ELSE Down]
    /\ UNCHANGED <<controller, gone, faults>>

\* transportd closes a session whose lease has run out.
LeaseEnforced(a) ==
    /\ conn[a].st = "fenced"
    /\ \A n \in 1..Len(fences) : same_fence_term(n, conn[a].fence) => lease_expired(n)
    /\ conn' = [conn EXCEPT ![a] = Down]
    /\ UNCHANGED <<controller, gone, floor, durable, faults>>

\* The connection breaks, the reply is lost, the grant runs out, or a handler's
\* error ends the session; the Agent dials again.
Disconnect(a) ==
    /\ conn[a].st # "down" /\ Fault
    /\ conn' = [conn EXCEPT ![a] = Down]
    /\ UNCHANGED <<controller, gone, floor, durable>>

\* A restarted process reads its floor from the journal.
CrashAgent(a) ==
    /\ Fault
    /\ conn' = [conn EXCEPT ![a] = Down] /\ floor' = [floor EXCEPT ![a] = durable]
    /\ UNCHANGED <<controller, gone, durable>>

FencedOperation_MemoryFloor(a, claims, n, b) ==
    /\ verify_connection_fence_v2(n) /\ ~lease_expired(n)
    /\ fences[conn[a].fence].epoch = floor[a] /\ fences[n].epoch = floor[a]
    /\ same_fence_term(n, conn[a].fence) /\ fences[n].rev = conn[a].rev
    /\ verify_fence_binding_v2(b) /\ b.cmd = claims.cmd /\ matches_fence(b, n)

\* verify_fenced_operation: the carriers belong to the term this session is
\* active in, which is the newest the node knows, and bind this very command.
FencedOperation(a, claims, n, b) ==
    /\ verify_connection_fence_v2(n) /\ ~lease_expired(n)
    /\ LET active == conn[a].fence
           known  == refresh_fence_epoch_floor(a)
       IN  /\ fences[active].epoch = known /\ fences[n].epoch = known
           /\ same_fence_term(n, active) /\ fences[n].rev = conn[a].rev
    /\ verify_fence_binding_v2(b) /\ b.cmd = claims.cmd /\ matches_fence(b, n)

\* validate_command, at the session's revision and within its grant.
validate_command(a, claims, p) ==
    /\ verify_command(claims, p)
    /\ claims.rev = conn[a].rev

Decide(by, c, p, n) == decision' = [by |-> by, cmd |-> c, payload |-> p, fence |-> n]

\* A command stream handled to its admission to the journal.
HandleCommand(a, c) ==
    /\ conn[a].st = "fenced"
    /\ \E claims \in proofs, p \in Payloads :
          /\ claims.cmd = c /\ decode_strict_command_envelope(p) /\ validate_command(a, claims, p)
          /\ \E n \in 1..Len(fences) :
                /\ \E b \in bindings : FencedOperation(a, claims, n, b)
                /\ Decide("agent", c, p, n)
    /\ floor' = [floor EXCEPT ![a] = refresh_fence_epoch_floor(a)]
    /\ UNCHANGED <<controller, gone, conn, durable, faults>>

\* A read-only session answers a command of an older term as stale, and any other
\* command ends it.
ReadOnlyCommand(a) ==
    /\ conn[a].st = "read_only" /\ bindings # {}
    /\ floor' = [floor EXCEPT ![a] = refresh_fence_epoch_floor(a)]
    /\ \E n \in 1..Len(fences) :
          conn' = [conn EXCEPT ![a] =
                     IF ~lease_expired(n) /\ fences[n].epoch < floor'[a] THEN @ ELSE Down]
    /\ UNCHANGED <<controller, gone, durable, faults>>

-----------------------------------------------------------------------------
(* privd                                                                   *)

verify_fence_carriers(n, b) ==
    /\ verify_connection_fence_v2(n) /\ ~lease_expired(n)
    /\ verify_fence_binding_v2(b)

verify_execution_fence_NoLease(claims, n, b) ==
    /\ verify_connection_fence_v2(n) /\ verify_fence_binding_v2(b)
    /\ b.cmd = claims.cmd /\ claims.rev = fences[n].rev /\ matches_fence(b, n)

verify_execution_fence_AnyTerm(claims, n, b) ==
    /\ verify_fence_carriers(n, b)
    /\ b.cmd = claims.cmd /\ claims.rev = fences[n].rev

\* privd's own check of both carriers against the command.
verify_execution_fence(claims, n, b) ==
    /\ verify_fence_carriers(n, b)
    /\ b.cmd = claims.cmd /\ claims.rev = fences[n].rev /\ matches_fence(b, n)

\* Only what the Agent cannot do by itself is privd's to do.
validate_privileged_payload(p) == payload_authorization(p) # "synthetic"

\* An execution request, from an Agent that may have crashed since or from any
\* caller with the Agent's identity: whatever it puts together is verified here.
PrivdExecute(c) ==
    /\ \E claims \in proofs, p \in Payloads :
          /\ claims.cmd = c /\ verify_command(claims, p) /\ validate_privileged_payload(p)
          /\ \E n \in 1..Len(fences) :
                /\ \E b \in bindings : verify_execution_fence(claims, n, b)
                /\ Decide("privd", c, decode(p), n)
    /\ UNCHANGED <<controller, gone, agent, faults>>

-----------------------------------------------------------------------------

ControllerStep ==
    \/ \E o \in Owners : Renew(o) \/ endSession(o) \/ CrashOwner(o)
    \/ \E o \in Owners, a \in Agents :
          \/ OpenSession(o, a) \/ OpenSessionFails(o, a) \/ OwnerLeaseHeld(o, a)
          \/ AnswerReadOnly(o, a)
    \/ LeaseExpires \/ ReviseNode
    \/ \E c \in Cmds : SignCommand(c) \/ CommandExpires(c) \/ BindOperation(c)

SessionStep ==
    \E a \in Agents :
       \/ Negotiate(a) \/ activate_session_connection_fence(a)
       \/ LeaseEnforced(a) \/ Disconnect(a) \/ CrashAgent(a) \/ ReadOnlyCommand(a)

\* Every other step forgets the last decision.
Quiet(A) == A /\ decision' = NoDecision

Next ==
    \/ Quiet(ControllerStep \/ SessionStep)
    \/ \E c \in Cmds : PrivdExecute(c) \/ \E a \in Agents : HandleCommand(a, c)

Spec == Init /\ [][Next]_vars

-----------------------------------------------------------------------------
(* Properties                                                              *)

Active(a) == conn[a].st = "fenced"
Epoch(a)  == fences[conn[a].fence].epoch

\* The Agent admits a command only under the newest term that has been active on
\* the node, whichever of its processes has activated it.
NewestTermOnly ==
    decision.by = "agent" =>
        /\ fences[decision.fence].epoch = durable
        /\ \A a \in Agents : Active(a) => Epoch(a) <= fences[decision.fence].epoch

\* What the Agent admits and root performs is what the Controller authorized:
\* this payload, for this command, bound by the Controller to the very term that
\* carried it, at the revision the command was authorized at.
ExecutedAsSigned ==
    decision.by # "none" =>
        /\ decision.payload = Payload(decision.cmd)
        /\ BindingFor(decision.cmd, decision.fence) \in bindings
        /\ \E p \in proofs : p.cmd = decision.cmd /\ p.rev = fences[decision.fence].rev

\* privd keeps no epoch floor, yet nothing is performed for an owner that another
\* owner has replaced, unless a term was given up before its lease ran out.
OwnersExclude ==
    decision.by = "privd" =>
        \/ fences[decision.fence].owner = row.owner
        \/ fences[decision.fence].epoch <= given

=============================================================================
