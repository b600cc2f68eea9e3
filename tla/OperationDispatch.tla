-------------------------- MODULE OperationDispatch --------------------------
(***************************************************************************)
(* The Controller's durable command pipeline: the outbox, the leases of    *)
(* the dispatch workers, result ingestion and the recovery of unknown      *)
(* outcomes (control-plane/internal/operations, transportevents and the    *)
(* SQL of database/postgres).                                              *)
(*                                                                         *)
(* A command is one row of commands, operations and outbox_events, with    *)
(* its latest row of command_attempts and its row of node_command_leases.  *)
(* Transactions are atomic: the commit of each is one action.  Between     *)
(* them workers hold claimed dispatches in memory, envelopes travel to the *)
(* Agent and results travel back; all of these may be delayed, reordered   *)
(* or lost, and a worker may stop anywhere.                                *)
(***************************************************************************)
EXTENDS Naturals, FiniteSets

CONSTANTS
  Commands,
  Nodes,
  Node,                       \* [Commands -> Nodes]
  Kind,                       \* [Commands -> STRING]: payload_type
  Prior,                      \* [Commands -> SUBSET Commands]: lower versions
                              \* of the same resource
  CommandLimit,               \* environment-wide commandLimit
  ReapAttempts,               \* the 3 of Reap(ctx, 3)
  ReconciliationAttemptLimit, \* reconciliationAttemptLimit
  MaxClaims,                  \* bound: claims of one command
  MaxTerm,                    \* bound: owner terms of one node
  MaxJobs,                    \* bound: dispatches held in memory at once
  MaxMessages                 \* bound: envelopes and results under way at once

ASSUME DispatchAssumption ==
  /\ IsFiniteSet(Commands)
  /\ Node \in [Commands -> Nodes]
  /\ Prior \in [Commands -> SUBSET Commands]
  /\ CommandLimit \in Nat \ {0}
  /\ ReapAttempts \in Nat \ {0}
  /\ ReconciliationAttemptLimit \in Nat
  /\ MaxClaims \in Nat
  /\ MaxTerm \in Nat \ {0}
  /\ MaxJobs \in Nat /\ MaxMessages \in Nat

VARIABLES
  row,        \* the durable rows of each command
  jobs,       \* dispatches claimed by a worker and not yet recorded
  wire,       \* envelopes on their way to the Agent
  inbox,      \* results on their way to the Controller
  term,       \* the current connection-owner term of each node
  connected,  \* nodes whose CONNECTED event of that term is to be ingested
  agent       \* the Agent and privd: the attested outcome of each command

dispatchVars == <<row, jobs, wire, inbox, term, connected, agent>>

(***************************************************************************)
(* Data.                                                                   *)
(***************************************************************************)

Modes == {"execute", "reconcile", "retry"}
Outcomes == {"succeeded", "failed"}
Terminal == Outcomes \cup {"expired", "superseded"}
Mutable == {"queued", "dispatched", "unknown"}
\* Attested results; a rejection or an Unknown result carries no receipt.
\* "recoverable" stands for the codes that scheduleCommandRecovery follows up,
\* "other" for those it does not.
Results == Outcomes \cup {"rejected", "effect_absent", "recoverable", "other"}

Rows ==
  [state : Terminal \cup Mutable \cup {"none"},      \* commands.state
   operation : Terminal \cup Mutable \cup {"none"},  \* operations.state
   mode : Modes,                 \* delivery mode of commands.envelope
   fence : 0..MaxTerm,           \* its owner term, 0 when it carries no proof
   payload : Modes,              \* delivery mode of outbox_events.payload
   published : BOOLEAN,          \* published_at IS NOT NULL
   locked : BOOLEAN,             \* locked_by IS NOT NULL, of the latest claim
   leased : BOOLEAN,             \* node_command_leases, of the latest claim
   timely : BOOLEAN,             \* locked_until = leased_until > now
   attempts : 0..MaxClaims,
   attempt : {"none", "sending", "sent", "failed", "unknown"},   \* the latest
   passed : BOOLEAN,             \* the signed execution deadline has passed
   window : BOOLEAN]             \* expires_at was extended and is still ahead

Jobs == [cmd : Commands, n : 1..MaxClaims, mode : Modes,
         stage : {"claimed", "sent", "error"}, fence : 0..MaxTerm]
Agents == Outcomes \cup {"none"}

NoRow ==
  [state |-> "none", operation |-> "none", mode |-> "execute", fence |-> 0,
   payload |-> "execute", published |-> FALSE, locked |-> FALSE,
   leased |-> FALSE, timely |-> FALSE, attempts |-> 0, attempt |-> "none",
   passed |-> FALSE, window |-> FALSE]

DispatchTypeOK ==
  /\ row \in [Commands -> Rows]
  /\ jobs \subseteq Jobs
  /\ wire \subseteq [cmd : Commands, mode : Modes]
  /\ inbox \subseteq [cmd : Commands, result : Results]
  /\ term \in [Nodes -> 1..MaxTerm]
  /\ connected \subseteq Nodes
  /\ agent \in [Commands -> Agents]

DispatchInit ==
  /\ row = [c \in Commands |-> NoRow]
  /\ jobs = {} /\ wire = {} /\ inbox = {}
  /\ term = [n \in Nodes |-> 1]
  /\ connected = {}
  /\ agent = [c \in Commands |-> "none"]

Unexpired(r) == ~r.passed \/ r.window
OnNode(n) == {c \in Commands : Node[c] = n}

fixedHostEffect(c) ==
  Kind[c] \in {"session_disconnect", "session_terminate", "ip_ban_remove",
               "service_reload"}

(***************************************************************************)
(* Create, with SupersedePending.                                          *)
(***************************************************************************)

Superseded(r) ==
  IF r.state = "queued" /\ ~r.locked /\ ~r.leased
  THEN [r EXCEPT !.state = "superseded", !.operation = "superseded",
                 !.published = TRUE]
  ELSE r

\* An operation, its command and its outbox event are committed together; the
\* caller may ask to replace queued intent of the same kind on the node.
Create(c, supersede) ==
  /\ row[c].state = "none"
  /\ \A d \in Prior[c] : row[d].state # "none"
  /\ row' = [d \in Commands |->
       IF d = c
       THEN [NoRow EXCEPT !.state = "queued", !.operation = "queued"]
       ELSE IF supersede /\ Node[d] = Node[c] /\ Kind[d] = Kind[c]
            THEN Superseded(row[d]) ELSE row[d]]
  /\ UNCHANGED <<jobs, wire, inbox, term, connected, agent>>

(***************************************************************************)
(* Claim.                                                                  *)
(***************************************************************************)

\* commandlimit.Active: executing commands and every lease.
Active ==
  {c \in Commands :
     \/ row[c].operation = "dispatched"
     \/ row[c].operation = "unknown" /\ row[c].state = "dispatched"
     \/ row[c].leased}

NodeLeased(n) == \E c \in OnNode(n) : row[c].leased

\* No lower version of the same resource is still in progress.
PriorsDone(c) == \A d \in Prior[c] : row[d].state \notin Mutable

\* DispatchCandidates, before the ranking of a node's candidates.
Candidate(c) ==
  LET r == row[c] IN
  /\ ~r.published
  /\ ~r.locked \/ ~r.timely
  /\ r.state \in {"queued", "unknown"}
  /\ Unexpired(r)
  /\ ~NodeLeased(Node[c])
  /\ PriorsDone(c)

\* A node's unknown outcomes are resolved before its new work.
Claim(c) ==
  /\ Candidate(c)
  /\ row[c].state = "queued" =>
       \A d \in OnNode(Node[c]) : Candidate(d) => row[d].state = "queued"
  /\ Cardinality(Active) < CommandLimit
  /\ row[c].attempts < MaxClaims /\ Cardinality(jobs) < MaxJobs
  /\ row' = [row EXCEPT ![c].leased = TRUE, ![c].locked = TRUE,
                        ![c].timely = TRUE, ![c].attempts = @ + 1,
                        ![c].attempt = "sending"]
  /\ jobs' = jobs \cup {[cmd |-> c, n |-> row[c].attempts + 1,
                         mode |-> row[c].payload, stage |-> "claimed",
                         fence |-> 0]}
  /\ UNCHANGED <<wire, inbox, term, connected, agent>>

(***************************************************************************)
(* dispatchFenced: send, then record.                                      *)
(***************************************************************************)

Moved(j, stage, fence) ==
  (jobs \ {j}) \cup {[j EXCEPT !.stage = stage, !.fence = fence]}

UnderWay == Cardinality(wire) + Cardinality(inbox)

\* The frame, bound to the current owner term, is accepted by transportd.
SendCommand(j) ==
  /\ j.stage = "claimed" /\ UnderWay < MaxMessages
  /\ wire' = wire \cup {[cmd |-> j.cmd, mode |-> j.mode]}
  /\ jobs' = Moved(j, "sent", term[Node[j.cmd]])
  /\ UNCHANGED <<row, inbox, term, connected, agent>>

\* The send fails: this instance is not the owner, the transport is down, or
\* the call fails after the frame has been written.
SendFails(j, written) ==
  /\ j.stage = "claimed"
  /\ written => UnderWay < MaxMessages
  /\ wire' = IF written THEN wire \cup {[cmd |-> j.cmd, mode |-> j.mode]} ELSE wire
  /\ jobs' = Moved(j, "error", 0)
  /\ UNCHANGED <<row, inbox, term, connected, agent>>

\* DispatchStatus: the lease, the attempt and the outbox lock are still j's.
\* A result that arrives in flight closes the attempt, so an attempt that is
\* still open has no result.
HoldsClaim(j) ==
  LET r == row[j.cmd] IN
  /\ r.leased /\ r.attempts = j.n /\ r.timely
  /\ r.attempt = "sending" /\ r.locked

\* finishDispatch after a send, under the owner term the frame carries.
MarkSent(j) ==
  LET r == row[j.cmd]
      closed == [r EXCEPT !.published = TRUE, !.locked = FALSE, !.leased = FALSE,
                          !.attempt = "sent", !.mode = j.mode, !.fence = j.fence]
  IN
  /\ j.stage = "sent"
  /\ j.fence = term[Node[j.cmd]]
  /\ HoldsClaim(j)
  /\ r.state \in {"queued", "unknown"}
  /\ row' = [row EXCEPT ![j.cmd] =
       IF r.state = "unknown" /\ j.mode = "reconcile" THEN closed
       ELSE [closed EXCEPT !.state = "dispatched",
               !.operation = IF @ = "queued" THEN "dispatched" ELSE @]]
  /\ jobs' = jobs \ {j}
  /\ UNCHANGED <<wire, inbox, term, connected, agent>>

\* FailDispatch: the claim is released and the same envelope is sent again.
MarkFailed(j) ==
  /\ j.stage = "error"
  /\ HoldsClaim(j)
  /\ row' = [row EXCEPT ![j.cmd].locked = FALSE, ![j.cmd].leased = FALSE,
                        ![j.cmd].attempt = "failed"]
  /\ jobs' = jobs \ {j}
  /\ UNCHANGED <<wire, inbox, term, connected, agent>>

\* The worker stops, or recording the outcome fails: the claim is left behind.
JobLost(j) ==
  /\ jobs' = jobs \ {j}
  /\ UNCHANGED <<row, wire, inbox, term, connected, agent>>

(***************************************************************************)
(* Recovery envelopes.                                                     *)
(***************************************************************************)

\* Mutant: the recovery envelope reaches the outbox but not the command.
PrepareRecoveryPayload(r, mode) ==
  [r EXCEPT !.payload = mode, !.fence = 0, !.window = (mode = "reconcile"),
            !.published = FALSE, !.locked = FALSE]

\* PrepareRecoveryEnvelope: only the mode changes, the owner proof is dropped,
\* and observation (never execution) may outlive the signed deadline.
PrepareRecoveryEnvelope(r, mode) ==
  [r EXCEPT !.mode = mode, !.payload = mode, !.fence = 0,
            !.window = (mode = "reconcile"),
            !.published = FALSE, !.locked = FALSE]

Unknown(r) == [r EXCEPT !.state = "unknown", !.operation = "unknown"]

(***************************************************************************)
(* Reap: one transaction once per second.                                  *)
(***************************************************************************)

\* ExpiredSendingCommands
ExpiredSending(r) ==
  /\ r.leased /\ ~r.timely /\ r.attempt = "sending"
  /\ r.state \in {"queued", "unknown"} /\ r.operation \in {"queued", "unknown"}
  /\ ~r.published /\ r.locked

reconcileExpiredSending(r) ==
  LET lapsed == [Unknown(r) EXCEPT !.attempt = "unknown"] IN
  IF ~(r.state = "queued" \/ r.attempts < ReapAttempts)
       \/ (r.mode = "reconcile" /\ ~Unexpired(r))
  THEN [lapsed EXCEPT !.published = TRUE, !.locked = FALSE]
  ELSE IF r.mode = "reconcile"                     \* the deadline is kept
       THEN [PrepareRecoveryEnvelope(lapsed, "reconcile") EXCEPT !.window = r.window]
       ELSE PrepareRecoveryEnvelope(lapsed, "reconcile")

\* Mutant: the retry of an operation that is unknown is never found stale.
StaleFirstSent(r) ==
  /\ r.state = "dispatched" /\ r.operation = "dispatched"
  /\ r.published /\ ~r.locked /\ ~r.leased /\ r.attempt = "sent"

\* StaleSentCommands: sent, and no result for commandResultResponseTimeout.
StaleSent(r) ==
  /\ r.state = "dispatched" /\ r.operation \in {"dispatched", "unknown"}
  /\ r.published /\ ~r.locked /\ ~r.leased /\ r.attempt = "sent"

reconcileMissingResults(r) ==
  IF r.attempts < ReconciliationAttemptLimit
  THEN PrepareRecoveryEnvelope(Unknown(r), "reconcile")
  ELSE [Unknown(r) EXCEPT !.window = FALSE]

\* StaleReconciliations: an observation that was sent and never answered.
StaleReconciliation(r) ==
  /\ r.state = "unknown" /\ r.operation = "unknown"
  /\ r.published /\ ~r.locked /\ ~r.leased /\ r.attempt = "sent"
  /\ r.attempts < ReconciliationAttemptLimit /\ Unexpired(r)
  /\ r.mode = "reconcile"

continueReconciliations(r) ==
  [PrepareRecoveryEnvelope(r, "reconcile") EXCEPT !.window = r.window]

DeleteExpiredLeases(r) ==
  IF r.leased /\ ~r.timely /\ r.attempt # "sending"
  THEN [r EXCEPT !.leased = FALSE] ELSE r

Recovered(r) ==
  CASE ExpiredSending(r) -> reconcileExpiredSending(r)
    [] StaleSent(r) -> reconcileMissingResults(r)
    [] StaleReconciliation(r) -> continueReconciliations(r)
    [] OTHER -> r

\* due: the rows that are not locked by another transaction and, for the ones
\* that wait for a result, whose response timeout has passed.
Reap(due) ==
  /\ row' = [c \in Commands |->
       DeleteExpiredLeases(IF c \in due THEN Recovered(row[c]) ELSE row[c])]
  /\ UNCHANGED <<jobs, wire, inbox, term, connected, agent>>

\* A queued command that nobody has leased expires with its deadline.
ExpireQueued(c) ==
  /\ row[c].state = "queued" /\ ~Unexpired(row[c]) /\ ~row[c].leased
  /\ row' = [row EXCEPT ![c].state = "expired", ![c].operation = "expired",
                        ![c].published = TRUE, ![c].locked = FALSE]
  /\ UNCHANGED <<jobs, wire, inbox, term, connected, agent>>

(***************************************************************************)
(* Reconnection under a new owner term.                                    *)
(***************************************************************************)

\* Another connection takes the node: a new term, announced by CONNECTED.
TakeOver(n) ==
  /\ term[n] < MaxTerm
  /\ term' = [term EXCEPT ![n] = @ + 1]
  /\ connected' = connected \cup {n}
  /\ UNCHANGED <<row, jobs, wire, inbox, agent>>

\* LockAmbiguousDispatch and dispatchedOnAuthority
Ambiguous(r, n) ==
  /\ r.state \in {"dispatched", "unknown"} /\ r.operation \in {"dispatched", "unknown"}
  /\ r.published /\ ~r.locked /\ ~r.leased
  /\ r.fence # term[n]

RecoverAmbiguousDispatched(n) ==
  /\ n \in connected
  /\ row' = [c \in Commands |->
       IF Node[c] = n /\ Ambiguous(row[c], n)
       THEN PrepareRecoveryEnvelope(Unknown(row[c]), "reconcile") ELSE row[c]]
  /\ connected' = connected \ {n}
  /\ UNCHANGED <<jobs, wire, inbox, term, agent>>

(***************************************************************************)
(* IngestCommandResult.                                                    *)
(***************************************************************************)

\* LoadCommand: the result answers the attempt that is being sent right now.
DispatchInFlight(r) == r.leased /\ r.timely /\ r.locked /\ r.attempt = "sending"

\* A result that changes nothing: the command is terminal (a replay, or a
\* contradiction that is quarantined), the queued command has no attempt in
\* flight, or absence is reported to something other than an observation.
Ineffective(c, result) ==
  LET r == row[c] IN
  \/ r.state \notin Mutable
  \/ r.state = "queued" /\ ~DispatchInFlight(r)
  \/ result = "effect_absent" /\ r.mode # "reconcile"

\* A rejection has no receipt: it is followed up like an interrupted outcome.
scheduleCommandRecovery(c, result, r) ==
  CASE result \in {"recoverable", "rejected"} -> PrepareRecoveryEnvelope(r, "reconcile")
    [] result = "effect_absent" /\ ~fixedHostEffect(c) /\ ~r.passed ->
         PrepareRecoveryEnvelope(r, "retry")
    [] OTHER -> r

\* Mutant: a rejection without a receipt settles the command as failed.
AppliedUnattested(c, result) ==
  LET r == row[c]
      settled == IF result = "rejected" THEN "failed" ELSE result
      closed == IF DispatchInFlight(r)
                THEN [r EXCEPT !.leased = FALSE, !.attempt = "sent"] ELSE r
  IN
  IF settled \in Outcomes
  THEN [closed EXCEPT !.state = settled, !.operation = settled,
                      !.published = TRUE, !.locked = FALSE]
  ELSE scheduleCommandRecovery(c, result, Unknown(closed))

\* Only a receipt of privd makes an outcome: everything else is Unknown.
Applied(c, result) ==
  LET r == row[c]
      closed == IF DispatchInFlight(r)
                THEN [r EXCEPT !.leased = FALSE, !.attempt = "sent"] ELSE r
  IN
  IF result \in Outcomes
  THEN [closed EXCEPT !.state = result, !.operation = result,
                      !.published = TRUE, !.locked = FALSE]
  ELSE scheduleCommandRecovery(c, result, Unknown(closed))

IngestCommandResult(m) ==
  /\ row' = IF Ineffective(m.cmd, m.result) THEN row
            ELSE [row EXCEPT ![m.cmd] = Applied(m.cmd, m.result)]
  /\ inbox' = inbox \ {m}
  /\ UNCHANGED <<jobs, wire, term, connected, agent>>

(***************************************************************************)
(* The Agent and privd, seen from the Controller: the outcome of a command *)
(* is attested at most once, by an execution or a retry; absence is only   *)
(* reported to an observation, and for an effect that leaves evidence on   *)
(* the host only when it did not succeed.                                  *)
(***************************************************************************)

MayDecide(e) == agent[e.cmd] = "none" /\ e.mode \in {"execute", "retry"}

AgentHandles(e, outcome, result) ==
  /\ outcome \in Outcomes => MayDecide(e)
  /\ LET after == IF outcome \in Outcomes THEN outcome ELSE agent[e.cmd] IN
     /\ result \in Outcomes => result = after
     /\ result = "effect_absent" =>
          e.mode = "reconcile" /\ (after # "succeeded" \/ fixedHostEffect(e.cmd))
     /\ agent' = [agent EXCEPT ![e.cmd] = after]
  /\ wire' = wire \ {e}
  /\ inbox' = inbox \cup {[cmd |-> e.cmd, result |-> result]}
  /\ UNCHANGED <<row, jobs, term, connected>>

\* A session ends with the frames that were on it.
FrameLost ==
  /\ \/ \E e \in wire : wire' = wire \ {e} /\ UNCHANGED inbox
     \/ \E m \in inbox : inbox' = inbox \ {m} /\ UNCHANGED wire
  /\ UNCHANGED <<row, jobs, term, connected, agent>>

(***************************************************************************)
(* The clock.                                                              *)
(***************************************************************************)

LeaseExpires(c) ==
  /\ row[c].timely
  /\ row' = [row EXCEPT ![c].timely = FALSE]
  /\ UNCHANGED <<jobs, wire, inbox, term, connected, agent>>

DeadlinePasses(c) ==
  /\ row[c].state \in Mutable /\ ~row[c].passed
  /\ row' = [row EXCEPT ![c].passed = TRUE]
  /\ UNCHANGED <<jobs, wire, inbox, term, connected, agent>>

WindowCloses(c) ==
  /\ row[c].passed /\ row[c].window
  /\ row' = [row EXCEPT ![c].window = FALSE]
  /\ UNCHANGED <<jobs, wire, inbox, term, connected, agent>>

DispatchNext ==
  \/ \E c \in Commands, supersede \in BOOLEAN : Create(c, supersede)
  \/ \E c \in Commands : Claim(c) \/ ExpireQueued(c)
  \/ \E j \in jobs : SendCommand(j) \/ MarkSent(j) \/ MarkFailed(j) \/ JobLost(j)
  \/ \E j \in jobs, written \in BOOLEAN : SendFails(j, written)
  \/ \E due \in SUBSET Commands : Reap(due)
  \/ \E n \in Nodes : TakeOver(n) \/ RecoverAmbiguousDispatched(n)
  \/ \E m \in inbox : IngestCommandResult(m)
  \/ \E e \in wire, outcome \in Outcomes \cup {"none"}, result \in Results :
       AgentHandles(e, outcome, result)
  \/ FrameLost
  \/ \E c \in Commands : LeaseExpires(c) \/ DeadlinePasses(c) \/ WindowCloses(c)

\* The maintenance ticker of Worker.Run calls Reap once per second for ever.
DispatchSpec ==
  /\ DispatchInit /\ [][DispatchNext]_dispatchVars
  /\ WF_dispatchVars(Reap(Commands))

(***************************************************************************)
(* Properties.                                                             *)
(***************************************************************************)

\* An outcome shown to the operator is the outcome privd attested: no lost,
\* late, repeated or unattested answer and no timeout ever makes one up
\* (IngestCommandResult, Reap).
OutcomeIsAttested ==
  \A c \in Commands : row[c].state \in Outcomes => agent[c] = row[c].state

\* The delivery mode the Controller has on record for a command in progress is
\* the mode of the envelope its outbox sends: an effect_absent result is judged
\* by the former and was caused by the latter (scheduleCommandRecovery).
EnvelopeMatchesOutbox ==
  \A c \in Commands : row[c].state \in Mutable => row[c].mode = row[c].payload

\* However many workers claim and however often an unknown outcome is tried
\* again, no more than CommandLimit commands are sent and unanswered, or leased
\* to be sent (commandlimit.Available).
ActiveWithinLimit ==
  Cardinality({c \in Commands : row[c].state = "dispatched" \/ row[c].leased})
    <= CommandLimit

\* A node is never given two commands at once, and a resource never a version
\* whose predecessor may still take effect (DispatchCandidates).
DispatchedInOrder ==
  \A c, d \in Commands :
    /\ row[c].leased /\ row[d].leased /\ Node[c] = Node[d] => c = d
    /\ d \in Prior[c] /\ (row[c].leased \/ row[c].state = "dispatched")
         => row[d].state \in Terminal

\* An effect that leaves no evidence on the host is never sent for execution
\* a second time on the word of an unsigned absence report
\* (scheduleCommandRecovery, fixedHostEffect).
FixedNeverRetried ==
  /\ \A c \in Commands : fixedHostEffect(c) => row[c].payload # "retry"
  /\ \A e \in wire : e.mode = "retry" => ~fixedHostEffect(e.cmd)

\* The terminal state of a command and of its operation never changes again,
\* whatever arrives late (UpdateCommand, Reap, finishDispatch, ExpireQueued).
TerminalIsFinal ==
  [][\A c \in Commands : row[c].state \in Terminal =>
       row'[c].state = row[c].state /\ row'[c].operation = row[c].operation]_dispatchVars

\* A dispatched command whose result never comes does not stay dispatched: its
\* slot is given back and its outcome becomes unknown (reconcileMissingResults).
DispatchedIsResolved ==
  \A c \in Commands : (row[c].state = "dispatched") ~> (row[c].state # "dispatched")
=============================================================================
