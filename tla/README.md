# Formal models of ocservia

ocservia manages ocserv VPN nodes from a central Controller. The hard part of it
is one promise: an operator's command changes a node's host **at most once**,
and what the Controller shows about it afterwards is **what really happened**,
although workers, Agents and the root helper crash, frames are lost, delayed and
repeated, and deadlines pass at the worst moment. These modules model the path
of a command from the operator's request to the host and back, and the parts of the
system that path rests on: ownership of connections, the transport, desired state,
configuration, key export, upgrade and transfer of a node.

## 1. Inventory

### Components on the path of a command

| Component | Source | State it keeps | Operations |
|---|---|---|---|
| Operation service | `control-plane/internal/operations/service.go` | `operations`, `commands`, `outbox_events` rows, written in one transaction | create, supersede queued intent |
| Dispatch worker | `operations/worker.go`, `dispatch.go`, `commandlimit/` | `command_attempts`, `node_command_leases`, the outbox lock; claimed jobs in memory | claim, send fenced by the owner term, record, release |
| Maintenance | `operations/reaping.go`, `recovery.go`, `database/postgres/operation_*.go` | the same rows | reap expired leases and missing results, expire queued commands, recover after a reconnection |
| Result ingestion | `transportevents/`, `privdattestation/` | command and operation state, outbox, attempt | verify the receipt, settle, schedule reconciliation or retry |
| Connection ownership | `connectionowner/`, `ownersession/` | the owner term of each node | acquire, renew, take over, release |
| transportd | `rust/crates/transportd` | sessions | deliver frames; loses them when a session ends |
| Agent executor | `rust/crates/agent`, `command-journal` | SQLite journal: command state, error code, receipt; applied revision of each user | prepare, execute, retry, reconcile, attested recovery |
| privd | `rust/crates/privd` | `authorized_effects`: one row per command with the signed response | authorise, execute, sign, replay, reconcile |
| Adapter | `rust/crates/ocserv-adapter` | `desired_effects`: one row per mutation kind and user; the password file; the child processes | prepare, publish by rename, mark applied, observe |

The Controller calls the Agent through transportd (frames, no delivery
guarantee). The Agent calls privd over a local socket, one frame at a time, and
may give a call up that privd then finishes on its own. privd serves several
clients at once and serialises user mutations with `user_file_lock`. Every
process keeps its state in a database and may stop between any two transactions.

A frame has a delivery mode. **EXECUTE** may run the effect, **RECONCILE** only
asks what happened, **RETRY** runs the effect again after an absence was
observed. Results come back with a receipt signed by privd, or without one; only
a receipt settles a command on the Controller.

### Components beside it

| Component | Source | State it keeps | Operations |
|---|---|---|---|
| Connection ownership | `control-plane/internal/connectionowner`, `ownersession` | the owner row of each node with its epoch and lease; the terms a process holds; the Agent's epoch floor | open, renew, release, take over, sign fences and bindings; admit and verify on the node |
| transportd, sessions | `rust/crates/transportd` | trust policies, registered connections, registered owner terms | accept, register, update trust, register term, send command, close, monitor leases |
| transportd, events | the same, `transportclient`, `command-journal` | retained events, subscriber queues, telemetry buckets; the Agent's telemetry buffer; the Controller's cursor | publish, admit, watch, resume, reconcile a gap, drain the buffer |
| Configuration | `ocserv-adapter`, `configplan` | the configuration file, backups, retained successes, one desired-effect row | plan, apply, roll back, observe |
| Users and groups | `userstate`, `ocserv-adapter`, `telemetrywrite` | desired rows with revisions, the password file, observed rows | mutate, apply, snapshot, ingest, report convergence |
| Artifacts | `certificates`, `ocserv-adapter` | the Controller's artifact row, the root ledger, the spool | export, lease, fetch, consume, reconcile, clean up, revoke |
| Upgrader | `rust/crates/upgrader`, `scripts/upgrade-agent.sh`, `rollback-agent.sh` | intent, state, result of each operation; commit and pending records; the snapshot; installed files | schedule, run, install, roll back, report |
| Rebind | `scripts/rebind-agent.py`, `agent-identity`, `enrollment`, `privd-attestation` | the active binding record, staged identity, the namespaces of each binding, the attestation key | prepare, enrol, approve, commit, quarantine |
| Payload rules | `operations`, `agent`, `privd`, `command-authorization`, `privd-attestation`, `privdattestation` | none: five sets of checks of one payload and its receipt | validate, hash, bind, attest, verify |

Not modelled yet or not at all: scheduler lease, approvals, audit chain, the
browser's event hub, authentication and RBAC, the signer, the HTTP API, the relay,
the MySQL backend, the web console, packaging. `PROJECT.json` gives the reason for
each; section 9 has the order in which those with protocol state should follow.

### What is hard here

* **Crashes between two durable steps**: reservation, rename, mark applied, signed
  response in privd; accepted, running, result in the Agent; claim, send, record
  in the Controller; backup, publish, reload of a configuration; ledger and spool
  of an artifact; every record of an upgrade or a transfer.
* **Calls given up and still running**: the Agent times out, privd goes on, and
  the Controller's reconciliation or retry of the same command meets it.
* **Stale evidence**: an absence observed before an execution finished; a file read
  before a child process was awaited; a session that read the epoch floor before
  another process raised it; a commit record that outlived a rollback.
* **Late, lost, repeated and recombined messages**: results, telemetry, signed
  fences and bindings, the answer to the consumption of a private key.
* **Races of registration and withdrawal**: trust, owner terms and connections
  change while a session is being set up.
* **Limits**: privd's authorisation table, the environment-wide command limit,
  retained events, the start limit of a unit.
* **Tables that must agree**: one payload is judged by five programs.

`PROJECT.json` has these as `hazards`, each at its line, with the properties that
would catch it going wrong.

## 2. Modules

| Module | Models | Uses |
|---|---|---|
| `PrivdEffects` | privd and the adapter on one node, with an arbitrary caller | – |
| `AgentExecutor` | the Agent's executor and journal | extends `PrivdEffects`: calls its `Request`, takes its replies |
| `OperationDispatch` | the Controller's outbox, leases, reaper, recovery and result ingestion, the node as an environment | – |
| `CommandFlow` | one command of every kind through the checks and tables of Controller, Agent, privd and receipt verification | – |
| `CommandAdmission` | connection owners, their fences and bindings, Agent sessions, privd's verification | – |
| `TransportSessions` | transportd's sessions, trust, owner terms and commands | – |
| `TransportEvents` | the event stream with the Agent's buffer, retention, queue and watch | – |
| `UserState` | users and groups from desired state to reported convergence | – |
| `ConfigApply` | publication and rollback of the configuration on a node | – |
| `Artifacts` | the single-use export of a private key, both sides | – |
| `AgentUpgrade` | what an upgrade promises (abstract) | – |
| `Upgrader` | the durable self-upgrade | instantiates `AgentUpgrade` with a refinement mapping |
| `Rebind` | the transfer of a node to another Controller | – |
| `AgentExecutor_proof` | theorems about privd and the node | extends `AgentExecutor`, and with it `PrivdEffects` |
| `OperationDispatch_proof`, `CommandFlow_proof`, `CommandAdmission_proof`, `Upgrader_proof` | theorems about one module | each extends the module it is named after |
| `Transport_proof` | theorems about transportd | extends `TransportSessions` and `TransportEvents` |
| `DesiredState_proof` | theorems about what a host is asked to hold | extends `ConfigApply` and `UserState` |
| `Credentials_proof` | theorems about the identity of a node and the private keys of its users | extends `Rebind` and `Artifacts` |
| `MC*` | instances for TLC | each extends the module it is named after |

`Transport_proof`, `DesiredState_proof` and `Credentials_proof` hold the proofs about
two modules each, one after the other; no theorem mixes the two.

Definitions keep the names of the functions they translate where TLA+ allows it.
An operator that follows the comment `Mutant:` is a plausible bug of the definition
after it; no specification uses it. `PROJECT.json` names, for each property, the
mutant that violates it. Every module but the abstract `AgentUpgrade` states a type
invariant. All of them are theorems, and they are checks on the model rather than on
the code, so no run spends time on them.

### PrivdEffects

`authorized` is the table `authorized_effects`, `desired` the table
`desired_effects`, `file` the password file, `slot` the requests in progress.
`expired` is the clock, seen only through the question whether a signed deadline
has passed. `performed` is a history variable: how often the effect of a command
reached the host.

A request is cut at the points where the code awaits or commits:

| Stage | Code | Next |
|---|---|---|
| `idle` | `dispatch_attested`, `validate_request`, `prepare_authorized` | `run`, `observe` or `replied` |
| `run` | `execute_signed_payload` before the child or the lock | `performed`, `locked` |
| `locked` | `user_secret_apply` holds `user_file_lock` and has read the file | `prepared` |
| `prepared` | `EffectStore::prepare` has committed | `published` |
| `published` | the rename is done, `mark_applied` is not | `finish` |
| `finish` | `build_result_proof`, `complete_authorized` | `replied` |
| `observe` | `desired_effect_observe` waits for the lock | `replied` |

`DeadlineExceeded`, `PublishFailed`, `CompleteFailed` and `PrivdCrash` cut a
request off at every one of them. The content of an entry of the password file
is abstracted to the command that wrote it; `Missing` and `Local` are an entry
that is not there and one no command has written.

Absence is only ever reported from a `prepared` row, with the lock free and the
file equal to the before-image; a command without a row is `unknown`. That is
what makes a recorded absence safe to act on.

### AgentExecutor

`journal` is `command_journal`, `revision` the applied revision of each user,
`call` the frame being handled and the call of privd it waits for, `answer` the
result sent last. The select loop of the Agent runs a handler to its end before
it takes the next frame, so there is one `call`. `CallPrivd` is a `Request` of
`PrivdEffects`; `CallFails` gives it up and leaves privd running;
`ReplyDropped` is the answer nobody waits for; `AgentStops` a crash. A SQLite
failure before the terminal write is the last disjunct of `complete_external`.

### OperationDispatch

`row` is what the database holds of a command: `commands`, `operations`,
`outbox_events`, the latest `command_attempts` row and the node's lease. `jobs`
are claimed dispatches in the memory of workers, `wire` and `inbox` the frames
under way, `term` the owner term, `connected` the CONNECTED events still to be
ingested, `agent` the outcome the node attested of each command. Each transaction is one action; `Reap` is
the whole maintenance transaction with its four parts in the order of the code,
and `due` is the set of rows that are neither skipped as locked nor still within
their response timeout. `timely`, `passed` and `window` are the comparisons of
the lease, of the signed deadline and of the extended deadline of an observation
with the clock. `locked` and `leased` are Booleans because the outbox lock and
the lease always belong to the latest claim.

The node is an environment: it attests the outcome of a command at most once, on
an execution or a retry, and reports absence only to an observation, for an
effect that leaves evidence only when it did not succeed. `AgentExecutor` is what
justifies it: `EffectAtMostOnce`, `JournalIsReal` and `JournalIsFinal` are those
facts. The environment is more liberal than the node (a retry may decide a
command that was never executed, results may carry any code), so what holds with
it should hold with the node; that the node implements it is argued here and not
checked as a refinement.

### CommandFlow

A payload is its kind (all of the envelope, partial and complete configurations apart) and at most one *flaw*: the field a
validator may look at, such as an upper-case DNS name or an expiry before now. A
validator is the set of flaws it refuses, so that the rules of `validateCreate`,
`validate_payload`, `validate_privileged_payload`, the adapter and the receipt
checks become tables that can be compared. Around them runs the protocol of one
command: create, send, the Agent's journal, privd's authorised effect, attestation,
result, recovery, with lost frames, crashes and the deadline. `fenced_resource` and
`desired_resource` are the two functions of the Agent that have to name the same
resource. Two executions of one command do not overlap here, and late results are
not here: `PrivdEffects` and `OperationDispatch` have them. A second `user_create`
is refused by the adapter, the other desired kinds find the evidence of the first.

### CommandAdmission

`row` is the owner row, `fences` what owners signed in order, `gone` how many of
their leases are over, `conn` and `floor` the Agent processes, `durable` the epoch
floor in their shared journal. Whatever was signed may be presented by anyone at
any time and put together with other signed parts; `decision` is the history of
what was let through. Signing is unforgeable, encodings are injective, all clocks
are one. The incomplete first version of the payload hash is modelled
(`semantic_payload_hash`), as is an envelope with an unknown field.

### TransportSessions

`conn` is `SessionHandler::accept` of each connection, cut at its awaits; `registry`
and `fences` are the maps behind their locks; `tasks` are handlers that have left
one lock and wait for the next. `Concurrency` is exact; the rate windows of the
trust classes and of the connection hook may only refuse, and a refusal is always
possible. Trust updates and terms arrive in any order.

### TransportEvents

`history` is every event published, `retained` the buffer of transportd, `queue`
one subscriber's channel, `watch` the Controller's loop with its cursor and the events
it ingested. An event is its place in `history`, so that `retained` and `queue`, which
are filled in the order of publication, are sets of places. `agent` is the journal's
telemetry buffer with ages. `RestartTransportd` empties `retained` and ends the stream.

The Controller runs this watch twice: `transportevents.Service` keeps its cursor in
the database and reconciles the nodes of the simulator workspace, `ownersession.Manager`
keeps it in memory and reconciles the sessions it owns. One watch of either sort is
modelled; `RestartController` starts it again with the cursor kept or lost. Three
prefixes of `history` tell what became of events that were not ingested: those before
`listed` were published before the subscription of a gap pass, those before `covered`
are in an inventory that was reconciled after it, and those before `blind` had left
retention when a process without a cursor (`fresh`) opened its stream, which takes no
inventory. `ReconcileGap` clears the cursor as `InvalidateCursor` does.

### UserState

`desired`, `cmds`, `observed` are the Controller's tables; `file` the password file
with password, lock marker and groups of each user; `applied` the Agent's revisions;
`agent` what the Agent is doing and the snapshot being taken. A password is the number
of the command that set it: the fingerprint of a user does not cover it, which is why
convergence is not obvious. A line that is not in the file, and a resource that a
report does not name, are records with `present` and `known` false.

A send may fail after its frame was written: `Deliver(i, FALSE)` leaves the command
queued although the Agent takes it (`taken`), and the Controller may then expire it,
replace it and give its revision to another command. A telemetry batch carries what its
`observed_at` means for the Controller: `stale` once a later one was ingested,
`overtaken` when the node's clock was set back between the two, and `unread`, the
resources whose revision the journal would not give (`build_telemetry` then reports
revision 0, or leaves a group without members out).

### ConfigApply

The apply holds the configuration lock, so its steps interleave only with failures (`MaxFailures`):
it may be dropped at every await by the deadline, crash, fail in I/O, and the daemon
may fail a health check once. `running` is what the daemon has loaded. Saved files
have UUIDv7 names, so the sequences `backups` and `successes` are the sorted
listing, pruned to `KeepLast`.

### Artifacts

`db` and `cert` are the Controller's rows, `root` and `file` the root ledger and the
spool, `hand` what the holder of the artifact lock has still to do, `download[g]` an
operator's request with its grant, `recon` the reconciler. Requests in `net` may be
answered late or never. A P12 fits one chunk (see section 5). A certificate does not
expire within the minutes an artifact lives.

### Upgrader and AgentUpgrade

`AgentUpgrade` is what the node is promised: one active operation, forward only,
success only over a host that holds exactly the package of the signed intent, and
no change of release except for an active operation or an operator's rollback.
`Upgrader` has the records (`intent`, `state`, `result`, `commit`, `pending`,
`snapshot`), the two locks, the unit with its start limit, the order of writes of both
scripts, and crashes of privd, of a runner, of the rollback and of the host between any
two of them. `rollback-agent.sh` is a process of its own: it stops the upgrader units
(`RollbackStopUnits`), then Agent and privd (`RollbackStopServices`), closes the open
operations one at a time (`mark_operations_rolled_back`), restores the three groups of
files (`restore_file`), removes the pending record (`RollbackClear`) and starts the
services (`RollbackEnds`). `halfway` says that some files are restored and not all.
`overlap` is history: an upgrade was started between the two stops, or over a host that
an interrupted rollback left halfway.

`ImplementsAgentUpgrade` is the refinement, with the release of the host computed
from its three groups of files, and `lapsed` <- `overlap`: the promise is not made any
more once the operator has an upgrade run into a rollback (section 5 says what can
happen then).

### Rebind

`active` is the record that privd, the Agent and the upgrader read when they start,
`op` and `tool` the durable operation and the running tool, `stage` and `identity`
the key directories, and for each node's namespace its journal, effect store,
effects and upgrades. `making` holds a key between its creation and its publication,
where two processes can race.

## 3. Runs

| Run | Instance | Distinct states | Shows |
|---|---|---|---|
| `agent_journal` | a user creation and the rotation after it, 2 clients of privd | 642,153 | at most one effect; true observations; the journal tells the truth about successes and failures; revisions reach the host one by one |
| `dispatch` | one command, 3 claims, 2 owner terms, 2 jobs and 2 frames in flight | 623,297 | the outcome is the attested one; mode on record and mode sent agree; a lost result does not leave the command dispatched |
| `command_flow` | one command of every kind with every flaw, 4 deliveries, 2 faults | 98,005 | what is signed is admitted by everyone after the Controller; every timely outcome has a receipt the Controller accepts, one kind of CSR excepted; nothing without evidence is repeated; successes are recorded where the next fence looks |
| `command_admission` | 2 owners, 2 Agent processes, one command, 3 fences | 1,207,550 | only the newest term commands; what runs is what was signed for that term; owners exclude each other |
| `transport_sessions` | 2 connections, 2 terms, 2 trust revisions | 494,253 | no withdrawn session stays open unnoticed; a superseded owner is fenced; leases are enforced |
| `transport_events` | 4 events, 2 retained, 2 frames, 1 restart of transportd or of the Controller | 282,929 | telemetry does not displace control events; none is passed over and all arrive, but for what a process without a cursor came too late for |
| `user_state` | a user, managed at first or not, and a group; 2 changes, 1 fault | 559,404 | success is on the host; convergence is true, stable and reached, but for a stray command and for a misleading batch |
| `config_apply` | 5 commands, 3 contents, 3 presentations, 2 failures | 1,564,627 | the way back is never lost; replies are true; the newest revision stays |
| `artifacts` | 2 downloads, 2 exports, 1 crash | 141,748 | the key is delivered once, never after revocation began; the spool is cleared; consumption settles |
| `upgrader` | 2 operations, 3 packages, 1 crash or reboot, 1 rollback | 1,025,319 | `Upgrader` implements `AgentUpgrade` and a mixed host can go back, until an upgrade meets a rollback; what was decided is reported; a started run ends |
| `rebind` | 2 transfers, 1 unit of work, 2 faults, 2 keys | 671,280 | one authority at a time; uncertain work is quarantined; receipts stay creditable; a transfer that is run again completes |
| `upgrade_stale_commit` | as `upgrader`, a rolled-back release is tried again | violated | section 4 |

### Bounds

`PrivdEffects` and `AgentExecutor` are finite without bounds: `MaxRecords` is the
code's own `MAX_EFFECT_RECORDS`, at 2. Two clients are enough for every race between
two requests; the code allows four, and the theorems hold for any number. The two
commands of `agent_journal` have different revisions; that the Controller gives a
revision out again is covered by the theorem (`SameKindRevisions`, section 6).

`OperationDispatch`: `MaxClaims` = 3 is execute, reconcile, retry; two jobs let a
worker of an old claim race one of a new claim, two frames a late result a new one.
`ReapAttempts` and `ReconciliationAttemptLimit` are constants of the code (3 and
64), at 2 so that they are reached. That the limit and the order of claims hold with
several commands is proved, not run.

`CommandFlow`: four deliveries are execute, reconcile, retry and one more; two
faults let a crash follow a lost frame. `CommandAdmission`: three fences are an
owner, its successor and a third term or a renewal; one fault more than that does not
fit the time of a run. `TransportSessions`: a connection, its replacement and two
terms. `TransportEvents`: capacity 2 with four events overflows retention and queue;
with `Sizes` = {1} and the event limits the byte limit never binds before the slot
limit; `MaxBoots` = 1 is one restart of either process, after which retention is empty
or the cursor is gone. `UserState`: two changes, on top of a user that is already
managed or of a node without one; kinds may be the same or different, on the same or
different resources, so that the second can take the revision of the first; `MaxFaults`
= 1 is a crash of privd, a failed step, a failed journal read, a lost result, a send
that fails after the frame or a clock set back. `ConfigApply`:
`KeepLast` = 1 (10 in the code) so that pruning happens; of the contents `base`, `a`
and the unhealthy `x`, `toBase` and `again` bring back one that was replaced, the
second also when it is already in the file. `Artifacts`: a second download, and a second export after
the first. `Upgrader`: two operations and two foreign packages, so that the second
can be the same or another one; one crash (`MaxCrashes`) of a runner, of privd or of
the host, and one rollback, which may end at any of its steps. A report holds the 8 newest results in the
code; `RecentLimit` is 1, so that the older operation drops out of it. `StartLimit` is
2 (3 in `upgrade_stale_commit`, 6 in the unit), so that it is reached. `Rebind`: two transfers are needed for the quarantine to be inherited.

Symmetry is used for privd's clients and for owners, in runs without liveness.
Deadlock is checked in `agent_journal`, `dispatch`, `transport_sessions` and
`user_state`, where the environment never stops; the other instances end when their
bounded inputs are used up.

### Fairness

| Module | Assumed | Because |
|---|---|---|
| `OperationDispatch` | WF of `Reap` | the maintenance ticker of `Worker.Run` calls it once per second; nothing is assumed of workers, frames or the node |
| `TransportSessions` | WF of `MonitorOwnerLease` and `finish_session` | each session has a monitor task that polls, and its task ends with it |
| `TransportEvents` | WF of opening and subscribing, SF of ingesting and of the inventory, WF of noticing a stream that has ended | the Controller's watch is a loop that opens again after every end, and a stream may end again and again while it does so |
| `Artifacts` | WF of the lock holder's and the reconciler's steps and of grants expiring, SF of the cleanup and of confirming a consumption | a task goes on; the reconciler and the five-minute cleanup are periodic and meet a free lock again and again |
| `Upgrader` | WF of each runner | systemd runs a started unit; the host's return after a reboot is not assumed |
| `Rebind` | WF of the tool's steps, of running `commit` again, of approval, key creation, service starts and the first session | the operator follows the runbook until the transfer is verified; systemd restarts enabled services |
| `UserState` | WF of privd's restart, reads, sending, ingesting and the end of a command under way, SF of `Heartbeat` | systemd restarts privd; a call of privd ends by its reply or its deadline; the Agent's loop polls its branches in random order, so a due heartbeat is served in the end |

The other modules have safety properties only.

## 4. Finding

**A partial installation is reported as succeeded** (`upgrade_stale_commit`).
`execute` takes a commit record that names the package, with matching Agent and
privd binaries, as proof of a complete installation. `rollback-agent.sh` leaves the
record alone, so it still names a release that was taken back. When that release is
tried again and the host stops after the two binaries and before the rest of the
files, the next run skips the script and records success. The comment at
`rust/crates/upgrader/src/lib.rs:765-769` says that only a complete, synced
installation writes the record. The `upgrader` run excludes the case
(`RetryRolledBack` = FALSE): without it the refinement holds.

## 5. Observations

Disagreements and sharp edges met while modelling. They have no run of their own;
the steps are in the models.

* **A revision gap that cannot be closed.** `ClaimDispatch` leaves a command
  `queued` (`operation_dispatch.go:54-67`). A change of the same kind made while it
  is leased is neither coalesced (`SupersedePending` skips leased rows) nor refused
  (`userstate/service.go:361-365`), and takes the next revision. When the first then
  expires or fails, the Agent refuses the second with `revision_gap`; a refusal has
  no receipt, so the command stays unknown and every later change is answered with
  `ErrRevisionPending`. The comment at `userstate/service.go:212` and
  `docs/reference/stable-contracts.md:1108` say otherwise. `UserState` therefore
  claims nothing about changes that end; TLC reaches the gap in seven states.
* **Reconciliation of a settled command is refused.** The Agent asks privd for a
  receipt before it reads its journal, and `begin_attested_recovery`
  (`agent/src/lib.rs:371`) refuses a settled record, although
  `stable-contracts.md:153-154` promises the result. `reconcile_external` of
  `AgentExecutor` has it.
* **A lease that is never reaped.** A terminal result ingested between the expiry of
  a reconciliation's lease and the next `Reap` leaves the attempt in `sending`, and
  `DeleteExpiredLeases` (`operation_reaping.go:102`) skips such a lease for ever.
* **An unknown command is offered for execution again** when its result has a code
  that `scheduleCommandRecovery` does not know (`transportevents/result.go:455`)
  while the dispatch is in flight;
  `stable-contracts.md:33` says never. The Agent's journal answers it without
  running it.
* **An executed command is shown as expired.** A send that fails after its frame was
  written releases the claim, and the deadline then expires the queued command
  (`operation_expiry.go:13`).
* **A CSR that never settles.** `requested_subject_digest` in `privd-attestation`
  refuses upper-case or repeated DNS names and names over 128 bytes; Controller,
  Agent and adapter accept them (up to 253 bytes). The key is made and the outcome
  can never be attested, against `docs/architecture.md:75` and `:250`. It is the
  exception in `ReceiptAccepted`.
* **Upgrade reports are all or none.** One result whose completion lies after the
  host's clock, stepped back, withholds every report until the clock has caught up.
* **Artifacts.** `ResetConsumption` checks and writes in two steps (harmless: the
  write names the grant); the result of the export command updates the row
  unconditionally; the read offset is advanced before the bytes are delivered, so a
  lost answer uses the grant up; a file of more than one chunk would be refused by
  the Agent.
* **Admission.** privd keeps no epoch floor: after an early release a command bound
  to the old term can run until that lease is over (documented; the exception in
  `OwnersExclude`). The docs promise the answer `stale_owner_epoch`; a fenced
  session is ended instead.
* **A rollback that stops halfway.** `rollback-agent.sh` renames file by file
  (`:339-371`). If it stops in between, and no installation was pending, the host holds
  files of two releases and nothing records it: the next upgrade copies the mixed files
  over the only whole snapshot (`upgrade-agent.sh:512-547`). If an installation over the
  release of the commit record had been interrupted before, a request for that release
  finds Agent and privd as recorded and is closed as succeeded over the mixed rest. And
  a unit that is started between the two `systemctl stop` (`:330-331`), or that survives
  the first one, whose error is ignored, can write over `rolled_back` and install again,
  although the comment at `:292-294` says that a restarted upgrader cannot. The runbook
  (`docs/operations/agent-lifecycle.md:573`) tells the operator to stop when a rollback
  fails. `overlap` marks exactly these behaviours, and `MixedHostCanGoBack`,
  `SuccessMeansInstalled` and `AgentUpgrade` make no claim after it.
* **A watch without protection.** After a gap was reconciled the cursor is gone
  (`transportevents/events.go:100`, `ownersession/owner.go:366`) until the next event is
  ingested. A Controller that restarts in this time, or any restart of the in-memory
  watch, opens a stream without a cursor and takes no inventory (`watchOnce`,
  `transportclient/client.go:525-585`): control events that had left retention by then
  are neither ingested nor covered. The comment at `client.go:262-265`, that a failure
  "never falls back to an unprotected cursorless watch", is true of one process only.
  They are the events up to `blind` in `ControlNotSkipped` and `ControlArrives`.
* **A stray command.** A send that is reported as failed after the frame was written
  leaves the command queued. When it is then expired or superseded, its revision goes to
  the next change of the same kind (`userstate/service.go:209-215`, `:339-374`), which
  the Agent refuses as already applied (`agent/src/lib.rs:761-776`), without a receipt:
  the command stays unknown and later changes are refused. For a password `List` shows
  *converged* meanwhile, because revision and fingerprint agree, although the last
  password was never published. When the stray command is published and not yet in the
  journal, privd refuses the next one instead. `Strayed` is the exception in
  `ConvergedIsApplied`.
* **Telemetry that misleads.** When the journal cannot be read, `build_telemetry` reports
  revision 0 for a user or group (`agent/src/main.rs:2282-2287`, `:2312-2317`) and leaves
  a group without members out (`:2329`), as if that were the truth; and a clock that is
  set back makes an older snapshot the newer one by `observed_at`. Either makes a
  converged resource drift until the next good batch. `Misleading` is the exception in
  `ConvergedIsStable`; `SucceededConverges` has none.
* **Upgrader.** A commit record truncated by a crash blocks later upgrades, and the
  unit has no `[Install]` section: a reboot leaves a started operation to the next
  request. Both are exceptions of `StartedUpgradeEnds`.
* **Rebind.** A partly staged identity directory is refused for ever; a response of
  the Controller that is lost after the approval makes the second enrolment fail with
  `ErrInvalidToken`; a crash while the effect store is created makes it unreadable.
  In each the operator has to act.
* **Configuration.** After a crash in the middle of a rollback `observe` reports
  absent although the file may still be the candidate; `WayBack` holds throughout.
  A command whose candidate is already in the file when it is first prepared gets a
  row whose two images are the same (`ocserv-adapter/src/lib.rs:3031`). If its health
  check then fails, and so does the one after the planned content was put back, the
  row stays `prepared` with neither image in the file: `prepare` answers every later
  apply with Unavailable and `observe` cannot close it. `WayBack` speaks of rows with
  two images; the case came out when the proof showed that without this the invariant
  is not inductive, and TLC needs 29 steps of a larger instance to reach it.

## 6. Proofs

The theorems hold for every instance: a node with any set of commands, users and
clients, any kinds and revisions and any size of the authorisation table; a
Controller with any finite set of commands, any set of nodes, kinds, versions, limits
and bounds; one command with any number of deliveries and faults; any Controller
incarnations, Agent processes, fences and crashes; any configurations, revisions and
retention; any operations, packages, limits, crashes, reboots and rollbacks of an upgrade;
any number of transfers, keys and faults; any nodes, endpoints, connections, owner
terms, event capacities, byte limits and budgets of transportd; any users, groups,
changes and telemetry; any number of exports, downloads and crashes. All the
invariants and all the action properties that the runs check are theorems; what the
runs show alone is liveness. Some theorems are about properties that no run checks any
more because the theorem says it for every instance.

**Assumptions.** Each module names what it assumes of its constants
(`ConstantsAssumption`, `MissingAssumption`, `DispatchAssumption`,
`BoundsAssumption`, `AdmissionConstants`, `ConfigConstants`, `UpgraderConstants`,
`RebindConstants`, `TransportAssumption`, `EventsAssumption`, `UserStateAssumption`,
`ArtifactConstants`): types, finitely many commands, owners or grants where they are
counted, positive revisions and limits, and that the marks of an absent value
(`Missing`, `Local`, `NoPackage`, `NoGrant`, `"none"`, ...) are not values. Users and
groups are different resources. `TransportAssumption` also says that epoch and id
determine an owner term: `register_owner_fence` takes a term with both equal for the
one it has, and ids are random UUIDs. TLC evaluates each in every run of its module.
Two hypotheses are stated in the theorems that need them:

* `~RetryRolledBack`, for the refinement of `AgentUpgrade` and its part
  `SuccessMeansInstalled`: no operation asks for a release that was rolled back. What
  happens otherwise is the finding of section 4; the other theorems about `Upgrader`
  do not need it.
* `SameKindRevisions`, for `HostFollowsRevisions`: two mutations of a user that carry the
  same revision are of the same kind. `userstate.Service` gives the revision of a change
  that did not succeed out again, and only to the same kind (`revisionReplacement`,
  `supersedePending`; `OrderInv` of `UserState` proves it of the Controller's side).

**Layout.** Each proof module states the inductive invariant as a conjunction of
named parts, has one lemma per action that says the action preserves it, a lemma that
collects them for `Next`, and then the theorems. The inductive invariants are also
checked by TLC, in the instances of section 3.

**privd** (`AgentExecutor_proof`, first part). `EffectAtMostOnce` is not inductive: that a
second execution publishes nothing depends on what the two tables, the lock
holder and the file say together. The inductive invariant `PrivdInv` adds

* `SlotsInv`: one holder of the file lock, whose copy of the file is current;
* `FixedInv`: a fixed effect is worked on by one request, under a `prepared` row,
  and its row outlives it until the deadline;
* `RowsInv`: a `prepared` row with the file at its before-image was not
  performed, at its after-image it was;
* `PublishedInv`: a command that reached the file is the one its row names, or
  has a smaller revision;
* `HolderInv`: between `prepare` and `mark_applied` the holder's row is the only
  unresolved one;

with type correctness and `AttestedSuccessIsReal`. There is one lemma per action
(`PrepareInv`, `PublishInv`, `CompleteInv`, ...). It gives `PrivdTypeCorrect`,
`PrivdEffectAtMostOnce`, `PrivdAttestedSuccess`, `PrivdObservation`,
`PrivdEvidence`, and with `EffectSteps` (which steps perform an effect) the
action property `PrivdRevisionOrder`.

**The node** (`AgentExecutor_proof`, second part). Every step of the Agent is a step or a
stutter of `PrivdEffects` (`PrivdStepOfNode`), so `AgentImplementsPrivd` holds
and every theorem about privd holds on a node, for instance
`NodeEffectAtMostOnce`. The journal needs `CallInv` (the client the Agent waits
for serves the Agent's own command, and only a running record waits for an
effect): without it a success could be recorded for another command.
`AgentInv` = `PrivdInv`, types, `CallInv` and `JournalIsReal` is inductive and
gives `AgentTypeCorrect`, `AgentJournalIsReal` and `AgentJournalIsFinal`.

That a failure in the journal is true (`FailedNeverPerformed`) is harder, because
the Agent gives calls up and privd goes on with them: the request that rejects a
command may not be the only one. `NodeInv` closes the gap:

* `WorkInv`: one request at a time executes a command, under the row that was
  reserved for it, and until it reaches the host nobody else did;
* `RejectedInv`: a rejection (in the store, on its way, or in the journal) is of a
  *dead* command: not performed, executed by nobody, never granted again;
* `AbsentInv`: an absence is of a *safe* command: if privd would still execute it,
  nobody is executing it and it did not reach the host;
* `FreshInv`: privd hears of a command only after the journal has, and a first
  execution is asked for once.

The steps are summarised first (`WorkStep`, `Quiet`, `Starts`, `Steady`, ...: who
starts, who reaches the host, who rests), and the four parts are argued from the
summaries: a retry only starts what nobody executes. `RevisionInv` adds that a
mutation is asked for and executed on top of the revision before it, or is `Passed`: the
row of its kind and user holds another command of the same or a later revision, and
`EffectStore::prepare` will refuse it. The second case is where two commands share a
revision and both were started before either was recorded. With the privd theorems it
gives the action property `AgentHostFollowsRevisions`: the host takes the
revisions of a user one by one, although the revision is checked by the Agent long
before privd writes the file.

**The Controller** (`OperationDispatch_proof`). `OutcomeIsAttested` needs that
results on their way are attested, `EnvelopeMatchesOutbox` that a worker which
still holds its claim carries the envelope of the outbox, the limit that what
`Active` counts covers every slot in use. `DispatchInv` says so:

* `RowsInv`: the rows of one command agree (`Coherent`: command and operation
  state, mode on record and mode in the outbox);
* `AttestedInv`: outcomes, and results under way that name one, are the node's;
* `JobsInv`: a dispatch in memory is of a claim that was made, and carries the
  outbox's envelope while the claim is the current one, in time and open: an old
  worker that comes back late fails `HoldsClaim` or is harmless;
* `RetryInv` and `OrderInv`: the same for retries and for lower versions.

Most of the actions do nothing to a row but let it *evolve*: no new lease, no new
slot, no way out of a terminal state, no claim that opens again. `Evolves` states
this once, one lemma per operation shows it of the rows (`ReapEvolves`,
`AppliedEvolves`, ...), and `EvolvesInv` concludes the invariant from it; only
`Create`, `Claim` and `MarkSent` are argued on their own. The limit is a
cardinality argument: `Held` is a subset of `Active`, and `Claim` adds one element
to it. The theorems are `DispatchTypeCorrect`, `DispatchOutcomeIsAttested`,
`DispatchEnvelopeMatchesOutbox`, `DispatchWithinLimit`, `DispatchOrder`,
`DispatchFixedNeverRetried` and `DispatchTerminalIsFinal`.

**One command through four programs** (`CommandFlow_proof`). The properties compare
the tables of different programs, so the invariant has to say what each program may
still hold of the others' answers. `FlowInv`:

* `PayloadInv`: nothing has happened before a command is signed, and the only flaws
  that are signed are those of the CSR observation in section 5;
* `ReceiptsInv`: wherever a receipt is kept (effect row, reply, journal, result) it
  is the receipt of an outcome of this kind, and of an effect that is on the host when
  it says so;
* `JobInv`, `SyntheticInv`, `CodesInv`: what the row says of the host, that a
  synthetic command never leaves the Agent, and which codes are kept;

with `NoBlindRetry` and `SuccessIsRecorded`. Most actions write nothing new:
`OpenStep` says which steps these are, `OpenStepInv` that they preserve everything.
The theorems are `FlowSignedIsAdmitted`, `FlowReceiptAccepted`, `FlowNoBlindRetry` and
`FlowSuccessIsRecorded`.

**Who may command** (`CommandAdmission_proof`). `AdmissionInv`: fences are signed for
the row's epoch and owner and epochs only grow (`FencesInv`); a fence whose lease
lives is of the row's owner, unless its term was given up early (`LeasesInv`); the
journal's floor is the newest term that was ever active (`FloorInv`, the one that two
Agent processes with floors of their own could break); a command is authorised for
its own payload (`ProofsInv`). From it each decision in `decision` is shown to be right
when it is taken: `AdmissionNewestTermOnly`, `AdmissionExecutedAsSigned`,
`AdmissionOwnersExclude`.

**Configuration** (`DesiredState_proof`, first part). `WayBack` depends on where the apply is:
`ConfigInv` says what is in the file and in the daemon at each step (`ContentInv`),
which saved file holds the planned content and that pruning spares it (`SavedInv`),
and what row and command have to do with each other (`RowInv`, `WorkerInv`). `NewestInv`
relates replies to the row and gives the action property. Pruning and finding take
the newest of the saved files; that such a largest index exists (`MaxOfBounded`) is
the one argument by well-foundedness. Theorems: `ConfigWayBack`, `ConfigReplyIsTrue`,
`ConfigNewestStays`.

**Upgrades** (`Upgrader_proof`). `UpgraderInv` has one part for each mechanism: the
order of the records (`RecordsInv`), the schedule lock (`ScheduleInv`: one operation is
not terminal), the execution lock (`RunnersInv`), what the script has done at each
of its steps (`HostInv`), and what the rollback has stopped, closed and restored at each
of its own (`RollbackInv`). `RecordsInv` holds throughout; what the others say of the host
and of open operations holds until `overlap`. A rollback left halfway is inside the
invariant: until another upgrade is started the snapshot is whole, no unit runs, and the
rollback can be run again. It gives `UpgraderMixedHostCanGoBack`, and
`UpgraderClosedIsReported` with no exception for `overlap`: an operation that is among the
`RecentLimit` newest of all is among the newest of those with a result, which is an
argument about cardinalities of finite sets. `CommitInv` adds that the commit record is
right about the release whose Agent is installed, unless a rollback is halfway; it is what
the finding violates, and with it `UpgraderSuccessMeansInstalled` and `UpgraderImplementsAgentUpgrade` follow: the
initial states map to an initial state and each action of `Upgrader` to an action of
`AgentUpgrade` or a stutter.

**Transfer** (`Credentials_proof`, first part). `RebindInv`: the tool's step follows from the phase it
saved and the authority it found (`ToolInv`), nothing runs from the stop of the
services to their start (`StoppedInv`), what `commit` decided about unresolved work is
still true when the record is published (`DecisionInv`, true because of `StoppedInv`),
and there is one signing key although two processes may make it (`KeyInv`). Theorems:
`RebindWholeBinding`, `RebindUncertainIsQuarantined`, `RebindReceiptsCreditable`.

**Sessions** (`Transport_proof`, first part). A revocation or a new owner term first
changes a map and then, under another lock, closes the session it retired; in between
a connection that was checked before may register. `SessionsInv` says what makes this
safe:

* `RegistryInv` and `ServingInv`: an open session is the registered one of its node,
  and is of a trusted endpoint and the current term unless a handler is on its way
  that will close *this* session (`Closing`);
* `TrustInv` and `GrantInv`: transportd knows of no revision the Controller has not
  decided, and a connection carries a revision older than a revocation it has not seen;
* `CommandInv`: a command between validation and write is on a session that carries
  the current term, or that is about to be closed.

`Closing` is the point of the proof: `RetiredIsClosed` asks only for some unfinished
handler of the node, which is not inductive, because a handler that finds another
session does nothing. Theorems: `SessionsTypeCorrect`, `SessionsRetiredIsClosed`, and
the action property `SessionsStaleOwnerIsFenced`.

**Events** (`Transport_proof`, second part). `RetentionInv`: when control events were
given up, retention is full of newer control events and of nothing else. That
telemetry is displaced before any control event, that it keeps to half of the slots and
to its byte limit and that this always makes room is one lemma about `publish_event` (a cardinality
argument over the retained set). `StreamInv`: an open stream holds every event it owes
(`Owed`), but for those after the event that detached it; so a watch that is behind
either has the event in its queue or will find its stream ended and open it again. What
is owed depends on the stage: in a stream that is being read, every control event that is
neither ingested nor covered nor lost to a blind start; between subscription and
reconciliation, every control event after `listed`, because the inventory will cover the
others. That an unprotected stream without a cursor belongs to a process that has
ingested nothing is the second part: it is what confines `blind` to such a process. The
theorems are `EventsTypeCorrect`,
`EventsControlIsRetained` and `EventsControlNotSkipped`.

**Users and groups** (`DesiredState_proof`, second part). `ConvergedIsApplied` says
that a comparison of a revision and of a fingerprint, made in the Controller from
telemetry of unknown age, tells what is in a file on the node. Everything in between
has a part in `UserStateInv`:

* `CommandInv` and `OrderInv`: what a command's state, receipt and journal entry say of
  each other, that a revision is used again only by the same kind of change, after
  one that the Controller gave up, and that a change of another kind is made after a
  success of the kind before it (`Settled`). A command that is given up may still run on
  the node, so nothing is said about what such a command did;
* `RevisionInv`, `OnceInv` and `AgentInv`: the desired revision is the last command's,
  a revision the Agent has applied was recorded by one of the commands that carry it
  (`Done`), and of those at most one was published: privd refuses the others;
* `StageInv` and `HostInv`: the lock holder's checks still hold when it publishes, and
  each line holds what the last *published* command of each sort (password, lock,
  groups) asked for;
* `DesiredInv`: the desired row holds what the last command of each sort asks;
* `SnapshotInv` and `ReportInv`: a reading, in the Agent, under way or in the
  Controller, shows every recorded change up to the revision it names (`Shows`),
  although it was taken from a file that may already hold later ones;
* `TelemetryInv`: a batch that is neither stale nor overtaken knows all that the
  observation and the batches before it know, but for what the journal would not give
  (`Newer`), so that ingesting it takes nothing back.

A resource that is converged was observed with the desired revision, so one of the
commands of that revision is published and recorded; if it is not the last one, it was
given up although the Agent took it, which is the exception `Strayed`. This gives
`UserStateConvergedIsApplied`; stability becomes a statement about revisions,
`UserStateConvergedIsStable`, with the exception `Misleading`.
`UserStateSucceededIsOnHost` follows from `HostInv` and `DesiredInv`, and has no
exception.

**Exports** (`Credentials_proof`, second part). A private key leaves the node once
although the bytes go before the confirmation. `ArtifactsInv`: whoever acts on a
consumption has it from the root ledger, for the same grant (`LedgerInv`); a completed
download has left its grant in a row that stays consumed (`DeliveryInv`); nobody
downloads before the export's result, which overwrites the row in any state
(`ExportInv`); a row is consuming only while its certificate is not being revoked
(`RevocationInv`); what is consumed was leased to a grant (`GrantedInv`). Without
`ExportInv` a late export result could open a consumed row again. Theorems:
`ArtifactsTypeCorrect`, `ArtifactsDeliveredOnce`, and the action property
`ArtifactsRevocationWins`.

**Only model-checked.** Liveness: `DispatchedIsResolved`, `LeaseIsEnforced`,
`ControlArrives`, `SucceededConverges`, `SpoolCleared`,
`ConsumptionSettles`, `StartedUpgradeEnds` and `RebindCompletes` stay with TLC, because
the prover does not reason about fairness and `ENABLED`. It also cannot instantiate the
induction theorems of the library with a predicate, so nothing is claimed about
recursive definitions; the modules have none.

## 7. What the models leave out

**PrivdEffects, AgentExecutor.** A retry seals a password with a new salt; its
content is not told apart from the first attempt's. Edits of the password file by
other processes are excluded (in `UserState` too), and with them a metadata failure
after the rename. Error codes on which no decision depends are `other`.
Code that only tests reach (synthetic effects and their barrier) is not modelled.

**OperationDispatch.** Transactions are atomic, so a race inside a READ COMMITTED
statement (`ExpireQueued` against `Claim`) is below the grain. Left out: holds and
barriers, `available_at` and the batch limits of 64 and 16 (a claim takes any
candidate, unknown before queued on a node), and the confirmation of a commit of
unknown outcome, whose two answers are `MarkSent` and `JobLost`.

**UserState.** Left out: the capacity of 384 rows and `If-Match` mismatches, which only
refuse, the state `rejected` of a predecessor, and the reads of other resources in a
snapshot. `observed_at` is the order of the batches in `pending`; a clock of the node that
is set back puts a batch among earlier ones, one that is ahead of the Controller's is not
told apart. **Upgrader.** The files the scripts replace are three groups, the Agent, privd
and the rest, in the order of both scripts; the manual installation of a package without
an operation is not modelled. **TransportSessions, TransportEvents.** Socket set-up, relays, rate windows
beyond their refusals, several subscribers (each has its own queue).

**Everywhere.** Signatures are unforgeable and encodings injective. Wall clocks are
seen only through the comparisons the code makes. Argument parsing, error texts,
logging, generated code and the stub transport are not modelled. The MySQL backend
states the same queries as the PostgreSQL one.

**Components without a module.** Scheduler lease, approvals, audit chain and the
signer's ledger have protocol state and are planned. The event hub, authentication
and RBAC, the HTTP API, the console, the relay and packaging are request handling,
policy data, presentation or third-party transport.

## 8. How to run

    tlc -workers 2 -config MCUpgrader.cfg MCUpgrader
    tlc -workers 2 -config MCUpgraderStaleCommit.cfg MCUpgrader
    tlapm Upgrader_proof.tla

`PROJECT.json` maps each definition to the lines it translates. Where a definition
abstracts data, the lines include the code whose detail it leaves out.

## 9. Plan

1. *Done*: the modules of section 2, the runs of section 3, the theorems of section
   6: all safety properties of the twelve detailed modules, and the refinement of
   `AgentUpgrade`.
2. The scheduler lease, approvals, the signer's ledger and the audit chain.
3. The proof that the node implements the environment of `OperationDispatch`.
