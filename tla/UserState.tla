----------------------------- MODULE UserState -----------------------------
(***************************************************************************)
(* Users and groups of one node, from the desired state the Controller     *)
(* records to the convergence it reports:                                  *)
(*   Controller   userstate.Mutate numbers a change, queues its command    *)
(*                and may replace one that never applied;                  *)
(*   Agent        refuses a revision that does not follow the one it       *)
(*                applied, and reports what privd reads with the revisions *)
(*                of its journal;                                          *)
(*   privd        rewrites the whole password file under user_file_lock;   *)
(*   telemetry    replaces the Controller's observation when it is newer.  *)
(* The effect store and the dispatch protocol are PrivdEffects, AgentExec- *)
(* utor and OperationDispatch; here a command is queued, claimed, sent,    *)
(* performed, recorded and reported in one step each.  A send may fail     *)
(* after the frame was written: the Agent then executes a command that the *)
(* Controller goes on to treat as queued.                                  *)
(***************************************************************************)
EXTENDS Naturals, Sequences

CONSTANTS
  Users, Groups,   \* names
  Members,         \* the member lists a client may ask for
  MaxCommands,     \* bound: commands ever made
  MaxPending,      \* bound: telemetry batches not yet ingested
  MaxFaults        \* bound: crashes, failures and lost results

Resources == Users \cup Groups
UserKinds == {"user_create", "user_password_rotate", "user_disable", "user_enable"}

ASSUME UserStateAssumption ==
  /\ Users \cap Groups = {}
  /\ Members \subseteq SUBSET Users
  /\ MaxCommands \in Nat /\ MaxFaults \in Nat /\ MaxPending \in Nat \ {0}

VARIABLES
  desired,   \* desired_users, desired_groups
  cmds,      \* the commands, oldest first
  file,      \* the password file
  privd,     \* whether it serves, and the staging files in the file's directory
  agent,     \* what the Agent is doing, and the snapshot it is taking
  applied,   \* applied_resource_revisions of the Agent's journal
  pending,   \* telemetry batches not yet ingested, by their observed_at
  observed,  \* observed_users, observed_groups
  faults     \* faults that happened

userVars == <<desired, cmds, file, privd, agent, applied, pending, observed, faults>>

\* A line of the password file: the command that set the password (0: the
\* one it had at first), the lock marker and the group field.
Entries == [present : BOOLEAN, password : Nat, locked : BOOLEAN, groups : SUBSET Groups]
Absent == [present |-> FALSE, password |-> 0, locked |-> FALSE, groups |-> {}]
NewEntry(password) == [Absent EXCEPT !.present = TRUE, !.password = password]
In(f) == {u \in Users : f[u].present}

Outstanding == {"queued", "dispatched", "unknown"}
Receipts == {"none", "ok", "rejected"}
UserCommands ==
  [kind : UserKinds \cup {"group_apply"}, name : Resources, members : SUBSET Users,
   revision : Nat, state : Outstanding \cup {"succeeded", "failed", "expired", "superseded"},
   leased : BOOLEAN,
   taken : BOOLEAN,             \* the Agent's journal has a record of it
   run : {"none", "waiting", "staged"}, receipt : Receipts,
   journal : Receipts, published : BOOLEAN, retried : BOOLEAN]

\* password is the history of a user's password; enabled and members are what
\* the fingerprint covers.
Desires == [revision : Nat, enabled : BOOLEAN, members : SUBSET Users, password : Nat]
NoDesired == [revision |-> 0, enabled |-> TRUE, members |-> {}, password |-> 0]

\* What a snapshot or a batch says of a resource.
Readings == [known : BOOLEAN, revision : Nat, enabled : BOOLEAN, members : SUBSET Users,
             password : Nat]
NoReading == [known |-> FALSE, revision |-> 0, enabled |-> TRUE, members |-> {},
              password |-> 0]
Reports == [Resources -> Readings]
\* stale: not observed after what the Controller has.  unread: what the journal
\* could not be read for.  overtaken: a batch made later was observed earlier, by
\* the node's clock.
Batches == [report : Reports, unread : SUBSET Resources, stale : BOOLEAN, overtaken : BOOLEAN]
NothingSeen == [r \in Resources |-> NoReading]
StaleBatch == [report |-> NothingSeen, unread |-> {}, stale |-> TRUE, overtaken |-> FALSE]
Idle == [stage |-> "idle", cmd |-> 0, read |-> {}, seen |-> NothingSeen]

UserStateTypeOK ==
  /\ desired \in [Resources -> Desires] /\ cmds \in Seq(UserCommands)
  /\ file \in [Users -> Entries] /\ privd \in [up : BOOLEAN, staging : Nat]
  /\ agent \in [stage : {"idle", "command", "snapshot"}, cmd : Nat,
                read : SUBSET {"users", "groups"}, seen : Reports]
  /\ applied \in [Resources -> Nat]
  /\ pending \in Seq(Batches) /\ observed \in Reports
  /\ faults \in Nat

\* Some users are created and converged before the behaviour starts.
UserStateInit ==
  /\ \E managed \in SUBSET Users :
       /\ desired = [r \in Resources |->
                       [NoDesired EXCEPT !.revision = IF r \in managed THEN 1 ELSE 0]]
       /\ file = [u \in Users |-> IF u \in managed THEN NewEntry(0) ELSE Absent]
  /\ cmds = <<>>
  /\ privd = [up |-> TRUE, staging |-> 0]
  /\ agent = Idle
  /\ applied = [r \in Resources |-> desired[r].revision]
  /\ pending = <<>>
  /\ observed = NothingSeen
  /\ faults = 0

\* One of the faults the behaviour may have, if it is one.
Fault(happens) ==
  /\ happens => faults < MaxFaults
  /\ faults' = IF happens THEN faults + 1 ELSE faults

Set(i, c) == cmds' = [cmds EXCEPT ![i] = c]

(***************************************************************************)
(* The Controller: Mutate.                                                 *)
(***************************************************************************)

CommandsOf(r) == {i \in 1..Len(cmds) : cmds[i].name = r}
\* LastRevision: the last command made for the current desired revision.
LastRevision(r) ==
  LET made == {i \in CommandsOf(r) : cmds[i].revision = desired[r].revision} IN
  IF made = {} THEN 0 ELSE CHOOSE i \in made : \A j \in made : j <= i

\* Mutant: the revision of an undecided command is used again.
revisionReplacementOfUnknown(r, kind) ==
  LET i == LastRevision(r) IN
  IF i = 0 THEN "next"
  ELSE IF cmds[i].state = "succeeded" THEN "next"
  ELSE IF cmds[i].state \in {"dispatched", "superseded"} \/ cmds[i].kind # kind THEN "busy"
  ELSE IF cmds[i].state = "queued" THEN "next" ELSE "reuse"

\* What becomes of the current revision: a change takes the next one, uses
\* that of a command that ended without an effect again, or is refused
\* (ErrRevisionPending, ErrRevisionRecovery).
revisionReplacement(r, kind) ==
  LET i == LastRevision(r) IN
  IF i = 0 THEN "next"
  ELSE IF cmds[i].state = "succeeded" THEN "next"
  ELSE IF \/ cmds[i].state \in {"dispatched", "unknown", "superseded"}
          \/ cmds[i].kind # kind THEN "busy"
  ELSE IF cmds[i].state = "queued" THEN "next" ELSE "reuse"     \* failed or expired

\* Queued, unlocked and without a lease: no dispatch of it is under way.
Pending(r, kind) ==
  {i \in CommandsOf(r) : /\ cmds[i].state = "queued" /\ ~cmds[i].leased
                         /\ cmds[i].kind = kind /\ cmds[i].revision = desired[r].revision}
supersedePending(r, kind) == IF kind = "user_create" THEN {} ELSE Pending(r, kind)

\* WriteDesired; a rotation leaves the fingerprint of the user alone.
WriteDesired(r, kind, members, revision, password) ==
  desired' = [desired EXCEPT ![r] =
    [revision |-> revision,
     enabled |-> IF kind = "user_password_rotate" THEN @.enabled ELSE kind # "user_disable",
     members |-> members,
     password |-> IF kind \in {"user_create", "user_password_rotate"} THEN password
                  ELSE @.password]]

Mutate(r, kind, members) ==
  LET replaced == revisionReplacement(r, kind) = "reuse"
      coalesced == supersedePending(r, kind)
      revision == IF replaced \/ coalesced # {} THEN desired[r].revision
                  ELSE desired[r].revision + 1
      new == [kind |-> kind, name |-> r, members |-> members, revision |-> revision,
              state |-> "queued", leased |-> FALSE, taken |-> FALSE, run |-> "none",
              receipt |-> "none", journal |-> "none", published |-> FALSE, retried |-> FALSE]
  IN
  /\ Len(cmds) < MaxCommands
  /\ IF r \in Groups THEN kind = "group_apply" /\ members \in Members
                     ELSE kind \in UserKinds /\ members = {}
  /\ kind \in {"user_create", "group_apply"} \/ desired[r].revision > 0      \* ErrNotFound
  /\ revisionReplacement(r, kind) # "busy"
  /\ kind = "user_create" /\ desired[r].revision > 0 => replaced     \* ErrVersionConflict
  /\ cmds' = Append([i \in 1..Len(cmds) |->
                       IF i \in coalesced THEN [cmds[i] EXCEPT !.state = "superseded"]
                       ELSE cmds[i]], new)
  /\ WriteDesired(r, kind, members, revision, Len(cmds) + 1)
  /\ UNCHANGED <<file, privd, agent, applied, pending, observed, faults>>

(***************************************************************************)
(* Dispatch.                                                               *)
(***************************************************************************)

Leased == \E j \in 1..Len(cmds) : cmds[j].leased
First(i) == \A j \in CommandsOf(cmds[i].name) :
  cmds[j].revision < cmds[i].revision => cmds[j].state \notin Outstanding

\* DispatchCandidates and ClaimDispatch: the lease is taken, the state stays.
Claim(i) ==
  /\ cmds[i].state = "queued" /\ ~Leased /\ First(i)
  /\ Set(i, [cmds[i] EXCEPT !.leased = TRUE])
  /\ UNCHANGED <<desired, file, privd, agent, applied, pending, observed, faults>>

\* The send fails before the frame was written: the lease is returned.
Release(i) ==
  /\ cmds[i].state = "queued" /\ cmds[i].leased
  /\ Set(i, [cmds[i] EXCEPT !.leased = FALSE])
  /\ UNCHANGED <<desired, file, privd, agent, applied, pending, observed, faults>>

ExpireQueued(i) ==
  /\ cmds[i].state = "queued" /\ ~cmds[i].leased
  /\ Set(i, [cmds[i] EXCEPT !.state = "expired"])
  /\ UNCHANGED <<desired, file, privd, agent, applied, pending, observed, faults>>

\* desired_revision_fence: the revision that follows the applied one.
Current(i) == applied[cmds[i].name] = cmds[i].revision - 1

\* A result changes nothing that is settled, or queued without an attempt in
\* flight (IngestCommandResult).
Answered(c, state) ==
  IF c.state \in {"dispatched", "unknown"} \/ c.leased
  THEN [c EXCEPT !.state = state, !.leased = FALSE] ELSE c

\* No result comes in time: what was sent is unknown (Reap).
Unanswered(c) == IF c.state = "dispatched" THEN [c EXCEPT !.state = "unknown"] ELSE c

Outcome(receipt) == IF receipt = "ok" THEN "succeeded" ELSE "failed"

\* The Agent's loop takes a frame: a command it has no record of starts if its
\* revision is current; a recorded result is repeated; anything else is unknown
\* to the Controller, a rejection without a receipt included.
prepare_external(i) ==
  IF ~cmds[i].taken /\ Current(i) THEN "dispatched"
  ELSE IF cmds[i].journal # "none" THEN Outcome(cmds[i].journal) ELSE "unknown"

\* The frame is sent.  When the call fails although the frame was written, the
\* lease is returned and the command stays queued (FailDispatch).
Deliver(i, reported) ==
  LET answer == prepare_external(i)
      starts == answer = "dispatched"
  IN
  /\ cmds[i].state = "queued" /\ cmds[i].leased
  /\ agent.stage = "idle"
  /\ Set(i, [cmds[i] EXCEPT !.state = IF reported THEN answer ELSE "queued", !.leased = FALSE,
                            !.run = IF starts THEN "waiting" ELSE @, !.taken = @ \/ starts])
  /\ agent' = IF starts THEN [agent EXCEPT !.stage = "command", !.cmd = i] ELSE agent
  /\ Fault(~reported)
  /\ UNCHANGED <<desired, file, privd, applied, pending, observed>>

(***************************************************************************)
(* privd rewrites the password file.                                       *)
(***************************************************************************)

UserFileUnlocked == \A j \in 1..Len(cmds) : cmds[j].run # "staged"

\* user_create wants the user absent, the others want it present, and a group
\* wants all its members present.
Acceptable(c) ==
  CASE c.kind = "user_create" -> c.name \notin In(file)
    [] c.kind = "group_apply" -> c.members \subseteq In(file)
    [] OTHER -> c.name \in In(file)

\* The row of the kind and the name in the effect store holds another command of
\* this revision or a later one (EffectStore::prepare).
Outdated(i) ==
  \E j \in CommandsOf(cmds[i].name) :
    /\ j # i /\ cmds[j].published /\ cmds[j].kind = cmds[i].kind
    /\ cmds[j].revision >= cmds[i].revision

\* Mutant: the lock marker of a rotated user is not put back.
user_secret_applied_unlocked(f, i) ==
  LET u == cmds[i].name IN
  [f EXCEPT ![u] = [NewEntry(i) EXCEPT !.groups = f[u].groups]]

\* user_secret_apply: the groups and the lock marker are kept.
user_secret_applied(f, i) ==
  LET u == cmds[i].name IN
  [f EXCEPT ![u] = IF @.present THEN [@ EXCEPT !.password = i] ELSE NewEntry(i)]

user_lock_state(f, i) ==
  [f EXCEPT ![cmds[i].name].locked = cmds[i].kind = "user_disable"]

group_applied(f, i) ==
  LET g == cmds[i].name IN
  [u \in Users |-> IF u \notin In(f) THEN f[u]
                   ELSE [f[u] EXCEPT !.groups = (@ \ {g}) \cup
                           (IF u \in cmds[i].members THEN {g} ELSE {})]]

After(f, i) ==
  CASE cmds[i].kind \in {"user_create", "user_password_rotate"} -> user_secret_applied(f, i)
    [] cmds[i].kind = "group_apply" -> group_applied(f, i)
    [] OTHER -> user_lock_state(f, i)

\* The file is opened once, checked and read whole: a rename gives a reader
\* one version or the other.
read_user_file == file

\* The lock is held and the file read: an unacceptable change is refused with
\* a receipt, any other is staged beside the file.
stage_user_file(i) ==
  /\ privd.up /\ cmds[i].run = "waiting" /\ UserFileUnlocked
  /\ IF Acceptable(cmds[i]) /\ ~Outdated(i)
     THEN /\ Set(i, [cmds[i] EXCEPT !.run = "staged"])
          /\ privd' = [privd EXCEPT !.staging = @ + 1]
     ELSE Set(i, [cmds[i] EXCEPT !.run = "none", !.receipt = "rejected"]) /\ UNCHANGED privd
  /\ UNCHANGED <<desired, file, agent, applied, pending, observed, faults>>

\* The staged file takes the place of the file.
publish_user_staging(i) == file' = After(read_user_file, i)

\* commit_desired_staging, and the receipt is stored unless the store fails.
commit_desired_staging(i, stored) ==
  /\ privd.up /\ cmds[i].run = "staged"
  /\ publish_user_staging(i)
  /\ Set(i, [cmds[i] EXCEPT !.run = "none", !.published = TRUE,
                            !.receipt = IF stored THEN "ok" ELSE "none"])
  /\ privd' = [privd EXCEPT !.staging = @ - 1]
  /\ Fault(~stored)
  /\ UNCHANGED <<desired, agent, applied, pending, observed>>

\* A check of the directory or the file, a child or the store fails, or the
\* deadline passes: StagingFile removes what was staged.
MutationFails(i) ==
  /\ privd.up /\ cmds[i].run \in {"waiting", "staged"}
  /\ privd' = [privd EXCEPT !.staging = @ - (IF cmds[i].run = "staged" THEN 1 ELSE 0)]
  /\ Set(i, [cmds[i] EXCEPT !.run = "none"])
  /\ Fault(TRUE)
  /\ UNCHANGED <<desired, file, agent, applied, pending, observed>>

PrivdCrash ==
  /\ privd.up
  /\ privd' = [privd EXCEPT !.up = FALSE]
  /\ cmds' = [i \in 1..Len(cmds) |-> [cmds[i] EXCEPT !.run = "none"]]
  /\ Fault(TRUE)
  /\ UNCHANGED <<desired, file, agent, applied, pending, observed>>

cleanup_stale_user_staging ==
  /\ ~privd.up
  /\ privd' = [up |-> TRUE, staging |-> 0]
  /\ UNCHANGED <<desired, cmds, file, agent, applied, pending, observed, faults>>

(***************************************************************************)
(* The Agent records and reports.                                          *)
(***************************************************************************)

\* complete_external_with_revision_attested: the result and the revision are
\* committed together, unless the revision would go back; the result frame may be
\* lost.
Record(i, lost) ==
  /\ cmds[i].receipt # "none" /\ cmds[i].journal = "none"
  /\ cmds[i].receipt = "ok" => applied[cmds[i].name] <= cmds[i].revision
  /\ applied' = IF cmds[i].receipt = "ok"
                THEN [applied EXCEPT ![cmds[i].name] = cmds[i].revision] ELSE applied
  /\ LET c == [cmds[i] EXCEPT !.journal = cmds[i].receipt] IN
     Set(i, IF lost THEN Unanswered(c) ELSE Answered(c, Outcome(c.receipt)))

CommandEnds(i, lost) ==
  /\ agent.stage = "command" /\ agent.cmd = i
  /\ Record(i, lost)
  /\ agent' = Idle
  /\ Fault(lost)
  /\ UNCHANGED <<desired, file, privd, pending, observed>>

\* privd answers without a receipt, or not in time, or the Agent dies: what
\* privd is doing goes on.
AgentInterrupted(i, lost) ==
  /\ agent.stage = "command" /\ agent.cmd = i
  /\ Set(i, IF lost THEN Unanswered(cmds[i]) ELSE Answered(cmds[i], "unknown"))
  /\ agent' = Idle
  /\ Fault(lost \/ cmds[i].run # "none" \/ cmds[i].receipt # "none")
  /\ UNCHANGED <<desired, file, privd, applied, pending, observed>>

\* A reconciliation of an unknown command: the journal's result is repeated,
\* a stored receipt is recorded, a proven absence is retried once.
Reconcile(i) ==
  /\ cmds[i].state = "unknown" /\ agent.stage = "idle" /\ ~Leased /\ First(i)
  /\ \/ /\ cmds[i].journal # "none"
        /\ Set(i, [cmds[i] EXCEPT !.state = Outcome(cmds[i].journal)])
        /\ UNCHANGED <<agent, applied>>
     \/ /\ privd.up
        /\ Record(i, FALSE)
        /\ UNCHANGED agent
     \/ /\ Current(i) /\ privd.up /\ UserFileUnlocked
        /\ cmds[i].receipt = "none" /\ cmds[i].run = "none" /\ ~cmds[i].published
        /\ ~cmds[i].retried
        /\ Set(i, [cmds[i] EXCEPT !.state = "dispatched", !.run = "waiting",
                                  !.taken = TRUE, !.retried = TRUE])
        /\ agent' = [agent EXCEPT !.stage = "command", !.cmd = i]
        /\ UNCHANGED applied
  /\ UNCHANGED <<desired, file, privd, pending, observed, faults>>

(***************************************************************************)
(* Telemetry.                                                              *)
(***************************************************************************)

\* user_list and group_list parse the file, read without the lock.
parse_user_file(f) ==
  [u \in In(f) |-> [NoReading EXCEPT !.known = TRUE, !.enabled = ~f[u].locked,
                                     !.password = f[u].password]]
parse_groups_from_user_file(f) ==
  [g \in UNION {f[u].groups : u \in In(f)} |->
     [NoReading EXCEPT !.known = TRUE, !.members = {u \in In(f) : g \in f[u].groups}]]

Heartbeat ==
  /\ agent.stage = "idle"
  /\ agent' = [agent EXCEPT !.stage = "snapshot"]
  /\ UNCHANGED <<desired, cmds, file, privd, applied, pending, observed, faults>>

\* snapshot: the two reads are made by tasks of their own.
execute_read(list) ==
  LET found == IF list = "users" THEN parse_user_file(read_user_file)
               ELSE parse_groups_from_user_file(read_user_file)
  IN
  /\ agent.stage = "snapshot" /\ privd.up /\ list \notin agent.read
  /\ agent' = [agent EXCEPT !.read = @ \cup {list},
                 !.seen = [r \in Resources |-> IF r \in DOMAIN found THEN found[r] ELSE @[r]]]
  /\ UNCHANGED <<desired, cmds, file, privd, applied, pending, observed, faults>>

\* privd is gone or a read fails: the session ends and nothing is reported.
SnapshotIncomplete(failed) ==
  /\ agent.stage = "snapshot" /\ (failed \/ ~privd.up)
  /\ agent' = Idle
  /\ Fault(failed)
  /\ UNCHANGED <<desired, cmds, file, privd, applied, pending, observed>>

\* Mutant: a managed group without members is left out of the report.
build_telemetry_of_file(seen, unread) ==
  [r \in Resources |->
     IF seen[r].known THEN [seen[r] EXCEPT !.revision = IF r \in unread THEN 0 ELSE applied[r]]
     ELSE NoReading]

\* What the journal has applied.
applied_revisions == {r \in Resources : applied[r] > 0}

\* Readings get the revision of the journal, 0 where it cannot be read; a group
\* that was applied and is in no line of the file is reported without members,
\* unless the journal cannot be read.
build_telemetry(seen, unread) ==
  [r \in Resources |->
     IF seen[r].known \/ r \in (Groups \cap applied_revisions) \ unread
     THEN [seen[r] EXCEPT !.known = TRUE, !.revision = IF r \in unread THEN 0 ELSE applied[r]]
     ELSE NoReading]

\* The batches whose observed_at is no later than the Controller's.
Stales == {j \in 1..Len(pending) : pending[j].stale}

\* place: how many batches have an observed_at before this one.
Placed(batch, place) ==
  [j \in 1..(Len(pending) + 1) |->
     IF j <= place THEN pending[j] ELSE IF j = place + 1 THEN batch
     ELSE [pending[j - 1] EXCEPT !.overtaken = @ \/ ~batch.stale]]

\* The Agent's bounded buffer: the batch observed first gives way.
enqueue_telemetry(batch, place) ==
  IF Len(pending) < MaxPending THEN Placed(batch, place) ELSE Tail(Placed(batch, place))

\* The snapshot is complete: its batch is buffered, and sent while there is a
\* session.  observed_at is the node's clock, which may have been set back: then
\* the batch takes a place among earlier ones, or is stale when it is made.
send_telemetry(unread, place, stale) ==
  LET behind == stale \/ place < Len(pending)
      batch == IF stale THEN StaleBatch
               ELSE [report |-> build_telemetry(agent.seen, unread), unread |-> unread,
                     stale |-> FALSE, overtaken |-> FALSE]
  IN
  /\ agent.stage = "snapshot" /\ agent.read = {"users", "groups"}
  /\ IF stale THEN place = 0 ELSE Stales \subseteq 1..place
  /\ pending' = enqueue_telemetry(batch, place)
  /\ agent' = Idle
  /\ Fault(unread # {} \/ behind)
  /\ UNCHANGED <<desired, cmds, file, privd, applied, observed>>

\* Mutant: whatever arrives replaces the observation.
ingestAny(i) ==
  /\ observed' = pending[i].report
  /\ pending' = [j \in 1..(Len(pending) - 1) |-> pending[IF j < i THEN j ELSE j + 1]]
  /\ UNCHANGED <<desired, cmds, file, privd, agent, applied, faults>>

\* Batches travel on streams of their own; one whose observed_at is not after that
\* of the last one ingested changes nothing (UpsertSnapshot).
ingestTx(i) ==
  /\ observed' = IF pending[i].stale THEN observed ELSE pending[i].report
  /\ pending' = [j \in 1..(Len(pending) - 1) |->
                   IF j < i THEN StaleBatch ELSE pending[j + 1]]
  /\ UNCHANGED <<desired, cmds, file, privd, agent, applied, faults>>

\* convergence, of a resource whose last operation is r's last command.
Latest(r) == IF CommandsOf(r) = {} THEN 0
             ELSE CHOOSE i \in CommandsOf(r) : \A j \in CommandsOf(r) : j <= i
convergence(r) ==
  IF desired[r].revision = 0 THEN "drifted"
  ELSE IF Latest(r) # 0 /\ cmds[Latest(r)].state \in {"queued", "dispatched"} THEN "pending"
  ELSE IF /\ observed[r].known /\ observed[r].revision = desired[r].revision
          /\ IF r \in Groups THEN observed[r].members = desired[r].members
             ELSE observed[r].enabled = desired[r].enabled
       THEN "converged" ELSE "drifted"

UserStateNext ==
  \/ \E r \in Resources, kind \in UserKinds \cup {"group_apply"}, members \in Members \cup {{}} :
       Mutate(r, kind, members)
  \/ \E i \in 1..Len(cmds) :
       \/ Claim(i) \/ Release(i) \/ ExpireQueued(i)
       \/ \E reported \in BOOLEAN : Deliver(i, reported)
       \/ stage_user_file(i) \/ MutationFails(i)
       \/ \E stored \in BOOLEAN : commit_desired_staging(i, stored)
       \/ \E lost \in BOOLEAN : CommandEnds(i, lost)
       \/ (\E lost \in BOOLEAN : AgentInterrupted(i, lost)) \/ Reconcile(i)
  \/ PrivdCrash \/ cleanup_stale_user_staging
  \/ Heartbeat \/ \E list \in {"users", "groups"} : execute_read(list)
  \/ \E failed \in BOOLEAN : SnapshotIncomplete(failed)
  \/ \E unread \in SUBSET applied_revisions, place \in 0..Len(pending), stale \in BOOLEAN :
       send_telemetry(unread, place, stale)
  \/ \E i \in 1..Len(pending) : ingestTx(i)

\* privd is restarted by systemd; a command under way ends, by its reply or by
\* the deadline of the call; the Agent's loop polls its branches in random
\* order, so a due heartbeat is served, and a snapshot goes on to its end;
\* telemetry is ingested in the end.
UserStateSpec ==
  /\ UserStateInit /\ [][UserStateNext]_userVars
  /\ WF_userVars(cleanup_stale_user_staging)
  /\ SF_userVars(Heartbeat)
  /\ WF_userVars(\/ \E list \in {"users", "groups"} : execute_read(list)
                 \/ SnapshotIncomplete(FALSE) \/ send_telemetry({}, Len(pending), FALSE))
  /\ WF_userVars(\E i \in 1..Len(cmds) :
                    \/ stage_user_file(i) \/ commit_desired_staging(i, TRUE)
                    \/ CommandEnds(i, FALSE) \/ AgentInterrupted(i, FALSE))
  /\ WF_userVars(\E i \in 1..Len(pending) : ingestTx(i))

(***************************************************************************)
(* Properties.                                                             *)
(***************************************************************************)

\* The value a resource has on the host.
OnHost(r) ==
  IF r \in Groups THEN {u \in In(file) : r \in file[u].groups} = desired[r].members
  ELSE /\ r \in In(file)
       /\ file[r].locked = ~desired[r].enabled /\ file[r].password = desired[r].password

Succeeded(r) == IF Latest(r) = 0 THEN FALSE ELSE cmds[Latest(r)].state = "succeeded"

\* When the last change of a resource is reported as succeeded, the host holds
\* all that was ever asked of it, whatever other changes rewrote the file in
\* between: the password of the last creation or rotation, the lock marker of
\* the last enable or disable, and exactly the members of the last group
\* apply (user_secret_apply, user_lock_state, group_apply, Mutate).
SucceededIsOnHost == \A r \in Resources : Succeeded(r) => OnHost(r)

\* A command that the Agent took while its send was reported as failed, and that
\* the Controller gave up as never sent.
Strayed(i) == cmds[i].taken /\ cmds[i].state \in {"expired", "superseded"}

\* A resource reported as converged holds the effect of its last change, also
\* where revisions are used again after a failure and where the fingerprint
\* cannot tell (a password): the change was published, and the user the
\* Controller saw had that password (convergence, revisionReplacement).  The one
\* exception: a command that strayed was published under the same revision.
ConvergedIsApplied ==
  \A r \in Resources : convergence(r) = "converged" =>
    \/ /\ Latest(r) # 0 => cmds[Latest(r)].published
       /\ r \in Users => observed[r].password = desired[r].password
    \/ \E i \in CommandsOf(r) : /\ Strayed(i) /\ cmds[i].published
                                /\ cmds[i].revision = desired[r].revision

\* The batch that is ingested could not name the revision of r, or was made before
\* what it replaces.
Misleading(r) ==
  \E k \in 1..Len(pending) : /\ ~pending[k].stale /\ observed' = pending[k].report
                            /\ (r \in pending[k].unread \/ pending[k].overtaken)

\* A converged resource stays converged until it is changed: late, reordered
\* and superseded telemetry, and changes of other resources, cannot make it
\* drift.  Only a batch can that was built while the journal could not be read,
\* or that was overtaken because the node's clock was set back (UpsertSnapshot,
\* build_telemetry).
ConvergedIsStable ==
  [][\A r \in Resources : convergence(r) = "converged" =>
       convergence(r)' = "converged" \/ Latest(r)' # Latest(r) \/ Misleading(r)]_userVars

\* A change that succeeded is reported as converged in the end, a group that
\* lost its last member included, unless it is changed again (build_telemetry,
\* applied_revisions, convergence).
SucceededConverges ==
  \A r \in Resources :
    Succeeded(r) ~> (convergence(r) = "converged" \/ ~Succeeded(r))
=============================================================================
