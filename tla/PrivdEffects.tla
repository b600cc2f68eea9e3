---------------------------- MODULE PrivdEffects ----------------------------
(***************************************************************************)
(* privd: the root process that performs a Controller-authorised effect on *)
(* the host (rust/crates/privd, rust/crates/ocserv-adapter).               *)
(*                                                                         *)
(* Two durable tables stand between a signed request and the host:         *)
(*   authorized_effects  one row per command: reserved ("prepared") before *)
(*                       the effect, "applied" with the signed response    *)
(*                       once it is attested;                              *)
(*   desired_effects     one row per (mutation kind, user): the whole-file *)
(*                       transition of the password file, "prepared"       *)
(*                       before the rename and "applied" after it.         *)
(* Requests run concurrently in Slots; a request may be cut off by its     *)
(* deadline at every await, and the process may crash between any two      *)
(* steps.  Nothing is assumed of the caller: every signed command may be   *)
(* presented in every mode, at any time and any number of times.           *)
(***************************************************************************)
EXTENDS Naturals, FiniteSets

CONSTANTS
  Commands,    \* signed commands; one command = one idempotency key
  Slots,       \* concurrent privd clients (MAX_CONCURRENT_CLIENTS)
  Users,       \* entries of the password file
  Kind,        \* [Commands -> Mutations \cup {"fixed"}]
  User,        \* [Commands -> Users]: the entry a user mutation rewrites
  Revision,    \* [Commands -> positive naturals]: the desired revision
  MaxRecords,  \* MAX_EFFECT_RECORDS
  Missing,     \* the content of an entry that is not in the file
  Local        \* the content of an entry that no command has written

Mutations == {"user_create", "user_password_rotate"}

ASSUME ConstantsAssumption ==
  /\ Kind \in [Commands -> Mutations \cup {"fixed"}]
  /\ User \in [Commands -> Users]
  /\ Revision \in [Commands -> Nat \ {0}]
  /\ MaxRecords \in Nat
  /\ Missing \notin Commands /\ Local \notin Commands /\ Missing # Local

VARIABLES
  authorized,  \* authorized_effects
  desired,     \* desired_effects
  file,        \* the password file: which command wrote each entry
  slot,        \* the requests in progress
  expired,     \* commands whose signed deadline has passed
  performed    \* history: how often the command's effect reached the host

privdVars == <<authorized, desired, file, slot, expired, performed>>

(***************************************************************************)
(* Data.                                                                   *)
(***************************************************************************)

Modes == {"execute", "retry", "reconcile"}
Keys == Mutations \X Users
Key(c) == <<Kind[c], User[c]>>
Files == [Users -> Commands \cup {Missing, Local}]

\* Session, ban-removal and reload effects leave no evidence on the host.
Fixed(c) == Kind[c] = "fixed"

AuthorizedRows ==
  [state : {"none", "prepared", "applied"}, mode : Modes,
   response : {"none", "ok", "rejected"}]
DesiredRows ==
  [state : {"none", "prepared", "applied"}, cmd : Commands \cup {Missing},
   before : Files, after : Files]

Attested == {"ok", "rejected"}
Observations == {"applied_exact", "superseded", "absent", "unknown"}
Replies == Attested \cup Observations \cup {"none", "unattested"}
Holding == {"locked", "prepared", "published"}   \* stages under user_file_lock
Stages == Holding \cup {"idle", "run", "performed", "finish", "observe", "replied"}
SlotStates ==
  [stage : Stages, cmd : Commands \cup {Missing}, mode : Modes, before : Files,
   reply : Replies]

NoAuthorized == [state |-> "none", mode |-> "execute", response |-> "none"]
EmptyFile == [u \in Users |-> Missing]
NoDesired ==
  [state |-> "none", cmd |-> Missing, before |-> EmptyFile, after |-> EmptyFile]
IdleSlot ==
  [stage |-> "idle", cmd |-> Missing, mode |-> "execute", before |-> EmptyFile,
   reply |-> "none"]

PrivdTypeOK ==
  /\ authorized \in [Commands -> AuthorizedRows]
  /\ desired \in [Keys -> DesiredRows]
  /\ file \in Files
  /\ slot \in [Slots -> SlotStates]
  /\ expired \subseteq Commands
  /\ performed \in [Commands -> Nat]

PrivdInit ==
  /\ authorized = [c \in Commands |-> NoAuthorized]
  /\ desired = [k \in Keys |-> NoDesired]
  /\ file \in [Users -> {Missing, Local}]
  /\ slot = [s \in Slots |-> IdleSlot]
  /\ expired = {}
  /\ performed = [c \in Commands |-> 0]

\* The staged file: the entry of the command's user replaced by its content.
After(f, c) == [f EXCEPT ![User[c]] = c]

\* Mutant: user_file_lock excludes nobody.
UserFileNeverLocked == TRUE

UserFileUnlocked == \A t \in Slots : slot[t].stage \notin Holding

Stage(s, stage) == slot' = [slot EXCEPT ![s].stage = stage]
Settle(s, c, mode, stage, reply) ==
  slot' = [slot EXCEPT ![s] = [stage |-> stage, cmd |-> c, mode |-> mode,
                               before |-> EmptyFile, reply |-> reply]]
Start(s, c, mode, stage) == Settle(s, c, mode, stage, "none")
Finish(s, result) == Settle(s, slot[s].cmd, slot[s].mode, "finish", result)
Answer(s, c, reply) == Settle(s, c, "execute", "replied", reply)
Reply(s, reply) == Answer(s, slot[s].cmd, reply)

(***************************************************************************)
(* A request: validate_request, then execute_command up to its first await *)
(* (the decision of prepare_authorized).                                   *)
(***************************************************************************)

\* Successful authorisations whose deadline has passed may be forgotten.
prune_expired_authorized_effects(rows) ==
  [c \in Commands |->
     IF rows[c].state = "applied" /\ c \in expired THEN NoAuthorized ELSE rows[c]]

AuthorizedCount(rows) == Cardinality({c \in Commands : rows[c].state # "none"})

\* The signed deadline has passed, the store is unavailable or full, mutations
\* are quarantined: an error without a receipt, and nothing changes.
ExecuteRefused(s, c, mode) ==
  /\ slot[s].stage = "idle"
  /\ mode \in {"execute", "retry"}
  /\ Answer(s, c, "unattested")
  /\ UNCHANGED <<authorized, desired, file, expired, performed>>

\* A retry grant for a fixed host effect never reaches the executor.
ReplayOnly(s, c) ==
  /\ slot[s].stage = "idle"
  /\ Fixed(c) /\ c \notin expired
  /\ Answer(s, c,
           IF authorized[c].state = "applied" THEN authorized[c].response
           ELSE "unattested")
  /\ UNCHANGED <<authorized, desired, file, expired, performed>>

\* prepare_authorized finds a row of this command.
prepare_authorized_existing(s, c, mode) ==
  /\ slot[s].stage = "idle"
  /\ c \notin expired
  /\ mode \in {"execute", "retry"} /\ ~(Fixed(c) /\ mode = "retry")
  /\ \/ /\ authorized[c].state = "applied"                       \* Replay
        /\ Answer(s, c, authorized[c].response)
        /\ UNCHANGED authorized
     \/ /\ authorized[c].state = "prepared"
        /\ mode = "retry" /\ authorized[c].mode = "execute"      \* Execute
        /\ authorized' = [authorized EXCEPT ![c].mode = "retry"]
        /\ Start(s, c, mode, "run")
     \/ /\ authorized[c].state = "prepared"
        /\ ~(mode = "retry" /\ authorized[c].mode = "execute")   \* Pending
        /\ Answer(s, c, "unattested")
        /\ UNCHANGED authorized
  /\ UNCHANGED <<desired, file, expired, performed>>

\* prepare_authorized reserves the command: expired successes are pruned first.
prepare_authorized_new(s, c, mode) ==
  LET kept == prune_expired_authorized_effects(authorized) IN
  /\ slot[s].stage = "idle"
  /\ c \notin expired
  /\ mode \in {"execute", "retry"} /\ ~(Fixed(c) /\ mode = "retry")
  /\ authorized[c].state = "none"
  /\ AuthorizedCount(kept) < MaxRecords
  /\ authorized' = [kept EXCEPT ![c] =
                      [state |-> "prepared", mode |-> mode, response |-> "none"]]
  /\ Start(s, c, mode, "run")
  /\ UNCHANGED <<desired, file, expired, performed>>

(***************************************************************************)
(* The effect.                                                             *)
(***************************************************************************)

\* A stale boot or an unsupported version is refused before the child runs.
FixedRejected(s) ==
  /\ slot[s].stage = "run" /\ Fixed(slot[s].cmd)
  /\ Finish(s, "rejected")
  /\ UNCHANGED <<authorized, desired, file, expired, performed>>

\* occtl or systemctl acts on the host.
FixedEffect(s) ==
  /\ slot[s].stage = "run" /\ Fixed(slot[s].cmd)
  /\ performed' = [performed EXCEPT ![slot[s].cmd] = @ + 1]
  /\ Stage(s, "performed")
  /\ UNCHANGED <<authorized, desired, file, expired>>

FixedSucceeded(s) ==
  /\ slot[s].stage = "performed"
  /\ Finish(s, "ok")
  /\ UNCHANGED <<authorized, desired, file, expired, performed>>

\* user_secret_apply takes user_file_lock and reads the file.
LockUserFile(s) ==
  /\ slot[s].stage = "run" /\ ~Fixed(slot[s].cmd)
  /\ UserFileUnlocked
  /\ slot' = [slot EXCEPT ![s].stage = "locked", ![s].before = file]
  /\ UNCHANGED <<authorized, desired, file, expired, performed>>

\* user_create needs the user to be absent, a rotation needs it to exist.
Applicable(c, f) == (Kind[c] = "user_create") <=> (f[User[c]] = Missing)

SameTransition(row, c, f) == row.cmd = c /\ row.before = f

\* Every prepared transition must be the file as it is now, or be this one.
PendingResolved(c, f) ==
  \A k \in Keys : desired[k].state = "prepared" =>
    \/ desired[k].after = f
    \/ k = Key(c) /\ SameTransition(desired[k], c, f)

\* Prepared transitions that reached the file are promoted to applied.
Promoted(f) ==
  [k \in Keys |-> IF desired[k].state = "prepared" /\ desired[k].after = f
                  THEN [desired[k] EXCEPT !.state = "applied"] ELSE desired[k]]

\* The reasons for a terminal (attested) rejection of a user mutation.
DesiredRefused(c, f) ==
  LET row == desired[Key(c)] IN
  \/ ~Applicable(c, f)
  \/ c \in expired
  \/ PendingResolved(c, f) /\ row.state # "none" /\ row.cmd # c
       /\ Revision[row.cmd] >= Revision[c]

PrepareRejected(s) ==
  /\ slot[s].stage = "locked"
  /\ DesiredRefused(slot[s].cmd, slot[s].before)
  /\ Finish(s, "rejected")
  /\ UNCHANGED <<authorized, desired, file, expired, performed>>

\* The sealed password, the file or the number of its users is unacceptable.
InputRejected(s) ==
  /\ slot[s].stage = "locked"
  /\ Finish(s, "rejected")
  /\ UNCHANGED <<authorized, desired, file, expired, performed>>

\* Another transition is unresolved: every mutation waits for it.
PrepareBlocked(s) ==
  LET c == slot[s].cmd IN
  /\ slot[s].stage = "locked"
  /\ Applicable(c, slot[s].before) /\ c \notin expired
  /\ ~PendingResolved(c, slot[s].before)
  /\ Reply(s, "unattested")
  /\ UNCHANGED <<authorized, desired, file, expired, performed>>

\* EffectStore::prepare
prepare(s) ==
  LET c == slot[s].cmd
      f == slot[s].before
      rows == Promoted(f)
      row == rows[Key(c)]
  IN
  /\ slot[s].stage = "locked"
  /\ Applicable(c, f) /\ c \notin expired
  /\ PendingResolved(c, f)
  /\ ~DesiredRefused(c, f)
  /\ IF row.state = "applied" /\ row.cmd = c                  \* AlreadyApplied
     THEN /\ desired' = rows
          /\ Finish(s, "ok")
     ELSE /\ desired' = [rows EXCEPT ![Key(c)] =
                           [state |-> "prepared", cmd |-> c, before |-> f,
                            after |-> After(f, c)]]
          /\ Stage(s, "prepared")
  /\ UNCHANGED <<authorized, file, expired, performed>>

\* publish_user_staging: the atomic rename over the authoritative file.
publish_user_staging(s) ==
  LET c == slot[s].cmd IN
  /\ slot[s].stage = "prepared"
  /\ file' = After(slot[s].before, c)
  /\ performed' = [performed EXCEPT ![c] = @ + 1]
  /\ Stage(s, "published")
  /\ UNCHANGED <<authorized, desired, expired>>

mark_applied(s) ==
  LET c == slot[s].cmd IN
  /\ slot[s].stage = "published"
  /\ desired' = [desired EXCEPT ![Key(c)].state = "applied"]
  /\ Finish(s, "ok")
  /\ UNCHANGED <<authorized, file, expired, performed>>

\* The rename, its fsync or the store fails, without a receipt.
PublishFailed(s) ==
  /\ slot[s].stage \in {"prepared", "published"}
  /\ Reply(s, "unattested")
  /\ UNCHANGED <<authorized, desired, file, expired, performed>>

(***************************************************************************)
(* build_result_proof and complete_authorized.                             *)
(***************************************************************************)

complete_authorized(s) ==
  LET c == slot[s].cmd
      row == authorized[c]
  IN
  /\ slot[s].stage = "finish"
  /\ \/ /\ row.state = "prepared"
        /\ authorized' = [authorized EXCEPT ![c] =
             [state |-> "applied", mode |-> slot[s].mode, response |-> slot[s].reply]]
        /\ Reply(s, slot[s].reply)
     \/ /\ row.state = "applied" /\ row.response = slot[s].reply
        /\ Reply(s, slot[s].reply)
        /\ UNCHANGED authorized
  /\ UNCHANGED <<desired, file, expired, performed>>

\* The row is gone or holds another response, or the store fails.
CompleteFailed(s) ==
  /\ slot[s].stage = "finish"
  /\ Reply(s, "unattested")
  /\ UNCHANGED <<authorized, desired, file, expired, performed>>

(***************************************************************************)
(* reconcile_command: replay the attested response, else observe the file. *)
(***************************************************************************)

replay_authorized(s, c) ==
  /\ slot[s].stage = "idle"
  /\ IF authorized[c].state = "applied"
     THEN Answer(s, c, authorized[c].response)
     ELSE IF Fixed(c) THEN Answer(s, c, "unattested")
          ELSE Start(s, c, "reconcile", "observe")
  /\ UNCHANGED <<authorized, desired, file, expired, performed>>

\* Mutant: a prepared row is reported absent without reading the file.
ObservedWithoutFile(c) ==
  LET row == desired[Key(c)] IN
  IF row.state = "none" \/ row.cmd # c THEN "unknown"
  ELSE IF row.state = "applied" THEN "applied_exact" ELSE "absent"

Observed(c) ==
  LET row == desired[Key(c)] IN
  IF row.state = "none" THEN "unknown"
  ELSE IF row.cmd # c
       THEN IF Revision[row.cmd] > Revision[c] THEN "superseded" ELSE "unknown"
  ELSE IF row.state = "applied" \/ row.after = file THEN "applied_exact"
  ELSE IF row.before = file THEN "absent" ELSE "unknown"

observe(s) ==
  LET c == slot[s].cmd IN
  /\ slot[s].stage = "observe"
  /\ UserFileUnlocked
  /\ desired' = IF Observed(c) = "applied_exact"
                THEN [desired EXCEPT ![Key(c)].state = "applied"] ELSE desired
  /\ Reply(s, Observed(c))
  /\ UNCHANGED <<authorized, file, expired, performed>>

(***************************************************************************)
(* The end of a request, the deadline of a request, a crash, the clock.    *)
(***************************************************************************)

\* The Agent reads the response, or has gone away.
TakeReply(s) ==
  /\ slot[s].stage = "replied"
  /\ slot' = [slot EXCEPT ![s] = IdleSlot]
  /\ UNCHANGED <<authorized, desired, file, expired, performed>>

\* The deadline, a failed child or failed I/O ends a request at an await.
DeadlineExceeded(s) ==
  /\ slot[s].stage \in {"run", "locked", "performed", "observe"}
  /\ Reply(s, "unattested")
  /\ UNCHANGED <<authorized, desired, file, expired, performed>>

PrivdCrash ==
  /\ slot # [s \in Slots |-> IdleSlot]
  /\ slot' = [s \in Slots |-> IdleSlot]
  /\ UNCHANGED <<authorized, desired, file, expired, performed>>

CommandExpires(c) ==
  /\ c \notin expired
  /\ expired' = expired \cup {c}
  /\ UNCHANGED <<authorized, desired, file, slot, performed>>

\* A request presented to privd.
Request(s, c, mode) ==
  \/ ExecuteRefused(s, c, mode)
  \/ mode = "retry" /\ ReplayOnly(s, c)
  \/ prepare_authorized_existing(s, c, mode)
  \/ prepare_authorized_new(s, c, mode)
  \/ mode = "reconcile" /\ replay_authorized(s, c)

\* A step privd takes on its own for the request of slot s.
PrivdStep(s) ==
  \/ FixedRejected(s) \/ FixedEffect(s) \/ FixedSucceeded(s)
  \/ LockUserFile(s) \/ InputRejected(s) \/ PrepareRejected(s) \/ PrepareBlocked(s)
  \/ prepare(s) \/ publish_user_staging(s) \/ PublishFailed(s) \/ mark_applied(s)
  \/ complete_authorized(s) \/ CompleteFailed(s)
  \/ observe(s) \/ DeadlineExceeded(s)

PrivdNext ==
  \/ \E s \in Slots, c \in Commands, mode \in Modes : Request(s, c, mode)
  \/ \E s \in Slots : PrivdStep(s) \/ TakeReply(s)
  \/ PrivdCrash
  \/ \E c \in Commands : CommandExpires(c)

PrivdSpec == PrivdInit /\ [][PrivdNext]_privdVars

(***************************************************************************)
(* Properties.                                                             *)
(***************************************************************************)

\* However often, in whatever mode and in however many concurrent requests a
\* command is presented, and wherever privd crashes, its effect reaches the
\* host at most once (prepare_authorized, EffectStore::prepare).
EffectAtMostOnce == \A c \in Commands : performed[c] <= 1

\* A signed success is only ever stored, replayed or returned for an effect
\* that did reach the host (complete_authorized, replay_authorized).
AttestedSuccessIsReal ==
  /\ \A c \in Commands : authorized[c].response = "ok" => performed[c] = 1
  /\ \A s \in Slots : slot[s].reply = "ok" => performed[slot[s].cmd] = 1

\* What reconciliation would report of a user mutation is the truth: absent
\* means it never reached the file and applied_exact that it did
\* (EffectStore::observe; the observation waits for user_file_lock).
ObservationSound ==
  UserFileUnlocked =>
    \A c \in Commands : ~Fixed(c) =>
      /\ Observed(c) = "absent" => performed[c] = 0
      /\ Observed(c) = "applied_exact" => performed[c] = 1

\* No later write destroys recovery evidence: the file is always the before- or
\* the after-state of every transition that is still unresolved
\* (EffectStore::prepare resolves or refuses before it starts another one).
EvidenceNotOverwritten ==
  \A k \in Keys : desired[k].state = "prepared" =>
    file \in {desired[k].before, desired[k].after}

\* Effects of one mutation kind on one user reach the file in the order of
\* their desired revisions: an old payload never overwrites a newer one.
PublishedInRevisionOrder ==
  [][\A c, d \in Commands :
       /\ ~Fixed(c) /\ c # d /\ Key(c) = Key(d)
       /\ performed'[c] # performed[c] /\ performed[d] > 0
       => Revision[d] < Revision[c]]_privdVars
=============================================================================
