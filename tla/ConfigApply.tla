---------------------------- MODULE ConfigApply ----------------------------
(***************************************************************************)
(* Publication of the ocserv configuration by privd's adapter: a plan      *)
(* fingerprints the file, an apply writes a backup, publishes the approved *)
(* candidate by rename, reloads ocserv and either retains the backup as a  *)
(* success or puts it back.  The configuration lock serialises plan, apply *)
(* and observation, so what interleaves are the faults: the request's      *)
(* deadline dropping the apply at any await, an I/O error, a crash of      *)
(* privd and a daemon that fails one health check.                         *)
(*                                                                         *)
(* Abstractions: a content stands for the file's bytes, its SHA-256 and    *)
(* its HMAC; the names of the saved files are UUIDv7, so a sequence in     *)
(* order of creation is the sorted directory listing; file identities and  *)
(* signatures are always right.                                            *)
(***************************************************************************)
EXTENDS Naturals, SequencesExt

CONSTANTS
    Contents,     \* contents of the configuration file
    Base,         \* the content the node was installed with
    Healthy,      \* contents ocserv runs with
    Commands,     \* apply commands
    Candidate,    \* Candidate[c]: the content command c publishes
    Revision,     \* Revision[c]: its desired revision
    Complete,     \* commands that publish a complete materialised profile
    Malformed,    \* commands whose candidate is not in the accepted form
    Binding,      \* Binding[x]: the startup bindings of content x
    KeepLast,     \* successes kept, 10 in the code
    MaxPresented, \* bound: presentations of a command to privd
    MaxFailures     \* bound: crashes, dropped applies and failed health checks

ASSUME ConfigConstants ==
    /\ Healthy \subseteq Contents /\ Base \in Healthy
    /\ "none" \notin Contents /\ "none" \notin Commands
    /\ Candidate \in [Commands -> Contents]
    /\ Revision \in [Commands -> Nat \ {0}]
    /\ Complete \subseteq Commands /\ Malformed \subseteq Commands
    /\ DOMAIN Binding = Contents
    /\ KeepLast \in Nat \ {0} /\ MaxPresented \in Nat /\ MaxFailures \in Nat

VARIABLES
    conf,       \* the configuration file
    running,    \* the content the daemon has loaded (external)
    backups,    \* .ocservia-backup- files, oldest first
    successes,  \* .ocservia-success- files, oldest first
    row,        \* the desired_effects row of ocserv.conf
    plan,       \* plan[c]: the current hash the plan of c returned
    tls,        \* whether the pinned node-local TLS material is in place
    live,       \* commands whose plan and signature have not expired
    pc,         \* where the apply holding the configuration lock is
    cmd,        \* the command it applies
    saved,      \* the saved file it retains or puts back
    reply,      \* reply[c]: the last outcome privd returned for c
    presented, failures

files  == <<conf, backups, successes>>
worker == <<pc, cmd, saved>>
vars   == <<conf, running, backups, successes, row, plan, tls, live, pc, cmd, saved,
            reply, presented, failures>>

None    == "none"
NoFile  == [kind |-> None, at |-> 0]
NoRow   == [state |-> None, cmd |-> None, before |-> Base, after |-> Base]
Stages  == {"read", "prepare", "recover", "backup", "stage", "test", "publish", "health",
            "retain", "prune", "applied", "restore", "reload", "absent"}
Replies == {None, "applied", "rolled_back", "failed_critical", "error", "rejected"}

ConfigTypeOK ==
    /\ conf \in Contents /\ running \in Contents
    /\ backups \in Seq(Contents) /\ successes \in Seq(Contents)
    /\ row \in [state : {None, "prepared", "applied", "absent"}, cmd : Commands \cup {None},
                before : Contents, after : Contents]
    /\ plan \in [Commands -> Contents \cup {None}] /\ live \subseteq Commands /\ tls \in BOOLEAN
    /\ pc \in Stages \cup {"idle"} /\ cmd \in Commands \cup {None}
    /\ saved \in [kind : {None, "backup", "success"}, at : Nat]
    /\ reply \in [Commands -> Replies]
    /\ presented \in 0..MaxPresented /\ failures \in 0..MaxFailures

Init ==
    /\ conf = Base /\ running = Base /\ backups = <<>> /\ successes = <<>>
    /\ row = NoRow
    /\ plan = [c \in Commands |-> None] /\ live = Commands /\ tls = TRUE
    /\ pc = "idle" /\ cmd = None /\ saved = NoFile
    /\ reply = [c \in Commands |-> None]
    /\ presented = 0 /\ failures = 0

Goto(stage) == pc' = stage /\ UNCHANGED <<cmd, saved, reply>>

\* The apply returns: its guards release the lock and its reply is attested.
Return(outcome) ==
    /\ pc' = "idle" /\ cmd' = None /\ saved' = NoFile
    /\ reply' = [reply EXCEPT ![cmd] = outcome]

\* The startup bindings a reload cannot change.
validate_reload_bindings(current, c) == c \in Complete => Binding[current] = Binding[Candidate[c]]

\* A legacy candidate: the directives the platform manages, and no others.
validate_config_candidate(c) == c \in Complete \/ c \notin Malformed

\* A complete candidate: the canonical order, names and values of its profile.
canonical(c) == c \in Complete => c \notin Malformed

\* The complete file is built from pinned TLS material, found under a shared lock.
materialize_complete(c) == c \in Complete => tls

\* The newest saved file with this content; a backup is preferred to a success.
find_config_recovery(content) ==
    LET At(s) == {i \in DOMAIN s : s[i] = content}
    IN  CASE At(backups) # {}   -> [kind |-> "backup", at |-> Max(At(backups))]
          [] At(backups) = {} /\ At(successes) # {}
                                -> [kind |-> "success", at |-> Max(At(successes))]
          [] OTHER              -> NoFile

-----------------------------------------------------------------------------
(* Requests                                                                *)

\* A plan validates the candidate and returns the fingerprint it holds for.
Plan(c) ==
    /\ pc = "idle" /\ c \in live \ Complete /\ plan[c] = None
    /\ validate_config_candidate(c)
    /\ plan' = [plan EXCEPT ![c] = conf]
    /\ UNCHANGED <<files, running, row, tls, live, worker, reply, presented, failures>>

\* The plan of a complete profile also builds it and compares startup bindings.
complete_config_plan(c) ==
    /\ pc = "idle" /\ c \in live \cap Complete /\ plan[c] = None
    /\ canonical(c) /\ materialize_complete(c) /\ validate_reload_bindings(conf, c)
    /\ plan' = [plan EXCEPT ![c] = conf]
    /\ UNCHANGED <<files, running, row, tls, live, worker, reply, presented, failures>>

\* The approved plan or the signed command runs out of time.
Expire(c) ==
    /\ c \in live /\ plan[c] # None
    /\ live' = live \ {c}
    /\ UNCHANGED <<files, running, row, plan, tls, worker, reply, presented, failures>>

\* The operator withdraws or restores the TLS material, under the exclusive lock.
ProvisionTls ==
    /\ pc # "idle" => cmd \notin Complete
    /\ failures < MaxFailures
    /\ tls' = ~tls /\ failures' = failures + 1
    /\ UNCHANGED <<files, running, row, plan, live, worker, reply, presented>>

\* A signed apply command reaches privd, for the first time or again.
Present(c) ==
    /\ pc = "idle"
    /\ plan[c] # None \/ c \in Malformed
    /\ presented < MaxPresented
    /\ presented' = presented + 1
    /\ IF /\ c \in live
          /\ validate_config_candidate(c) /\ canonical(c) /\ materialize_complete(c)
       THEN /\ pc' = "read" /\ cmd' = c
            /\ reply' = [reply EXCEPT ![c] = None]
            /\ UNCHANGED saved
       ELSE /\ reply' = [reply EXCEPT ![c] = "rejected"] /\ UNCHANGED worker
    /\ UNCHANGED <<files, running, row, plan, tls, live, failures>>

\* The fingerprint must be the one planned for, or already the candidate's.
ReadCurrent ==
    /\ pc = "read"
    /\ \/ /\ conf \in {plan[cmd], Candidate[cmd]} /\ validate_reload_bindings(conf, cmd)
          /\ Goto("prepare")
       \/ /\ ~(conf \in {plan[cmd], Candidate[cmd]} /\ validate_reload_bindings(conf, cmd))
          /\ Return("error")
    /\ UNCHANGED <<files, running, row, plan, tls, live, presented, failures>>

\* A prepared row blocks every other apply until its own effect is seen or undone.
BlockedByPrepared ==
    /\ row.state = "prepared" /\ conf # row.after
    /\ conf # row.before \/ row.cmd # cmd

\* Mutant: the recorded revision is not compared.
Refused_AnyRevision ==
    /\ row.state # None
    /\ row.cmd = cmd /\ row.state # "applied" /\ conf \notin {row.after, row.before}

\* The row that the command may not replace.
Refused ==
    /\ row.state # None
    /\ \/ Revision[row.cmd] > Revision[cmd]
       \/ Revision[row.cmd] = Revision[cmd] /\ row.cmd # cmd
       \/ row.cmd = cmd /\ row.state # "applied" /\ conf \notin {row.after, row.before}

\* The effect store records the before and after images, or knows the command.
Prepare ==
    /\ pc = "prepare"
    /\ \/ /\ BlockedByPrepared \/ Refused \/ cmd \notin live
          /\ Return("error") /\ UNCHANGED row
       \/ /\ ~BlockedByPrepared /\ ~Refused /\ cmd \in live
          /\ row.cmd = cmd /\ row.state = "applied"
          /\ Return(IF conf = Candidate[cmd] THEN "applied" ELSE "error")
          /\ UNCHANGED row
       \/ /\ ~BlockedByPrepared /\ ~Refused /\ cmd \in live
          /\ ~(row.cmd = cmd /\ row.state = "applied")
          /\ row' = IF row.cmd = cmd /\ conf = row.after THEN row
                    ELSE [state |-> "prepared", cmd |-> cmd,
                          before |-> conf, after |-> Candidate[cmd]]
          /\ Goto(IF conf = Candidate[cmd] THEN "recover" ELSE "backup")
    /\ UNCHANGED <<files, running, plan, tls, live, presented, failures>>

-----------------------------------------------------------------------------
(* Publication                                                             *)

\* The candidate is already published: find what it was published over.
Recover ==
    /\ pc = "recover"
    /\ saved' = find_config_recovery(plan[cmd])
    /\ pc' = "health"
    /\ UNCHANGED <<files, running, row, plan, tls, live, cmd, reply, presented, failures>>

WriteBackup ==
    /\ pc = "backup"
    /\ backups' = Append(backups, conf)
    /\ saved' = [kind |-> "backup", at |-> Len(backups) + 1]
    /\ pc' = "stage"
    /\ UNCHANGED <<conf, running, successes, row, plan, tls, live, cmd, reply, presented, failures>>

\* The staged candidate; a complete profile is tested before it is published.
WriteStage ==
    /\ pc = "stage"
    /\ Goto(IF cmd \in Complete THEN "test" ELSE "publish")
    /\ UNCHANGED <<files, running, row, plan, tls, live, presented, failures>>

\* ocserv tests the staged profile; one that does not pass is dropped, and the
\* guarded backup with it.
TestStage ==
    /\ pc = "test"
    /\ \/ Goto("publish") /\ UNCHANGED backups
       \/ /\ Candidate[cmd] \notin Healthy
          /\ Return("error") /\ backups' = Front(backups)
    /\ UNCHANGED <<conf, running, successes, row, plan, tls, live, presented, failures>>

Publish ==
    /\ pc = "publish"
    /\ conf' = Candidate[cmd]
    /\ Goto("health")
    /\ UNCHANGED <<running, backups, successes, row, plan, tls, live, presented, failures>>

\* config_health: test, reload, unit status and session list.
HealthPasses == conf \in Healthy /\ running' = conf

\* It fails for a content the daemon cannot run, or once in a while for any,
\* before or after the reload took effect.
HealthFails ==
    /\ running' \in {running, conf}
    /\ \/ conf \notin Healthy /\ UNCHANGED failures
       \/ conf \in Healthy /\ failures < MaxFailures /\ failures' = failures + 1

\* Health of the candidate decides between retaining and putting back; a
\* recovered candidate with nothing saved beside it can only be reported.
CheckCandidate ==
    /\ pc = "health"
    /\ \/ HealthPasses /\ saved.kind = "backup" /\ Goto("retain") /\ UNCHANGED failures
       \/ HealthPasses /\ saved.kind = "success" /\ Goto("applied") /\ UNCHANGED failures
       \/ HealthPasses /\ saved.kind = None /\ Return("error") /\ UNCHANGED failures
       \/ HealthFails /\ saved.kind # None /\ Goto("restore")
       \/ HealthFails /\ saved.kind = None /\ Return("failed_critical")
    /\ UNCHANGED <<files, row, plan, tls, live, presented>>

Retain ==
    /\ pc = "retain"
    /\ successes' = Append(successes, backups[saved.at])
    /\ backups' = RemoveAt(backups, saved.at)
    /\ saved' = NoFile /\ pc' = "prune"
    /\ UNCHANGED <<conf, running, row, plan, tls, live, cmd, reply, presented, failures>>

prune_config_backups ==
    /\ pc = "prune"
    /\ successes' = LET n == Len(successes)
                    IN  SubSeq(successes, IF n > KeepLast THEN n - KeepLast + 1 ELSE 1, n)
    /\ Goto("applied")
    /\ UNCHANGED <<conf, running, backups, row, plan, tls, live, presented, failures>>

mark_applied ==
    /\ pc = "applied"
    /\ row' = [row EXCEPT !.state = "applied"]
    /\ Return("applied")
    /\ UNCHANGED <<files, running, plan, tls, live, presented, failures>>

\* The saved file is renamed over the configuration.
Restore ==
    /\ pc = "restore"
    /\ conf' = IF saved.kind = "backup" THEN backups[saved.at] ELSE successes[saved.at]
    /\ backups' = IF saved.kind = "backup" THEN RemoveAt(backups, saved.at) ELSE backups
    /\ successes' = IF saved.kind = "success" THEN RemoveAt(successes, saved.at) ELSE successes
    /\ saved' = NoFile /\ pc' = "reload"
    /\ UNCHANGED <<running, row, plan, tls, live, cmd, reply, presented, failures>>

\* Mutant: the restored content is compared but not reloaded.
CheckRestored_NoReload ==
    /\ pc = "reload"
    /\ \/ conf = plan[cmd] /\ Goto("absent")
       \/ conf # plan[cmd] /\ Return("failed_critical")
    /\ UNCHANGED <<files, running, row, plan, tls, live, presented, failures>>

CheckRestored ==
    /\ pc = "reload"
    /\ \/ /\ HealthPasses /\ UNCHANGED failures
          /\ IF conf = plan[cmd] THEN Goto("absent") ELSE Return("failed_critical")
       \/ HealthFails /\ Return("failed_critical")
    /\ UNCHANGED <<files, row, plan, tls, live, presented>>

mark_absent ==
    /\ pc = "absent"
    /\ row' = [row EXCEPT !.state = "absent"]
    /\ Return("rolled_back")
    /\ UNCHANGED <<files, running, plan, tls, live, presented, failures>>

-----------------------------------------------------------------------------
(* Reconciliation and faults                                               *)

\* The Agent asks what became of the command: a prepared row whose before image
\* is in place is closed, a published but unconfirmed one is left to a retry.
Observe(c) ==
    /\ pc = "idle" /\ row.cmd = c /\ row.state = "prepared" /\ conf = row.before
    /\ conf # row.after
    /\ row' = [row EXCEPT !.state = "absent"]
    /\ UNCHANGED <<files, running, plan, tls, live, worker, reply, presented, failures>>

\* Mutant: the backup stays guarded until the candidate is known healthy.
Cancel_ArmedBackup ==
    /\ pc # "idle" /\ failures < MaxFailures
    /\ failures' = failures + 1
    /\ \/ pc \in {"stage", "test", "publish", "health"} /\ saved.kind = "backup"
          /\ backups' = Front(backups) /\ UNCHANGED conf
       \/ pc \notin {"stage", "test", "publish", "health"} /\ UNCHANGED <<conf, backups>>
    /\ Return("error")
    /\ UNCHANGED <<running, successes, row, plan, tls, live, presented>>

\* The deadline or an I/O error ends the apply: the files it still guards are
\* removed.  A failed rollback is a reply of its own, a dropped one is not.
Cancel ==
    /\ pc # "idle" /\ failures < MaxFailures
    /\ failures' = failures + 1
    /\ \/ pc \in {"stage", "test"} /\ backups' = Front(backups) /\ UNCHANGED conf
       \/ pc \notin {"stage", "test"} /\ UNCHANGED <<conf, backups>>
    /\ \/ Return("error")
       \/ pc \in {"restore", "reload"} /\ Return("failed_critical")
    /\ UNCHANGED <<running, successes, row, plan, tls, live, presented>>

\* privd dies: everything on disk stays but the staging files, which the
\* restart removes; the backup of an unfinished apply is kept.
Crash ==
    /\ pc # "idle" /\ failures < MaxFailures
    /\ failures' = failures + 1
    /\ pc' = "idle" /\ cmd' = None /\ saved' = NoFile
    /\ UNCHANGED <<files, running, row, plan, tls, live, reply, presented>>

Next ==
    \/ \E c \in Commands :
        Plan(c) \/ complete_config_plan(c) \/ Expire(c) \/ Present(c) \/ Observe(c)
    \/ ProvisionTls \/ ReadCurrent \/ Prepare \/ Recover \/ WriteBackup \/ WriteStage
    \/ TestStage
    \/ Publish \/ CheckCandidate \/ Retain \/ prune_config_backups \/ mark_applied
    \/ Restore \/ CheckRestored \/ mark_absent \/ Cancel \/ Crash

Spec == Init /\ [][Next]_vars

-----------------------------------------------------------------------------
(* Properties                                                              *)

\* apply_validated_config: while a candidate that changes the file is published and
\* not confirmed, the content it replaced is on disk beside it, whichever step the
\* apply was dropped or crashed at, however often it was retried and whatever was
\* pruned.  A command whose candidate is already in the file when it is prepared
\* replaces nothing: its two images are the same, and it keeps no backup of them.
WayBack ==
    row.state = "prepared" /\ row.before # row.after /\ conf # row.before
        => row.before \in Range(backups) \cup Range(successes)

\* mark_applied and mark_absent: a row that says applied means the daemon runs
\* the candidate from the file, and a rollback reply means it runs the planned
\* content again, for as long as no later apply has been prepared.
ReplyIsTrue ==
    /\ row.state = "applied" => conf = row.after /\ running = row.after
    /\ row.state = "absent" /\ reply[row.cmd] = "rolled_back"
        => conf = plan[row.cmd] /\ running = plan[row.cmd]

\* prepare: a candidate is never published over a newer applied revision, even
\* when the file has come back to the content an old plan was made for.
NewestStays ==
    [][pc = "publish" /\ conf' # conf
        => \A c \in Commands : reply[c] = "applied" => Revision[c] <= Revision[cmd]]_vars
=============================================================================
