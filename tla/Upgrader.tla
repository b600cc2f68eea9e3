------------------------------ MODULE Upgrader ------------------------------
(***************************************************************************)
(* The durable self-upgrade of a node.  privd commits the operation's      *)
(* intent under the schedule lock and starts the upgrader unit; the unit's *)
(* runner verifies the spooled package, runs the package's lifecycle       *)
(* script over the host and writes the terminal evidence.  An operator may *)
(* take the replacement back with rollback-agent.sh.  privd, a runner, the *)
(* rollback and the whole host may stop between any two durable writes.    *)
(*                                                                         *)
(* Abstractions: a package is a model value standing for the digest, the   *)
(* version and the architecture of its signed identity; the spooled        *)
(* archive is whatever the runner finds, told apart by the check it fails; *)
(* the host's files are the Agent binary, the privd binary and the rest.   *)
(* An atomic record (write, sync, rename, sync) is one write: the          *)
(* temporary a crash leaves behind is removed by its owner before it reads.*)
(***************************************************************************)
EXTENDS Naturals, FiniteSets

CONSTANTS
    Ops,           \* operation identifiers
    Packages,      \* packages (digests)
    Base,          \* the package the node was installed from
    BaseCommit,    \* the commit record at the start, of Base or none
    NoPackage,     \* no intent, no record
    Torn,          \* a commit record truncated before its digest was written
    Mixed,         \* the host's files do not come from one package
    MaxRequests,   \* bound: upgrade commands privd executes
    MaxCrashes,    \* bound: crashes of a runner, of privd or of the host
    MaxRollbacks,  \* bound: runs of rollback-agent.sh
    StartLimit,    \* StartLimitBurst of the upgrader unit
    Rank,          \* the order of the operations' UUIDv7 identifiers
    RecentLimit,   \* outcomes one report holds
    RetryRolledBack  \* whether a release that was rolled back is tried again

ASSUME UpgraderConstants ==
    /\ Base \in Packages /\ BaseCommit \in {NoPackage, Base}
    /\ NoPackage \notin Packages /\ Torn \notin Packages /\ Mixed \notin Packages
    /\ NoPackage # Torn
    /\ "none" \notin Ops
    /\ MaxRequests \in Nat /\ MaxCrashes \in Nat /\ MaxRollbacks \in Nat
    /\ StartLimit \in Nat /\ RetryRolledBack \in BOOLEAN
    /\ IsFiniteSet(Ops) /\ RecentLimit \in Nat
    /\ Rank \in [Ops -> Nat] /\ \A o, other \in Ops : Rank[o] = Rank[other] => o = other

VARIABLES
    dir,       \* operations whose directory exists
    intent,    \* intent[o]: the package the durable intent names
    state,     \* state[o]: the durable state record, "none" when absent
    result,    \* result[o]: the durable result record, its state and package
    sched,     \* the scheduler inside the schedule lock
    toStart,   \* operations whose unit privd is about to start
    pc,        \* pc[o]: where the runner of the operation's unit is
    verdict,   \* verdict[o]: the terminal state its runner is persisting
    failures,  \* failures[o]: failed exits the unit's start limit has counted
    owner,     \* the operation whose runner holds the execution lock
    files,     \* the installed Agent, privd and remaining files
    commit,    \* the installation commit record
    pending,   \* the package an unfinished lifecycle recorded
    snapshot,  \* the rollback snapshot, whole when its manifest is written
    rollback,  \* where rollback-agent.sh is
    left,      \* operation directories it has still to visit
    halfway,   \* it has restored some of the files and not all of them
    overlap,   \* an upgrade has run beside it, or over what it left halfway
    requests, crashes, reboots, rollbacks

durable == <<dir, intent, state, result>>
host    == <<files, commit, pending, snapshot>>
runner  == <<pc, verdict, failures, owner>>
driver  == <<rollback, left, halfway, overlap>>
counts  == <<requests, crashes, reboots, rollbacks>>
vars    == <<dir, intent, state, result, sched, toStart, pc, verdict, failures, owner,
             files, commit, pending, snapshot, rollback, left, halfway, overlap,
             requests, crashes, reboots, rollbacks>>

NoOp   == "none"
Parts  == {"agent", "privd", "rest"}
Lifecycle == {"preflight", "backup", "copy", "pend", "agent", "privd", "rest",
              "truncate", "record", "clear", "services"}

IsTerminal(s) == s \in {"succeeded", "failed", "rolled_back"}
IsActive(o)   == state[o] \in {"accepted", "running"}
Idle          == [op |-> NoOp, pkg |-> NoPackage, step |-> "none"]
NoResult      == [state |-> "none", package |-> NoPackage]
Archives      == {"good", "foreign", "absent", "tampered", "unverified"}

\* A durable record replaced by write, sync and rename.
write_atomic(records, o, value) == [records EXCEPT ![o] = value]

Init ==
    /\ dir = {}
    /\ intent = [o \in Ops |-> NoPackage]
    /\ state = [o \in Ops |-> "none"]
    /\ result = [o \in Ops |-> NoResult]
    /\ sched = Idle
    /\ toStart = {}
    /\ pc = [o \in Ops |-> "off"]
    /\ verdict = [o \in Ops |-> "none"]
    /\ failures = [o \in Ops |-> 0]
    /\ owner = NoOp
    /\ files = [part \in Parts |-> Base]
    /\ commit = BaseCommit
    /\ pending = NoPackage
    /\ snapshot = [of |-> [part \in Parts |-> Base], whole |-> FALSE]
    /\ rollback = "off" /\ left = {} /\ halfway = FALSE /\ overlap = FALSE
    /\ requests = 0 /\ crashes = 0 /\ reboots = 0 /\ rollbacks = 0

\* The package of the durable intent; without one the read is an error.
load_intent(o) == intent[o]

-----------------------------------------------------------------------------
(* privd: scheduling                                                       *)

\* The pieces a crashed attempt left; a state without its intent is refused.
Pieces(o) ==
    CASE o \notin dir                            -> "absent"
      [] o \in dir /\ intent[o] = NoPackage      -> "empty"
      [] intent[o] # NoPackage /\ state[o] = "none" -> "intended"
      [] OTHER                                   -> "complete"

\* load_state of a sibling directory without a state record is an error.
SiblingUnreadable(o) == \E other \in dir \ {o} : state[other] = "none"
ActiveSibling(o)     == \E other \in dir \ {o} : IsActive(other)

MayOpen(o) == ~SiblingUnreadable(o) /\ ~ActiveSibling(o)

\* Where a scheduler that holds the lock starts; "refuse" commits nothing.
FirstStep(o, p) ==
    CASE Pieces(o) = "absent"   -> IF MayOpen(o) THEN "mkdir" ELSE "refuse"
      [] Pieces(o) = "empty"    -> IF MayOpen(o) THEN "intent" ELSE "refuse"
      [] Pieces(o) = "intended" -> IF intent[o] = p THEN "state" ELSE "refuse"
      [] Pieces(o) = "complete" -> IF intent[o] = p THEN "trigger" ELSE "refuse"

\* Rollback restores the files and leaves the commit record of the release it
\* takes back, which makes that release a special case of the environment.
RolledBack(p) == commit = p /\ files["agent"] # p

\* rollback-agent.sh stops privd before it changes anything and starts it last.
PrivdUp == rollback \in {"off", "services"}

ScheduleStart(o, p) ==
    /\ PrivdUp
    /\ sched = Idle
    /\ RolledBack(p) => RetryRolledBack
    /\ requests < MaxRequests
    /\ requests' = requests + 1
    /\ sched' = IF FirstStep(o, p) = "refuse" THEN Idle
                ELSE [op |-> o, pkg |-> p, step |-> FirstStep(o, p)]
    /\ UNCHANGED <<durable, toStart, runner, host, driver, crashes, reboots, rollbacks>>

ScheduleMkdir ==
    /\ sched.step = "mkdir"
    /\ dir' = dir \cup {sched.op}
    /\ sched' = [sched EXCEPT !.step = "intent"]
    /\ UNCHANGED <<intent, state, result, toStart, runner, host, driver, counts>>

ScheduleIntent ==
    /\ sched.step = "intent"
    /\ intent' = write_atomic(intent, sched.op, sched.pkg)
    /\ sched' = [sched EXCEPT !.step = "state"]
    /\ UNCHANGED <<dir, state, result, toStart, runner, host, driver, counts>>

ScheduleState ==
    /\ sched.step = "state"
    /\ state' = write_atomic(state, sched.op, "accepted")
    /\ sched' = [sched EXCEPT !.step = "trigger"]
    /\ UNCHANGED <<dir, intent, result, toStart, runner, host, driver, counts>>

\* The lock is released; the unit is started outside it.
ScheduleRelease ==
    /\ sched.step = "trigger"
    /\ toStart' = toStart \cup {sched.op}
    /\ sched' = Idle
    /\ UNCHANGED <<durable, runner, host, driver, counts>>

\* systemctl start: nothing when the unit runs, an error at the start limit
\* or when systemd refuses; the operation stays accepted.
Trigger(o) ==
    /\ o \in toStart
    /\ toStart' = toStart \ {o}
    /\ \/ /\ pc[o] = "off" /\ failures[o] < StartLimit
          /\ pc' = [pc EXCEPT ![o] = "open"]
          /\ overlap' = (overlap \/ rollback = "services" \/ halfway)
       \/ UNCHANGED <<pc, overlap>>
    /\ UNCHANGED <<durable, sched, verdict, failures, owner, host, rollback, left, halfway,
                   counts>>

PrivdCrash ==
    /\ crashes + reboots < MaxCrashes
    /\ sched # Idle \/ toStart # {}
    /\ crashes' = crashes + 1
    /\ sched' = Idle
    /\ toStart' = {}
    /\ UNCHANGED <<durable, runner, host, driver, requests, reboots, rollbacks>>

-----------------------------------------------------------------------------
(* The unit and its runner                                                 *)

\* Mutant: a unit that failed is not restarted.
ExitedForGood(o, ok) ==
    /\ owner' = IF owner = o THEN NoOp ELSE owner
    /\ verdict' = [verdict EXCEPT ![o] = "none"]
    /\ failures' = IF ok THEN failures ELSE [failures EXCEPT ![o] = @ + 1]
    /\ pc' = [pc EXCEPT ![o] = "off"]

\* A failed exit counts against the start limit; below it systemd restarts
\* the unit, at the limit the unit stays failed.
Exited(o, ok) ==
    /\ owner' = IF owner = o THEN NoOp ELSE owner
    /\ verdict' = [verdict EXCEPT ![o] = "none"]
    /\ failures' = IF ok THEN failures ELSE [failures EXCEPT ![o] = @ + 1]
    /\ pc' = [pc EXCEPT ![o] = IF ~ok /\ failures[o] + 1 < StartLimit
                               THEN "open" ELSE "off"]

\* Moves the runner on without touching anything else of it.
Goto(o, step) == /\ pc' = [pc EXCEPT ![o] = step]
                 /\ UNCHANGED <<verdict, failures, owner>>

\* Starts persisting a terminal state: finish and refuse.
Conclude(o, s) == /\ verdict' = [verdict EXCEPT ![o] = s]
                  /\ pc' = [pc EXCEPT ![o] = "result"]
                  /\ UNCHANGED <<failures, owner>>

\* The execution lock is tried, never waited for; a process that ends frees it.
acquire_execution == owner = NoOp

\* run: replay a terminal state, else take the execution lock.
RunnerOpen(o) ==
    /\ pc[o] = "open"
    /\ \/ IsTerminal(state[o]) /\ Exited(o, TRUE)
       \/ ~IsTerminal(state[o]) /\ ~acquire_execution /\ Exited(o, FALSE)
       \/ /\ ~IsTerminal(state[o]) /\ acquire_execution
          /\ owner' = o
          /\ pc' = [pc EXCEPT ![o] = "check"]
          /\ UNCHANGED <<verdict, failures>>
    /\ UNCHANGED <<durable, sched, toStart, host, driver, counts>>

Matched(part, p) == files[part] = p
Committed(p)     == commit = p

\* Mutant: two matching binaries prove a complete installation.
ReplacedByBinaries(p) == Matched("agent", p) /\ Matched("privd", p)

Replaced(p) == Committed(p) /\ Matched("agent", p) /\ Matched("privd", p)

Interrupted(p) == ~Replaced(p) /\ (Matched("agent", p) \/ Matched("privd", p))

\* The checks of execute before anything is compared with the host.
ArchitectureMatches(archive) == archive # "foreign"
SpoolFileValid(archive)      == archive # "absent"
DigestAuthorized(archive)    == archive # "tampered"
PackageVerified(archive)     == archive # "unverified"

Admitted(archive) ==
    /\ ArchitectureMatches(archive) /\ SpoolFileValid(archive)
    /\ DigestAuthorized(archive) /\ PackageVerified(archive)

\* A commit record that is not a digest is an error, not a missing record.
CommitReadable == commit # Torn

\* execute up to the running state: refuse the package, stop on an
\* unreadable commit record, refuse an interrupted installation, or go on.
RunnerCheck(o) == \E archive \in Archives :
    LET p == intent[o] IN
    /\ pc[o] = "check"
    /\ \/ /\ ~Admitted(archive)
          /\ Conclude(o, "failed")
          /\ UNCHANGED state
       \/ /\ Admitted(archive) /\ ~CommitReadable
          /\ Exited(o, FALSE)
          /\ UNCHANGED state
       \/ /\ Admitted(archive) /\ CommitReadable /\ Interrupted(p)
          /\ Conclude(o, "failed")
          /\ UNCHANGED state
       \/ /\ Admitted(archive) /\ CommitReadable /\ ~Interrupted(p)
          /\ state' = write_atomic(state, o, "running")
          /\ Goto(o, IF Replaced(p) THEN "restart" ELSE "preflight")
    /\ UNCHANGED <<dir, intent, result, sched, toStart, host, driver, counts>>

\* The replacement finished in an earlier run: only the services restart,
\* privd and a scheduler inside it among them; a restart may fail.
RunnerRestart(o) ==
    /\ pc[o] = "restart"
    /\ sched' = Idle
    /\ toStart' = {}
    /\ Conclude(o, "succeeded") \/ Conclude(o, "failed")
    /\ UNCHANGED <<durable, host, driver, counts>>

\* After the lifecycle: the binaries and the commit record are read again.
RunnerVerify(o) ==
    LET p == intent[o]
        binaries == Matched("agent", p) /\ Matched("privd", p) IN
    /\ pc[o] = "verify"
    /\ IF binaries /\ ~CommitReadable THEN Exited(o, FALSE)
       ELSE Conclude(o, IF Replaced(p) THEN "succeeded" ELSE "failed")
    /\ UNCHANGED <<durable, sched, toStart, host, driver, counts>>

\* Mutant: the state is made terminal before its evidence is written.
WriteStateFirst(o) ==
    /\ pc[o] = "result"
    /\ state' = write_atomic(state, o, verdict[o])
    /\ Goto(o, "state")
    /\ UNCHANGED <<dir, intent, result, sched, toStart, host, driver, counts>>

\* write_terminal: the evidence first, then the state.
WriteResult(o) ==
    /\ pc[o] = "result"
    /\ result' = write_atomic(result, o, [state |-> verdict[o], package |-> load_intent(o)])
    /\ Goto(o, "state")
    /\ UNCHANGED <<dir, intent, state, sched, toStart, host, driver, counts>>

WriteState(o) ==
    /\ pc[o] = "state"
    /\ state' = write_atomic(state, o, verdict[o])
    /\ Goto(o, "exit")
    /\ UNCHANGED <<dir, intent, result, sched, toStart, host, driver, counts>>

\* The lock is held until the process ends; a refusal exits with failure.
RunnerExit(o) ==
    /\ pc[o] = "exit"
    /\ Exited(o, verdict[o] = "succeeded")
    /\ UNCHANGED <<durable, sched, toStart, host, driver, counts>>

RunnerCrash(o) ==
    /\ crashes + reboots < MaxCrashes
    /\ pc[o] # "off"
    /\ crashes' = crashes + 1
    /\ Exited(o, FALSE)
    /\ UNCHANGED <<durable, sched, toStart, host, driver, requests, reboots, rollbacks>>

\* Units have no [Install] section: nothing starts them again at boot.
HostCrash ==
    /\ crashes + reboots < MaxCrashes
    /\ reboots' = reboots + 1
    /\ sched' = Idle /\ toStart' = {} /\ owner' = NoOp
    /\ pc' = [o \in Ops |-> "off"]
    /\ verdict' = [o \in Ops |-> "none"]
    /\ failures' = [o \in Ops |-> 0]
    /\ rollback' = "off" /\ left' = {}
    /\ UNCHANGED <<durable, host, halfway, overlap, requests, crashes, rollbacks>>

-----------------------------------------------------------------------------
(* upgrade-agent.sh                                                        *)

\* Mutant: the script does not look for the pending record.
PreflightBlindly(o) ==
    /\ pc[o] = "preflight"
    /\ Goto(o, "backup")
    /\ UNCHANGED <<durable, sched, toStart, host, driver, counts>>

\* The lifecycle lock is tried, and a pending record of an unfinished
\* installation blocks the script.
Preflight(o) ==
    /\ pc[o] = "preflight"
    /\ IF rollback # "off" \/ pending # NoPackage THEN Conclude(o, "failed") ELSE Goto(o, "backup")
    /\ UNCHANGED <<durable, sched, toStart, host, driver, counts>>

\* Any command of the script may fail; it then stops where it is.
ScriptFails(o) ==
    /\ pc[o] \in Lifecycle
    /\ Conclude(o, "failed")
    /\ UNCHANGED <<durable, sched, toStart, host, driver, counts>>

Backup(o) ==
    /\ pc[o] = "backup"
    /\ snapshot' = [snapshot EXCEPT !.whole = FALSE]
    /\ Goto(o, "copy")
    /\ UNCHANGED <<durable, sched, toStart, files, commit, pending, driver, counts>>

Copy(o) ==
    /\ pc[o] = "copy"
    /\ snapshot' = [of |-> files, whole |-> TRUE]
    /\ Goto(o, "pend")
    /\ UNCHANGED <<durable, sched, toStart, files, commit, pending, driver, counts>>

Pend(o) ==
    /\ pc[o] = "pend"
    /\ pending' = intent[o]
    /\ Goto(o, "agent")
    /\ UNCHANGED <<durable, sched, toStart, files, commit, snapshot, driver, counts>>

\* install-agent.sh replaces the Agent, then privd, then the rest.
InstallPart(o) ==
    /\ pc[o] \in Parts
    /\ files' = [files EXCEPT ![pc[o]] = intent[o]]
    /\ Goto(o, CASE pc[o] = "agent" -> "privd"
                 [] pc[o] = "privd" -> "rest"
                 [] pc[o] = "rest"  -> "truncate")
    /\ UNCHANGED <<durable, sched, toStart, commit, pending, snapshot, driver, counts>>

\* The commit record is created empty, then filled.
Truncate(o) ==
    /\ pc[o] = "truncate"
    /\ commit' = Torn
    /\ Goto(o, "record")
    /\ UNCHANGED <<durable, sched, toStart, files, pending, snapshot, driver, counts>>

Record(o) ==
    /\ pc[o] = "record"
    /\ commit' = intent[o]
    /\ Goto(o, "clear")
    /\ UNCHANGED <<durable, sched, toStart, files, pending, snapshot, driver, counts>>

Clear(o) ==
    /\ pc[o] = "clear"
    /\ pending' = NoPackage
    /\ Goto(o, "services")
    /\ UNCHANGED <<durable, sched, toStart, files, commit, snapshot, driver, counts>>

\* try-restart of privd and the Agent: a scheduler inside privd is killed.
RestartServices(o) ==
    /\ pc[o] = "services"
    /\ sched' = Idle
    /\ toStart' = {}
    /\ Goto(o, "verify")
    /\ UNCHANGED <<durable, host, driver, counts>>

-----------------------------------------------------------------------------
(* rollback-agent.sh, run by an operator                                   *)

\* upgrade-agent.sh holds the lifecycle lock from its preflight to its end.
ScriptRunning == \E o \in Ops : pc[o] \in Lifecycle \ {"preflight"}

\* The operator rolls back when there is something to take back.
Replacing == files # snapshot.of \/ pending # NoPackage

\* The lifecycle lock and the checks of the snapshot, then the stop of the
\* units, whose error is ignored.  A runner whose preflight meets the lock in
\* between ends as ScriptFails does.
RollbackStopUnits ==
    /\ rollback = "off" /\ ~ScriptRunning
    /\ snapshot.whole /\ Replacing
    /\ rollbacks < MaxRollbacks
    /\ rollbacks' = rollbacks + 1
    /\ rollback' = "services"
    /\ \/ /\ pc' = [o \in Ops |-> "off"]
          /\ verdict' = [o \in Ops |-> "none"]
          /\ owner' = NoOp
          /\ UNCHANGED overlap
       \/ /\ \E o \in Ops : pc[o] # "off"
          /\ overlap' = TRUE
          /\ UNCHANGED <<pc, verdict, owner>>
    /\ UNCHANGED <<durable, sched, toStart, failures, host, left, halfway,
                   requests, crashes, reboots>>

\* The Agent and privd are stopped; the loop's directories are listed once.
RollbackStopServices ==
    /\ rollback = "services"
    /\ rollback' = "mark"
    /\ sched' = Idle /\ toStart' = {}
    /\ left' = dir
    /\ UNCHANGED <<durable, runner, host, halfway, overlap, counts>>

\* The directories are visited in the order of their names; an accepted or
\* running operation is closed, so that no unit goes on with it.
mark_operations_rolled_back ==
    /\ rollback = "mark"
    /\ \/ \E o \in left :
            /\ \A other \in left : Rank[o] <= Rank[other]
            /\ left' = left \ {o}
            /\ state' = IF IsActive(o) THEN write_atomic(state, o, "rolled_back") ELSE state
            /\ UNCHANGED rollback
       \/ /\ left = {} /\ rollback' = "agent"
          /\ UNCHANGED <<left, state>>
    /\ UNCHANGED <<dir, intent, result, sched, toStart, runner, host, halfway, overlap, counts>>

\* Each file is restored by a rename of its own.
restore_file ==
    /\ rollback \in Parts
    /\ files' = [files EXCEPT ![rollback] = snapshot.of[rollback]]
    /\ halfway' = (rollback # "rest")
    /\ rollback' = CASE rollback = "agent" -> "privd"
                     [] rollback = "privd" -> "rest"
                     [] rollback = "rest"  -> "clear"
    /\ UNCHANGED <<durable, sched, toStart, runner, commit, pending, snapshot, left, overlap,
                   counts>>

\* The pending record goes last; the commit record is left alone.
RollbackClear ==
    /\ rollback = "clear"
    /\ pending' = NoPackage
    /\ rollback' = "start"
    /\ UNCHANGED <<durable, sched, toStart, runner, files, commit, snapshot, left, halfway,
                   overlap, counts>>

\* Its end starts the services and frees the lifecycle lock.  So does the
\* operator or a reboot after a command that failed, wherever it stopped.
RollbackEnds ==
    /\ rollback # "off"
    /\ rollback' = "off" /\ left' = {}
    /\ UNCHANGED <<durable, sched, toStart, runner, host, halfway, overlap, counts>>

RollbackAgent ==
    \/ RollbackStopUnits \/ RollbackStopServices
    \/ mark_operations_rolled_back \/ restore_file \/ RollbackClear
    \/ RollbackEnds

-----------------------------------------------------------------------------
Script(o) == \/ Preflight(o) \/ Backup(o) \/ Copy(o) \/ Pend(o) \/ InstallPart(o)
             \/ Truncate(o) \/ Record(o) \/ Clear(o) \/ RestartServices(o)

Runner(o) == \/ RunnerOpen(o) \/ RunnerCheck(o) \/ RunnerRestart(o) \/ RunnerVerify(o)
             \/ WriteResult(o) \/ WriteState(o) \/ RunnerExit(o) \/ Script(o)

Privd == ScheduleMkdir \/ ScheduleIntent \/ ScheduleState \/ ScheduleRelease

Faults == \/ PrivdCrash \/ HostCrash
          \/ \E o \in Ops : RunnerCrash(o) \/ ScriptFails(o)

Next == \/ \E o \in Ops, p \in Packages : ScheduleStart(o, p)
        \/ Privd
        \/ \E o \in Ops : Trigger(o) \/ Runner(o)
        \/ Faults
        \/ RollbackAgent

\* The kernel schedules a started process, and systemd restarts a failed one.
Fairness == \A o \in Ops : WF_vars(Runner(o))

Spec == Init /\ [][Next]_vars /\ Fairness

-----------------------------------------------------------------------------
(* Properties                                                              *)

\* Every variable has its type.
UpgraderTypeOK ==
    /\ dir \subseteq Ops
    /\ intent \in [Ops -> Packages \cup {NoPackage}]
    /\ state \in [Ops -> {"none", "accepted", "running", "succeeded", "failed", "rolled_back"}]
    /\ result \in [Ops -> [state : {"none", "succeeded", "failed"},
                           package : Packages \cup {NoPackage}]]
    /\ sched \in [op : Ops \cup {NoOp}, pkg : Packages \cup {NoPackage},
                  step : {"none", "mkdir", "intent", "state", "trigger"}]
    /\ toStart \subseteq Ops
    /\ pc \in [Ops -> {"off", "open", "check", "restart", "verify", "result", "state",
                       "exit"} \cup Lifecycle]
    /\ verdict \in [Ops -> {"none", "succeeded", "failed"}]
    /\ failures \in [Ops -> 0..StartLimit]
    /\ owner \in Ops \cup {NoOp}
    /\ files \in [Parts -> Packages]
    /\ commit \in Packages \cup {NoPackage, Torn}
    /\ pending \in Packages \cup {NoPackage}
    /\ snapshot \in [of : [Parts -> Packages], whole : BOOLEAN]
    /\ rollback \in {"off", "services", "mark", "clear", "start"} \cup Parts
    /\ left \subseteq Ops /\ halfway \in BOOLEAN /\ overlap \in BOOLEAN
    /\ requests \in 0..MaxRequests /\ crashes \in Nat /\ reboots \in Nat
    /\ rollbacks \in 0..MaxRollbacks

OneRelease(f) == \A part \in Parts : f[part] = f["agent"]

\* While the host's files may be mixed, a whole snapshot of one release other
\* than the one being installed is there to go back to, whatever operation
\* or rollback was interrupted and whatever package is tried after it: an
\* interrupted installation is refused (execute) or blocked by the pending
\* record (upgrade-agent.sh) before the mixed files are copied over the
\* snapshot.  A rollback left halfway is not: it must be completed before an
\* upgrade is started, and none may be started while it runs.
MixedHostCanGoBack ==
    ~overlap /\ (~OneRelease(files) \/ pending # NoPackage)
        => snapshot.whole /\ OneRelease(snapshot.of) /\ snapshot.of["agent"] # pending

(* The report of an outcome to the Controller, evaluated on the records as *)
(* they are.                                                               *)

\* A directory without its intent, or a record that names another package,
\* makes the read of every operation an error.
StoreReadable ==
    \A o \in dir : /\ load_intent(o) # NoPackage
                   /\ result[o] # NoResult => result[o].package = load_intent(o)

\* DurableUpgradeResult.
Outcome(o) == [op |-> o, state |-> result[o].state, package |-> result[o].package]

Newer(o, among) == {other \in among : Rank[other] > Rank[o]}

\* The newest outcomes by identifier, cut off at the limit.
read_recent_results ==
    LET closed == {r \in dir : result[r] # NoResult} IN
    {Outcome(o) : o \in {r \in closed : Cardinality(Newer(r, closed)) < RecentLimit}}

validate_upgrade_result(outcome) == IsTerminal(outcome.state) /\ outcome.package \in Packages

\* privd signs exactly the claims of the record.
sign_upgrade_result(outcome) == [op |-> outcome.op, state |-> outcome.state,
                                 package |-> outcome.package, signed |-> TRUE]

\* The read of the outcomes: one that cannot be signed refuses them all.
execute_read ==
    IF StoreReadable /\ \A r \in read_recent_results : validate_upgrade_result(r)
    THEN {[op |-> r.op, state |-> r.state, proof |-> sign_upgrade_result(r)] :
            r \in read_recent_results}
    ELSE {}

\* The Controller takes a report whose proof makes the same claims.
VerifyUpgradeResult(report) ==
    /\ report.proof.signed /\ validate_upgrade_result(report.proof)
    /\ report.proof.op = report.op /\ report.proof.state = report.state

\* InsertUpgrade: what the next heartbeat makes the Controller record.
Reported == {[op |-> r.op, state |-> r.state, package |-> r.proof.package] :
               r \in {x \in execute_read : VerifyUpgradeResult(x)}}

\* One of the newest operations of the node that its runner closed is reported
\* with the state it was closed in and the package its intent names, although
\* evidence and state are written one after the other, a crash between them
\* repeats the run and a rollback may run beside it; only another operation
\* whose directory has no intent yet holds the report back.
ClosedIsReported ==
    (\A o \in dir : intent[o] # NoPackage) =>
        \A o \in Ops :
            state[o] \in {"succeeded", "failed"} /\ Cardinality(Newer(o, dir)) < RecentLimit
            => [op |-> o, state |-> state[o], package |-> intent[o]] \in Reported

\* A runner that is started reaches a terminal state and is not started over
\* and over, unless the host crashed, the unit reached its start limit, the
\* commit record was left truncated or an operator's rollback stopped it.
StartedUpgradeEnds ==
    \A o \in Ops : pc[o] # "off" ~>
        \/ IsTerminal(state[o])
        \/ reboots > 0 \/ commit = Torn \/ failures[o] = StartLimit \/ rollback # "off"

Installed == IF OneRelease(files) THEN files["agent"] ELSE Mixed

Promise == INSTANCE AgentUpgrade
             WITH status <- state,
                  package <- [o \in Ops |-> IF state[o] = "none" THEN NoPackage ELSE intent[o]],
                  release <- Installed,
                  lapsed <- overlap

\* The records, locks, runner and scripts implement the abstract upgrade.
ImplementsAgentUpgrade == Promise!Spec

\* What the comment in execute and upgrade-agent.sh promise: an interrupted
\* installation is never mistaken for a completed one.
SuccessMeansInstalled ==
    [][\A o \in Ops : ~overlap /\ result'[o].state = "succeeded" /\ result[o].state # "succeeded"
            => \A part \in Parts : files[part] = intent[o]]_vars
=============================================================================
