--------------------------- MODULE Upgrader_proof ---------------------------
(***************************************************************************)
(* What the durable self-upgrade promises, proved for every set of         *)
(* operations and packages, every start limit and any number of requests,  *)
(* crashes and reboots.                                                    *)
(***************************************************************************)
EXTENDS Upgrader, FiniteSetTheorems, TLAPS

Closed(o)    == state[o] \in {"succeeded", "failed", "rolled_back"}
Unsettled(o) == o \in dir /\ ~Closed(o)

\* The records of an operation are written in the order intent, state, result,
\* and never change meaning.
RecordsInv ==
  \A o \in Ops :
    /\ o \notin dir => intent[o] = NoPackage
    /\ intent[o] = NoPackage => state[o] = "none"
    /\ state[o] = "none" => result[o] = NoResult
    /\ result[o] # NoResult =>
         /\ result[o].state \in {"succeeded", "failed"}
         /\ result[o].package = intent[o]
    /\ state[o] \in {"succeeded", "failed"} =>
         result[o] = [state |-> state[o], package |-> intent[o]]

\* The schedule lock: one operation is not terminal, and a scheduler knows
\* which records of its operation are there.
ScheduleInv ==
  /\ ~overlap => \A o, other \in Ops : Unsettled(o) /\ Unsettled(other) => o = other
  /\ sched.step # "none" => sched.op \in Ops /\ sched.pkg \in Packages
  /\ sched.step = "mkdir" /\ ~overlap => \A o \in Ops : ~Unsettled(o)
  /\ sched.step = "mkdir" => sched.op \notin dir
  /\ sched.step = "intent" => sched.op \in dir /\ intent[sched.op] = NoPackage
  /\ sched.step = "state" =>
       intent[sched.op] = sched.pkg /\ state[sched.op] = "none"
  /\ sched.step = "trigger" => state[sched.op] # "none"
  /\ \A o \in toStart : state[o] # "none"

\* The execution lock: one runner is past the opening of its operation, and
\* that operation stays open until the runner closes it.
RunnersInv ==
  \A o \in Ops :
    /\ pc[o] # "off" => state[o] # "none" /\ failures[o] < StartLimit
    /\ pc[o] \notin {"off", "open"} => owner = o
    /\ pc[o] \notin {"off", "open", "exit"} => state[o] \notin {"succeeded", "failed"}
    /\ pc[o] \notin {"off", "open", "exit"} /\ ~overlap => ~Closed(o)
    /\ pc[o] \in Lifecycle \cup {"restart", "verify"} /\ ~overlap => state[o] = "running"
    /\ pc[o] \in {"result", "state"} /\ verdict[o] = "succeeded" /\ ~overlap =>
         state[o] = "running"
    /\ pc[o] \in {"result", "state", "exit"} => verdict[o] \in {"succeeded", "failed"}
    /\ pc[o] = "state" => result[o] = [state |-> verdict[o], package |-> intent[o]]

All(o) == \A part \in Parts : files[part] = intent[o]

\* What the script has done at each of its steps.
HostInv ==
  ~overlap =>
    /\ pending = NoPackage /\ ~halfway => OneRelease(files)
    /\ snapshot.whole => OneRelease(snapshot.of)
    /\ \A o \in Ops :
         /\ pc[o] \in {"preflight", "backup", "copy", "pend", "agent"} =>
              files["agent"] # intent[o]
         /\ pc[o] \in {"backup", "copy", "pend"} => pending = NoPackage
         /\ pc[o] = "pend" => snapshot.whole /\ snapshot.of = files
         /\ pc[o] \in {"privd", "rest"} => files["agent"] = intent[o]
         /\ pc[o] = "rest" => files["privd"] = intent[o]
         /\ pc[o] \in Parts \cup {"truncate", "record", "clear"} => pending = intent[o]
         /\ pc[o] \in {"truncate", "record", "clear", "services", "verify"} => All(o)

\* What the rollback has stopped, closed and restored at each of its steps; no
\* unit runs until it is complete.
RollbackInv ==
  ~overlap =>
    /\ rollback # "off" \/ halfway =>
         snapshot.whole /\ \A o \in Ops : pc[o] = "off"
    /\ rollback \notin {"off", "services"} => sched = Idle /\ toStart = {}
    /\ rollback = "mark" => \A o \in Ops : IsActive(o) => o \in left
    /\ rollback \in Parts \cup {"clear", "start"} => \A o \in Ops : ~IsActive(o)
    /\ rollback \in {"privd", "rest"} => halfway
    /\ rollback \in {"privd", "rest", "clear", "start"} =>
         files["agent"] = snapshot.of["agent"]
    /\ rollback \in {"rest", "clear", "start"} => files["privd"] = snapshot.of["privd"]
    /\ rollback \in {"clear", "start"} => ~halfway /\ files = snapshot.of

UpgraderInv ==
  /\ UpgraderTypeOK
  /\ RecordsInv
  /\ ScheduleInv
  /\ RunnersInv
  /\ HostInv
  /\ RollbackInv
  /\ MixedHostCanGoBack

\* The commit record is right about the release whose Agent is installed, unless
\* that release was rolled back, which no open operation asks for.
CommitInv ==
  ~overlap =>
    /\ commit \in Packages /\ files["agent"] = commit /\ ~halfway => OneRelease(files)
    /\ sched.step \in {"mkdir", "intent", "state"} /\ commit = sched.pkg =>
         files["agent"] = commit
    /\ \A o \in Ops :
         /\ IsActive(o) /\ commit = intent[o] => files["agent"] = commit
         /\ pc[o] \in {"preflight", "backup", "copy", "pend", "truncate"} \cup Parts =>
              commit # intent[o]
         /\ pc[o] = "restart" => All(o)
         /\ pc[o] \in {"result", "state"} /\ verdict[o] = "succeeded" => All(o)
-----------------------------------------------------------------------------
\* What the runner's own variables are typed as.
RunnerTypeOK ==
  /\ pc \in [Ops -> {"off", "open", "check", "restart", "verify", "result", "state",
                     "exit"} \cup Lifecycle]
  /\ verdict \in [Ops -> {"none", "succeeded", "failed"}]
  /\ failures \in [Ops -> 0..StartLimit]
  /\ owner \in Ops \cup {NoOp}

\* A runner below the start limit that ends leaves its variables typed.
LEMMA ExitedTyped ==
  ASSUME UpgraderTypeOK, NEW o \in Ops, NEW ok \in BOOLEAN,
         failures[o] < StartLimit, Exited(o, ok)
  PROVE  RunnerTypeOK'
<1>1. pc' \in [Ops -> {"off", "open", "check", "restart", "verify", "result", "state",
                       "exit"} \cup Lifecycle]
  BY DEF UpgraderTypeOK, Exited
<1>2. verdict' \in [Ops -> {"none", "succeeded", "failed"}]
  BY DEF UpgraderTypeOK, Exited
<1>3. failures[o] + 1 \in 0..StartLimit
  BY UpgraderConstants DEF UpgraderTypeOK
<1>4. failures' \in [Ops -> 0..StartLimit]
  BY <1>3 DEF UpgraderTypeOK, Exited
<1>5. owner' \in Ops \cup {NoOp}
  BY DEF UpgraderTypeOK, Exited
<1> QED
  BY <1>1, <1>2, <1>4, <1>5 DEF RunnerTypeOK

\* So does one that starts to persist a terminal state.
LEMMA ConcludeTyped ==
  ASSUME UpgraderTypeOK, NEW o \in Ops, NEW s \in {"succeeded", "failed"}, Conclude(o, s)
  PROVE  RunnerTypeOK'
  BY DEF UpgraderTypeOK, RunnerTypeOK, Conclude

\* A request is refused, or continues what its operation has on disk.
LEMMA ScheduleStartInv ==
  ASSUME UpgraderInv, NEW o \in Ops, NEW p \in Packages, ScheduleStart(o, p)
  PROVE  UpgraderInv'
<1>1. UpgraderTypeOK'
  BY UpgraderConstants
     DEF UpgraderInv, UpgraderTypeOK, ScheduleStart, FirstStep, Pieces, durable, host,
         runner, driver
<1>2. RecordsInv'
  BY DEF UpgraderInv, RecordsInv, ScheduleStart, durable
<1>3. ScheduleInv'
  BY UpgraderConstants
     DEF UpgraderInv, UpgraderTypeOK, RecordsInv, ScheduleInv, RunnersInv, HostInv,
         MixedHostCanGoBack, Unsettled, Closed, All, OneRelease, ScheduleStart, FirstStep,
         Pieces, MayOpen, SiblingUnreadable, ActiveSibling, IsActive, Idle, durable, host,
         runner, counts, Lifecycle, Parts, NoOp, NoResult, driver
<1>4. RunnersInv'
  BY DEF UpgraderInv, RunnersInv, Closed, ScheduleStart, durable, runner, driver
<1>5. HostInv'
  BY DEF UpgraderInv, HostInv, All, ScheduleStart, durable, host, runner, driver
<1>6. MixedHostCanGoBack'
  BY DEF UpgraderInv, MixedHostCanGoBack, ScheduleStart, host, driver
<1>7. RollbackInv'
  BY DEF UpgraderInv, RollbackInv, PrivdUp, ScheduleStart, host, runner, driver, Parts
<1> QED
  BY <1>1, <1>2, <1>3, <1>4, <1>5, <1>6, <1>7 DEF UpgraderInv

\* A new directory holds no intent, no state and no result.
LEMMA ScheduleMkdirInv ==
  ASSUME UpgraderInv, ScheduleMkdir
  PROVE  UpgraderInv'
<1>1. UpgraderTypeOK'
  BY DEF UpgraderInv, UpgraderTypeOK, ScheduleInv, ScheduleMkdir, host, runner, counts,
         driver
<1>2. RecordsInv'
  BY DEF UpgraderInv, RecordsInv, ScheduleMkdir
<1>3. ScheduleInv'
  BY DEF UpgraderInv, UpgraderTypeOK, RecordsInv, ScheduleInv, Unsettled, Closed,
         ScheduleMkdir, driver
<1>4. RunnersInv'
  BY DEF UpgraderInv, RunnersInv, Closed, ScheduleMkdir, runner, driver
<1>5. HostInv'
  BY DEF UpgraderInv, HostInv, All, ScheduleMkdir, host, runner, driver
<1>6. MixedHostCanGoBack'
  BY DEF UpgraderInv, MixedHostCanGoBack, ScheduleMkdir, host, driver
<1>7. RollbackInv'
  BY DEF UpgraderInv, RollbackInv, ScheduleMkdir, host, runner, driver, Parts, Idle
<1> QED
  BY <1>1, <1>2, <1>3, <1>4, <1>5, <1>6, <1>7 DEF UpgraderInv

\* An intent is written where no state depends on another one.
LEMMA ScheduleIntentInv ==
  ASSUME UpgraderInv, ScheduleIntent
  PROVE  UpgraderInv'
<1>1. UpgraderTypeOK'
  BY UpgraderConstants
     DEF UpgraderInv, UpgraderTypeOK, RecordsInv, ScheduleInv, RunnersInv, HostInv,
         MixedHostCanGoBack, Unsettled, Closed, All, OneRelease, ScheduleIntent,
         write_atomic, durable, host, runner, counts, Lifecycle, Parts, NoOp, Idle,
         NoResult, driver
<1>2. RecordsInv'
  BY DEF UpgraderInv, UpgraderTypeOK, RecordsInv, ScheduleInv, ScheduleIntent,
         write_atomic
<1>3. ScheduleInv'
  BY DEF UpgraderInv, UpgraderTypeOK, RecordsInv, ScheduleInv, Unsettled, Closed,
         ScheduleIntent, write_atomic, driver
<1>4. RunnersInv'
  BY DEF UpgraderInv, UpgraderTypeOK, RecordsInv, ScheduleInv, RunnersInv, Closed,
         ScheduleIntent, write_atomic, runner, driver
<1>5. HostInv'
  BY DEF UpgraderInv, UpgraderTypeOK, RecordsInv, ScheduleInv, RunnersInv, HostInv, All,
         ScheduleIntent, write_atomic, host, runner, Parts, driver
<1>6. MixedHostCanGoBack'
  BY DEF UpgraderInv, MixedHostCanGoBack, ScheduleIntent, host, driver
<1>7. RollbackInv'
  BY DEF UpgraderInv, RollbackInv, ScheduleIntent, host, runner, driver, Parts, Idle
<1> QED
  BY <1>1, <1>2, <1>3, <1>4, <1>5, <1>6, <1>7 DEF UpgraderInv

\* An operation is accepted after its intent is on disk.
LEMMA ScheduleStateInv ==
  ASSUME UpgraderInv, ScheduleState
  PROVE  UpgraderInv'
<1>1. UpgraderTypeOK'
  BY UpgraderConstants
     DEF UpgraderInv, UpgraderTypeOK, ScheduleInv, RunnersInv, HostInv,
         MixedHostCanGoBack, Unsettled, Closed, All, OneRelease, ScheduleState,
         write_atomic, host, runner, counts, Lifecycle, Parts, NoOp, driver
<1>2. RecordsInv'
  BY UpgraderConstants
     DEF UpgraderInv, UpgraderTypeOK, RecordsInv, ScheduleInv, ScheduleState, write_atomic
<1>3. ScheduleInv'
  BY DEF UpgraderInv, UpgraderTypeOK, ScheduleInv, Unsettled, Closed, ScheduleState,
         write_atomic, driver
<1>4. RunnersInv'
  BY DEF UpgraderInv, ScheduleInv, RunnersInv, Closed, ScheduleState, write_atomic,
         runner, driver
<1>5. HostInv'
  BY DEF UpgraderInv, HostInv, All, ScheduleState, host, runner, driver
<1>6. MixedHostCanGoBack'
  BY DEF UpgraderInv, MixedHostCanGoBack, ScheduleState, host, driver
<1>7. RollbackInv'
  BY DEF UpgraderInv, RollbackInv, ScheduleState, host, runner, driver, Parts, Idle
<1> QED
  BY <1>1, <1>2, <1>3, <1>4, <1>5, <1>6, <1>7 DEF UpgraderInv

\* What waits to be started has been accepted.
LEMMA ScheduleReleaseInv ==
  ASSUME UpgraderInv, ScheduleRelease
  PROVE  UpgraderInv'
<1>1. UpgraderTypeOK'
  BY DEF UpgraderInv, UpgraderTypeOK, ScheduleInv, ScheduleRelease, Idle, durable, host,
         runner, counts, driver
<1>2. RecordsInv'
  BY DEF UpgraderInv, RecordsInv, ScheduleRelease, durable
<1>3. ScheduleInv'
  BY DEF UpgraderInv, ScheduleInv, Unsettled, Closed, ScheduleRelease, Idle, durable,
         driver
<1>4. RunnersInv'
  BY DEF UpgraderInv, RunnersInv, Closed, ScheduleRelease, durable, runner, driver
<1>5. HostInv'
  BY DEF UpgraderInv, HostInv, All, ScheduleRelease, durable, host, runner, driver
<1>6. MixedHostCanGoBack'
  BY DEF UpgraderInv, MixedHostCanGoBack, ScheduleRelease, host, driver
<1>7. RollbackInv'
  BY DEF UpgraderInv, RollbackInv, ScheduleRelease, Idle, host, runner, driver, Parts
<1> QED
  BY <1>1, <1>2, <1>3, <1>4, <1>5, <1>6, <1>7 DEF UpgraderInv

\* A unit starts from nothing, and only for an accepted operation.
LEMMA TriggerInv ==
  ASSUME UpgraderInv, NEW o \in Ops, Trigger(o)
  PROVE  UpgraderInv'
<1>1. UpgraderTypeOK'
  <2>1. overlap' \in BOOLEAN
    BY DEF UpgraderInv, UpgraderTypeOK, Trigger
  <2> QED
    BY <2>1 DEF UpgraderInv, UpgraderTypeOK, Trigger, durable, host, counts
<1>2. RecordsInv'
  BY DEF UpgraderInv, RecordsInv, Trigger, durable, driver
<1>3. ScheduleInv'
  BY DEF UpgraderInv, UpgraderTypeOK, ScheduleInv, Unsettled, Closed, Trigger, durable
<1>4. RunnersInv'
  BY DEF UpgraderInv, UpgraderTypeOK, ScheduleInv, RunnersInv, Closed, Trigger, durable,
         Lifecycle, driver
<1>5. HostInv'
  BY DEF UpgraderInv, UpgraderTypeOK, HostInv, All, Trigger, durable, host, Parts, driver
<1>6. MixedHostCanGoBack'
  BY DEF UpgraderInv, UpgraderTypeOK, MixedHostCanGoBack, Trigger, host
<1>7. RollbackInv'
  BY DEF UpgraderInv, UpgraderTypeOK, RollbackInv, Trigger, host, Parts
<1> QED
  BY <1>1, <1>2, <1>3, <1>4, <1>5, <1>6, <1>7 DEF UpgraderInv

\* A crash of privd forgets the request and leaves every file.
LEMMA PrivdCrashInv ==
  ASSUME UpgraderInv, PrivdCrash
  PROVE  UpgraderInv'
<1>1. UpgraderTypeOK'
  BY DEF UpgraderInv, UpgraderTypeOK, PrivdCrash, Idle, durable, host, runner, driver
<1>2. RecordsInv'
  BY DEF UpgraderInv, RecordsInv, PrivdCrash, durable
<1>3. ScheduleInv'
  BY DEF UpgraderInv, ScheduleInv, Unsettled, Closed, PrivdCrash, Idle, durable, driver
<1>4. RunnersInv'
  BY DEF UpgraderInv, RunnersInv, Closed, PrivdCrash, durable, runner, driver
<1>5. HostInv'
  BY DEF UpgraderInv, HostInv, All, PrivdCrash, durable, host, runner, driver
<1>6. MixedHostCanGoBack'
  BY DEF UpgraderInv, MixedHostCanGoBack, PrivdCrash, host, driver
<1>7. RollbackInv'
  BY DEF UpgraderInv, RollbackInv, PrivdCrash, host, runner, driver, Parts
<1> QED
  BY <1>1, <1>2, <1>3, <1>4, <1>5, <1>6, <1>7 DEF UpgraderInv

\* At most one runner passes the execution lock.
LEMMA RunnerOpenInv ==
  ASSUME UpgraderInv, NEW o \in Ops, RunnerOpen(o)
  PROVE  UpgraderInv'
<1>1. UpgraderTypeOK'
  <2>1. RunnerTypeOK'
    <3>1. failures[o] < StartLimit
      BY DEF UpgraderInv, RunnersInv, RunnerOpen, driver
    <3>2. CASE Exited(o, TRUE)
      BY <3>1, <3>2, ExitedTyped DEF UpgraderInv, driver
    <3>3. CASE Exited(o, FALSE)
      BY <3>1, <3>3, ExitedTyped DEF UpgraderInv, driver
    <3>4. CASE owner' = o /\ pc' = [pc EXCEPT ![o] = "check"] /\ UNCHANGED <<verdict, failures>>
      BY <3>4 DEF UpgraderInv, UpgraderTypeOK, RunnerTypeOK, driver
    <3> QED
      BY <3>2, <3>3, <3>4 DEF RunnerOpen, driver
  <2> QED
    BY <2>1
       DEF UpgraderInv, UpgraderTypeOK, RunnerTypeOK, RunnerOpen, durable, host, counts,
           driver
<1>2. RecordsInv'
  BY DEF UpgraderInv, RecordsInv, RunnerOpen, durable
<1>3. ScheduleInv'
  BY DEF UpgraderInv, ScheduleInv, Unsettled, Closed, RunnerOpen, durable, driver
<1>4. RunnersInv'
  BY UpgraderConstants
     DEF UpgraderInv, UpgraderTypeOK, RunnersInv, Closed, RunnerOpen, Exited,
         acquire_execution, IsTerminal, durable, Lifecycle, NoOp, driver
<1>5. HostInv'
  BY DEF UpgraderInv, UpgraderTypeOK, HostInv, All, RunnerOpen, Exited, durable, host,
         Parts, driver
<1>6. MixedHostCanGoBack'
  BY DEF UpgraderInv, MixedHostCanGoBack, RunnerOpen, host, driver
<1>7. RollbackInv'
  BY DEF UpgraderInv, RollbackInv, RunnerOpen, driver, Parts
<1> QED
  BY <1>1, <1>2, <1>3, <1>4, <1>5, <1>6, <1>7 DEF UpgraderInv

\* An installation starts only on a host that is not half the target already.
LEMMA RunnerCheckInv ==
  ASSUME UpgraderInv, NEW o \in Ops, RunnerCheck(o)
  PROVE  UpgraderInv'
<1>1. UpgraderTypeOK'
  <2>1. RunnerTypeOK'
    <3>1. failures[o] < StartLimit
      BY DEF UpgraderInv, RunnersInv, RunnerCheck, driver
    <3>2. CASE Exited(o, FALSE)
      BY <3>1, <3>2, ExitedTyped DEF UpgraderInv, driver
    <3>3. CASE Conclude(o, "failed")
      BY <3>3, ConcludeTyped DEF UpgraderInv, driver
    <3>4. CASE \/ Goto(o, "restart") \/ Goto(o, "preflight")
      BY <3>4 DEF UpgraderInv, UpgraderTypeOK, RunnerTypeOK, Goto, Lifecycle, driver
    <3> QED
      BY <3>2, <3>3, <3>4 DEF RunnerCheck, driver
  <2>2. state' \in [Ops -> {"none", "accepted", "running", "succeeded", "failed", "rolled_back"}]
    BY DEF UpgraderInv, UpgraderTypeOK, RunnerCheck, write_atomic, driver
  <2> QED
    BY <2>1, <2>2
       DEF UpgraderInv, UpgraderTypeOK, RunnerTypeOK, RunnerCheck, host, counts, driver
<1>2. RecordsInv'
  BY DEF UpgraderInv, UpgraderTypeOK, RecordsInv, RunnersInv, RunnerCheck, Exited,
         write_atomic
<1>3. ScheduleInv'
  <2>1. /\ UNCHANGED <<dir, intent, sched, toStart, overlap>> /\ state[o] # "none"
        /\ ~overlap => state[o] \in {"accepted", "running"}
    BY DEF UpgraderInv, UpgraderTypeOK, RunnersInv, RunnerCheck, Closed, driver
  <2>2. state' = state \/ state' = [state EXCEPT ![o] = "running"]
    BY DEF RunnerCheck, write_atomic, driver
  <2>3. \A x \in Ops : (~overlap => (Closed(x)' <=> Closed(x))) /\ (state'[x] = "none" <=> state[x] = "none")
    BY <2>1, <2>2 DEF UpgraderInv, UpgraderTypeOK, Closed, driver
  <2> QED
    BY <2>1, <2>3 DEF UpgraderInv, UpgraderTypeOK, ScheduleInv, Unsettled, driver
<1>4. RunnersInv'
  BY DEF UpgraderInv, UpgraderTypeOK, RunnersInv, Closed, RunnerCheck, Conclude, Exited,
         Goto, write_atomic, Lifecycle, driver
<1>5. HostInv'
  BY DEF UpgraderInv, UpgraderTypeOK, HostInv, All, RunnerCheck, Conclude, Exited, Goto,
         Interrupted, Matched, host, Parts, driver
<1>6. MixedHostCanGoBack'
  BY DEF UpgraderInv, MixedHostCanGoBack, RunnerCheck, host, driver
<1>7. RollbackInv'
  BY DEF UpgraderInv, RollbackInv, RunnerCheck, driver, Parts
<1> QED
  BY <1>1, <1>2, <1>3, <1>4, <1>5, <1>6, <1>7 DEF UpgraderInv

\* A host that was replaced in full needs its services restarted, no more.
LEMMA RunnerRestartInv ==
  ASSUME UpgraderInv, NEW o \in Ops, RunnerRestart(o)
  PROVE  UpgraderInv'
<1>1. UpgraderTypeOK'
  <2>1. RunnerTypeOK'
    BY ConcludeTyped DEF UpgraderInv, RunnerRestart
  <2> QED
    BY <2>1
       DEF UpgraderInv, UpgraderTypeOK, RunnerTypeOK, RunnerRestart, Idle, durable, host,
           counts, driver
<1>2. RecordsInv'
  BY DEF UpgraderInv, RecordsInv, RunnerRestart, durable
<1>3. ScheduleInv'
  BY DEF UpgraderInv, ScheduleInv, Unsettled, Closed, RunnerRestart, Idle, durable, driver
<1>4. RunnersInv'
  BY DEF UpgraderInv, UpgraderTypeOK, RunnersInv, Closed, RunnerRestart, Conclude,
         durable, driver
<1>5. HostInv'
  BY DEF UpgraderInv, UpgraderTypeOK, HostInv, All, RunnerRestart, Conclude, durable,
         host, Parts, driver
<1>6. MixedHostCanGoBack'
  BY DEF UpgraderInv, MixedHostCanGoBack, RunnerRestart, host, driver
<1>7. RollbackInv'
  BY DEF UpgraderInv, RollbackInv, RunnerRestart, driver, Parts
<1> QED
  BY <1>1, <1>2, <1>3, <1>4, <1>5, <1>6, <1>7 DEF UpgraderInv

\* Success is concluded only with both binaries and the commit record of the target.
LEMMA RunnerVerifyInv ==
  ASSUME UpgraderInv, NEW o \in Ops, RunnerVerify(o)
  PROVE  UpgraderInv'
<1>1. UpgraderTypeOK'
  <2>1. RunnerTypeOK'
    <3>1. failures[o] < StartLimit
      BY DEF UpgraderInv, RunnersInv, RunnerVerify, driver
    <3>2. CASE Exited(o, FALSE)
      BY <3>1, <3>2, ExitedTyped DEF UpgraderInv, driver
    <3>3. CASE Conclude(o, "succeeded") \/ Conclude(o, "failed")
      BY <3>3, ConcludeTyped DEF UpgraderInv, driver
    <3> QED
      BY <3>2, <3>3 DEF RunnerVerify, driver
  <2> QED
    BY <2>1
       DEF UpgraderInv, UpgraderTypeOK, RunnerTypeOK, RunnerVerify, durable, host, counts,
           driver
<1>2. RecordsInv'
  BY DEF UpgraderInv, RecordsInv, RunnerVerify, durable
<1>3. ScheduleInv'
  BY DEF UpgraderInv, ScheduleInv, Unsettled, Closed, RunnerVerify, durable, driver
<1>4. RunnersInv'
  BY DEF UpgraderInv, UpgraderTypeOK, RunnersInv, Closed, RunnerVerify, Conclude, Exited,
         durable, driver
<1>5. HostInv'
  BY DEF UpgraderInv, UpgraderTypeOK, HostInv, All, RunnerVerify, Conclude, Exited,
         durable, host, Parts, driver
<1>6. MixedHostCanGoBack'
  BY DEF UpgraderInv, MixedHostCanGoBack, RunnerVerify, host, driver
<1>7. RollbackInv'
  BY DEF UpgraderInv, RollbackInv, RunnerVerify, driver, Parts
<1> QED
  BY <1>1, <1>2, <1>3, <1>4, <1>5, <1>6, <1>7 DEF UpgraderInv

\* The result is written with the verdict and the package of the intent.
LEMMA WriteResultInv ==
  ASSUME UpgraderInv, NEW o \in Ops, WriteResult(o)
  PROVE  UpgraderInv'
<1>1. UpgraderTypeOK'
  BY DEF UpgraderInv, UpgraderTypeOK, WriteResult, Goto, write_atomic, load_intent, host,
         counts, driver
<1>2. RecordsInv'
  BY DEF UpgraderInv, RecordsInv, RunnersInv, WriteResult, write_atomic, load_intent
<1>3. ScheduleInv'
  BY DEF UpgraderInv, ScheduleInv, Unsettled, Closed, WriteResult, driver
<1>4. RunnersInv'
  BY DEF UpgraderInv, UpgraderTypeOK, RunnersInv, Closed, WriteResult, Goto, write_atomic,
         load_intent, Lifecycle, driver
<1>5. HostInv'
  BY DEF UpgraderInv, HostInv, All, WriteResult, Goto, host, Parts, driver
<1>6. MixedHostCanGoBack'
  BY DEF UpgraderInv, MixedHostCanGoBack, WriteResult, host, driver
<1>7. RollbackInv'
  BY DEF UpgraderInv, RollbackInv, WriteResult, driver, Parts
<1> QED
  BY <1>1, <1>2, <1>3, <1>4, <1>5, <1>6, <1>7 DEF UpgraderInv

\* The state becomes terminal after its result.
LEMMA WriteStateInv ==
  ASSUME UpgraderInv, NEW o \in Ops, WriteState(o)
  PROVE  UpgraderInv'
<1>1. UpgraderTypeOK'
  BY DEF UpgraderInv, UpgraderTypeOK, WriteState, Goto, write_atomic, host, counts, driver
<1>2. RecordsInv'
  BY DEF UpgraderInv, UpgraderTypeOK, RecordsInv, RunnersInv, WriteState, write_atomic
<1>3. ScheduleInv'
  BY DEF UpgraderInv, UpgraderTypeOK, ScheduleInv, RunnersInv, Unsettled, Closed,
         WriteState, write_atomic, driver
<1>4. RunnersInv'
  BY DEF UpgraderInv, UpgraderTypeOK, RunnersInv, WriteState, Goto, write_atomic,
         Lifecycle
<1>5. HostInv'
  BY DEF UpgraderInv, HostInv, All, WriteState, Goto, host, Parts, driver
<1>6. MixedHostCanGoBack'
  BY DEF UpgraderInv, MixedHostCanGoBack, WriteState, host, driver
<1>7. RollbackInv'
  BY DEF UpgraderInv, RollbackInv, WriteState, driver, Parts
<1> QED
  BY <1>1, <1>2, <1>3, <1>4, <1>5, <1>6, <1>7 DEF UpgraderInv

\* A runner that exits frees the lock and forgets its verdict.
LEMMA RunnerExitInv ==
  ASSUME UpgraderInv, NEW o \in Ops, RunnerExit(o)
  PROVE  UpgraderInv'
<1>1. UpgraderTypeOK'
  BY UpgraderConstants
     DEF UpgraderInv, UpgraderTypeOK, RunnersInv, RunnerExit, Exited, durable, host,
         counts, driver
<1>2. RecordsInv'
  BY DEF UpgraderInv, RecordsInv, RunnerExit, durable
<1>3. ScheduleInv'
  BY DEF UpgraderInv, ScheduleInv, Unsettled, Closed, RunnerExit, durable, driver
<1>4. RunnersInv'
  BY DEF UpgraderInv, UpgraderTypeOK, RunnersInv, RunnerExit, Exited, durable, Lifecycle
<1>5. HostInv'
  BY DEF UpgraderInv, HostInv, All, RunnerExit, Exited, durable, host, Parts, driver
<1>6. MixedHostCanGoBack'
  BY DEF UpgraderInv, MixedHostCanGoBack, RunnerExit, host, driver
<1>7. RollbackInv'
  BY DEF UpgraderInv, RollbackInv, RunnerExit, driver, Parts
<1> QED
  BY <1>1, <1>2, <1>3, <1>4, <1>5, <1>6, <1>7 DEF UpgraderInv

\* So does one that crashes.
LEMMA RunnerCrashInv ==
  ASSUME UpgraderInv, NEW o \in Ops, RunnerCrash(o)
  PROVE  UpgraderInv'
<1>1. UpgraderTypeOK'
  BY UpgraderConstants
     DEF UpgraderInv, UpgraderTypeOK, RunnersInv, RunnerCrash, Exited, durable, host,
         driver
<1>2. RecordsInv'
  BY DEF UpgraderInv, RecordsInv, RunnerCrash, durable
<1>3. ScheduleInv'
  BY DEF UpgraderInv, ScheduleInv, Unsettled, Closed, RunnerCrash, durable, driver
<1>4. RunnersInv'
  BY DEF UpgraderInv, UpgraderTypeOK, RunnersInv, Closed, RunnerCrash, Exited, durable,
         Lifecycle, driver
<1>5. HostInv'
  BY DEF UpgraderInv, HostInv, All, RunnerCrash, Exited, durable, host, Parts, driver
<1>6. MixedHostCanGoBack'
  BY DEF UpgraderInv, MixedHostCanGoBack, RunnerCrash, host, driver
<1>7. RollbackInv'
  BY DEF UpgraderInv, RollbackInv, RunnerCrash, driver, Parts
<1> QED
  BY <1>1, <1>2, <1>3, <1>4, <1>5, <1>6, <1>7 DEF UpgraderInv

\* A reboot starts no unit again and leaves every file.
LEMMA HostCrashInv ==
  ASSUME UpgraderInv, HostCrash
  PROVE  UpgraderInv'
<1>1. UpgraderTypeOK'
  BY UpgraderConstants
     DEF UpgraderInv, UpgraderTypeOK, HostCrash, Idle, durable, host, driver
<1>2. RecordsInv'
  BY DEF UpgraderInv, RecordsInv, HostCrash, durable, driver
<1>3. ScheduleInv'
  BY DEF UpgraderInv, ScheduleInv, Unsettled, Closed, HostCrash, Idle, durable, driver
<1>4. RunnersInv'
  BY DEF RunnersInv, HostCrash, Lifecycle
<1>5. HostInv'
  BY DEF UpgraderInv, HostInv, HostCrash, host, Parts, driver
<1>6. MixedHostCanGoBack'
  BY DEF UpgraderInv, MixedHostCanGoBack, HostCrash, host, driver
<1>7. RollbackInv'
  BY DEF UpgraderInv, RollbackInv, HostCrash, host, Parts
<1> QED
  BY <1>1, <1>2, <1>3, <1>4, <1>5, <1>6, <1>7 DEF UpgraderInv

\* A pending record of an unfinished installation ends the script here.
LEMMA PreflightInv ==
  ASSUME UpgraderInv, NEW o \in Ops, Preflight(o)
  PROVE  UpgraderInv'
<1>1. UpgraderTypeOK'
  BY DEF UpgraderInv, UpgraderTypeOK, Preflight, Conclude, Goto, Lifecycle, durable, host,
         counts, driver
<1>2. RecordsInv'
  BY DEF UpgraderInv, RecordsInv, Preflight, durable
<1>3. ScheduleInv'
  BY DEF UpgraderInv, ScheduleInv, Unsettled, Closed, Preflight, durable, driver
<1>4. RunnersInv'
  BY DEF UpgraderInv, UpgraderTypeOK, RunnersInv, Closed, Preflight, Conclude, Goto,
         durable, driver
<1>5. HostInv'
  BY DEF UpgraderInv, UpgraderTypeOK, HostInv, All, Preflight, Conclude, Goto, durable,
         host, Parts, driver
<1>6. MixedHostCanGoBack'
  BY DEF UpgraderInv, MixedHostCanGoBack, Preflight, host, driver
<1>7. RollbackInv'
  BY DEF UpgraderInv, RollbackInv, Preflight, driver, Parts
<1> QED
  BY <1>1, <1>2, <1>3, <1>4, <1>5, <1>6, <1>7 DEF UpgraderInv

\* A script that fails stops where it is, and its operation fails.
LEMMA ScriptFailsInv ==
  ASSUME UpgraderInv, NEW o \in Ops, ScriptFails(o)
  PROVE  UpgraderInv'
<1>1. UpgraderTypeOK'
  BY DEF UpgraderInv, UpgraderTypeOK, ScriptFails, Conclude, durable, host, counts, driver
<1>2. RecordsInv'
  BY DEF UpgraderInv, RecordsInv, ScriptFails, durable
<1>3. ScheduleInv'
  BY DEF UpgraderInv, ScheduleInv, Unsettled, Closed, ScriptFails, durable, driver
<1>4. RunnersInv'
  BY DEF UpgraderInv, UpgraderTypeOK, RunnersInv, Closed, ScriptFails, Conclude, durable,
         Lifecycle, driver
<1>5. HostInv'
  BY DEF UpgraderInv, HostInv, All, ScriptFails, Conclude, durable, host, Parts, driver
<1>6. MixedHostCanGoBack'
  BY DEF UpgraderInv, MixedHostCanGoBack, ScriptFails, host, driver
<1>7. RollbackInv'
  BY DEF UpgraderInv, RollbackInv, ScriptFails, driver, Lifecycle, Parts
<1> QED
  BY <1>1, <1>2, <1>3, <1>4, <1>5, <1>6, <1>7 DEF UpgraderInv

\* The snapshot is no longer whole while no part has been replaced.
LEMMA BackupInv ==
  ASSUME UpgraderInv, NEW o \in Ops, Backup(o)
  PROVE  UpgraderInv'
<1>1. UpgraderTypeOK'
  <2>1. snapshot' \in [of : [Parts -> Packages], whole : BOOLEAN]
    BY DEF UpgraderInv, UpgraderTypeOK, Backup
  <2> QED
    BY <2>1
       DEF UpgraderInv, UpgraderTypeOK, Backup, Goto, Lifecycle, durable, driver, counts
<1>2. RecordsInv'
  BY DEF UpgraderInv, RecordsInv, Backup, durable
<1>3. ScheduleInv'
  BY DEF UpgraderInv, ScheduleInv, Unsettled, Closed, Backup, durable, driver
<1>4. RunnersInv'
  BY DEF UpgraderInv, RunnersInv, Closed, Backup, Goto, durable, Lifecycle, driver
<1>5. HostInv'
  BY DEF UpgraderInv, UpgraderTypeOK, ScheduleInv, RunnersInv, HostInv, All, Backup, Goto,
         durable, Lifecycle, Parts, driver
<1>6. MixedHostCanGoBack'
  BY DEF UpgraderInv, HostInv, RollbackInv, MixedHostCanGoBack, Backup, driver
<1>7. RollbackInv'
  BY DEF UpgraderInv, RollbackInv, Backup, driver, Parts
<1> QED
  BY <1>1, <1>2, <1>3, <1>4, <1>5, <1>6, <1>7 DEF UpgraderInv

\* The snapshot is whole again, of the files as they are.
LEMMA CopyInv ==
  ASSUME UpgraderInv, NEW o \in Ops, Copy(o)
  PROVE  UpgraderInv'
<1>1. UpgraderTypeOK'
  BY DEF UpgraderInv, UpgraderTypeOK, Copy, Goto, durable, counts, Lifecycle, driver
<1>2. RecordsInv'
  BY DEF UpgraderInv, RecordsInv, Copy, durable
<1>3. ScheduleInv'
  BY DEF UpgraderInv, ScheduleInv, Unsettled, Closed, Copy, durable, driver
<1>4. RunnersInv'
  BY DEF UpgraderInv, RunnersInv, Closed, Copy, Goto, durable, Lifecycle, driver
<1>5. HostInv'
  BY DEF UpgraderInv, HostInv, RollbackInv, All, Copy, Goto, durable, Parts, driver
<1>6. MixedHostCanGoBack'
  BY DEF UpgraderInv, HostInv, RollbackInv, MixedHostCanGoBack, Copy, driver
<1>7. RollbackInv'
  BY DEF UpgraderInv, RollbackInv, Copy, driver, Parts
<1> QED
  BY <1>1, <1>2, <1>3, <1>4, <1>5, <1>6, <1>7 DEF UpgraderInv

\* The pending record precedes the first part.
LEMMA PendInv ==
  ASSUME UpgraderInv, NEW o \in Ops, Pend(o)
  PROVE  UpgraderInv'
<1>1. UpgraderTypeOK'
  BY DEF UpgraderInv, UpgraderTypeOK, Pend, Goto, durable, counts, Lifecycle, driver
<1>2. RecordsInv'
  BY DEF UpgraderInv, RecordsInv, Pend, durable
<1>3. ScheduleInv'
  BY DEF UpgraderInv, ScheduleInv, Unsettled, Closed, Pend, durable, driver
<1>4. RunnersInv'
  BY DEF UpgraderInv, RunnersInv, Closed, Pend, Goto, durable, Lifecycle, driver
<1>5. HostInv'
  BY UpgraderConstants
     DEF UpgraderInv, UpgraderTypeOK, ScheduleInv, RunnersInv, HostInv, Closed, Pend,
         Goto, durable, Parts, driver
<1>6. MixedHostCanGoBack'
  BY DEF UpgraderInv, HostInv, MixedHostCanGoBack, Pend, driver
<1>7. RollbackInv'
  BY DEF UpgraderInv, RollbackInv, Pend, driver, Parts
<1> QED
  BY <1>1, <1>2, <1>3, <1>4, <1>5, <1>6, <1>7 DEF UpgraderInv

\* Parts are replaced under the pending record and a whole snapshot.
LEMMA InstallPartInv ==
  ASSUME UpgraderInv, NEW o \in Ops, InstallPart(o)
  PROVE  UpgraderInv'
<1>1. UpgraderTypeOK'
  BY DEF UpgraderInv, UpgraderTypeOK, RecordsInv, RunnersInv, InstallPart, Goto, durable,
         counts, Lifecycle, Parts, driver
<1>2. RecordsInv'
  BY DEF UpgraderInv, RecordsInv, InstallPart, durable
<1>3. ScheduleInv'
  BY DEF UpgraderInv, ScheduleInv, Unsettled, Closed, InstallPart, durable, driver
<1>4. RunnersInv'
  BY DEF UpgraderInv, RunnersInv, Closed, InstallPart, Goto, durable, Lifecycle, Parts,
         driver
<1>5. HostInv'
  BY DEF UpgraderInv, UpgraderTypeOK, RecordsInv, RunnersInv, HostInv, MixedHostCanGoBack,
         Closed, All, InstallPart, Goto, durable, counts, Lifecycle, Parts, driver
<1>6. MixedHostCanGoBack'
  BY DEF UpgraderInv, UpgraderTypeOK, RecordsInv, RunnersInv, HostInv, MixedHostCanGoBack,
         InstallPart, Parts, driver
<1>7. RollbackInv'
  BY DEF UpgraderInv, RollbackInv, InstallPart, driver, Parts
<1> QED
  BY <1>1, <1>2, <1>3, <1>4, <1>5, <1>6, <1>7 DEF UpgraderInv

\* The commit record is torn once every part is in place.
LEMMA TruncateInv ==
  ASSUME UpgraderInv, NEW o \in Ops, Truncate(o)
  PROVE  UpgraderInv'
<1>1. UpgraderTypeOK'
  BY DEF UpgraderInv, UpgraderTypeOK, Truncate, Goto, durable, counts, Lifecycle, driver
<1>2. RecordsInv'
  BY DEF UpgraderInv, RecordsInv, Truncate, durable
<1>3. ScheduleInv'
  BY DEF UpgraderInv, ScheduleInv, Unsettled, Closed, Truncate, durable, driver
<1>4. RunnersInv'
  BY DEF UpgraderInv, RunnersInv, Closed, Truncate, Goto, durable, Lifecycle, driver
<1>5. HostInv'
  BY DEF UpgraderInv, HostInv, All, Truncate, Goto, durable, driver
<1>6. MixedHostCanGoBack'
  BY DEF UpgraderInv, MixedHostCanGoBack, Truncate, driver
<1>7. RollbackInv'
  BY DEF UpgraderInv, RollbackInv, Truncate, driver, Parts
<1> QED
  BY <1>1, <1>2, <1>3, <1>4, <1>5, <1>6, <1>7 DEF UpgraderInv

\* The commit record names the target once every part is in place.
LEMMA RecordInv ==
  ASSUME UpgraderInv, NEW o \in Ops, Record(o)
  PROVE  UpgraderInv'
<1>1. UpgraderTypeOK'
  BY DEF UpgraderInv, UpgraderTypeOK, Record, Goto, durable, counts, Lifecycle, driver
<1>2. RecordsInv'
  BY DEF UpgraderInv, RecordsInv, Record, durable
<1>3. ScheduleInv'
  BY DEF UpgraderInv, ScheduleInv, Unsettled, Closed, Record, durable, driver
<1>4. RunnersInv'
  BY DEF UpgraderInv, RunnersInv, Closed, Record, Goto, durable, Lifecycle, driver
<1>5. HostInv'
  BY DEF UpgraderInv, HostInv, All, Record, Goto, durable, driver
<1>6. MixedHostCanGoBack'
  BY DEF UpgraderInv, MixedHostCanGoBack, Record, driver
<1>7. RollbackInv'
  BY DEF UpgraderInv, RollbackInv, Record, driver, Parts
<1> QED
  BY <1>1, <1>2, <1>3, <1>4, <1>5, <1>6, <1>7 DEF UpgraderInv

\* The pending record goes when every part is of the target.
LEMMA ClearInv ==
  ASSUME UpgraderInv, NEW o \in Ops, Clear(o)
  PROVE  UpgraderInv'
<1>1. UpgraderTypeOK'
  BY DEF UpgraderInv, UpgraderTypeOK, Clear, Goto, durable, counts, Lifecycle, driver
<1>2. RecordsInv'
  BY DEF UpgraderInv, RecordsInv, Clear, durable
<1>3. ScheduleInv'
  BY DEF UpgraderInv, ScheduleInv, Unsettled, Closed, Clear, durable, driver
<1>4. RunnersInv'
  BY DEF UpgraderInv, RunnersInv, Closed, Clear, Goto, durable, Lifecycle, driver
<1>5. HostInv'
  BY DEF UpgraderInv, UpgraderTypeOK, RunnersInv, HostInv, All, OneRelease, Clear, Goto,
         durable, Parts, driver
<1>6. MixedHostCanGoBack'
  BY DEF UpgraderInv, HostInv, MixedHostCanGoBack, All, OneRelease, Clear, Parts, driver
<1>7. RollbackInv'
  BY DEF UpgraderInv, RollbackInv, Clear, driver, Parts
<1> QED
  BY <1>1, <1>2, <1>3, <1>4, <1>5, <1>6, <1>7 DEF UpgraderInv

\* Restarting the services stops a request inside privd and touches no file.
LEMMA RestartServicesInv ==
  ASSUME UpgraderInv, NEW o \in Ops, RestartServices(o)
  PROVE  UpgraderInv'
<1>1. UpgraderTypeOK'
  BY DEF UpgraderInv, UpgraderTypeOK, RestartServices, Goto, Idle, durable, host, counts,
         driver
<1>2. RecordsInv'
  BY DEF UpgraderInv, RecordsInv, RestartServices, durable
<1>3. ScheduleInv'
  BY DEF UpgraderInv, ScheduleInv, Unsettled, Closed, RestartServices, Idle, durable,
         driver
<1>4. RunnersInv'
  BY DEF UpgraderInv, RunnersInv, Closed, RestartServices, Goto, durable, Lifecycle,
         driver
<1>5. HostInv'
  BY DEF UpgraderInv, HostInv, All, RestartServices, Goto, durable, host, Parts, driver
<1>6. MixedHostCanGoBack'
  BY DEF UpgraderInv, MixedHostCanGoBack, RestartServices, host, driver
<1>7. RollbackInv'
  BY DEF UpgraderInv, RollbackInv, RestartServices, driver, Parts
<1> QED
  BY <1>1, <1>2, <1>3, <1>4, <1>5, <1>6, <1>7 DEF UpgraderInv

\* The units are stopped, or the upgrade overlaps the rollback.
LEMMA RollbackStopUnitsInv ==
  ASSUME UpgraderInv, RollbackStopUnits
  PROVE  UpgraderInv'
<1>1. UpgraderTypeOK'
  <2>1. overlap' \in BOOLEAN
    BY DEF UpgraderInv, UpgraderTypeOK, RollbackStopUnits
  <2>2. /\ pc' \in [Ops -> {"off", "open", "check", "restart", "verify", "result", "state",
                            "exit"} \cup Lifecycle]
        /\ verdict' \in [Ops -> {"none", "succeeded", "failed"}]
        /\ owner' \in Ops \cup {NoOp}
    BY DEF UpgraderInv, UpgraderTypeOK, RollbackStopUnits
  <2>3. rollbacks' \in 0..MaxRollbacks
    BY UpgraderConstants DEF UpgraderInv, UpgraderTypeOK, RollbackStopUnits
  <2> QED
    BY <2>1, <2>2, <2>3 DEF UpgraderInv, UpgraderTypeOK, RollbackStopUnits, durable, host
<1>2. RecordsInv'
  BY DEF UpgraderInv, RecordsInv, RollbackStopUnits, durable
<1>3. ScheduleInv'
  BY DEF UpgraderInv, ScheduleInv, Unsettled, Closed, RollbackStopUnits, durable
<1>4. RunnersInv'
  BY DEF UpgraderInv, RunnersInv, RollbackStopUnits, durable, Lifecycle
<1>5. HostInv'
  BY DEF UpgraderInv, HostInv, RollbackStopUnits, host, Parts
<1>6. MixedHostCanGoBack'
  BY DEF UpgraderInv, MixedHostCanGoBack, RollbackStopUnits, host
<1>7. RollbackInv'
  BY DEF RollbackInv, RollbackStopUnits, host, Parts
<1> QED
  BY <1>1, <1>2, <1>3, <1>4, <1>5, <1>6, <1>7 DEF UpgraderInv

\* With privd stopped no operation is opened any more.
LEMMA RollbackStopServicesInv ==
  ASSUME UpgraderInv, RollbackStopServices
  PROVE  UpgraderInv'
<1>1. UpgraderTypeOK'
  BY DEF UpgraderInv, UpgraderTypeOK, RollbackStopServices, Idle, durable, host, runner,
         counts
<1>2. RecordsInv'
  BY DEF UpgraderInv, RecordsInv, RollbackStopServices, durable
<1>3. ScheduleInv'
  BY DEF UpgraderInv, ScheduleInv, Unsettled, Closed, RollbackStopServices, Idle, durable
<1>4. RunnersInv'
  BY DEF UpgraderInv, RunnersInv, Closed, RollbackStopServices, durable, runner
<1>5. HostInv'
  BY DEF UpgraderInv, HostInv, All, RollbackStopServices, durable, host, runner
<1>6. MixedHostCanGoBack'
  BY DEF UpgraderInv, MixedHostCanGoBack, RollbackStopServices, host
<1>7. RollbackInv'
  BY DEF UpgraderInv, UpgraderTypeOK, RecordsInv, RollbackInv, IsActive,
         RollbackStopServices, durable, host, runner, Parts
<1> QED
  BY <1>1, <1>2, <1>3, <1>4, <1>5, <1>6, <1>7 DEF UpgraderInv

\* An operation left open is one the loop has still to visit.
LEMMA mark_operations_rolled_backInv ==
  ASSUME UpgraderInv, mark_operations_rolled_back
  PROVE  UpgraderInv'
<1>1. UpgraderTypeOK'
  <2>1. state' \in [Ops -> {"none", "accepted", "running", "succeeded", "failed", "rolled_back"}]
    BY DEF UpgraderInv, UpgraderTypeOK, mark_operations_rolled_back, write_atomic
  <2>2. rollback' \in {"off", "services", "mark", "clear", "start"} \cup Parts /\ left' \subseteq Ops
    BY DEF UpgraderInv, UpgraderTypeOK, mark_operations_rolled_back, Parts
  <2> QED
    BY <2>1, <2>2
       DEF UpgraderInv, UpgraderTypeOK, mark_operations_rolled_back, runner, host, counts
<1>2. RecordsInv'
  BY DEF UpgraderInv, UpgraderTypeOK, RecordsInv, IsActive, mark_operations_rolled_back,
         write_atomic
<1>3. ScheduleInv'
  <2>1. UNCHANGED <<dir, intent, sched, toStart, overlap>>
    BY DEF mark_operations_rolled_back
  <2>2. \A x \in Ops : (Closed(x) => Closed(x)') /\ (state'[x] = "none" <=> state[x] = "none")
    BY DEF UpgraderInv, UpgraderTypeOK, mark_operations_rolled_back, write_atomic,
           IsActive, Closed
  <2> QED
    BY <2>1, <2>2 DEF UpgraderInv, UpgraderTypeOK, ScheduleInv, Unsettled
<1>4. RunnersInv'
  BY DEF UpgraderInv, UpgraderTypeOK, RunnersInv, RollbackInv,
         mark_operations_rolled_back, write_atomic, runner, Lifecycle
<1>5. HostInv'
  BY DEF UpgraderInv, HostInv, All, mark_operations_rolled_back, host, runner
<1>6. MixedHostCanGoBack'
  BY DEF UpgraderInv, MixedHostCanGoBack, mark_operations_rolled_back, host
<1>7. RollbackInv'
  BY DEF UpgraderInv, UpgraderTypeOK, RollbackInv, IsActive, mark_operations_rolled_back,
         write_atomic, host, runner
<1> QED
  BY <1>1, <1>2, <1>3, <1>4, <1>5, <1>6, <1>7 DEF UpgraderInv

\* The files come back one by one; none runs meanwhile.
LEMMA restore_fileInv ==
  ASSUME UpgraderInv, restore_file
  PROVE  UpgraderInv'
<1>1. UpgraderTypeOK'
  BY DEF UpgraderInv, UpgraderTypeOK, restore_file, Parts, durable, runner, counts
<1>2. RecordsInv'
  BY DEF UpgraderInv, RecordsInv, restore_file, durable
<1>3. ScheduleInv'
  BY DEF UpgraderInv, ScheduleInv, Unsettled, Closed, restore_file, durable
<1>4. RunnersInv'
  BY DEF UpgraderInv, RunnersInv, Closed, restore_file, durable, runner
<1>5. HostInv'
  BY DEF UpgraderInv, UpgraderTypeOK, HostInv, RollbackInv, OneRelease, restore_file,
         Parts, runner
<1>6. MixedHostCanGoBack'
  BY UpgraderConstants
     DEF UpgraderInv, UpgraderTypeOK, HostInv, RollbackInv, MixedHostCanGoBack,
         restore_file, Parts
<1>7. RollbackInv'
  BY DEF UpgraderInv, UpgraderTypeOK, RollbackInv, IsActive, restore_file, Parts, durable,
         runner
<1> QED
  BY <1>1, <1>2, <1>3, <1>4, <1>5, <1>6, <1>7 DEF UpgraderInv

\* The pending record goes when every file is the snapshot's.
LEMMA RollbackClearInv ==
  ASSUME UpgraderInv, RollbackClear
  PROVE  UpgraderInv'
<1>1. UpgraderTypeOK'
  BY DEF UpgraderInv, UpgraderTypeOK, RollbackClear, durable, runner, counts
<1>2. RecordsInv'
  BY DEF UpgraderInv, RecordsInv, RollbackClear, durable
<1>3. ScheduleInv'
  BY DEF UpgraderInv, ScheduleInv, Unsettled, Closed, RollbackClear, durable
<1>4. RunnersInv'
  BY DEF UpgraderInv, RunnersInv, Closed, RollbackClear, durable, runner
<1>5. HostInv'
  BY DEF UpgraderInv, HostInv, RollbackInv, RollbackClear, Parts, runner
<1>6. MixedHostCanGoBack'
  BY DEF UpgraderInv, RollbackInv, MixedHostCanGoBack, RollbackClear
<1>7. RollbackInv'
  BY DEF UpgraderInv, RollbackInv, IsActive, RollbackClear, durable, runner
<1> QED
  BY <1>1, <1>2, <1>3, <1>4, <1>5, <1>6, <1>7 DEF UpgraderInv

\* A rollback that stops leaves a host that can still go back.
LEMMA RollbackEndsInv ==
  ASSUME UpgraderInv, RollbackEnds
  PROVE  UpgraderInv'
<1>1. UpgraderTypeOK'
  BY DEF UpgraderInv, UpgraderTypeOK, RollbackEnds, durable, host, runner, counts
<1>2. RecordsInv'
  BY DEF UpgraderInv, RecordsInv, RollbackEnds, durable
<1>3. ScheduleInv'
  BY DEF UpgraderInv, ScheduleInv, Unsettled, Closed, RollbackEnds, durable
<1>4. RunnersInv'
  BY DEF UpgraderInv, RunnersInv, Closed, RollbackEnds, durable, runner
<1>5. HostInv'
  BY DEF UpgraderInv, HostInv, All, RollbackEnds, durable, host, runner
<1>6. MixedHostCanGoBack'
  BY DEF UpgraderInv, MixedHostCanGoBack, RollbackEnds, host
<1>7. RollbackInv'
  BY DEF UpgraderInv, RollbackInv, RollbackEnds, Parts, host, runner
<1> QED
  BY <1>1, <1>2, <1>3, <1>4, <1>5, <1>6, <1>7 DEF UpgraderInv

\* No operation was scheduled yet.
LEMMA UpgraderInitInv == Init => UpgraderInv
<1> SUFFICES ASSUME Init PROVE UpgraderInv
  OBVIOUS
<1>1. UpgraderTypeOK
  <2>1. commit \in Packages \cup {NoPackage, Torn} /\ files \in [Parts -> Packages]
    BY UpgraderConstants DEF Init
  <2>2. /\ rollback \in {"off", "services", "mark", "clear", "start"} \cup Parts
        /\ left \subseteq Ops /\ halfway \in BOOLEAN /\ overlap \in BOOLEAN
    BY DEF Init
  <2>3. /\ requests \in 0..MaxRequests /\ crashes \in Nat /\ reboots \in Nat
        /\ rollbacks \in 0..MaxRollbacks /\ failures \in [Ops -> 0..StartLimit]
    BY UpgraderConstants DEF Init
  <2>4. /\ snapshot \in [of : [Parts -> Packages], whole : BOOLEAN]
        /\ sched \in [op : Ops \cup {NoOp}, pkg : Packages \cup {NoPackage},
                      step : {"none", "mkdir", "intent", "state", "trigger"}]
    BY UpgraderConstants DEF Init, Idle
  <2> QED
    BY <2>1, <2>2, <2>3, <2>4 DEF Init, UpgraderTypeOK, NoResult
<1>2. RecordsInv /\ RunnersInv
  BY DEF Init, RecordsInv, RunnersInv, Lifecycle
<1>3. ScheduleInv
  BY DEF Init, ScheduleInv, Unsettled, Idle
<1>4. HostInv /\ RollbackInv /\ MixedHostCanGoBack
  BY DEF Init, HostInv, RollbackInv, MixedHostCanGoBack, OneRelease, Parts
<1> QED
  BY <1>1, <1>2, <1>3, <1>4 DEF UpgraderInv

\* Every step of privd, a runner, the script, a crash and the operator keeps
\* the invariant.
LEMMA UpgraderNextInv ==
  ASSUME UpgraderInv, [Next]_vars
  PROVE  UpgraderInv'
<1>1. ASSUME NEW o \in Ops, NEW p \in Packages, ScheduleStart(o, p)
      PROVE  UpgraderInv'
  BY <1>1, ScheduleStartInv
<1>2. CASE ScheduleMkdir
  BY <1>2, ScheduleMkdirInv
<1>3. CASE ScheduleIntent
  BY <1>3, ScheduleIntentInv
<1>4. CASE ScheduleState
  BY <1>4, ScheduleStateInv
<1>5. CASE ScheduleRelease
  BY <1>5, ScheduleReleaseInv
<1>6. ASSUME NEW o \in Ops, Trigger(o)
      PROVE  UpgraderInv'
  BY <1>6, TriggerInv
<1>7. CASE PrivdCrash
  BY <1>7, PrivdCrashInv
<1>8. ASSUME NEW o \in Ops, RunnerOpen(o)
      PROVE  UpgraderInv'
  BY <1>8, RunnerOpenInv
<1>9. ASSUME NEW o \in Ops, RunnerCheck(o)
      PROVE  UpgraderInv'
  BY <1>9, RunnerCheckInv
<1>10. ASSUME NEW o \in Ops, RunnerRestart(o)
      PROVE  UpgraderInv'
  BY <1>10, RunnerRestartInv
<1>11. ASSUME NEW o \in Ops, RunnerVerify(o)
      PROVE  UpgraderInv'
  BY <1>11, RunnerVerifyInv
<1>12. ASSUME NEW o \in Ops, WriteResult(o)
      PROVE  UpgraderInv'
  BY <1>12, WriteResultInv
<1>13. ASSUME NEW o \in Ops, WriteState(o)
      PROVE  UpgraderInv'
  BY <1>13, WriteStateInv
<1>14. ASSUME NEW o \in Ops, RunnerExit(o)
      PROVE  UpgraderInv'
  BY <1>14, RunnerExitInv
<1>15. ASSUME NEW o \in Ops, RunnerCrash(o)
      PROVE  UpgraderInv'
  BY <1>15, RunnerCrashInv
<1>16. CASE HostCrash
  BY <1>16, HostCrashInv
<1>17. ASSUME NEW o \in Ops, Preflight(o)
      PROVE  UpgraderInv'
  BY <1>17, PreflightInv
<1>18. ASSUME NEW o \in Ops, ScriptFails(o)
      PROVE  UpgraderInv'
  BY <1>18, ScriptFailsInv
<1>19. ASSUME NEW o \in Ops, Backup(o)
      PROVE  UpgraderInv'
  BY <1>19, BackupInv
<1>20. ASSUME NEW o \in Ops, Copy(o)
      PROVE  UpgraderInv'
  BY <1>20, CopyInv
<1>21. ASSUME NEW o \in Ops, Pend(o)
      PROVE  UpgraderInv'
  BY <1>21, PendInv
<1>22. ASSUME NEW o \in Ops, InstallPart(o)
      PROVE  UpgraderInv'
  BY <1>22, InstallPartInv
<1>23. ASSUME NEW o \in Ops, Truncate(o)
      PROVE  UpgraderInv'
  BY <1>23, TruncateInv
<1>24. ASSUME NEW o \in Ops, Record(o)
      PROVE  UpgraderInv'
  BY <1>24, RecordInv
<1>25. ASSUME NEW o \in Ops, Clear(o)
      PROVE  UpgraderInv'
  BY <1>25, ClearInv
<1>26. ASSUME NEW o \in Ops, RestartServices(o)
      PROVE  UpgraderInv'
  BY <1>26, RestartServicesInv
<1>27. CASE RollbackAgent
  <2>1. CASE RollbackStopUnits
    BY <2>1, RollbackStopUnitsInv
  <2>2. CASE RollbackStopServices
    BY <2>2, RollbackStopServicesInv
  <2>3. CASE mark_operations_rolled_back
    BY <2>3, mark_operations_rolled_backInv
  <2>4. CASE restore_file
    BY <2>4, restore_fileInv
  <2>5. CASE RollbackClear
    BY <2>5, RollbackClearInv
  <2>6. CASE RollbackEnds
    BY <2>6, RollbackEndsInv
  <2> QED
    BY <1>27, <2>1, <2>2, <2>3, <2>4, <2>5, <2>6 DEF RollbackAgent
<1>28. CASE UNCHANGED vars
  BY <1>28
     DEF vars, UpgraderInv, UpgraderTypeOK, RecordsInv, ScheduleInv, RunnersInv, HostInv,
         RollbackInv, MixedHostCanGoBack, Unsettled, Closed, All, IsActive
<1> QED
  BY <1>1, <1>2, <1>3, <1>4, <1>5, <1>6, <1>7, <1>8, <1>9, <1>10, <1>11, <1>12, <1>13,
     <1>14, <1>15, <1>16, <1>17, <1>18, <1>19, <1>20, <1>21, <1>22, <1>23, <1>24, <1>25,
     <1>26, <1>27, <1>28
     DEF Next, Privd, Runner, Script, Faults

\* The inductive invariant holds in every reachable state.
THEOREM UpgraderInvariant == Spec => []UpgraderInv
<1>1. Init => UpgraderInv
  BY UpgraderInitInv
<1>2. UpgraderInv /\ [Next]_vars => UpgraderInv'
  BY UpgraderNextInv
<1> QED
  BY <1>1, <1>2, PTL DEF Spec

\* The records, the schedule, the runners and the host keep their types.
THEOREM UpgraderTypeCorrect == Spec => []UpgraderTypeOK
<1>1. UpgraderInv => UpgraderTypeOK
  BY DEF UpgraderInv
<1> QED
  BY <1>1, UpgraderInvariant, PTL

\* A mixed host keeps a whole snapshot of another single release, whatever
\* crashes, rolls back or stops halfway, until an upgrade is started beside a
\* rollback or over what one left (execute, upgrade-agent.sh, rollback-agent.sh).
THEOREM UpgraderMixedHostCanGoBack == Spec => []MixedHostCanGoBack
<1>1. UpgraderInv => MixedHostCanGoBack
  BY DEF UpgraderInv
<1> QED
  BY <1>1, UpgraderInvariant, PTL

\* A closed operation is in what privd signs and the Controller takes
\* (write_terminal, execute_read, VerifyUpgradeResult).
LEMMA ClosedReported == UpgraderInv => ClosedIsReported
<1> SUFFICES ASSUME UpgraderInv, \A x \in dir : intent[x] # NoPackage,
                    NEW o \in Ops, state[o] \in {"succeeded", "failed"},
                    Cardinality(Newer(o, dir)) < RecentLimit
             PROVE  [op |-> o, state |-> state[o], package |-> intent[o]] \in Reported
  BY DEF ClosedIsReported
<1>1. o \in dir /\ intent[o] \in Packages
  BY DEF UpgraderInv, UpgraderTypeOK, RecordsInv
<1>2. result[o] = [state |-> state[o], package |-> intent[o]] /\ result[o] # NoResult
  BY <1>1 DEF UpgraderInv, RecordsInv, NoResult
<1>3. StoreReadable
  BY DEF StoreReadable, load_intent, UpgraderInv, UpgraderTypeOK, RecordsInv
<1>4. \A r \in read_recent_results : validate_upgrade_result(r)
  <2>1. \A r \in read_recent_results : \E x \in dir : result[x] # NoResult /\ r = Outcome(x)
    BY DEF read_recent_results
  <2>2. \A x \in dir : result[x] # NoResult => validate_upgrade_result(Outcome(x))
    BY DEF validate_upgrade_result, Outcome, IsTerminal, UpgraderInv, UpgraderTypeOK,
           RecordsInv
  <2> QED
    BY <2>1, <2>2
<1>5. Outcome(o) \in read_recent_results
  <2> DEFINE closed == {r \in dir : result[r] # NoResult}
  <2>1. IsFiniteSet(Newer(o, dir)) /\ Newer(o, closed) \subseteq Newer(o, dir)
    <3>1. Newer(o, dir) \subseteq Ops
      BY DEF Newer, UpgraderInv, UpgraderTypeOK
    <3>2. Newer(o, closed) \subseteq Newer(o, dir)
      BY DEF Newer
    <3> QED
      BY <3>1, <3>2, UpgraderConstants, FS_Subset
  <2>2. /\ Cardinality(Newer(o, closed)) \in Nat /\ Cardinality(Newer(o, dir)) \in Nat
        /\ Cardinality(Newer(o, closed)) <= Cardinality(Newer(o, dir))
    BY <2>1, FS_Subset, FS_CardinalityType
  <2>3. Cardinality(Newer(o, closed)) < RecentLimit
    BY <2>2, UpgraderConstants
  <2>4. o \in closed
    BY <1>1, <1>2
  <2> QED
    BY <2>3, <2>4 DEF read_recent_results
<1>6. Outcome(o) = [op |-> o, state |-> state[o], package |-> intent[o]]
  BY <1>2 DEF Outcome
<1> DEFINE report == [op |-> o, state |-> state[o],
                      proof |-> sign_upgrade_result(Outcome(o))]
<1>7. report \in execute_read
  BY <1>3, <1>4, <1>5, <1>6 DEF execute_read
<1>8. report.proof = [op |-> o, state |-> state[o], package |-> intent[o], signed |-> TRUE]
  BY <1>6 DEF sign_upgrade_result
<1>9. VerifyUpgradeResult(report)
  BY <1>1, <1>8 DEF VerifyUpgradeResult, validate_upgrade_result, IsTerminal
<1> QED
  BY <1>7, <1>8, <1>9 DEF Reported

\* An operation its runner closed is reported as it was closed, although the
\* evidence and the state are two writes and a crash between them repeats the
\* run (write_terminal).
THEOREM UpgraderClosedIsReported == Spec => []ClosedIsReported
<1> QED
  BY ClosedReported, UpgraderInvariant, PTL

-----------------------------------------------------------------------------
(* A release that was rolled back is not tried again: then the commit      *)
(* record can be believed, and the abstract upgrade is implemented.        *)

\* The host starts with the release its commit record names, or without one.
LEMMA CommitInitInv == Init => CommitInv
  BY DEF Init, CommitInv, OneRelease, Parts, Idle, IsActive

\* Only a host that holds all of a package has that package recorded.
LEMMA CommitNextInv ==
  ASSUME ~RetryRolledBack, UpgraderInv, UpgraderInv', CommitInv, [Next]_vars
  PROVE  CommitInv'
<1> SUFFICES ASSUME ~overlap' PROVE CommitInv'
  BY DEF CommitInv
<1>1. ASSUME NEW o \in Ops, NEW p \in Packages, ScheduleStart(o, p)
      PROVE  CommitInv'
  <2>1. sched'.step \in {"mkdir", "intent", "state"} => sched'.pkg = p
    BY <1>1 DEF ScheduleStart, Idle
  <2>2. commit = p => files["agent"] = p
    BY <1>1 DEF ScheduleStart, RolledBack
  <2> QED
    BY <1>1, <2>1, <2>2
       DEF CommitInv, ScheduleStart, All, IsActive, durable, host, runner, driver
<1>2. CASE ScheduleMkdir
  BY <1>2 DEF CommitInv, IsActive, All, ScheduleMkdir, host, runner, driver
<1>3. CASE ScheduleIntent
  BY <1>3
     DEF CommitInv, IsActive, UpgraderInv, UpgraderTypeOK, ScheduleInv, RunnersInv, All,
         ScheduleIntent, write_atomic, host, runner, Parts, driver
<1>4. CASE ScheduleState
  BY <1>4
     DEF CommitInv, IsActive, UpgraderInv, ScheduleInv, All, ScheduleState, write_atomic,
         host, runner, driver
<1>5. CASE ScheduleRelease
  BY <1>5
     DEF CommitInv, IsActive, All, ScheduleRelease, Idle, durable, host, runner, driver
<1>6. ASSUME NEW o \in Ops, Trigger(o)
      PROVE  CommitInv'
  BY <1>6
     DEF CommitInv, IsActive, UpgraderInv, UpgraderTypeOK, All, Trigger, durable, host,
         Parts, driver
<1>7. CASE PrivdCrash
  BY <1>7 DEF CommitInv, IsActive, All, PrivdCrash, Idle, durable, host, runner, driver
<1>8. ASSUME NEW o \in Ops, RunnerOpen(o)
      PROVE  CommitInv'
  BY <1>8
     DEF CommitInv, IsActive, UpgraderInv, UpgraderTypeOK, All, RunnerOpen, Exited,
         durable, host, Parts, driver
<1>9. ASSUME NEW o \in Ops, RunnerCheck(o)
      PROVE  CommitInv'
  BY <1>9
     DEF CommitInv, IsActive, UpgraderInv, UpgraderTypeOK, RunnersInv, HostInv,
         RollbackInv, Closed, All, OneRelease, RunnerCheck, Conclude, Exited, Goto,
         write_atomic, Replaced, Committed, host, Parts, driver
<1>10. ASSUME NEW o \in Ops, RunnerRestart(o)
      PROVE  CommitInv'
  BY <1>10
     DEF CommitInv, IsActive, UpgraderInv, UpgraderTypeOK, All, RunnerRestart, Conclude,
         Idle, durable, host, Parts, driver
<1>11. ASSUME NEW o \in Ops, RunnerVerify(o)
      PROVE  CommitInv'
  BY <1>11
     DEF CommitInv, IsActive, UpgraderInv, UpgraderTypeOK, HostInv, All, RunnerVerify,
         Conclude, Exited, durable, host, Parts, driver
<1>12. ASSUME NEW o \in Ops, WriteResult(o)
      PROVE  CommitInv'
  BY <1>12 DEF CommitInv, IsActive, All, WriteResult, Goto, host, Parts, driver
<1>13. ASSUME NEW o \in Ops, WriteState(o)
      PROVE  CommitInv'
  BY <1>13
     DEF CommitInv, IsActive, UpgraderInv, UpgraderTypeOK, All, WriteState, Goto,
         write_atomic, host, Parts, driver
<1>14. ASSUME NEW o \in Ops, RunnerExit(o)
      PROVE  CommitInv'
  BY <1>14 DEF CommitInv, IsActive, All, RunnerExit, Exited, durable, host, Parts, driver
<1>15. ASSUME NEW o \in Ops, RunnerCrash(o)
      PROVE  CommitInv'
  BY <1>15 DEF CommitInv, IsActive, All, RunnerCrash, Exited, durable, host, Parts, driver
<1>16. CASE HostCrash
  BY <1>16 DEF CommitInv, IsActive, HostCrash, Idle, durable, host, Parts
<1>17. ASSUME NEW o \in Ops, Preflight(o)
      PROVE  CommitInv'
  BY <1>17
     DEF CommitInv, IsActive, UpgraderInv, UpgraderTypeOK, All, Preflight, Conclude, Goto,
         durable, host, driver
<1>18. ASSUME NEW o \in Ops, ScriptFails(o)
      PROVE  CommitInv'
  BY <1>18
     DEF CommitInv, IsActive, UpgraderInv, UpgraderTypeOK, All, ScriptFails, Conclude,
         durable, host, Parts, driver
<1>19. ASSUME NEW o \in Ops, Backup(o)
      PROVE  CommitInv'
  BY <1>19 DEF CommitInv, IsActive, All, Backup, Goto, durable, driver
<1>20. ASSUME NEW o \in Ops, Copy(o)
      PROVE  CommitInv'
  BY <1>20 DEF CommitInv, IsActive, All, Copy, Goto, durable, driver
<1>21. ASSUME NEW o \in Ops, Pend(o)
      PROVE  CommitInv'
  BY <1>21 DEF CommitInv, IsActive, All, Pend, Goto, durable, driver
<1>22. ASSUME NEW o \in Ops, InstallPart(o)
      PROVE  CommitInv'
  <2>0. ~overlap /\ ~halfway /\ UNCHANGED <<overlap, halfway>>
    BY <1>22 DEF InstallPart, driver, UpgraderInv, RollbackInv, Parts
  <2>1. /\ pc[o] \in Parts /\ pc'[o] \in {"privd", "rest", "truncate"}
    BY <2>0, <1>22 DEF InstallPart, Goto, Parts, UpgraderInv, UpgraderTypeOK
  <2>5. \A x \in Ops \ {o} : pc'[x] = pc[x] /\ pc'[x] \in {"off", "open"}
    BY <2>0, <1>22 DEF InstallPart, Goto, Parts, UpgraderInv, UpgraderTypeOK, RunnersInv
  <2>2. /\ UNCHANGED <<state, intent, commit, sched, verdict>> /\ commit # intent[o]
        /\ files'["agent"] = intent[o]
    BY <2>0, <1>22, <2>1
       DEF CommitInv, InstallPart, Goto, UpgraderInv, HostInv, Parts, durable
  <2>3. \A x \in Ops : IsActive(x) => x = o
    BY <2>0, <2>1
       DEF UpgraderInv, RecordsInv, ScheduleInv, RunnersInv, Unsettled, Closed, IsActive,
           Lifecycle, Parts, driver
  <2>4. sched.step \in {"mkdir", "intent", "state"} /\ commit = sched.pkg => FALSE
    <3>1. o \in dir /\ Unsettled(o)
      BY <2>0, <2>1, UpgraderConstants
         DEF UpgraderInv, RecordsInv, RunnersInv, Unsettled, Closed, Lifecycle, Parts,
             driver
    <3>2. sched.step \in {"intent", "state"} => sched.op \in Ops /\ state[sched.op] = "none"
      BY UpgraderConstants DEF UpgraderInv, RecordsInv, ScheduleInv, driver
    <3>3. sched.step \in {"intent", "state"} => sched.op \in dir
      <4>1. CASE sched.step = "intent"
        BY <4>1 DEF UpgraderInv, ScheduleInv, driver
      <4>2. CASE sched.step = "state"
        <5>1. intent[sched.op] # NoPackage /\ sched.op \in Ops
          BY <4>2, UpgraderConstants DEF UpgraderInv, ScheduleInv, driver
        <5> QED
          BY <5>1 DEF UpgraderInv, RecordsInv, driver
      <4> QED
        BY <4>1, <4>2
    <3>4. sched.step \in {"intent", "state"} => Unsettled(sched.op)
      BY <3>2, <3>3 DEF Unsettled, Closed, driver
    <3> QED
      BY <2>0, <2>1, <3>1, <3>2, <3>4
         DEF UpgraderInv, ScheduleInv, RunnersInv, Lifecycle, Parts, driver
  <2> QED
    BY <2>0, <2>1, <2>2, <2>3, <2>4, <2>5 DEF CommitInv, IsActive, driver
<1>23. ASSUME NEW o \in Ops, Truncate(o)
      PROVE  CommitInv'
  BY <1>23, UpgraderConstants
     DEF CommitInv, UpgraderInv, UpgraderTypeOK, All, Truncate, Goto, durable, driver
<1>24. ASSUME NEW o \in Ops, Record(o)
      PROVE  CommitInv'
  BY <1>24
     DEF CommitInv, IsActive, UpgraderInv, UpgraderTypeOK, RunnersInv, HostInv, All,
         OneRelease, Record, Goto, durable, Parts, driver
<1>25. ASSUME NEW o \in Ops, Clear(o)
      PROVE  CommitInv'
  BY <1>25 DEF CommitInv, IsActive, All, Clear, Goto, durable, Parts, driver
<1>26. ASSUME NEW o \in Ops, RestartServices(o)
      PROVE  CommitInv'
  BY <1>26
     DEF CommitInv, IsActive, All, RestartServices, Goto, Idle, durable, host, Parts,
         driver
<1>27. CASE RollbackAgent
  <2>1. CASE RollbackStopUnits
    BY <2>1 DEF CommitInv, IsActive, RollbackStopUnits, Parts, durable, host
  <2>2. CASE RollbackStopServices
    BY <2>2
       DEF CommitInv, IsActive, RollbackStopServices, Idle, All, durable, host, runner
  <2>3. CASE mark_operations_rolled_back
    BY <2>3
       DEF CommitInv, IsActive, UpgraderInv, UpgraderTypeOK, mark_operations_rolled_back,
           write_atomic, All, host, runner
  <2>4. CASE restore_file
    BY <2>4
       DEF CommitInv, IsActive, UpgraderInv, UpgraderTypeOK, HostInv, RollbackInv,
           restore_file, write_atomic, Idle, OneRelease, Parts
  <2>5. CASE RollbackClear
    BY <2>5 DEF CommitInv, UpgraderInv, RollbackInv, RollbackClear, durable
  <2>6. CASE RollbackEnds
    BY <2>6 DEF CommitInv, IsActive, RollbackEnds, All, durable, host, runner
  <2> QED
    BY <1>27, <2>1, <2>2, <2>3, <2>4, <2>5, <2>6 DEF RollbackAgent
<1>28. CASE UNCHANGED vars
  BY <1>28 DEF vars, CommitInv, All, IsActive, driver
<1> QED
  BY <1>1, <1>2, <1>3, <1>4, <1>5, <1>6, <1>7, <1>8, <1>9, <1>10, <1>11, <1>12, <1>13,
     <1>14, <1>15, <1>16, <1>17, <1>18, <1>19, <1>20, <1>21, <1>22, <1>23, <1>24, <1>25,
     <1>26, <1>27, <1>28
     DEF Next, Privd, Runner, Script, Faults

\* The commit record can be believed in every reachable state.
THEOREM UpgraderCommitInvariant == ~RetryRolledBack /\ Spec => []CommitInv
<1> SUFFICES ASSUME ~RetryRolledBack PROVE Spec => []CommitInv
  OBVIOUS
<1>1. Init => CommitInv
  BY CommitInitInv
<1>2. UpgraderInv /\ UpgraderInv' /\ CommitInv /\ [Next]_vars => CommitInv'
  BY CommitNextInv
<1> QED
  BY <1>1, <1>2, UpgraderInvariant, PTL DEF Spec

\* A success is recorded only over a host that holds all of the package: the
\* comment in execute, for a release that was not rolled back before.
THEOREM UpgraderSuccessMeansInstalled == ~RetryRolledBack /\ Spec => SuccessMeansInstalled
<1> SUFFICES ASSUME ~RetryRolledBack PROVE Spec => SuccessMeansInstalled
  OBVIOUS
<1>1. ASSUME UpgraderInv, CommitInv, [Next]_vars,
             NEW o \in Ops, ~overlap,
             result'[o].state = "succeeded", result[o].state # "succeeded"
      PROVE  \A part \in Parts : files[part] = intent[o]
  <2>1. UNCHANGED result \/ \E x \in Ops : WriteResult(x)
    BY <1>1
       DEF Next, Privd, Runner, Script, Faults, vars, ScheduleStart, ScheduleMkdir,
           ScheduleIntent, ScheduleState, ScheduleRelease, Trigger, PrivdCrash,
           RunnerOpen, RunnerCheck, RunnerRestart, RunnerVerify, WriteState, RunnerExit,
           RunnerCrash, HostCrash, Preflight, ScriptFails, Backup, Copy, Pend,
           InstallPart, Truncate, Record, Clear, RestartServices, RollbackAgent,
           RollbackStopUnits, RollbackStopServices, mark_operations_rolled_back,
           restore_file, RollbackClear, RollbackEnds, durable
  <2>2. PICK x \in Ops : WriteResult(x)
    BY <1>1, <2>1
  <2>3. x = o /\ verdict[o] = "succeeded" /\ pc[o] = "result"
    BY <1>1, <2>2 DEF WriteResult, write_atomic
  <2> QED
    BY <1>1, <2>3 DEF CommitInv, All
<1>2. UpgraderInv /\ CommitInv /\ [Next]_vars =>
        [\A o \in Ops : ~overlap /\ result'[o].state = "succeeded" /\ result[o].state # "succeeded"
            => \A part \in Parts : files[part] = intent[o]]_vars
  BY <1>1
<1> QED
  BY <1>2, UpgraderInvariant, UpgraderCommitInvariant, PTL DEF Spec, SuccessMeansInstalled

\* The records, locks, runner and script implement the abstract upgrade, step
\* by step, when a release that was rolled back is not tried again.
LEMMA StepImplements ==
  ASSUME UpgraderInv, UpgraderInv', CommitInv, [Next]_vars
  PROVE  [Promise!Next]_(Promise!vars)
<1> SUFFICES ASSUME ~overlap' PROVE [Promise!Next]_(Promise!vars)
  BY DEF UpgraderInv, UpgraderTypeOK, Promise!Next
<1>0. ~overlap /\ UNCHANGED overlap
  BY DEF Next, Privd, Runner, Script, Faults, vars, driver, UpgraderInv, UpgraderTypeOK,
         ScheduleStart, ScheduleMkdir, ScheduleIntent, ScheduleState, ScheduleRelease,
         Trigger, PrivdCrash, RunnerOpen, RunnerCheck, RunnerRestart, RunnerVerify,
         WriteResult, WriteState, RunnerExit, RunnerCrash, HostCrash, Preflight,
         ScriptFails, Backup, Copy, Pend, InstallPart, Truncate, Record, Clear,
         RestartServices, RollbackAgent, RollbackStopUnits, RollbackStopServices,
         mark_operations_rolled_back, restore_file, RollbackClear, RollbackEnds
<1> DEFINE Kept == UNCHANGED <<state, intent, files>>
<1>1. ASSUME Kept PROVE UNCHANGED Promise!vars
  BY <1>0, <1>1 DEF Promise!vars, Installed
<1>2. \/ Kept \/ ScheduleIntent \/ ScheduleState
      \/ mark_operations_rolled_back \/ restore_file
      \/ \E o \in Ops : RunnerCheck(o) \/ WriteState(o) \/ InstallPart(o)
  BY DEF Next, Privd, Runner, Script, Faults, vars, durable, host, ScheduleStart,
         ScheduleMkdir, ScheduleRelease, Trigger, PrivdCrash, RunnerOpen, RunnerRestart,
         RunnerVerify, WriteResult, RunnerExit, RunnerCrash, HostCrash, Preflight,
         ScriptFails, Backup, Copy, Pend, Truncate, Record, Clear, RestartServices,
         RollbackAgent, RollbackStopUnits, RollbackStopServices, RollbackClear,
         RollbackEnds
<1>3. CASE ScheduleIntent
  <2>1. /\ sched.op \in Ops /\ state[sched.op] = "none" /\ state' = state /\ files' = files
        /\ intent' = [intent EXCEPT ![sched.op] = sched.pkg]
    BY <1>3 DEF ScheduleIntent, write_atomic, UpgraderInv, ScheduleInv, host
  <2>2. \A o \in Ops : state[o] # "none" => intent'[o] = intent[o]
    BY <2>1
  <2> QED
    BY <1>0, <2>1, <2>2 DEF Promise!vars, Installed
<1>4. CASE ScheduleState
  <2>1. PICK o \in Ops, p \in Packages : o = sched.op /\ p = sched.pkg
    BY <1>4 DEF UpgraderInv, ScheduleInv, ScheduleState
  <2>2. /\ state[o] = "none" /\ intent[o] = p
        /\ state' = [state EXCEPT ![o] = "accepted"] /\ intent' = intent /\ files' = files
    BY <1>4, <2>1 DEF ScheduleState, write_atomic, UpgraderInv, ScheduleInv, host
  <2>3. \A other \in Ops : state[other] \notin {"accepted", "running"}
    <3> SUFFICES ASSUME NEW other \in Ops, state[other] \in {"accepted", "running"} PROVE FALSE
      OBVIOUS
    <3>1. Unsettled(o)
      <4>1. intent[o] # NoPackage
        BY <2>2, UpgraderConstants
      <4>2. o \in dir
        BY <4>1 DEF UpgraderInv, RecordsInv
      <4> QED
        BY <2>2, <4>2 DEF Unsettled, Closed
    <3>2. Unsettled(other)
      BY DEF UpgraderInv, RecordsInv, Unsettled, Closed
    <3> QED
      BY <1>0, <2>2, <3>1, <3>2 DEF UpgraderInv, ScheduleInv
  <2>4. Promise!Accept(o, p)
    <3>1. [x \in Ops |-> IF state'[x] = "none" THEN NoPackage ELSE intent'[x]]
            = [[x \in Ops |-> IF state[x] = "none" THEN NoPackage ELSE intent[x]]
                 EXCEPT ![o] = p]
      BY <2>2 DEF UpgraderInv, UpgraderTypeOK
    <3> QED
      BY <2>2, <2>3, <3>1 DEF Promise!Accept, Promise!Active, Installed
  <2> QED
    BY <1>0, <2>4 DEF Promise!Next, Promise!Keep
<1>5. CASE mark_operations_rolled_back
  <2>1. CASE state' = state
    BY <1>1, <1>5, <2>1 DEF mark_operations_rolled_back, host
  <2>2. CASE state' # state
    <3>1. PICK o \in Ops : IsActive(o) /\ state' = [state EXCEPT ![o] = "rolled_back"]
      BY <1>5, <2>2
         DEF mark_operations_rolled_back, write_atomic, UpgraderInv, UpgraderTypeOK
    <3>2. \A x \in Ops : state'[x] = "none" <=> state[x] = "none"
      BY <3>1 DEF IsActive
    <3>3. intent' = intent /\ files' = files
      BY <1>5 DEF mark_operations_rolled_back, host
    <3>4. Promise!Close(o)
      BY <3>1, <3>2, <3>3 DEF Promise!Close, Promise!Active, IsActive, Installed
    <3> QED
      BY <1>0, <3>4 DEF Promise!Next, Promise!Keep
  <2> QED
    BY <2>1, <2>2
<1>9. CASE restore_file
  <2>1. state' = state /\ intent' = intent /\ rollback \in Parts
    BY <1>9 DEF restore_file, durable
  <2>2. \A o \in Ops : ~IsActive(o)
    BY <1>0, <2>1 DEF UpgraderInv, RollbackInv
  <2>3. Installed' \in Packages \cup {Mixed}
    BY DEF UpgraderInv, UpgraderTypeOK, Installed, Parts
  <2>4. Promise!Restore
    BY <2>1, <2>2, <2>3 DEF Promise!Restore, Promise!Active, IsActive
  <2> QED
    BY <1>0, <2>4 DEF Promise!Next, Promise!Keep
<1>6. ASSUME NEW o \in Ops, RunnerCheck(o) PROVE [Promise!Next]_(Promise!vars)
  <2>1. CASE state' = state
    BY <1>1, <1>6, <2>1 DEF RunnerCheck, host
  <2>2. CASE state' # state
    <3>1. /\ state[o] \in {"accepted", "running"} /\ state' = [state EXCEPT ![o] = "running"]
          /\ intent' = intent /\ files' = files
      BY <1>0, <1>6, <2>2
         DEF UpgraderInv, UpgraderTypeOK, RunnersInv, RunnerCheck, write_atomic, Closed,
             host
    <3>2. \A x \in Ops : state'[x] = "none" <=> state[x] = "none"
      BY <3>1
    <3>3. Promise!Run(o)
      BY <3>1, <3>2 DEF Promise!Run, Installed
    <3> QED
      BY <1>0, <3>3 DEF Promise!Next, Promise!Keep
  <2> QED
    BY <2>1, <2>2
<1>7. ASSUME NEW o \in Ops, WriteState(o) PROVE [Promise!Next]_(Promise!vars)
  <2>1. /\ state[o] \in {"accepted", "running"} /\ state' = [state EXCEPT ![o] = verdict[o]]
        /\ intent' = intent /\ files' = files
        /\ verdict[o] \in {"succeeded", "failed"}
    BY <1>0, <1>7
       DEF UpgraderInv, UpgraderTypeOK, RunnersInv, WriteState, write_atomic, Closed, host
  <2>2. \A x \in Ops : state'[x] = "none" <=> state[x] = "none"
    BY <2>1
  <2>3. CASE verdict[o] = "failed"
    BY <1>0, <2>1, <2>2, <2>3
       DEF Promise!Next, Promise!Keep, Promise!Fail, Promise!Active, Installed, OneRelease
  <2>4. CASE verdict[o] = "succeeded"
    <3>1. state[o] = "running" /\ All(o)
      BY <1>0, <1>7, <2>4 DEF UpgraderInv, RunnersInv, CommitInv, WriteState
    <3>2. Installed = intent[o]
      BY <3>1 DEF Installed, OneRelease, All, Parts
    <3>3. Promise!Succeed(o)
      BY <2>1, <2>2, <2>4, <3>1, <3>2 DEF Promise!Succeed, Installed
    <3> QED
      BY <1>0, <3>3 DEF Promise!Next, Promise!Keep
  <2> QED
    BY <2>1, <2>3, <2>4
<1>8. ASSUME NEW o \in Ops, InstallPart(o) PROVE [Promise!Next]_(Promise!vars)
  <2>1. /\ state[o] = "running" /\ state' = state /\ intent' = intent
        /\ files' = [files EXCEPT ![pc[o]] = intent[o]]
    BY <1>0, <1>8 DEF UpgraderInv, RunnersInv, InstallPart, Parts, Lifecycle, durable
  <2>2. files'["agent"] = intent[o]
    BY <1>0, <1>8, <2>1 DEF UpgraderInv, UpgraderTypeOK, HostInv, Parts
  <2>3. Promise!Install(o)
    BY <2>1, <2>2 DEF Promise!Install, Installed
  <2> QED
    BY <1>0, <2>3 DEF Promise!Next, Promise!Keep
<1> QED
  BY <1>1, <1>2, <1>3, <1>4, <1>5, <1>6, <1>7, <1>8, <1>9

\* privd, the unit, its runner and upgrade-agent.sh implement AgentUpgrade through every
\* crash: one active operation, forward only, success only over a host that holds its
\* package, as long as a release that was rolled back is not requested again.
THEOREM UpgraderImplementsAgentUpgrade == ~RetryRolledBack /\ Spec => ImplementsAgentUpgrade
<1> SUFFICES ASSUME ~RetryRolledBack PROVE Spec => ImplementsAgentUpgrade
  OBVIOUS
<1>1. Init => Promise!Init
  BY UpgraderConstants DEF Init, Promise!Init, Installed, OneRelease, Parts
<1>2. UpgraderInv /\ UpgraderInv' /\ CommitInv /\ [Next]_vars => [Promise!Next]_(Promise!vars)
  BY StepImplements
<1> QED
  BY <1>1, <1>2, UpgraderInvariant, UpgraderCommitInvariant, PTL
     DEF Spec, ImplementsAgentUpgrade, Promise!Spec
=============================================================================
