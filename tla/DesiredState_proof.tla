------------------------- MODULE DesiredState_proof -------------------------
(***************************************************************************)
(* What the Controller asks a host to hold, proved for any contents,       *)
(* users, groups, changes, revisions, retention, telemetry and number of   *)
(* faults: a configuration can always be taken back, and what is reported  *)
(* as applied or converged is on the host.                                 *)
(***************************************************************************)
EXTENDS ConfigApply, UserState, SequenceTheorems, WellFoundedInduction, TLAPS

(***************************************************************************)
(* ConfigApply                                                             *)
(***************************************************************************)

\* The steps of an apply that the effect store has let through.
Prepared == Stages \ {"read", "prepare"}

\* The part of the type invariant that the steps of the apply change.
WorkerTypeOK ==
  /\ pc \in Stages \cup {"idle"} /\ cmd \in Commands \cup {None}
  /\ saved \in [kind : {None, "backup", "success"}, at : Nat]
  /\ reply \in [Commands -> Replies]

\* The row is of the command that was planned, and holds the image it replaced.
RowInv ==
  /\ row.state = None => row.cmd = None
  /\ row.state # None =>
       /\ row.cmd \in Commands /\ plan[row.cmd] # None
       /\ row.after = Candidate[row.cmd]
       /\ row.before \in {plan[row.cmd], row.after}
  /\ row.state = "prepared" => reply[row.cmd] # "rolled_back"

\* The command of the apply has a plan, no reply yet and, once prepared, the row.
WorkerInv ==
  /\ pc # "idle" => cmd \in Commands /\ plan[cmd] # None /\ reply[cmd] = None
  /\ pc = "prepare" => conf \in {plan[cmd], Candidate[cmd]}
  /\ pc \in Prepared => row.cmd = cmd /\ row.state \in {"prepared", "absent"}

\* What is in the file and in the daemon at each step.
ContentInv ==
  /\ pc \in {"backup", "stage", "test", "publish"} => conf = plan[cmd] /\ row.before = plan[cmd]
  /\ pc \in {"recover", "health", "retain", "prune", "applied", "restore"} =>
       conf = Candidate[cmd]
  /\ pc \in {"retain", "prune", "applied", "absent"} => running = conf
  /\ pc = "absent" => conf = plan[cmd]

\* The file the apply retains or puts back holds the planned content.
SavedInv ==
  /\ saved.kind = "backup" => saved.at \in DOMAIN backups /\ backups[saved.at] = plan[cmd]
  /\ saved.kind = "success" => saved.at \in DOMAIN successes /\ successes[saved.at] = plan[cmd]
  /\ pc \in {"idle", "read", "prepare", "recover", "backup", "prune", "reload", "absent"} =>
       saved = NoFile
  /\ pc \in {"stage", "test", "publish", "retain"} => saved.kind = "backup"
  /\ pc = "restore" => saved.kind # None
  /\ pc = "prune" => successes # <<>> /\ successes[Len(successes)] = plan[cmd]

\* No command was answered with success that is newer than the recorded one.
NewestInv ==
  \A c \in Commands : reply[c] = "applied" =>
     row.state # None /\ Revision[c] <= Revision[row.cmd]

ConfigInv ==
  /\ ConfigTypeOK
  /\ RowInv
  /\ WorkerInv
  /\ ContentInv
  /\ SavedInv
  /\ WayBack
  /\ ReplyIsTrue
  /\ NewestInv

-----------------------------------------------------------------------------
(* Lemmas about the saved files                                            *)

\* A set of naturals with an upper bound has a largest element, which Max names.
LEMMA MaxOfBounded ==
  ASSUME NEW S \in SUBSET Nat, NEW n \in Nat, S # {}, \A x \in S : x <= n
  PROVE  Max(S) \in S /\ \A y \in S : Max(S) >= y
<1> DEFINE R == {ss \in Nat \X Nat : ss[1] < ss[2]}
           T == {n - x : x \in S}
<1>1. IsWellFoundedOn(R, Nat)
  BY NatLessThanWellFounded DEF OpToRel
<1>2. T \subseteq Nat /\ T # {}
  <2>1. \A x \in S : n - x \in Nat
    OBVIOUS
  <2>2. PICK x \in S : TRUE
    OBVIOUS
  <2> QED
    BY <2>1, <2>2
<1> HIDE DEF R
<1>3. \E x \in T : \A y \in T : ~(<<y, x>> \in R)
  <2> HIDE DEF T
  <2> QED
    BY <1>1, <1>2, WFMin
<1>4. PICK t \in T : \A y \in T : ~(<<y, t>> \in R)
  BY <1>3
<1>5. PICK m \in S : t = n - m
  BY <1>4
<1>6. ASSUME NEW y \in S
      PROVE  m >= y
  <2>1. n - y \in T /\ n - y \in Nat /\ t \in Nat
    BY <1>2, <1>4
  <2>2. ~(n - y < t)
    <3>1. SUFFICES ASSUME n - y < t
                   PROVE  <<n - y, t>> \in R
      BY <1>4, <2>1
    <3> QED
      BY <2>1, <3>1 DEF R
  <2> HIDE DEF T
  <2> QED
    BY <2>1, <2>2, <1>5
<1> QED
  BY <1>6 DEF Max

\* find_config_recovery returns a saved file of that content, or none.
LEMMA RecoveryFound ==
  ASSUME ConfigTypeOK, NEW x
  PROVE  LET f == find_config_recovery(x)
         IN  /\ f \in [kind : {None, "backup", "success"}, at : Nat]
             /\ f.kind = "backup" => f.at \in DOMAIN backups /\ backups[f.at] = x
             /\ f.kind = "success" => f.at \in DOMAIN successes /\ successes[f.at] = x
<1> DEFINE At(s) == {i \in DOMAIN s : s[i] = x}
<1>1. ASSUME NEW s \in Seq(Contents), At(s) # {}
      PROVE  Max(At(s)) \in DOMAIN s /\ s[Max(At(s))] = x /\ Max(At(s)) \in Nat
  <2>1. At(s) \in SUBSET Nat /\ Len(s) \in Nat /\ \A i \in At(s) : i <= Len(s)
    OBVIOUS
  <2>2. Max(At(s)) \in At(s)
    <3> HIDE DEF At
    <3> QED
      BY <1>1, <2>1, MaxOfBounded
  <2> QED
    BY <2>2
<1>2. backups \in Seq(Contents) /\ successes \in Seq(Contents)
  BY DEF ConfigTypeOK
<1>3. CASE At(backups) # {}
  <2>1. find_config_recovery(x) = [kind |-> "backup", at |-> Max(At(backups))]
    BY <1>3 DEF find_config_recovery
  <2> HIDE DEF At
  <2> QED
    BY <1>1, <1>2, <1>3, <2>1
<1>4. CASE At(backups) = {} /\ At(successes) # {}
  <2>1. find_config_recovery(x) = [kind |-> "success", at |-> Max(At(successes))]
    BY <1>4 DEF find_config_recovery
  <2> HIDE DEF At
  <2> QED
    BY <1>1, <1>2, <1>4, <2>1
<1>5. CASE At(backups) = {} /\ At(successes) = {}
  <2>1. find_config_recovery(x) = NoFile
    BY <1>5 DEF find_config_recovery
  <2> HIDE DEF At
  <2> QED
    BY <2>1 DEF NoFile, None
<1> QED
  BY <1>3, <1>4, <1>5

\* What the operations on the listings leave: saved files, of which an appended one
\* is the newest.
LEMMA ListingTyped ==
  ASSUME NEW s \in Seq(Contents)
  PROVE  /\ Len(s) \in Nat /\ DOMAIN s = 1..Len(s)
         /\ \A x \in Contents :
              /\ Append(s, x) \in Seq(Contents) /\ Len(Append(s, x)) = Len(s) + 1
              /\ Append(s, x)[Len(s) + 1] = x /\ DOMAIN Append(s, x) = 1..(Len(s) + 1)
         /\ s # <<>> => Front(s) \in Seq(Contents)
         /\ \A i \in DOMAIN s : s[i] \in Contents /\ RemoveAt(s, i) \in Seq(Contents)
<1>1. Len(s) \in Nat /\ DOMAIN s = 1..Len(s)
  OBVIOUS
<1>2. ASSUME NEW x \in Contents
      PROVE  /\ Append(s, x) \in Seq(Contents) /\ Len(Append(s, x)) = Len(s) + 1
             /\ Append(s, x)[Len(s) + 1] = x /\ DOMAIN Append(s, x) = 1..(Len(s) + 1)
  BY <1>1
<1>3. ASSUME s # <<>>
      PROVE  Front(s) \in Seq(Contents)
  <2>1. Len(s) - 1 \in Nat /\ \A i \in 1..(Len(s) - 1) : i \in 1..Len(s) /\ s[i] \in Contents
    BY <1>1, <1>3
  <2> QED
    BY <2>1, <1>1 DEF Front
<1>4. ASSUME NEW i \in DOMAIN s
      PROVE  s[i] \in Contents /\ RemoveAt(s, i) \in Seq(Contents)
  <2>1. SubSeq(s, 1, i - 1) \in Seq(Contents) /\ SubSeq(s, i + 1, Len(s)) \in Seq(Contents)
    BY <1>1, <1>4
  <2> QED
    BY <1>1, <1>4, <2>1 DEF RemoveAt
<1> QED
  BY <1>1, <1>2, <1>3, <1>4

\* Pruning keeps the newest success, because KeepLast is not zero.
LEMMA PruneKeepsNewest ==
  ASSUME NEW s \in Seq(Contents), NEW k \in Nat \ {0}, s # <<>>
  PROVE  LET n == Len(s)
             t == SubSeq(s, IF n > k THEN n - k + 1 ELSE 1, n)
         IN  /\ t \in Seq(Contents) /\ t # <<>> /\ Len(t) \in DOMAIN t
             /\ t[Len(t)] = s[Len(s)]
<1> DEFINE n == Len(s)
           m == IF n > k THEN n - k + 1 ELSE 1
           t == SubSeq(s, m, n)
<1>1. n \in Nat \ {0} /\ m \in 1..n
  OBVIOUS
<1>2. t \in Seq(Contents) /\ Len(t) = n - m + 1 /\ \A i \in 1..(n - m + 1) : t[i] = s[m + i - 1]
  <2> HIDE DEF m
  <2> QED
    BY <1>1
<1>3. n - m + 1 \in 1..(n - m + 1) /\ m + (n - m + 1) - 1 = n
  <2> HIDE DEF m
  <2> QED
    BY <1>1
<1> HIDE DEF m, t
<1>4. Len(t) \in 1..Len(t) /\ DOMAIN t = 1..Len(t) /\ t[Len(t)] = s[m + Len(t) - 1]
  <2>1. DOMAIN t = 1..Len(t)
    BY <1>2
  <2>2. Len(t) \in 1..(n - m + 1)
    BY <1>2, <1>3
  <2> QED
    BY <1>2, <2>1, <2>2
<1>5. t # <<>> /\ t[Len(t)] = s[n]
  BY <1>1, <1>2, <1>3, <1>4
<1> QED
  BY <1>2, <1>4, <1>5 DEF t, m

\* Moving on and returning keep the types of the apply's own state.
LEMMA WorkerTyped ==
  ASSUME ConfigTypeOK
  PROVE  /\ \A stage \in Stages : Goto(stage) => WorkerTypeOK'
         /\ \A o \in Replies : cmd \in Commands /\ Return(o) => WorkerTypeOK'
<1>1. ASSUME NEW stage \in Stages, Goto(stage)
      PROVE  WorkerTypeOK'
  BY <1>1 DEF ConfigTypeOK, WorkerTypeOK, Goto
<1>2. ASSUME NEW o \in Replies, cmd \in Commands, Return(o)
      PROVE  WorkerTypeOK'
  <2>1. pc' = "idle" /\ cmd' = None /\ saved' = NoFile /\ reply' = [reply EXCEPT ![cmd] = o]
    BY <1>2 DEF Return
  <2>2. reply' \in [Commands -> Replies]
    BY <1>2, <2>1 DEF ConfigTypeOK
  <2> QED
    BY <2>1, <2>2 DEF WorkerTypeOK, NoFile
<1> QED
  BY <1>1, <1>2

\* An apply is in one of its stages and has a command.
LEMMA WorkerHasCommand ==
  ASSUME ConfigInv, pc # "idle"
  PROVE  cmd \in Commands /\ reply[cmd] = None
  BY DEF ConfigInv, WorkerInv

-----------------------------------------------------------------------------
(* The invariant                                                           *)

\* A node that was just enrolled: its own configuration runs and nothing is saved.
LEMMA ConfigInitInv ==
  ASSUME Init
  PROVE  ConfigInv
<1>1. ConfigTypeOK
  BY ConfigConstants DEF Init, ConfigTypeOK, NoFile, NoRow, Replies
<1>2. RowInv /\ WorkerInv /\ ContentInv /\ WayBack /\ ReplyIsTrue /\ NewestInv
  BY DEF Init, RowInv, WorkerInv, ContentInv, WayBack, ReplyIsTrue, NewestInv, NoRow,
         None, Prepared, Stages
<1>3. SavedInv
  BY DEF Init, SavedInv, NoFile, None
<1> QED
  BY <1>1, <1>2, <1>3 DEF ConfigInv

\* A plan holds the content the file has.
LEMMA PlanInv ==
  ASSUME ConfigInv, NEW c \in Commands, Plan(c)
  PROVE  ConfigInv'
<1>1. ConfigTypeOK'
  BY DEF ConfigInv, ConfigTypeOK, Plan, files, worker
<1>2. RowInv'
  BY DEF ConfigInv, RowInv, Plan
<1>3. WorkerInv'
  BY DEF WorkerInv, Prepared, Plan, worker, Stages
<1>4. ContentInv'
  BY DEF ContentInv, Plan, worker
<1>5. SavedInv'
  BY DEF ConfigInv, SavedInv, Plan, worker, None, NoFile
<1>6. WayBack'
  BY DEF ConfigInv, WayBack, Plan, files
<1>7. ReplyIsTrue'
  BY DEF ConfigInv, ReplyIsTrue, Plan, files
<1>8. NewestInv'
  BY DEF ConfigInv, NewestInv, Plan
<1> QED
  BY <1>1, <1>2, <1>3, <1>4, <1>5, <1>6, <1>7, <1>8 DEF ConfigInv

\* So does the plan of a complete profile.
LEMMA complete_config_planInv ==
  ASSUME ConfigInv, NEW c \in Commands, complete_config_plan(c)
  PROVE  ConfigInv'
<1>1. ConfigTypeOK'
  BY DEF ConfigInv, ConfigTypeOK, complete_config_plan, files, worker
<1>2. RowInv'
  BY DEF ConfigInv, RowInv, complete_config_plan
<1>3. WorkerInv'
  BY DEF WorkerInv, Prepared, complete_config_plan, worker, Stages
<1>4. ContentInv'
  BY DEF ContentInv, complete_config_plan, worker
<1>5. SavedInv'
  BY DEF ConfigInv, SavedInv, complete_config_plan, worker, None, NoFile
<1>6. WayBack'
  BY DEF ConfigInv, WayBack, complete_config_plan, files
<1>7. ReplyIsTrue'
  BY DEF ConfigInv, ReplyIsTrue, complete_config_plan, files
<1>8. NewestInv'
  BY DEF ConfigInv, NewestInv, complete_config_plan
<1> QED
  BY <1>1, <1>2, <1>3, <1>4, <1>5, <1>6, <1>7, <1>8 DEF ConfigInv

\* A command that expires leaves the file, the row and its plan.
LEMMA ExpireInv ==
  ASSUME ConfigInv, NEW c \in Commands, Expire(c)
  PROVE  ConfigInv'
<1>1. ConfigTypeOK'
  BY DEF ConfigInv, ConfigTypeOK, Expire, files, worker
<1>2. RowInv'
  BY DEF ConfigInv, RowInv, Expire
<1>3. WorkerInv'
  BY DEF ConfigInv, WorkerInv, Expire, files, worker
<1>4. ContentInv'
  BY DEF ConfigInv, ContentInv, Expire, files, worker
<1>5. SavedInv'
  BY DEF ConfigInv, SavedInv, Expire, files, worker
<1>6. WayBack'
  BY DEF ConfigInv, WayBack, Expire, files
<1>7. ReplyIsTrue'
  BY DEF ConfigInv, ReplyIsTrue, Expire, files
<1>8. NewestInv'
  BY DEF ConfigInv, NewestInv, Expire
<1> QED
  BY <1>1, <1>2, <1>3, <1>4, <1>5, <1>6, <1>7, <1>8 DEF ConfigInv

\* A presented command has a plan, and its earlier reply is forgotten.
LEMMA PresentInv ==
  ASSUME ConfigInv, NEW c \in Commands, Present(c)
  PROVE  ConfigInv'
<1>1. ConfigTypeOK'
  <2>1. WorkerTypeOK'
    <3>1. reply' \in [Commands -> Replies]
      BY DEF ConfigInv, ConfigTypeOK, Present, Replies
    <3> QED
      BY <3>1 DEF ConfigInv, ConfigTypeOK, WorkerTypeOK, Present, worker, Stages
  <2>2. presented' \in 0..MaxPresented
    BY ConfigConstants DEF ConfigInv, ConfigTypeOK, Present
  <2> QED
    BY <2>1, <2>2 DEF ConfigInv, ConfigTypeOK, WorkerTypeOK, files, Present
<1>2. RowInv'
  BY DEF ConfigInv, RowInv, ConfigTypeOK, Present, None
<1>3. WorkerInv'
  BY DEF ConfigInv, WorkerInv, Prepared, ConfigTypeOK, Present, validate_config_candidate,
         canonical, worker
<1>4. ContentInv'
  BY DEF ContentInv, Present, worker
<1>5. SavedInv'
  BY DEF ConfigInv, SavedInv, Present, worker, None, NoFile
<1>6. WayBack'
  BY DEF ConfigInv, WayBack, Present, files
<1>7. ReplyIsTrue'
  BY DEF ConfigInv, ReplyIsTrue, ConfigTypeOK, RowInv, Present, files, None
<1>8. NewestInv'
  BY DEF ConfigInv, NewestInv, ConfigTypeOK, Present, None
<1> QED
  BY <1>1, <1>2, <1>3, <1>4, <1>5, <1>6, <1>7, <1>8 DEF ConfigInv

\* A prepared row is closed as absent while its before image is in the file.
LEMMA ObserveInv ==
  ASSUME ConfigInv, NEW c \in Commands, Observe(c)
  PROVE  ConfigInv'
<1>1. ConfigTypeOK'
  BY DEF ConfigInv, ConfigTypeOK, Observe, files, worker
<1>2. RowInv'
  BY DEF ConfigInv, RowInv, Observe, None
<1>3. WorkerInv'
  BY DEF WorkerInv, Prepared, Observe, worker, Stages
<1>4. ContentInv'
  BY DEF ContentInv, Observe, worker
<1>5. SavedInv'
  BY DEF ConfigInv, SavedInv, Observe, worker, None, NoFile
<1>6. WayBack'
  BY DEF WayBack, Observe
<1>7. ReplyIsTrue'
  BY DEF ConfigInv, ReplyIsTrue, RowInv, Observe
<1>8. NewestInv'
  BY DEF ConfigInv, NewestInv, Observe, None
<1> QED
  BY <1>1, <1>2, <1>3, <1>4, <1>5, <1>6, <1>7, <1>8 DEF ConfigInv

\* The operator changes the TLS material and nothing else.
LEMMA ProvisionTlsInv ==
  ASSUME ConfigInv, ProvisionTls
  PROVE  ConfigInv'
<1>1. ConfigTypeOK'
  BY ConfigConstants DEF ConfigInv, ConfigTypeOK, ProvisionTls, files, worker
<1>2. RowInv'
  BY DEF ConfigInv, RowInv, ProvisionTls
<1>3. WorkerInv'
  BY DEF ConfigInv, WorkerInv, ProvisionTls, files, worker
<1>4. ContentInv'
  BY DEF ConfigInv, ContentInv, ProvisionTls, files, worker
<1>5. SavedInv'
  BY DEF ConfigInv, SavedInv, ProvisionTls, files, worker
<1>6. WayBack'
  BY DEF ConfigInv, WayBack, ProvisionTls, files
<1>7. ReplyIsTrue'
  BY DEF ConfigInv, ReplyIsTrue, ProvisionTls, files
<1>8. NewestInv'
  BY DEF ConfigInv, NewestInv, ProvisionTls
<1> QED
  BY <1>1, <1>2, <1>3, <1>4, <1>5, <1>6, <1>7, <1>8 DEF ConfigInv

\* The apply goes on only from the planned content or the candidate.
LEMMA ReadCurrentInv ==
  ASSUME ConfigInv, ReadCurrent
  PROVE  ConfigInv'
<1>1. ConfigTypeOK'
  <2>1. WorkerTypeOK'
    BY WorkerTyped, WorkerHasCommand DEF ConfigInv, ReadCurrent, Stages, Replies
  <2> QED
    BY <2>1 DEF ConfigInv, ConfigTypeOK, WorkerTypeOK, files, ReadCurrent
<1>2. RowInv'
  BY DEF ConfigInv, RowInv, ConfigTypeOK, ReadCurrent, Goto, Return, None
<1>3. WorkerInv'
  BY DEF ConfigInv, WorkerInv, Prepared, ReadCurrent, Goto, Return, files, Stages
<1>4. ContentInv'
  BY DEF ContentInv, ReadCurrent, Goto, Return
<1>5. SavedInv'
  BY DEF ConfigInv, SavedInv, ReadCurrent, Goto, Return, None, NoFile
<1>6. WayBack'
  BY DEF ConfigInv, WayBack, ReadCurrent, files
<1>7. ReplyIsTrue'
  BY DEF ConfigInv, ReplyIsTrue, ConfigTypeOK, RowInv, ReadCurrent, Goto, Return, files,
         None
<1>8. NewestInv'
  BY DEF ConfigInv, NewestInv, ConfigTypeOK, ReadCurrent, Goto, Return
<1> QED
  BY <1>1, <1>2, <1>3, <1>4, <1>5, <1>6, <1>7, <1>8 DEF ConfigInv

\* The row is replaced only by a newer command, or by the same with the content in place.
LEMMA PrepareInv ==
  ASSUME ConfigInv, Prepare
  PROVE  ConfigInv'
<1>1. ConfigTypeOK'
  <2>1. WorkerTypeOK'
    BY WorkerTyped, WorkerHasCommand DEF ConfigInv, Prepare, Stages, Replies
  <2>2. row' \in [state : {None, "prepared", "applied", "absent"}, cmd : Commands \cup {None},
             before : Contents, after : Contents]
    BY ConfigConstants DEF ConfigInv, ConfigTypeOK, Prepare
  <2> QED
    BY <2>1, <2>2 DEF ConfigInv, ConfigTypeOK, WorkerTypeOK, files, Prepare
<1>2. RowInv'
  BY DEF ConfigInv, RowInv, ConfigTypeOK, WorkerInv, Prepare, Goto, Return, None
<1>3. WorkerInv'
  BY ConfigConstants
     DEF ConfigInv, WorkerInv, Prepared, ConfigTypeOK, RowInv, Prepare, Goto, Return,
         None, Stages
<1>4. ContentInv'
  BY ConfigConstants
     DEF ConfigInv, ContentInv, WorkerInv, RowInv, Prepare, Goto, Return, files, None
<1>5. SavedInv'
  BY DEF ConfigInv, SavedInv, Prepare, Goto, Return, None, NoFile
<1>6. WayBack'
  BY DEF ConfigInv, WayBack, Prepare, files
<1>7. ReplyIsTrue'
  BY DEF ConfigInv, ReplyIsTrue, ConfigTypeOK, RowInv, Prepare, Goto, Return, files, None
<1>8. NewestInv'
  BY ConfigConstants
     DEF ConfigInv, NewestInv, ConfigTypeOK, RowInv, Prepare, Refused, Goto, Return, None
<1> QED
  BY <1>1, <1>2, <1>3, <1>4, <1>5, <1>6, <1>7, <1>8 DEF ConfigInv

\* A recovery finds the saved file that holds the planned content, if one does.
LEMMA RecoverInv ==
  ASSUME ConfigInv, Recover
  PROVE  ConfigInv'
<1>1. ConfigTypeOK'
  <2>1. WorkerTypeOK'
    BY RecoveryFound DEF ConfigInv, ConfigTypeOK, WorkerTypeOK, Recover, Stages
  <2> QED
    BY <2>1 DEF ConfigInv, ConfigTypeOK, WorkerTypeOK, files, Recover
<1>2. RowInv'
  BY DEF ConfigInv, RowInv, Recover
<1>3. WorkerInv'
  BY DEF ConfigInv, WorkerInv, Prepared, Recover, Stages
<1>4. ContentInv'
  BY DEF ConfigInv, ContentInv, Recover, files
<1>5. SavedInv'
  <2>1. saved' = find_config_recovery(plan[cmd]) /\ pc' = "health"
    BY DEF Recover
  <2>2. /\ saved'.kind = "backup" => saved'.at \in DOMAIN backups /\ backups[saved'.at] = plan[cmd]
        /\ saved'.kind = "success" =>
             saved'.at \in DOMAIN successes /\ successes[saved'.at] = plan[cmd]
    BY <2>1, RecoveryFound DEF ConfigInv
  <2> QED
    BY <2>1, <2>2 DEF SavedInv, Recover, files
<1>6. WayBack'
  BY DEF ConfigInv, WayBack, Recover, files
<1>7. ReplyIsTrue'
  BY DEF ConfigInv, ReplyIsTrue, Recover, files
<1>8. NewestInv'
  BY DEF ConfigInv, NewestInv, Recover
<1> QED
  BY <1>1, <1>2, <1>3, <1>4, <1>5, <1>6, <1>7, <1>8 DEF ConfigInv

\* The backup holds the content that is about to be replaced.
LEMMA WriteBackupInv ==
  ASSUME ConfigInv, WriteBackup
  PROVE  ConfigInv'
<1>1. ConfigTypeOK'
  BY DEF ConfigInv, ConfigTypeOK, WriteBackup, Stages
<1>2. RowInv'
  BY DEF ConfigInv, RowInv, WriteBackup
<1>3. WorkerInv'
  BY DEF ConfigInv, WorkerInv, Prepared, WriteBackup, Stages
<1>4. ContentInv'
  BY DEF ConfigInv, ContentInv, WriteBackup
<1>5. SavedInv'
  BY DEF ConfigInv, SavedInv, ContentInv, WriteBackup
<1>6. WayBack'
  BY DEF ConfigInv, WayBack, ContentInv, WriteBackup
<1>7. ReplyIsTrue'
  BY DEF ConfigInv, ReplyIsTrue, WriteBackup
<1>8. NewestInv'
  BY DEF ConfigInv, NewestInv, WriteBackup
<1> QED
  BY <1>1, <1>2, <1>3, <1>4, <1>5, <1>6, <1>7, <1>8 DEF ConfigInv

\* Staging leaves the file and the backup.
LEMMA WriteStageInv ==
  ASSUME ConfigInv, WriteStage
  PROVE  ConfigInv'
<1>1. ConfigTypeOK'
  BY DEF ConfigInv, ConfigTypeOK, WriteStage, Goto, files, Stages
<1>2. RowInv'
  BY DEF ConfigInv, RowInv, WriteStage, Goto
<1>3. WorkerInv'
  BY DEF ConfigInv, WorkerInv, Prepared, WriteStage, Goto, Stages
<1>4. ContentInv'
  BY DEF ConfigInv, ContentInv, WriteStage, Goto, files
<1>5. SavedInv'
  BY DEF ConfigInv, SavedInv, WriteStage, Goto, files
<1>6. WayBack'
  BY DEF ConfigInv, WayBack, WriteStage, files
<1>7. ReplyIsTrue'
  BY DEF ConfigInv, ReplyIsTrue, WriteStage, Goto, files
<1>8. NewestInv'
  BY DEF ConfigInv, NewestInv, WriteStage, Goto
<1> QED
  BY <1>1, <1>2, <1>3, <1>4, <1>5, <1>6, <1>7, <1>8 DEF ConfigInv

\* A staged profile that does not pass drops its backup before anything is published.
LEMMA TestStageInv ==
  ASSUME ConfigInv, TestStage
  PROVE  ConfigInv'
<1>1. ConfigTypeOK'
  <2>1. WorkerTypeOK'
    BY WorkerTyped, WorkerHasCommand DEF ConfigInv, TestStage, Stages, Replies
  <2>2. backups' \in Seq(Contents)
    BY ListingTyped DEF ConfigInv, ConfigTypeOK, SavedInv, TestStage
  <2> QED
    BY <2>1, <2>2 DEF ConfigInv, ConfigTypeOK, WorkerTypeOK, files, TestStage
<1>2. RowInv'
  BY DEF ConfigInv, RowInv, ConfigTypeOK, TestStage, Goto, Return, None
<1>3. WorkerInv'
  BY DEF ConfigInv, WorkerInv, Prepared, TestStage, Goto, Return, Stages
<1>4. ContentInv'
  BY DEF ConfigInv, ContentInv, TestStage, Goto, Return
<1>5. SavedInv'
  BY DEF ConfigInv, SavedInv, TestStage, Goto, Return, None, NoFile
<1>6. WayBack'
  BY DEF ConfigInv, WayBack, ContentInv, TestStage
<1>7. ReplyIsTrue'
  BY DEF ConfigInv, ReplyIsTrue, ConfigTypeOK, RowInv, TestStage, Goto, Return, None
<1>8. NewestInv'
  BY DEF ConfigInv, NewestInv, ConfigTypeOK, TestStage, Goto, Return
<1> QED
  BY <1>1, <1>2, <1>3, <1>4, <1>5, <1>6, <1>7, <1>8 DEF ConfigInv

\* The candidate is published while the backup holds the before image.
LEMMA PublishInv ==
  ASSUME ConfigInv, Publish
  PROVE  ConfigInv'
<1>1. ConfigTypeOK'
  BY DEF ConfigInv, ConfigTypeOK, RowInv, WorkerInv, Prepared, Publish, Goto, None, Stages
<1>2. RowInv'
  BY DEF ConfigInv, RowInv, Publish, Goto
<1>3. WorkerInv'
  BY DEF ConfigInv, WorkerInv, Prepared, Publish, Goto, Stages
<1>4. ContentInv'
  BY DEF ContentInv, Publish, Goto
<1>5. SavedInv'
  BY DEF ConfigInv, SavedInv, Publish, Goto
<1>6. WayBack'
  <2>1. backups' = backups /\ row' = row /\ successes' = successes
    BY DEF Publish
  <2>2. row.before \in Range(backups)
    BY DEF ConfigInv, ContentInv, SavedInv, Publish, Range
  <2> QED
    BY <2>1, <2>2 DEF WayBack
<1>7. ReplyIsTrue'
  BY DEF ConfigInv, ReplyIsTrue, Prepared, ConfigTypeOK, WorkerInv, Publish, Goto, None
<1>8. NewestInv'
  BY DEF ConfigInv, NewestInv, Publish, Goto
<1> QED
  BY <1>1, <1>2, <1>3, <1>4, <1>5, <1>6, <1>7, <1>8 DEF ConfigInv

\* The health of the candidate decides between retaining it and putting back.
LEMMA CheckCandidateInv ==
  ASSUME ConfigInv, CheckCandidate
  PROVE  ConfigInv'
<1>1. ConfigTypeOK'
  <2>1. WorkerTypeOK'
    BY WorkerTyped, WorkerHasCommand DEF ConfigInv, CheckCandidate, Stages, Replies
  <2>2. running' \in Contents
    BY DEF ConfigInv, ConfigTypeOK, CheckCandidate, HealthPasses, HealthFails
  <2>3. failures' \in 0..MaxFailures
    BY ConfigConstants DEF ConfigInv, ConfigTypeOK, CheckCandidate, HealthFails
  <2> QED
    BY <2>1, <2>2, <2>3 DEF ConfigInv, ConfigTypeOK, WorkerTypeOK, files, CheckCandidate
<1>2. RowInv'
  BY DEF ConfigInv, RowInv, ConfigTypeOK, CheckCandidate, Goto, Return, None
<1>3. WorkerInv'
  BY DEF ConfigInv, WorkerInv, Prepared, CheckCandidate, Goto, Return, Stages
<1>4. ContentInv'
  BY DEF ConfigInv, ContentInv, CheckCandidate, HealthPasses, Goto, Return, files
<1>5. SavedInv'
  BY DEF ConfigInv, SavedInv, CheckCandidate, Goto, Return, files, None, NoFile
<1>6. WayBack'
  BY DEF ConfigInv, WayBack, CheckCandidate, files
<1>7. ReplyIsTrue'
  BY DEF ConfigInv, ReplyIsTrue, ConfigTypeOK, RowInv, CheckCandidate, HealthPasses,
         HealthFails, Goto, Return, files, None
<1>8. NewestInv'
  BY DEF ConfigInv, NewestInv, ConfigTypeOK, CheckCandidate, Goto, Return
<1> QED
  BY <1>1, <1>2, <1>3, <1>4, <1>5, <1>6, <1>7, <1>8 DEF ConfigInv

\* The backup becomes the newest success, with its content.
LEMMA RetainInv ==
  ASSUME ConfigInv, Retain
  PROVE  ConfigInv'
<1>1. ConfigTypeOK'
  <2>1. WorkerTypeOK'
    BY DEF ConfigInv, ConfigTypeOK, WorkerTypeOK, Retain, Stages, NoFile
  <2>2. backups' \in Seq(Contents) /\ successes' \in Seq(Contents)
    BY ListingTyped DEF ConfigInv, ConfigTypeOK, SavedInv, Retain
  <2> QED
    BY <2>1, <2>2 DEF ConfigInv, ConfigTypeOK, WorkerTypeOK, files, Retain
<1>2. RowInv'
  BY DEF ConfigInv, RowInv, Retain
<1>3. WorkerInv'
  BY DEF ConfigInv, WorkerInv, Prepared, Retain, Stages
<1>4. ContentInv'
  BY DEF ConfigInv, ContentInv, Retain
<1>5. SavedInv'
  <2>1. /\ pc' = "prune" /\ saved' = NoFile /\ plan' = plan /\ cmd' = cmd /\ row' = row
        /\ successes' = Append(successes, plan[cmd]) /\ plan[cmd] \in Contents
    BY DEF ConfigInv, ConfigTypeOK, SavedInv, Retain
  <2>2. /\ successes' # <<>> /\ successes'[Len(successes')] = plan[cmd]
        /\ Len(successes') \in DOMAIN successes'
    BY <2>1
  <2> QED
    BY <2>1, <2>2 DEF SavedInv, NoFile, None
<1>6. WayBack'
  <2>1. /\ pc' = "prune" /\ saved' = NoFile /\ plan' = plan /\ cmd' = cmd /\ row' = row
        /\ successes' = Append(successes, plan[cmd]) /\ plan[cmd] \in Contents
    BY DEF ConfigInv, ConfigTypeOK, SavedInv, Retain
  <2>2. /\ successes' # <<>> /\ successes'[Len(successes')] = plan[cmd]
        /\ Len(successes') \in DOMAIN successes'
    BY <2>1
  <2>3. plan[cmd] \in Range(successes')
    BY <2>2 DEF Range
  <2> QED
    BY <2>1, <2>3
       DEF ConfigInv, RowInv, WorkerInv, WayBack, Retain, Prepared, Stages, None
<1>7. ReplyIsTrue'
  BY DEF ConfigInv, ReplyIsTrue, Retain
<1>8. NewestInv'
  BY DEF ConfigInv, NewestInv, Retain
<1> QED
  BY <1>1, <1>2, <1>3, <1>4, <1>5, <1>6, <1>7, <1>8 DEF ConfigInv

\* The newest successes stay.
LEMMA prune_config_backupsInv ==
  ASSUME ConfigInv, prune_config_backups
  PROVE  ConfigInv'
<1>1. ConfigTypeOK'
  <2>1. WorkerTypeOK'
    BY WorkerTyped DEF ConfigInv, prune_config_backups, Stages
  <2>2. successes' \in Seq(Contents)
    BY ConfigConstants DEF ConfigInv, ConfigTypeOK, prune_config_backups
  <2> QED
    BY <2>1, <2>2 DEF ConfigInv, ConfigTypeOK, WorkerTypeOK, files, prune_config_backups
<1>2. RowInv'
  BY DEF ConfigInv, RowInv, prune_config_backups, Goto
<1>3. WorkerInv'
  BY DEF ConfigInv, WorkerInv, Prepared, prune_config_backups, Goto, Stages
<1>4. ContentInv'
  BY DEF ConfigInv, ContentInv, prune_config_backups, Goto
<1>5. SavedInv'
  <2>1. /\ pc' = "applied" /\ UNCHANGED <<saved, plan, cmd, row, conf, backups>>
        /\ saved = NoFile
    BY DEF ConfigInv, SavedInv, prune_config_backups, Goto
  <2> QED
    BY <2>1 DEF SavedInv, NoFile, None
<1>6. WayBack'
  <2>1. /\ pc' = "applied" /\ UNCHANGED <<saved, plan, cmd, row, conf, backups>>
        /\ saved = NoFile
    BY DEF ConfigInv, SavedInv, prune_config_backups, Goto
  <2>2. Len(successes') \in DOMAIN successes' /\ successes'[Len(successes')] = plan[cmd]
    BY PruneKeepsNewest, ConfigConstants
       DEF ConfigInv, ConfigTypeOK, SavedInv, prune_config_backups
  <2>3. plan[cmd] \in Range(successes')
    BY <2>2 DEF Range
  <2>4. row.before \in {plan[cmd], row.after}
    BY DEF ConfigInv, RowInv, WorkerInv, prune_config_backups, Prepared, Stages, None
  <2> QED
    BY <2>1, <2>3, <2>4 DEF WayBack
<1>7. ReplyIsTrue'
  BY DEF ConfigInv, ReplyIsTrue, prune_config_backups, Goto
<1>8. NewestInv'
  BY DEF ConfigInv, NewestInv, prune_config_backups, Goto
<1> QED
  BY <1>1, <1>2, <1>3, <1>4, <1>5, <1>6, <1>7, <1>8 DEF ConfigInv

\* The row is applied while its content is in the file and running.
LEMMA mark_appliedInv ==
  ASSUME ConfigInv, mark_applied
  PROVE  ConfigInv'
<1>1. ConfigTypeOK'
  BY ConfigConstants
     DEF ConfigInv, ConfigTypeOK, RowInv, WorkerInv, Prepared, mark_applied, Return,
         files, None, NoFile, Stages, Replies
<1>2. RowInv'
  BY DEF ConfigInv, RowInv, ConfigTypeOK, WorkerInv, Prepared, mark_applied, None
<1>3. WorkerInv'
  BY DEF WorkerInv, Prepared, mark_applied, Return, Stages
<1>4. ContentInv'
  BY DEF ContentInv, mark_applied, Return
<1>5. SavedInv'
  BY DEF SavedInv, mark_applied, Return, None, NoFile
<1>6. WayBack'
  BY DEF WayBack, mark_applied
<1>7. ReplyIsTrue'
  BY DEF ConfigInv, ReplyIsTrue, Prepared, ConfigTypeOK, RowInv, WorkerInv, ContentInv,
         mark_applied, files, None
<1>8. NewestInv'
  <2>1. row'.state # None /\ row'.cmd = cmd /\ row.cmd = cmd /\ cmd \in Commands
    BY DEF ConfigInv, WorkerInv, mark_applied, Prepared, Stages, None
  <2>2. Revision[cmd] <= Revision[cmd]
    BY <2>1, ConfigConstants
  <2>3. \A c \in Commands : c # cmd => reply'[c] = reply[c]
    BY DEF mark_applied, Return
  <2> QED
    BY <2>1, <2>2, <2>3 DEF ConfigInv, NewestInv
<1> QED
  BY <1>1, <1>2, <1>3, <1>4, <1>5, <1>6, <1>7, <1>8 DEF ConfigInv

\* The file holds what the saved file held.
LEMMA RestoreInv ==
  ASSUME ConfigInv, Restore
  PROVE  ConfigInv'
<1>1. ConfigTypeOK'
  <2>1. WorkerTypeOK'
    BY DEF ConfigInv, ConfigTypeOK, WorkerTypeOK, Restore, Stages, NoFile
  <2>2. backups' \in Seq(Contents)
    BY ListingTyped DEF ConfigInv, ConfigTypeOK, SavedInv, Restore
  <2>3. successes' \in Seq(Contents)
    BY ListingTyped DEF ConfigInv, ConfigTypeOK, SavedInv, Restore
  <2>4. conf' \in Contents
    BY DEF ConfigInv, ConfigTypeOK, SavedInv, Restore
  <2> QED
    BY <2>1, <2>2, <2>3, <2>4 DEF ConfigInv, ConfigTypeOK, WorkerTypeOK, files, Restore
<1>2. RowInv'
  BY DEF ConfigInv, RowInv, Restore
<1>3. WorkerInv'
  BY DEF ConfigInv, WorkerInv, Prepared, Restore, Stages
<1>4. ContentInv'
  BY DEF ContentInv, Restore
<1>5. SavedInv'
  BY DEF SavedInv, Restore, None, NoFile
<1>6. WayBack'
  BY DEF ConfigInv, WayBack, Prepared, ConfigTypeOK, RowInv, WorkerInv, SavedInv, Restore,
         None
<1>7. ReplyIsTrue'
  BY DEF ConfigInv, ReplyIsTrue, Prepared, ConfigTypeOK, WorkerInv, Restore, None
<1>8. NewestInv'
  BY DEF ConfigInv, NewestInv, Restore
<1> QED
  BY <1>1, <1>2, <1>3, <1>4, <1>5, <1>6, <1>7, <1>8 DEF ConfigInv

\* A restored content is reloaded before the command is rolled back.
LEMMA CheckRestoredInv ==
  ASSUME ConfigInv, CheckRestored
  PROVE  ConfigInv'
<1>1. ConfigTypeOK'
  <2>1. WorkerTypeOK'
    BY WorkerTyped, WorkerHasCommand DEF ConfigInv, CheckRestored, Stages, Replies
  <2>2. running' \in Contents
    BY DEF ConfigInv, ConfigTypeOK, CheckRestored, HealthPasses, HealthFails
  <2>3. failures' \in 0..MaxFailures
    BY ConfigConstants DEF ConfigInv, ConfigTypeOK, CheckRestored, HealthFails
  <2> QED
    BY <2>1, <2>2, <2>3 DEF ConfigInv, ConfigTypeOK, WorkerTypeOK, files, CheckRestored
<1>2. RowInv'
  BY DEF ConfigInv, RowInv, ConfigTypeOK, CheckRestored, Goto, Return, None
<1>3. WorkerInv'
  BY DEF ConfigInv, WorkerInv, Prepared, CheckRestored, Goto, Return, Stages
<1>4. ContentInv'
  BY DEF ContentInv, CheckRestored, HealthPasses, Goto, Return, files
<1>5. SavedInv'
  BY DEF ConfigInv, SavedInv, CheckRestored, Goto, Return, None, NoFile
<1>6. WayBack'
  BY DEF ConfigInv, WayBack, CheckRestored, files
<1>7. ReplyIsTrue'
  BY DEF ConfigInv, ReplyIsTrue, ConfigTypeOK, RowInv, CheckRestored, HealthPasses,
         HealthFails, Goto, Return, files, None
<1>8. NewestInv'
  BY DEF ConfigInv, NewestInv, ConfigTypeOK, CheckRestored, Goto, Return
<1> QED
  BY <1>1, <1>2, <1>3, <1>4, <1>5, <1>6, <1>7, <1>8 DEF ConfigInv

\* The row is absent while the planned content is in the file and running.
LEMMA mark_absentInv ==
  ASSUME ConfigInv, mark_absent
  PROVE  ConfigInv'
<1>1. ConfigTypeOK'
  BY DEF ConfigInv, ConfigTypeOK, WorkerInv, Prepared, mark_absent, Return, files, None,
         NoFile, Replies
<1>2. RowInv'
  BY DEF ConfigInv, RowInv, ConfigTypeOK, WorkerInv, Prepared, mark_absent, None
<1>3. WorkerInv'
  BY DEF WorkerInv, Prepared, mark_absent, Return, Stages
<1>4. ContentInv'
  BY DEF ContentInv, mark_absent, Return
<1>5. SavedInv'
  BY DEF SavedInv, mark_absent, Return, None, NoFile
<1>6. WayBack'
  BY DEF WayBack, mark_absent
<1>7. ReplyIsTrue'
  BY DEF ConfigInv, ReplyIsTrue, Prepared, ConfigTypeOK, WorkerInv, ContentInv,
         mark_absent, files
<1>8. NewestInv'
  BY DEF ConfigInv, NewestInv, mark_absent, Return, None
<1> QED
  BY <1>1, <1>2, <1>3, <1>4, <1>5, <1>6, <1>7, <1>8 DEF ConfigInv

\* A dropped apply removes a backup only before the candidate is published.
LEMMA CancelInv ==
  ASSUME ConfigInv, Cancel
  PROVE  ConfigInv'
<1>1. ConfigTypeOK'
  <2>1. WorkerTypeOK'
    BY WorkerTyped, WorkerHasCommand DEF ConfigInv, Cancel, Replies
  <2>2. backups' \in Seq(Contents)
    BY ListingTyped DEF ConfigInv, ConfigTypeOK, SavedInv, Cancel
  <2>3. failures' \in 0..MaxFailures
    BY ConfigConstants DEF ConfigInv, ConfigTypeOK, Cancel
  <2> QED
    BY <2>1, <2>2, <2>3 DEF ConfigInv, ConfigTypeOK, WorkerTypeOK, files, Cancel
<1>2. RowInv'
  BY DEF ConfigInv, RowInv, ConfigTypeOK, Cancel, Return, None
<1>3. WorkerInv'
  BY DEF WorkerInv, Prepared, Cancel, Return, Stages
<1>4. ContentInv'
  BY DEF ContentInv, Cancel, Return
<1>5. SavedInv'
  BY DEF SavedInv, Cancel, Return, None, NoFile
<1>6. WayBack'
  BY DEF ConfigInv, WayBack, ContentInv, Cancel
<1>7. ReplyIsTrue'
  BY DEF ConfigInv, ReplyIsTrue, ConfigTypeOK, RowInv, Cancel, Return, None
<1>8. NewestInv'
  BY DEF ConfigInv, NewestInv, ConfigTypeOK, Cancel, Return
<1> QED
  BY <1>1, <1>2, <1>3, <1>4, <1>5, <1>6, <1>7, <1>8 DEF ConfigInv

\* A crash leaves the file, the row and the saved files.
LEMMA CrashInv ==
  ASSUME ConfigInv, Crash
  PROVE  ConfigInv'
<1>1. ConfigTypeOK'
  BY ConfigConstants DEF ConfigInv, ConfigTypeOK, Crash, files, NoFile
<1>2. RowInv'
  BY DEF ConfigInv, RowInv, Crash
<1>3. WorkerInv'
  BY DEF WorkerInv, Prepared, Crash, Stages
<1>4. ContentInv'
  BY DEF ContentInv, Crash
<1>5. SavedInv'
  BY DEF SavedInv, Crash, None, NoFile
<1>6. WayBack'
  BY DEF ConfigInv, WayBack, Crash, files
<1>7. ReplyIsTrue'
  BY DEF ConfigInv, ReplyIsTrue, Crash, files
<1>8. NewestInv'
  BY DEF ConfigInv, NewestInv, Crash
<1> QED
  BY <1>1, <1>2, <1>3, <1>4, <1>5, <1>6, <1>7, <1>8 DEF ConfigInv
\* Every step of the specification keeps the invariant.
LEMMA ConfigNextInv ==
  ASSUME ConfigInv, [Next]_vars
  PROVE  ConfigInv'
<1>1. ASSUME NEW c \in Commands, Plan(c)
      PROVE  ConfigInv'
  BY <1>1, PlanInv
<1>2. ASSUME NEW c \in Commands, complete_config_plan(c)
      PROVE  ConfigInv'
  BY <1>2, complete_config_planInv
<1>3. ASSUME NEW c \in Commands, Expire(c)
      PROVE  ConfigInv'
  BY <1>3, ExpireInv
<1>4. ASSUME NEW c \in Commands, Present(c)
      PROVE  ConfigInv'
  BY <1>4, PresentInv
<1>5. ASSUME NEW c \in Commands, Observe(c)
      PROVE  ConfigInv'
  BY <1>5, ObserveInv
<1>6. CASE ProvisionTls
  BY <1>6, ProvisionTlsInv
<1>7. CASE ReadCurrent
  BY <1>7, ReadCurrentInv
<1>8. CASE Prepare
  BY <1>8, PrepareInv
<1>9. CASE Recover
  BY <1>9, RecoverInv
<1>10. CASE WriteBackup
  BY <1>10, WriteBackupInv
<1>11. CASE WriteStage
  BY <1>11, WriteStageInv
<1>12. CASE TestStage
  BY <1>12, TestStageInv
<1>13. CASE Publish
  BY <1>13, PublishInv
<1>14. CASE CheckCandidate
  BY <1>14, CheckCandidateInv
<1>15. CASE Retain
  BY <1>15, RetainInv
<1>16. CASE prune_config_backups
  BY <1>16, prune_config_backupsInv
<1>17. CASE mark_applied
  BY <1>17, mark_appliedInv
<1>18. CASE Restore
  BY <1>18, RestoreInv
<1>19. CASE CheckRestored
  BY <1>19, CheckRestoredInv
<1>20. CASE mark_absent
  BY <1>20, mark_absentInv
<1>21. CASE Cancel
  BY <1>21, CancelInv
<1>22. CASE Crash
  BY <1>22, CrashInv
<1>23. CASE UNCHANGED vars
  BY <1>23
     DEF ConfigInv, ConfigTypeOK, RowInv, WorkerInv, ContentInv, SavedInv, WayBack,
         ReplyIsTrue, NewestInv, vars
<1> QED
  BY <1>1, <1>2, <1>3, <1>4, <1>5, <1>6, <1>7, <1>8, <1>9, <1>10, <1>11, <1>12, <1>13,
     <1>14, <1>15, <1>16, <1>17, <1>18, <1>19, <1>20, <1>21, <1>22, <1>23
     DEF Next

-----------------------------------------------------------------------------
(* Theorems                                                                *)

\* Every behaviour of the publication keeps the invariant.
THEOREM ConfigInvariant == Spec => []ConfigInv
<1>1. Init => ConfigInv
  BY ConfigInitInv
<1>2. ConfigInv /\ [Next]_vars => ConfigInv'
  BY ConfigNextInv
<1> QED
  BY <1>1, <1>2, PTL DEF Spec

\* Type correctness of the files, the row, the replies and the apply under way.
THEOREM ConfigTypeCorrect == Spec => []ConfigTypeOK
<1>1. ConfigInv => ConfigTypeOK
  BY DEF ConfigInv
<1> QED
  BY <1>1, ConfigInvariant, PTL

\* apply_validated_config: wherever an apply is dropped or crashes, however often it
\* is retried and whatever the pruning removed, the content that an unconfirmed
\* candidate replaced is still on disk.
THEOREM ConfigWayBack == Spec => []WayBack
<1>1. ConfigInv => WayBack
  BY DEF ConfigInv
<1> QED
  BY <1>1, ConfigInvariant, PTL

\* mark_applied and mark_absent: what the row and the reply say of the file and of the
\* daemon stays true until a later apply is prepared.
THEOREM ConfigReplyIsTrue == Spec => []ReplyIsTrue
<1>1. ConfigInv => ReplyIsTrue
  BY DEF ConfigInv
<1> QED
  BY <1>1, ConfigInvariant, PTL

\* prepare: no step publishes a candidate over a newer one that was reported applied.
THEOREM ConfigNewestStays == Spec => NewestStays
<1> DEFINE Keeps == pc = "publish" /\ conf' # conf =>
                      \A c \in Commands : reply[c] = "applied" => Revision[c] <= Revision[cmd]
<1>1. ConfigInv => Keeps
  BY DEF ConfigInv, WorkerInv, NewestInv, Prepared, Stages
<1>2. ConfigInv /\ [Next]_vars => [Keeps]_vars
  BY <1>1
<1> HIDE DEF Keeps
<1>3. Spec => [][Keeps]_vars
  BY <1>2, ConfigInvariant, PTL DEF Spec
<1> QED
  BY <1>3 DEF NewestStays, Keeps

(***************************************************************************)
(* UserState                                                               *)
(***************************************************************************)

(***************************************************************************)
(* The last command of a set, and what commands of some kinds ask for.     *)
(***************************************************************************)

Indices == 1..Len(cmds)
IsLast(q, S) == (q = 0 /\ S = {}) \/ (q \in S /\ \A j \in S : j <= q)

\* What sets a password, the lock marker and the members of a group.
Secrets == {"user_create", "user_password_rotate"}
Locks == {"user_create", "user_disable", "user_enable"}
Groupings == {"group_apply"}

Of(r, K) == {i \in CommandsOf(r) : cmds[i].kind \in K}
PublishedOf(r, K) == {i \in Of(r, K) : cmds[i].published}

Locked(q) == q # 0 /\ cmds[q].kind = "user_disable"
Asked(q) == IF q = 0 THEN {} ELSE cmds[q].members
MembersIn(f, g) == {u \in In(f) : g \in f[u].groups}

(***************************************************************************)
(* The inductive invariant.                                                *)
(***************************************************************************)

\* One command: what the Agent did not take did nothing, a receipt ends its run, and
\* a result is the receipt's.
Sane(c) ==
  /\ c.name \in Groups <=> c.kind = "group_apply"
  /\ c.leased => c.state = "queued"
  /\ ~c.taken => c.run = "none" /\ c.receipt = "none" /\ c.journal = "none" /\ ~c.published
  /\ c.receipt # "none" \/ c.published => c.run = "none"
  /\ c.receipt = "ok" => c.published
  /\ c.receipt = "rejected" => ~c.published
  /\ c.journal \in {"none", c.receipt}
  /\ c.state = "succeeded" => c.journal = "ok"
  /\ c.state = "failed" => c.journal = "rejected"

CommandInv == \A i \in Indices : Sane(cmds[i])

\* Two commands of a resource, c before d: a revision is only used again by the
\* same kind of change, after one that the Controller gave up.
Dead == {"failed", "expired", "superseded"}
Ordered(c, d) ==
  /\ c.revision <= d.revision
  /\ c.revision = d.revision => c.state \in Dead /\ c.kind = d.kind

\* A change of another kind waits for a success.
Settled(i, j) ==
  \E k \in Indices : /\ i <= k /\ k < j /\ cmds[k].name = cmds[i].name
                     /\ cmds[k].kind = cmds[i].kind /\ cmds[k].state = "succeeded"

OrderInv ==
  \A i, j \in Indices : i < j /\ cmds[i].name = cmds[j].name =>
    Ordered(cmds[i], cmds[j]) /\ (cmds[i].kind # cmds[j].kind => Settled(i, j))

\* The desired revision is the last command's, the Agent has applied none beyond
\* it, and has taken none beyond the one that follows; a revision that is applied
\* was applied by one of its commands, the only one that was published.
Done(i) ==
  \E j \in Indices : /\ cmds[j].name = cmds[i].name
                     /\ cmds[j].revision = cmds[i].revision /\ cmds[j].journal = "ok"

RevisionInv ==
  /\ \A r \in Resources : applied[r] <= desired[r].revision
  /\ \A r \in Resources : \A q \in Nat : IsLast(q, CommandsOf(r)) =>
       desired[r].revision = IF q = 0 THEN applied[r] ELSE cmds[q].revision
  /\ \A i \in Indices : cmds[i].revision <= applied[cmds[i].name] => Done(i)
  /\ \A i \in Indices : cmds[i].journal = "ok" => cmds[i].revision <= applied[cmds[i].name]
  /\ \A i \in Indices : cmds[i].taken => cmds[i].revision <= applied[cmds[i].name] + 1

OnceInv ==
  \A i, j \in Indices : /\ cmds[i].published /\ cmds[j].published
                        /\ cmds[i].name = cmds[j].name /\ cmds[i].revision = cmds[j].revision
                        => i = j

\* The Agent executes the revision that follows the applied one.
AgentInv ==
  agent.stage = "command" =>
    agent.cmd \in Indices /\ cmds[agent.cmd].taken /\ Current(agent.cmd)

\* One request holds user_file_lock, and what it checked still holds.
StageInv ==
  \A i \in Indices : cmds[i].run = "staged" =>
    /\ Acceptable(cmds[i]) /\ ~Outdated(i) /\ privd.up /\ privd.staging > 0
    /\ \A j \in Indices : cmds[j].run = "staged" => j = i

\* Every line of the file holds what the last published command of each sort asked.
HostInv ==
  /\ \A u \in Users : IsLast(file[u].password, PublishedOf(u, Secrets))
  /\ \A u \in Users : \A q \in Nat : IsLast(q, PublishedOf(u, Locks)) =>
       (file[u].locked <=> Locked(q))
  /\ \A g \in Groups : \A q \in Nat : IsLast(q, PublishedOf(g, Groupings)) =>
       MembersIn(file, g) = Asked(q)
  /\ \A i \in Indices : cmds[i].published /\ cmds[i].name \in Users =>
       cmds[i].name \in In(file)

\* The desired row holds what the last command of each sort asks.
DesiredInv ==
  /\ \A u \in Users : IsLast(desired[u].password, Of(u, Secrets))
  /\ \A u \in Users : \A q \in Nat : IsLast(q, Of(u, Locks)) =>
       (desired[u].enabled <=> ~Locked(q))
  /\ \A g \in Groups : \A q \in Nat : IsLast(q, Of(g, Groupings)) =>
       desired[g].members = Asked(q)

\* A reading a of r shows every change of r up to revision v that the Agent recorded:
\* it is what some published command asked, and none of those changes came after it.
Covers(q, S, v) ==
  /\ q = 0 \/ (q \in S /\ cmds[q].published)
  /\ \A j \in S : cmds[j].revision <= v /\ cmds[j].journal = "ok" => j <= q
Shows(a, r, v) ==
  IF r \in Groups
  THEN \E q \in 0..Len(cmds) : Covers(q, Of(r, Groupings), v) /\ a.members = Asked(q)
  ELSE /\ Covers(a.password, Of(r, Secrets), v)
       /\ \E q \in 0..Len(cmds) : Covers(q, Of(r, Locks), v) /\ (a.enabled <=> ~Locked(q))

\* The snapshot that the Agent is taking shows what it has applied.
SnapshotInv ==
  /\ agent.stage # "snapshot" => agent.read = {}
  /\ "groups" \notin agent.read => \A g \in Groups : agent.seen[g] = NoReading
  /\ "users" \notin agent.read => \A u \in Users : agent.seen[u] = NoReading
  /\ "groups" \in agent.read => \A g \in Groups : Shows(agent.seen[g], g, applied[g])
  /\ "users" \in agent.read => \A u \in Users :
       agent.seen[u].known => u \in In(file) /\ Shows(agent.seen[u], u, applied[u])

\* A reading in a batch or in the observation shows the revision it names.
True(a, r) ==
  a.known => /\ a.revision <= applied[r] /\ Shows(a, r, a.revision)
             /\ r \in Users => r \in In(file)

ReportInv ==
  /\ \A r \in Resources : True(observed[r], r)
  /\ \A k \in 1..Len(pending) : \A r \in Resources : True(pending[k].report[r], r)

\* The report of batch b, taken after report a, knows all that a knows, where the
\* journal could be read.
Newer(b, a) ==
  \A r \in Resources \ b.unread : a[r].known /\ (r \in Users \/ a[r].revision > 0) =>
    b.report[r].known /\ a[r].revision <= b.report[r].revision

\* What is neither stale nor overtaken is newer than the observation and than what
\* was observed before it; the snapshot under way has every user of an earlier report.
Fresh(b) == ~b.stale /\ ~b.overtaken
TelemetryInv ==
  /\ \A k \in 1..Len(pending) : Fresh(pending[k]) => Newer(pending[k], observed)
  /\ \A j, k \in 1..Len(pending) :
       j < k /\ Fresh(pending[k]) => Newer(pending[k], pending[j].report)
  /\ "users" \in agent.read => \A u \in Users :
       /\ observed[u].known => agent.seen[u].known
       /\ \A k \in 1..Len(pending) : pending[k].report[u].known => agent.seen[u].known

UserStateInv ==
  /\ UserStateTypeOK /\ CommandInv /\ OrderInv /\ RevisionInv /\ OnceInv /\ AgentInv
  /\ StageInv /\ HostInv /\ DesiredInv /\ SnapshotInv /\ ReportInv /\ TelemetryInv

-----------------------------------------------------------------------------
(* The last of a set of commands                                           *)

\* A set of positions has a last one, or is empty.
LEMMA SomeLast ==
  ASSUME NEW n \in Nat, NEW S \in SUBSET (1..n)
  PROVE  \E q \in Nat : IsLast(q, S)
<1> DEFINE R == {ss \in Nat \X Nat : ss[1] < ss[2]}
           T == {n - x : x \in S}
<1>1. CASE S = {}
  BY <1>1 DEF IsLast
<1>2. CASE S # {}
  <2>1. IsWellFoundedOn(R, Nat)
    BY NatLessThanWellFounded DEF OpToRel
  <2>2. T \subseteq Nat /\ T # {}
    <3>1. \A x \in S : n - x \in Nat
      OBVIOUS
    <3>2. PICK x \in S : TRUE
      BY <1>2
    <3> QED
      BY <3>1, <3>2
  <2> HIDE DEF R
  <2>3. \E x \in T : \A y \in T : ~(<<y, x>> \in R)
    <3> HIDE DEF T
    <3> QED
      BY <2>1, <2>2, WFMin
  <2>4. PICK t \in T : \A y \in T : ~(<<y, t>> \in R)
    BY <2>3
  <2>5. PICK m \in S : t = n - m
    BY <2>4
  <2>6. ASSUME NEW y \in S
        PROVE  y <= m
    <3>1. n - y \in T /\ n - y \in Nat /\ t \in Nat
      BY <2>2, <2>4
    <3>2. ~(n - y < t)
      <4>1. SUFFICES ASSUME n - y < t
                     PROVE  <<n - y, t>> \in R
        BY <2>4, <3>1
      <4> QED
        BY <4>1, <3>1 DEF R
    <3> QED
      BY <2>5, <3>1, <3>2
  <2> QED
    BY <2>6 DEF IsLast
<1> QED
  BY <1>1, <1>2

\* It is one.
LEMMA OneLast ==
  ASSUME NEW S \in SUBSET Nat, NEW p, NEW q, IsLast(p, S), IsLast(q, S)
  PROVE  p = q
<1>1. CASE S = {}
  BY <1>1 DEF IsLast
<1>2. CASE S # {}
  <2>1. p \in S /\ q \in S /\ p <= q /\ q <= p
    BY <1>2 DEF IsLast
  <2>2. p \in Nat /\ q \in Nat
    BY <2>1
  <2> QED
    BY <2>1, <2>2
<1> QED
  BY <1>1, <1>2

\* A set that has a last element is a set of positions or empty.
LEMMA LastIn ==
  ASSUME NEW n \in Nat, NEW S \in SUBSET (1..n), NEW q, IsLast(q, S)
  PROVE  q \in 0..n /\ (q # 0 => q \in S)
<1>1. CASE q = 0
  BY <1>1
<1>2. CASE q \in S
  BY <1>2
<1> QED
  BY <1>1, <1>2 DEF IsLast

\* The positions of the commands of a resource.
LEMMA Positions ==
  ASSUME NEW r, NEW K
  PROVE  /\ CommandsOf(r) \subseteq Indices /\ Of(r, K) \subseteq CommandsOf(r)
         /\ PublishedOf(r, K) \subseteq Of(r, K)
  BY DEF CommandsOf, Of, PublishedOf, Indices

\* Latest and LastRevision name last commands.
LEMMA LatestIsLast ==
  ASSUME UserStateTypeOK, NEW r
  PROVE  IsLast(Latest(r), CommandsOf(r)) /\ Latest(r) \in 0..Len(cmds)
<1>1. Len(cmds) \in Nat /\ CommandsOf(r) \subseteq 1..Len(cmds)
  BY DEF UserStateTypeOK, CommandsOf
<1>2. PICK q \in Nat : IsLast(q, CommandsOf(r))
  BY <1>1, SomeLast
<1>3. CASE CommandsOf(r) = {}
  BY <1>1, <1>3 DEF Latest, IsLast
<1>4. CASE CommandsOf(r) # {}
  <2>1. \E i \in CommandsOf(r) : \A j \in CommandsOf(r) : j <= i
    BY <1>2, <1>4 DEF IsLast
  <2>2. Latest(r) = CHOOSE i \in CommandsOf(r) : \A j \in CommandsOf(r) : j <= i
    BY <1>4 DEF Latest
  <2>3. Latest(r) \in CommandsOf(r) /\ \A j \in CommandsOf(r) : j <= Latest(r)
    BY <2>1, <2>2
  <2> QED
    BY <1>1, <2>3 DEF IsLast
<1> QED
  BY <1>3, <1>4

\* The commands of the desired revision.
AtRevision(r) == {i \in CommandsOf(r) : cmds[i].revision = desired[r].revision}

\* The last command of the desired revision is found.
LEMMA LastRevisionIsLast ==
  ASSUME UserStateTypeOK, NEW r
  PROVE  IsLast(LastRevision(r), AtRevision(r)) /\ LastRevision(r) \in 0..Len(cmds)
<1>1. Len(cmds) \in Nat /\ AtRevision(r) \subseteq 1..Len(cmds)
  BY DEF UserStateTypeOK, CommandsOf, AtRevision
<1>2. PICK q \in Nat : IsLast(q, AtRevision(r))
  BY <1>1, SomeLast
<1>0. LastRevision(r) = IF AtRevision(r) = {} THEN 0
                        ELSE CHOOSE i \in AtRevision(r) : \A j \in AtRevision(r) : j <= i
  BY DEF LastRevision, AtRevision
<1>3. CASE AtRevision(r) = {}
  BY <1>0, <1>1, <1>3 DEF IsLast
<1>4. CASE AtRevision(r) # {}
  <2>1. \E i \in AtRevision(r) : \A j \in AtRevision(r) : j <= i
    BY <1>2, <1>4 DEF IsLast
  <2>3. LastRevision(r) \in AtRevision(r) /\ \A j \in AtRevision(r) : j <= LastRevision(r)
    BY <1>0, <1>4, <2>1
  <2> QED
    BY <1>1, <2>3 DEF IsLast
<1> QED
  BY <1>3, <1>4

-----------------------------------------------------------------------------
(* What the properties follow from                                         *)

\* The last command of a resource asks for the desired revision.
LEMMA LatestFacts ==
  ASSUME UserStateInv, NEW r \in Resources, Latest(r) # 0
  PROVE  /\ Latest(r) \in Indices /\ Latest(r) \in CommandsOf(r) /\ cmds[Latest(r)].name = r
         /\ cmds[Latest(r)].revision = desired[r].revision
         /\ \A j \in CommandsOf(r) : j <= Latest(r)
<1>1. PICK q : q = Latest(r)
  OBVIOUS
<1>2. IsLast(q, CommandsOf(r)) /\ q \in 0..Len(cmds) /\ q # 0 /\ Len(cmds) \in Nat
  BY <1>1, LatestIsLast DEF UserStateInv, UserStateTypeOK
<1>3. q \in CommandsOf(r) /\ q \in Nat /\ \A j \in CommandsOf(r) : j <= q
  BY <1>2 DEF IsLast
<1>4. desired[r].revision = cmds[q].revision
  BY <1>2, <1>3 DEF UserStateInv, RevisionInv
<1> QED
  BY <1>1, <1>3, <1>4 DEF CommandsOf, Indices

\* What was published of an applied revision was recorded: two commands of one
\* revision are not both published.
LEMMA PublishedIsRecorded ==
  ASSUME UserStateInv, NEW i \in Indices, cmds[i].published,
         cmds[i].revision <= applied[cmds[i].name]
  PROVE  cmds[i].journal = "ok"
<1>1. PICK j \in Indices : /\ cmds[j].name = cmds[i].name
                           /\ cmds[j].revision = cmds[i].revision /\ cmds[j].journal = "ok"
  BY DEF UserStateInv, RevisionInv, Done
<1>2. cmds[j].published
  BY <1>1 DEF UserStateInv, CommandInv, Sane
<1>3. i = j
  BY <1>1, <1>2 DEF UserStateInv, OnceInv
<1> QED
  BY <1>1, <1>3

\* The commands of a resource do not go beyond its desired revision.
LEMMA UpToDesired ==
  ASSUME UserStateInv, NEW i \in Indices
  PROVE  cmds[i].name \in Resources /\ cmds[i].revision <= desired[cmds[i].name].revision
<1> DEFINE r == cmds[i].name
<1>1. r \in Resources /\ cmds[i].revision \in Nat /\ Len(cmds) \in Nat
  <2>1. cmds \in Seq(UserCommands) /\ i \in 1..Len(cmds)
    BY DEF UserStateInv, UserStateTypeOK, Indices
  <2>2. cmds[i] \in UserCommands /\ Len(cmds) \in Nat
    BY <2>1
  <2> QED
    BY <2>2 DEF UserCommands
<1>2. CommandsOf(r) \in SUBSET (1..Len(cmds)) /\ i \in CommandsOf(r)
  BY DEF CommandsOf, Indices
<1>3. PICK q \in Nat : IsLast(q, CommandsOf(r))
  BY <1>1, <1>2, SomeLast
<1>4. q \in CommandsOf(r) /\ i <= q
  BY <1>2, <1>3 DEF IsLast
<1>5. q \in Indices /\ cmds[q].name = r /\ q # 0
  BY <1>4 DEF CommandsOf, Indices
<1>6. desired[r].revision = cmds[q].revision
  BY <1>1, <1>3, <1>5 DEF UserStateInv, RevisionInv
<1>7. cmds[i].revision <= cmds[q].revision
  <2>1. CASE i = q
    BY <1>1, <2>1
  <2>2. CASE i < q
    BY <1>5, <2>2 DEF UserStateInv, OrderInv, Ordered
  <2> QED
    BY <1>4, <1>5, <2>1, <2>2 DEF Indices
<1> QED
  BY <1>1, <1>6, <1>7

\* When the last change is recorded as performed, so is the last change of any sort:
\* a change of another kind was only made after a success.
LEMMA LastIsRecorded ==
  ASSUME UserStateInv, NEW r \in Resources, Latest(r) = 0 \/ cmds[Latest(r)].journal = "ok",
         NEW K, NEW q, IsLast(q, Of(r, K)), q # 0
  PROVE  q \in Of(r, K) /\ cmds[q].journal = "ok" /\ cmds[q].published
<1>1. /\ q \in Of(r, K) /\ q \in CommandsOf(r) /\ q \in Indices /\ cmds[q].name = r
      /\ cmds[q].kind \in K /\ Indices \subseteq Nat /\ Len(cmds) \in Nat
  BY DEF IsLast, Of, CommandsOf, Indices, UserStateInv, UserStateTypeOK
<1>2. Latest(r) # 0
  <2>1. IsLast(Latest(r), CommandsOf(r)) /\ 0 \notin CommandsOf(r)
    BY <1>1, LatestIsLast DEF UserStateInv, CommandsOf
  <2> QED
    BY <1>1, <2>1 DEF IsLast
<1>3. PICK m \in Indices : /\ m = Latest(r) /\ cmds[m].name = r /\ q <= m
                           /\ cmds[m].journal = "ok"
  BY <1>1, <1>2, LatestFacts
<1>4. cmds[q].journal = "ok"
  <2>1. CASE q = m
    BY <1>3, <2>1
  <2>2. CASE q < m /\ cmds[q].kind = cmds[m].kind
    <3>1. m \in Of(r, K)
      BY <1>1, <1>3, <2>2 DEF Of, CommandsOf, Indices
    <3>2. m <= q
      BY <3>1 DEF IsLast
    <3> QED
      BY <1>1, <2>2, <3>2
  <2>3. CASE q < m /\ cmds[q].kind # cmds[m].kind
    <3>1. Settled(q, m)
      BY <1>1, <1>3, <2>3 DEF UserStateInv, OrderInv
    <3>2. PICK k \in Indices : /\ q <= k /\ cmds[k].name = r /\ cmds[k].kind = cmds[q].kind
                               /\ cmds[k].state = "succeeded"
      BY <1>1, <3>1 DEF Settled
    <3>3. k \in Of(r, K)
      BY <1>1, <3>2 DEF Of, CommandsOf, Indices
    <3>4. k <= q
      BY <3>3 DEF IsLast
    <3>5. k = q
      BY <1>1, <3>2, <3>4
    <3> QED
      BY <3>2, <3>5 DEF UserStateInv, CommandInv, Sane
  <2> QED
    BY <1>1, <1>3, <2>1, <2>2, <2>3
<1>5. cmds[q].published
  BY <1>1, <1>4 DEF UserStateInv, CommandInv, Sane
<1> QED
  BY <1>1, <1>4, <1>5

\* The last published change of a sort is then the last change of that sort.
LEMMA LastIsPublished ==
  ASSUME UserStateInv, NEW r \in Resources, Latest(r) = 0 \/ cmds[Latest(r)].journal = "ok",
         NEW K, NEW q, IsLast(q, Of(r, K))
  PROVE  IsLast(q, PublishedOf(r, K))
<1>1. CASE q = 0
  BY <1>1, Positions DEF IsLast, Of, CommandsOf, PublishedOf
<1>2. CASE q # 0
  BY <1>2, LastIsRecorded DEF IsLast, PublishedOf
<1> QED
  BY <1>1, <1>2

\* SucceededIsOnHost.
LEMMA HostHoldsDesired ==
  ASSUME UserStateInv, NEW r \in Resources, Latest(r) # 0, cmds[Latest(r)].journal = "ok"
  PROVE  OnHost(r)
<1>1. Len(cmds) \in Nat
  BY DEF UserStateInv, UserStateTypeOK
<1>2. CASE r \in Groups
  <2>1. PICK q \in Nat : IsLast(q, Of(r, Groupings))
    BY <1>1, SomeLast DEF Of, CommandsOf
  <2>2. IsLast(q, PublishedOf(r, Groupings))
    BY <2>1, LastIsPublished
  <2>3. MembersIn(file, r) = desired[r].members
    BY <1>2, <2>1, <2>2 DEF UserStateInv, HostInv, DesiredInv
  <2> QED
    BY <1>2, <2>3 DEF OnHost, MembersIn
<1>3. CASE r \notin Groups
  <2>0. r \in Users
    BY <1>3 DEF Resources
  <2>1. PICK q \in Nat : IsLast(q, Of(r, Locks))
    BY <1>1, SomeLast DEF Of, CommandsOf
  <2>2. IsLast(q, PublishedOf(r, Locks))
    BY <2>1, LastIsPublished
  <2>3. file[r].locked <=> ~desired[r].enabled
    BY <2>0, <2>1, <2>2 DEF UserStateInv, HostInv, DesiredInv
  <2>4. file[r].locked \in BOOLEAN /\ desired[r].enabled \in BOOLEAN
        /\ desired[r].password \in Nat
    BY <2>0 DEF UserStateInv, UserStateTypeOK, Entries, Desires, Resources
  <2>5. IsLast(desired[r].password, PublishedOf(r, Secrets))
    BY <2>0, LastIsPublished DEF UserStateInv, DesiredInv
  <2>6. PublishedOf(r, Secrets) \subseteq Nat
    BY <1>1 DEF PublishedOf, Of, CommandsOf
  <2>7. file[r].password = desired[r].password
    BY <2>0, <2>5, <2>6, OneLast DEF UserStateInv, HostInv
  <2>8. r \in In(file)
    BY <2>0, LatestFacts DEF UserStateInv, HostInv, CommandInv, Sane
  <2> QED
    BY <1>3, <2>3, <2>4, <2>7, <2>8 DEF OnHost
<1> QED
  BY <1>2, <1>3

\* A reading of the desired revision shows the last password that was asked for, when
\* the last change is recorded as performed.
LEMMA ShownIsDesired ==
  ASSUME UserStateInv, NEW r \in Users, Latest(r) = 0 \/ cmds[Latest(r)].journal = "ok",
         NEW a, Shows(a, r, desired[r].revision)
  PROVE  a.password = desired[r].password
<1>1. /\ r \in Resources /\ r \notin Groups /\ Len(cmds) \in Nat
  BY UserStateAssumption DEF UserStateInv, UserStateTypeOK, Resources
<1>2. PICK p : p = desired[r].password /\ IsLast(p, Of(r, Secrets))
  BY DEF UserStateInv, DesiredInv
<1>3. PICK q : q = a.password /\ Covers(q, Of(r, Secrets), desired[r].revision)
  BY <1>1 DEF Shows
<1>4. Of(r, Secrets) \subseteq Indices /\ Indices \subseteq Nat \ {0}
  BY <1>1 DEF Of, CommandsOf, Indices
<1>5. CASE p = 0
  BY <1>2, <1>3, <1>4, <1>5 DEF IsLast, Covers
<1>6. CASE p # 0
  <2>1. p \in Of(r, Secrets) /\ cmds[p].journal = "ok"
    BY <1>1, <1>2, <1>6, LastIsRecorded
  <2>2. cmds[p].revision <= desired[r].revision
    BY <1>4, <2>1, UpToDesired DEF Of, CommandsOf
  <2>3. p <= q
    BY <1>3, <2>1, <2>2 DEF Covers
  <2>4. p \in Nat \ {0} /\ (q = 0 \/ q \in Of(r, Secrets))
    BY <1>3, <1>4, <2>1 DEF Covers
  <2>5. q \in Of(r, Secrets) /\ q \in Nat
    <3>1. q # 0
      BY <2>3, <2>4
    <3> QED
      BY <1>4, <2>4, <3>1
  <2>6. q <= p
    BY <1>2, <2>1, <2>5 DEF IsLast
  <2> QED
    BY <1>2, <1>3, <2>3, <2>4, <2>5, <2>6
<1> QED
  BY <1>5, <1>6

\* Two readings of the desired revision say the same, once it is applied.
LEMMA ShownIsSame ==
  ASSUME UserStateInv, NEW r \in Resources, applied[r] = desired[r].revision,
         NEW a, NEW b, Shows(a, r, desired[r].revision), Shows(b, r, desired[r].revision)
  PROVE  /\ r \in Groups => a.members = b.members
         /\ r \notin Groups => (a.enabled <=> b.enabled)
<1>1. Len(cmds) \in Nat
  BY DEF UserStateInv, UserStateTypeOK
<1>2. ASSUME NEW K, NEW p, NEW q, Covers(p, Of(r, K), desired[r].revision),
             Covers(q, Of(r, K), desired[r].revision), p \in Of(r, K)
      PROVE  p <= q
  <2>1. p \in Indices /\ cmds[p].name = r /\ (p = 0 \/ cmds[p].published) /\ p # 0
    BY <1>1, <1>2 DEF Covers, Of, CommandsOf, Indices
  <2>2. cmds[p].revision <= desired[r].revision
    BY <2>1, UpToDesired
  <2>3. cmds[p].journal = "ok"
    BY <2>1, <2>2, PublishedIsRecorded
  <2> QED
    BY <1>2, <2>2, <2>3 DEF Covers
<1>3. ASSUME NEW K, NEW p, NEW q, Covers(p, Of(r, K), desired[r].revision),
             Covers(q, Of(r, K), desired[r].revision)
      PROVE  p = q
  <2>1. Of(r, K) \subseteq Nat \ {0}
    BY <1>1 DEF Of, CommandsOf
  <2>2. (p = 0 \/ p \in Of(r, K)) /\ (q = 0 \/ q \in Of(r, K))
    BY <1>3 DEF Covers
  <2>3. (p \in Of(r, K) => p <= q) /\ (q \in Of(r, K) => q <= p)
    BY <1>2, <1>3
  <2> QED
    BY <2>1, <2>2, <2>3
<1>4. CASE r \in Groups
  BY <1>3, <1>4 DEF Shows
<1>5. CASE r \notin Groups
  BY <1>3, <1>5 DEF Shows
<1> QED
  BY <1>4, <1>5

-----------------------------------------------------------------------------
(* What steps leave alone                                                  *)

\* The commands there are stay the changes they are.
Statics ==
  /\ Len(cmds') >= Len(cmds)
  /\ \A i \in Indices : /\ cmds'[i].name = cmds[i].name /\ cmds'[i].kind = cmds[i].kind
                        /\ cmds'[i].members = cmds[i].members
                        /\ cmds'[i].revision = cmds[i].revision
Same == Statics /\ Len(cmds') = Len(cmds)

\* What is recorded now follows the applied revision, and what is published stays so.
Recorded ==
  /\ \A j \in 1..Len(cmds') : cmds'[j].journal = "ok" =>
       /\ j \in Indices
       /\ cmds[j].journal = "ok" \/ cmds[j].revision > applied[cmds[j].name]
  /\ \A j \in Indices : cmds[j].published => cmds'[j].published

\* The commands and their positions.
LEMMA Lengths ==
  ASSUME UserStateTypeOK
  PROVE  /\ Len(cmds) \in Nat /\ Indices \subseteq Nat \ {0}
         /\ \A i \in Indices : cmds[i] \in UserCommands
<1>1. cmds \in Seq(UserCommands)
  BY DEF UserStateTypeOK
<1> QED
  BY <1>1 DEF Indices

\* The commands of a resource are the same ones.
LEMMA SameSets ==
  ASSUME Same, NEW r, NEW K
  PROVE  Indices' = Indices /\ CommandsOf(r)' = CommandsOf(r) /\ Of(r, K)' = Of(r, K)
<1>1. Indices' = Indices
  BY DEF Same, Indices
<1>2. CommandsOf(r)' = CommandsOf(r)
  BY DEF Same, Statics, CommandsOf, Indices
<1>3. Of(r, K)' = Of(r, K)
  BY <1>2 DEF Same, Statics, Of, CommandsOf, Indices
<1> QED
  BY <1>1, <1>2, <1>3

\* What they ask for is the same.
LEMMA SameAsked ==
  ASSUME UserStateTypeOK, Statics, NEW q \in 0..Len(cmds)
  PROVE  (Locked(q)' <=> Locked(q)) /\ Asked(q)' = Asked(q)
  BY Lengths DEF Statics, Locked, Asked, Indices

\* A reading goes on showing what it shows, when no change up to its revision is
\* recorded now.
LEMMA ShowsKept ==
  ASSUME UserStateTypeOK, Statics, Len(cmds') \in Nat, NEW a, NEW r, NEW v \in Nat,
         \A j \in 1..Len(cmds') :
           cmds'[j].journal = "ok" /\ cmds'[j].name = r /\ cmds'[j].revision <= v =>
             j \in Indices /\ cmds[j].journal = "ok",
         \A j \in Indices : cmds[j].published => cmds'[j].published,
         Shows(a, r, v)
  PROVE  Shows(a, r, v)'
<1>1. ASSUME NEW K, NEW q, Covers(q, Of(r, K), v)
      PROVE  Covers(q, Of(r, K), v)'
  <2>1. q = 0 \/ (q \in Of(r, K)' /\ cmds'[q].published)
    BY <1>1, Lengths DEF Covers, Of, CommandsOf, Statics, Indices
  <2>2. ASSUME NEW j \in Of(r, K)', cmds'[j].revision <= v, cmds'[j].journal = "ok"
        PROVE  j <= q
    <3>1. j \in 1..Len(cmds') /\ cmds'[j].name = r /\ cmds'[j].kind \in K
      BY <2>2 DEF Of, CommandsOf
    <3>2. j \in Indices /\ cmds[j].journal = "ok"
      BY <2>2, <3>1
    <3>3. j \in Of(r, K) /\ cmds[j].revision <= v
      BY <2>2, <3>1, <3>2 DEF Of, CommandsOf, Statics, Indices
    <3> QED
      BY <1>1, <3>2, <3>3 DEF Covers
  <2> QED
    BY <2>1, <2>2 DEF Covers
<1>2. 0..Len(cmds) \subseteq 0..Len(cmds')
  BY Lengths DEF Statics
<1>3. CASE r \in Groups
  <2>1. PICK q \in 0..Len(cmds) : Covers(q, Of(r, Groupings), v) /\ a.members = Asked(q)
    BY <1>3 DEF Shows
  <2>2. Covers(q, Of(r, Groupings), v)' /\ a.members = Asked(q)'
    BY <1>1, <2>1, SameAsked
  <2> QED
    BY <1>2, <1>3, <2>2 DEF Shows
<1>4. CASE r \notin Groups
  <2>1. PICK q \in 0..Len(cmds) : Covers(q, Of(r, Locks), v) /\ (a.enabled <=> ~Locked(q))
    BY <1>4 DEF Shows
  <2>2. Covers(q, Of(r, Locks), v)' /\ (a.enabled <=> ~Locked(q)')
    BY <1>1, <2>1, SameAsked
  <2>3. Covers(a.password, Of(r, Secrets), v)'
    BY <1>1, <1>4 DEF Shows
  <2> QED
    BY <1>2, <1>4, <2>2, <2>3 DEF Shows
<1> QED
  BY <1>3, <1>4

\* Telemetry is left in order by a step that reports and ingests nothing, when
\* users stay and what is recorded follows the applied revision.
LEMMA TelemetryKept ==
  ASSUME UserStateInv, UserStateTypeOK', Statics, UNCHANGED <<pending, observed>>,
         Recorded, In(file) \subseteq In(file'), \A r \in Resources : applied[r] <= applied'[r],
         \/ agent'.read = agent.read /\ agent'.seen = agent.seen /\ applied' = applied
            /\ (agent'.stage # "snapshot" => agent.read = {})
         \/ agent'.read = {} /\ \A r \in Resources : agent'.seen[r] = NoReading
  PROVE  SnapshotInv' /\ ReportInv' /\ TelemetryInv'
<1>0. UserStateTypeOK /\ Len(cmds) \in Nat /\ Len(cmds') \in Nat
  BY Lengths DEF UserStateInv, UserStateTypeOK
<1>t. \A r \in Resources : applied[r] \in Nat /\ applied'[r] \in Nat
  BY DEF UserStateInv, UserStateTypeOK
<1>1. ASSUME NEW a, NEW r \in Resources, NEW v \in Nat, v <= applied[r], Shows(a, r, v)
      PROVE  Shows(a, r, v)'
  <2>1. ASSUME NEW j \in 1..Len(cmds'), cmds'[j].journal = "ok", cmds'[j].name = r,
               cmds'[j].revision <= v
        PROVE  j \in Indices /\ cmds[j].journal = "ok"
    <3>1. /\ j \in Indices
          /\ cmds[j].journal = "ok" \/ cmds[j].revision > applied[cmds[j].name]
      BY <2>1 DEF Recorded
    <3>2. cmds[j].name = r /\ cmds[j].revision <= v /\ cmds[j].revision \in Nat
      BY <1>0, <2>1, <3>1, Lengths DEF Statics, UserCommands
    <3> QED
      BY <1>1, <1>t, <3>1, <3>2
  <2> QED
    BY <1>0, <1>1, <2>1, ShowsKept DEF Recorded
<1>2. ASSUME NEW a \in Readings, NEW r \in Resources, True(a, r)
      PROVE  True(a, r)'
  <2>1. SUFFICES ASSUME a.known
                 PROVE  /\ a.revision <= applied'[r] /\ Shows(a, r, a.revision)'
                        /\ r \in Users => r \in In(file')
    BY DEF True
  <2>2. a.revision \in Nat /\ a.revision <= applied[r] /\ Shows(a, r, a.revision)
    BY <1>2, <2>1 DEF True, Readings
  <2>3. Shows(a, r, a.revision)'
    BY <1>1, <2>2
  <2> QED
    BY <1>2, <1>t, <2>1, <2>2, <2>3 DEF True
<1>3. ReportInv'
  <2>1. observed' = observed /\ pending' = pending
    OBVIOUS
  <2>2. ASSUME NEW r \in Resources
        PROVE  True(observed[r], r)'
    <3>1. observed[r] \in Readings /\ True(observed[r], r)
      BY DEF UserStateInv, UserStateTypeOK, Reports, ReportInv
    <3>2. PICK a : a = observed[r]
      OBVIOUS
    <3>3. True(a, r)'
      BY <1>2, <3>1, <3>2
    <3> QED
      BY <2>1, <3>2, <3>3
  <2>3. ASSUME NEW k \in 1..Len(pending), NEW r \in Resources
        PROVE  True(pending[k].report[r], r)'
    <3>1. pending \in Seq(Batches)
      BY DEF UserStateInv, UserStateTypeOK
    <3>0. pending[k] \in Batches
      BY <3>1
    <3>2. pending[k].report[r] \in Readings /\ True(pending[k].report[r], r)
      BY <3>0 DEF UserStateInv, Batches, Reports, ReportInv
    <3>3. PICK a : a = pending[k].report[r]
      OBVIOUS
    <3>4. True(a, r)'
      BY <1>2, <3>2, <3>3
    <3> QED
      BY <2>1, <3>3, <3>4
  <2> QED
    BY <2>1, <2>2, <2>3 DEF ReportInv
<1>4. CASE agent'.read = {} /\ \A r \in Resources : agent'.seen[r] = NoReading
  <2>2. SnapshotInv'
    BY <1>4 DEF SnapshotInv, Resources
  <2>3. TelemetryInv'
    BY <1>4 DEF UserStateInv, TelemetryInv, Newer
  <2> QED
    BY <1>3, <2>2, <2>3
<1>5. CASE /\ agent'.read = agent.read /\ agent'.seen = agent.seen /\ applied' = applied
           /\ (agent'.stage # "snapshot" => agent.read = {})
  <2>1. ASSUME NEW r \in Resources, Shows(agent.seen[r], r, applied[r])
        PROVE  Shows(agent.seen[r], r, applied[r])'
    <3>1. PICK a : a = agent.seen[r]
      OBVIOUS
    <3>2. PICK v : v = applied[r]
      OBVIOUS
    <3>3. v \in Nat /\ v <= applied[r]
      BY <1>t, <3>2
    <3>4. Shows(a, r, v)'
      BY <1>1, <2>1, <3>1, <3>2, <3>3
    <3> QED
      BY <1>5, <3>1, <3>2, <3>4
  <2>2. SnapshotInv'
    BY <1>5, <2>1 DEF UserStateInv, SnapshotInv, Resources
  <2>3. TelemetryInv'
    BY <1>5 DEF UserStateInv, TelemetryInv, Newer
  <2> QED
    BY <1>3, <2>2, <2>3
<1> QED
  BY <1>4, <1>5

\* The order of the commands is kept: what is settled stays settled.
LEMMA OrderKept ==
  ASSUME UserStateInv, Same,
         \A i \in Indices : cmds[i].state \notin Outstanding => cmds'[i].state = cmds[i].state
  PROVE  OrderInv'
<1>1. SUFFICES ASSUME NEW i \in Indices, NEW j \in Indices, i < j, cmds[i].name = cmds[j].name
               PROVE  /\ Ordered(cmds'[i], cmds'[j])
                      /\ cmds'[i].kind # cmds'[j].kind => Settled(i, j)'
  BY SameSets DEF OrderInv, Same, Statics
<1>2. Ordered(cmds[i], cmds[j]) /\ (cmds[i].kind # cmds[j].kind => Settled(i, j))
  BY <1>1 DEF UserStateInv, OrderInv
<1>3. /\ cmds'[i].revision = cmds[i].revision /\ cmds'[i].kind = cmds[i].kind
      /\ cmds'[j].revision = cmds[j].revision /\ cmds'[j].kind = cmds[j].kind
      /\ cmds'[i].name = cmds[i].name
  BY DEF Same, Statics
<1>4. cmds[i].state \in Dead => cmds'[i].state \in Dead
  BY DEF Dead, Outstanding
<1>5. ASSUME Settled(i, j)
      PROVE  Settled(i, j)'
  <2>1. PICK k \in Indices : /\ i <= k /\ k < j /\ cmds[k].name = cmds[i].name
                             /\ cmds[k].kind = cmds[i].kind /\ cmds[k].state = "succeeded"
    BY <1>5 DEF Settled
  <2>2. /\ cmds'[k].name = cmds[k].name /\ cmds'[k].kind = cmds[k].kind
        /\ cmds'[k].state = "succeeded" /\ k \in Indices'
    BY <2>1, SameSets DEF Same, Statics, Outstanding
  <2> QED
    BY <1>3, <2>1, <2>2 DEF Settled
<1> QED
  BY <1>2, <1>3, <1>4, <1>5 DEF Ordered

\* The revisions are kept by a step that makes and applies none.
LEMMA RevisionKept ==
  ASSUME UserStateInv, Same, UNCHANGED <<desired, applied>>,
         \A i \in Indices : cmds'[i].journal = "ok" <=> cmds[i].journal = "ok",
         \A i \in Indices : cmds'[i].taken => cmds[i].taken \/ Current(i)
  PROVE  RevisionInv'
<1>1. \A r \in Resources : \A q \in Nat : IsLast(q, CommandsOf(r)') =>
        desired'[r].revision = IF q = 0 THEN applied'[r] ELSE cmds'[q].revision
  <2>1. SUFFICES ASSUME NEW r \in Resources, NEW q \in Nat, IsLast(q, CommandsOf(r)')
                 PROVE  desired'[r].revision = IF q = 0 THEN applied'[r] ELSE cmds'[q].revision
    OBVIOUS
  <2>2. IsLast(q, CommandsOf(r))
    BY <2>1, SameSets
  <2>3. q # 0 => q \in Indices
    BY <2>2 DEF IsLast, CommandsOf, Indices
  <2> QED
    BY <2>2, <2>3 DEF UserStateInv, RevisionInv, Same, Statics
<1>2. \A i \in Indices' : cmds'[i].revision <= applied'[cmds'[i].name] => Done(i)'
  <2>1. SUFFICES ASSUME NEW i \in Indices, cmds'[i].revision <= applied'[cmds'[i].name]
                 PROVE  Done(i)'
    BY SameSets
  <2>2. cmds[i].revision <= applied[cmds[i].name]
    BY <2>1 DEF Same, Statics
  <2>3. PICK j \in Indices : /\ cmds[j].name = cmds[i].name
                             /\ cmds[j].revision = cmds[i].revision /\ cmds[j].journal = "ok"
    BY <2>2 DEF UserStateInv, RevisionInv, Done
  <2>4. /\ j \in Indices' /\ cmds'[j].name = cmds'[i].name
        /\ cmds'[j].revision = cmds'[i].revision /\ cmds'[j].journal = "ok"
    BY <2>3, SameSets DEF Same, Statics
  <2> QED
    BY <2>3, <2>4 DEF Done
<1>3. \A i \in Indices' : cmds'[i].journal = "ok" =>
        cmds'[i].revision <= applied'[cmds'[i].name]
  BY SameSets DEF UserStateInv, RevisionInv, Same, Statics
<1>4. \A r \in Resources : applied'[r] <= desired'[r].revision
  BY DEF UserStateInv, RevisionInv
<1>5. \A r \in Resources : \A q \in Nat : IsLast(q, CommandsOf(r))' = IsLast(q, CommandsOf(r)')
  BY DEF IsLast
<1>6. \A i \in Indices' : cmds'[i].taken => cmds'[i].revision <= applied'[cmds'[i].name] + 1
  <2>1. SUFFICES ASSUME NEW i \in Indices, cmds'[i].taken
                 PROVE  cmds[i].revision <= applied[cmds[i].name] + 1
    BY SameSets DEF Same, Statics
  <2>2. CASE cmds[i].taken
    BY <2>2 DEF UserStateInv, RevisionInv
  <2>3. CASE Current(i)
    <3>1. cmds[i] \in UserCommands
      BY Lengths DEF UserStateInv
    <3>2. cmds[i].revision \in Nat
      BY <3>1 DEF UserCommands
    <3> QED
      BY <2>3, <3>2 DEF Current
  <2> QED
    BY <2>1, <2>2, <2>3
<1> QED
  BY <1>1, <1>2, <1>3, <1>4, <1>5, <1>6 DEF RevisionInv

\* The desired rows are kept by a step that makes no change.
LEMMA DesiredKept ==
  ASSUME UserStateInv, Same, UNCHANGED desired
  PROVE  DesiredInv'
<1>0. UserStateTypeOK /\ Len(cmds) \in Nat
  BY Lengths DEF UserStateInv
<1>1. \A r : \A K : Of(r, K)' = Of(r, K)
  BY SameSets
<1>2. ASSUME NEW r, NEW K, NEW q, IsLast(q, Of(r, K))
      PROVE  (Locked(q)' <=> Locked(q)) /\ Asked(q)' = Asked(q)
  <2>1. q \in 0..Len(cmds)
    BY <1>0, <1>2, LastIn DEF Of, CommandsOf
  <2> QED
    BY <1>0, <2>1, SameAsked DEF Same
<1>3. \A u \in Users : IsLast(desired'[u].password, Of(u, Secrets)')
  BY <1>1 DEF UserStateInv, DesiredInv
<1>4. \A u \in Users : \A q \in Nat : IsLast(q, Of(u, Locks)') =>
        (desired'[u].enabled <=> ~Locked(q)')
  BY <1>1, <1>2 DEF UserStateInv, DesiredInv
<1>5. \A g \in Groups : \A q \in Nat : IsLast(q, Of(g, Groupings)') =>
        desired'[g].members = Asked(q)'
  BY <1>1, <1>2 DEF UserStateInv, DesiredInv
<1> QED
  BY <1>3, <1>4, <1>5 DEF DesiredInv, IsLast

\* The file is kept by a step that publishes nothing.
LEMMA HostKept ==
  ASSUME UserStateInv, Same, UNCHANGED file,
         \A i \in Indices : cmds'[i].published <=> cmds[i].published
  PROVE  HostInv' /\ OnceInv'
<1>0. UserStateTypeOK /\ Len(cmds) \in Nat
  BY Lengths DEF UserStateInv
<1>1. \A r : \A K : PublishedOf(r, K)' = PublishedOf(r, K)
  BY SameSets DEF PublishedOf, Of, CommandsOf, Indices
<1>2. ASSUME NEW r, NEW K, NEW q, IsLast(q, PublishedOf(r, K))
      PROVE  (Locked(q)' <=> Locked(q)) /\ Asked(q)' = Asked(q)
  <2>1. q \in 0..Len(cmds)
    BY <1>0, <1>2, LastIn DEF PublishedOf, Of, CommandsOf
  <2> QED
    BY <1>0, <2>1, SameAsked DEF Same
<1>3. \A u \in Users : IsLast(file'[u].password, PublishedOf(u, Secrets)')
  BY <1>1 DEF UserStateInv, HostInv
<1>4. \A u \in Users : \A q \in Nat : IsLast(q, PublishedOf(u, Locks)') =>
        (file'[u].locked <=> Locked(q)')
  BY <1>1, <1>2 DEF UserStateInv, HostInv
<1>5. \A g \in Groups : \A q \in Nat : IsLast(q, PublishedOf(g, Groupings)') =>
        MembersIn(file', g) = Asked(q)'
  BY <1>1, <1>2 DEF UserStateInv, HostInv
<1>6. \A i \in Indices' : cmds'[i].published /\ cmds'[i].name \in Users =>
        cmds'[i].name \in In(file')
  BY SameSets DEF UserStateInv, HostInv, Same, Statics
<1>7. OnceInv'
  BY SameSets DEF UserStateInv, OnceInv, Same, Statics
<1> QED
  BY <1>3, <1>4, <1>5, <1>6, <1>7 DEF HostInv, IsLast, MembersIn, In

\* The holder of the lock is kept by a step that stages nothing.
LEMMA StageKept ==
  ASSUME UserStateInv, Same, UNCHANGED file,
         \A i \in Indices : cmds'[i].published <=> cmds[i].published,
         \A i \in Indices : cmds'[i].run = "staged" =>
           cmds[i].run = "staged" /\ privd'.staging = privd.staging /\ privd'.up = privd.up
  PROVE  StageInv'
<1>1. SUFFICES ASSUME NEW i \in Indices, cmds'[i].run = "staged"
               PROVE  /\ Acceptable(cmds[i])' /\ ~Outdated(i)' /\ privd'.up /\ privd'.staging > 0
                      /\ \A j \in Indices : cmds'[j].run = "staged" => j = i
  BY SameSets DEF StageInv
<1>2. /\ Acceptable(cmds[i]) /\ ~Outdated(i) /\ privd.up /\ privd.staging > 0
      /\ \A j \in Indices : cmds[j].run = "staged" => j = i
  BY <1>1 DEF UserStateInv, StageInv
<1>3. Acceptable(cmds[i])'
  BY <1>2 DEF Acceptable, In, Same, Statics
<1>4. ~Outdated(i)'
  BY <1>2, SameSets DEF Outdated, CommandsOf, Indices, Same, Statics
<1> QED
  BY <1>1, <1>2, <1>3, <1>4

\* What the Agent executes is kept by a step that leaves its command alone.
LEMMA AgentKept ==
  ASSUME UserStateInv, Same, UNCHANGED <<agent, applied>>,
         \A i \in Indices : cmds[i].taken => cmds'[i].taken
  PROVE  AgentInv'
  BY SameSets DEF UserStateInv, AgentInv, Current, Same, Statics

\* What the Agent may be doing.
AgentStates == [stage : {"idle", "command", "snapshot"}, cmd : Nat,
                read : SUBSET {"users", "groups"}, seen : Reports]

\* An Agent that does nothing has its type.
LEMMA IdleTyped == Idle \in AgentStates /\ NothingSeen \in Reports /\ NoReading \in Readings
<1>1. NoReading \in Readings
  BY DEF NoReading, Readings
<1>2. NothingSeen \in Reports
  BY <1>1 DEF NothingSeen, Reports
<1> QED
  BY <1>1, <1>2 DEF Idle, AgentStates

\* It has read nothing.
LEMMA IdleIs ==
  /\ Idle \in AgentStates /\ Idle.stage = "idle" /\ Idle.read = {}
  /\ \A r \in Resources : Idle.seen[r] = NoReading
  BY IdleTyped DEF Idle, NothingSeen, Resources

\* A step of one command.
LEMMA SetIs ==
  ASSUME UserStateTypeOK, NEW i \in Indices, NEW c \in UserCommands, Set(i, c),
         c.name = cmds[i].name, c.kind = cmds[i].kind, c.members = cmds[i].members,
         c.revision = cmds[i].revision
  PROVE  /\ cmds' \in Seq(UserCommands) /\ Same /\ cmds'[i] = c
         /\ \A j \in Indices \ {i} : cmds'[j] = cmds[j]
<1>1. cmds \in Seq(UserCommands) /\ i \in 1..Len(cmds) /\ cmds' = [cmds EXCEPT ![i] = c]
  BY DEF UserStateTypeOK, Indices, Set
<1>2. /\ cmds' \in Seq(UserCommands) /\ Len(cmds') = Len(cmds) /\ cmds'[i] = c
      /\ \A j \in 1..Len(cmds) : j # i => cmds'[j] = cmds[j]
  BY <1>1
<1> QED
  BY <1>1, <1>2 DEF Same, Statics, Indices

\* A step of one command that publishes and applies nothing.
LEMMA StatusStep ==
  ASSUME UserStateInv, NEW i \in Indices, NEW c \in UserCommands, Set(i, c),
         c.name = cmds[i].name, c.kind = cmds[i].kind, c.members = cmds[i].members,
         c.revision = cmds[i].revision,
         Sane(c), c.published = cmds[i].published,
         c.journal = "ok" <=> cmds[i].journal = "ok",
         cmds[i].state \in Outstanding \/ c.state = cmds[i].state,
         c.taken => cmds[i].taken \/ Current(i),
         UNCHANGED <<desired, file, applied, pending, observed>>,
         privd' \in [up : BOOLEAN, staging : Nat], agent' \in AgentStates, faults' \in Nat,
         AgentInv', StageInv',
         \/ agent'.read = agent.read /\ agent'.seen = agent.seen
            /\ (agent'.stage # "snapshot" => agent.read = {})
         \/ agent'.read = {} /\ \A r \in Resources : agent'.seen[r] = NoReading
  PROVE  UserStateInv'
<1>0. UserStateTypeOK
  BY DEF UserStateInv
<1>1. /\ cmds' \in Seq(UserCommands) /\ Same /\ cmds'[i] = c
      /\ \A j \in Indices \ {i} : cmds'[j] = cmds[j]
  BY <1>0, SetIs
<1>2. UserStateTypeOK'
  BY <1>0, <1>1 DEF UserStateTypeOK, AgentStates
<1>3. CommandInv'
  BY <1>1, SameSets DEF UserStateInv, CommandInv
<1>4. OrderInv'
  <2>1. \A j \in Indices : cmds[j].state \notin Outstanding => cmds'[j].state = cmds[j].state
    BY <1>1
  <2> QED
    BY <1>1, <2>1, OrderKept
<1>5. RevisionInv'
  <2>1. \A j \in Indices : cmds'[j].journal = "ok" <=> cmds[j].journal = "ok"
    BY <1>1
  <2>2. \A j \in Indices : cmds'[j].taken => cmds[j].taken \/ Current(j)
    BY <1>1
  <2> QED
    BY <1>1, <2>1, <2>2, RevisionKept
<1>6. HostInv' /\ OnceInv'
  <2>1. \A j \in Indices : cmds'[j].published <=> cmds[j].published
    BY <1>1
  <2> QED
    BY <1>1, <2>1, HostKept
<1>7. DesiredInv'
  BY <1>1, DesiredKept
<1>8. SnapshotInv' /\ ReportInv' /\ TelemetryInv'
  <2>1. Recorded
    BY <1>1 DEF Same, Indices, Recorded
  <2>2. \A r \in Resources : applied[r] <= applied'[r]
    BY <1>0 DEF UserStateTypeOK
  <2>3. In(file) \subseteq In(file')
    BY DEF In
  <2> QED
    BY <1>1, <1>2, <2>1, <2>2, <2>3, TelemetryKept DEF Same
<1> QED
  BY <1>2, <1>3, <1>4, <1>5, <1>6, <1>7, <1>8 DEF UserStateInv

-----------------------------------------------------------------------------
(* The steps of one command                                                *)

\* What a command is, and what it says of itself.
LEMMA CommandFacts ==
  ASSUME UserStateInv, NEW i \in Indices
  PROVE  cmds[i] \in UserCommands /\ Sane(cmds[i]) /\ UserStateTypeOK
  BY Lengths DEF UserStateInv, CommandInv

\* What everything but the commands is.
LEMMA OtherFacts ==
  ASSUME UserStateInv
  PROVE  /\ privd \in [up : BOOLEAN, staging : Nat] /\ agent \in AgentStates
         /\ faults \in Nat /\ (agent.stage # "snapshot" => agent.read = {})
  BY DEF UserStateInv, UserStateTypeOK, AgentStates, SnapshotInv

\* A command is claimed.
LEMMA ClaimInv ==
  ASSUME UserStateInv, NEW i \in Indices, Claim(i)
  PROVE  UserStateInv'
<1> DEFINE c == [cmds[i] EXCEPT !.leased = TRUE]
<1>1. cmds[i] \in UserCommands /\ Sane(cmds[i]) /\ UserStateTypeOK
  BY CommandFacts
<1>2. c \in UserCommands /\ Sane(c)
  BY <1>1 DEF Claim, UserCommands, Sane, Outstanding
<1>3. /\ c.name = cmds[i].name /\ c.kind = cmds[i].kind /\ c.members = cmds[i].members
      /\ c.revision = cmds[i].revision /\ c.published = cmds[i].published
      /\ c.journal = cmds[i].journal /\ c.run = cmds[i].run /\ c.taken = cmds[i].taken
      /\ cmds[i].state \in Outstanding
  BY <1>1 DEF Claim, UserCommands, Outstanding
<1>4. Set(i, c) /\ UNCHANGED <<desired, file, privd, agent, applied, pending, observed, faults>>
  BY DEF Claim
<1> HIDE DEF c
<1>5. /\ Same /\ cmds'[i] = c
      /\ \A j \in Indices \ {i} : cmds'[j] = cmds[j]
  BY <1>1, <1>2, <1>3, <1>4, SetIs
<1>6. AgentInv'
  <2>1. \A j \in Indices : cmds[j].taken => cmds'[j].taken
    BY <1>3, <1>5
  <2> QED
    BY <1>4, <1>5, <2>1, AgentKept
<1>7. StageInv'
  <2>1. \A j \in Indices : cmds'[j].run = "staged" =>
          cmds[j].run = "staged" /\ privd'.staging = privd.staging /\ privd'.up = privd.up
    BY <1>3, <1>4, <1>5
  <2>2. \A j \in Indices : cmds'[j].published <=> cmds[j].published
    BY <1>3, <1>5
  <2> QED
    BY <1>4, <1>5, <2>1, <2>2, StageKept
<1> QED
  BY <1>2, <1>3, <1>4, <1>6, <1>7, OtherFacts, StatusStep

\* A lease is returned.
LEMMA ReleaseInv ==
  ASSUME UserStateInv, NEW i \in Indices, Release(i)
  PROVE  UserStateInv'
<1> DEFINE c == [cmds[i] EXCEPT !.leased = FALSE]
<1>1. cmds[i] \in UserCommands /\ Sane(cmds[i]) /\ UserStateTypeOK
  BY CommandFacts
<1>2. c \in UserCommands /\ Sane(c)
  BY <1>1 DEF Release, UserCommands, Sane, Outstanding
<1>3. /\ c.name = cmds[i].name /\ c.kind = cmds[i].kind /\ c.members = cmds[i].members
      /\ c.revision = cmds[i].revision /\ c.published = cmds[i].published
      /\ c.journal = cmds[i].journal /\ c.run = cmds[i].run /\ c.taken = cmds[i].taken
      /\ cmds[i].state \in Outstanding
  BY <1>1 DEF Release, UserCommands, Outstanding
<1>4. Set(i, c) /\ UNCHANGED <<desired, file, privd, agent, applied, pending, observed, faults>>
  BY DEF Release
<1> HIDE DEF c
<1>5. /\ Same /\ cmds'[i] = c
      /\ \A j \in Indices \ {i} : cmds'[j] = cmds[j]
  BY <1>1, <1>2, <1>3, <1>4, SetIs
<1>6. AgentInv'
  <2>1. \A j \in Indices : cmds[j].taken => cmds'[j].taken
    BY <1>3, <1>5
  <2> QED
    BY <1>4, <1>5, <2>1, AgentKept
<1>7. StageInv'
  <2>1. \A j \in Indices : cmds'[j].run = "staged" =>
          cmds[j].run = "staged" /\ privd'.staging = privd.staging /\ privd'.up = privd.up
    BY <1>3, <1>4, <1>5
  <2>2. \A j \in Indices : cmds'[j].published <=> cmds[j].published
    BY <1>3, <1>5
  <2> QED
    BY <1>4, <1>5, <2>1, <2>2, StageKept
<1> QED
  BY <1>2, <1>3, <1>4, <1>6, <1>7, OtherFacts, StatusStep

\* A command that waits without a lease expires.
LEMMA ExpireQueuedInv ==
  ASSUME UserStateInv, NEW i \in Indices, ExpireQueued(i)
  PROVE  UserStateInv'
<1> DEFINE c == [cmds[i] EXCEPT !.state = "expired"]
<1>1. cmds[i] \in UserCommands /\ Sane(cmds[i]) /\ UserStateTypeOK
  BY CommandFacts
<1>2. c \in UserCommands /\ Sane(c)
  BY <1>1 DEF ExpireQueued, UserCommands, Sane, Outstanding
<1>3. /\ c.name = cmds[i].name /\ c.kind = cmds[i].kind /\ c.members = cmds[i].members
      /\ c.revision = cmds[i].revision /\ c.published = cmds[i].published
      /\ c.journal = cmds[i].journal /\ c.run = cmds[i].run /\ c.taken = cmds[i].taken
      /\ cmds[i].state \in Outstanding
  BY <1>1 DEF ExpireQueued, UserCommands, Outstanding
<1>4. Set(i, c) /\ UNCHANGED <<desired, file, privd, agent, applied, pending, observed, faults>>
  BY DEF ExpireQueued
<1> HIDE DEF c
<1>5. /\ Same /\ cmds'[i] = c
      /\ \A j \in Indices \ {i} : cmds'[j] = cmds[j]
  BY <1>1, <1>2, <1>3, <1>4, SetIs
<1>6. AgentInv'
  <2>1. \A j \in Indices : cmds[j].taken => cmds'[j].taken
    BY <1>3, <1>5
  <2> QED
    BY <1>4, <1>5, <2>1, AgentKept
<1>7. StageInv'
  <2>1. \A j \in Indices : cmds'[j].run = "staged" =>
          cmds[j].run = "staged" /\ privd'.staging = privd.staging /\ privd'.up = privd.up
    BY <1>3, <1>4, <1>5
  <2>2. \A j \in Indices : cmds'[j].published <=> cmds[j].published
    BY <1>3, <1>5
  <2> QED
    BY <1>4, <1>5, <2>1, <2>2, StageKept
<1> QED
  BY <1>2, <1>3, <1>4, <1>6, <1>7, OtherFacts, StatusStep

\* A command is taken by the Agent, or refused, whether the send is reported or not.
LEMMA DeliverInv ==
  ASSUME UserStateInv, NEW i \in Indices, NEW reported \in BOOLEAN, Deliver(i, reported)
  PROVE  UserStateInv'
<1>0. PICK answer : answer = prepare_external(i)
  OBVIOUS
<1> DEFINE starts == answer = "dispatched"
           c == [cmds[i] EXCEPT !.state = IF reported THEN answer ELSE "queued", !.leased = FALSE,
                                !.run = IF starts THEN "waiting" ELSE @, !.taken = @ \/ starts]
<1>1. cmds[i] \in UserCommands /\ Sane(cmds[i]) /\ UserStateTypeOK
  BY CommandFacts
<1>2. /\ Set(i, c) /\ UNCHANGED <<desired, file, privd, applied, pending, observed>>
      /\ faults' \in {faults, faults + 1}
      /\ cmds[i].state = "queued" /\ agent.stage = "idle"
      /\ agent' = IF starts THEN [agent EXCEPT !.stage = "command", !.cmd = i] ELSE agent
  BY <1>0 DEF Deliver, Fault
<1>3. /\ answer \in {"dispatched", "succeeded", "failed", "unknown"}
      /\ starts => ~cmds[i].taken /\ Current(i)
      /\ answer = "succeeded" => cmds[i].journal = "ok"
      /\ answer = "failed" => cmds[i].journal = "rejected"
  BY <1>0, <1>1 DEF prepare_external, Outcome, UserCommands, Receipts
<1>4. /\ c.name = cmds[i].name /\ c.kind = cmds[i].kind /\ c.members = cmds[i].members
      /\ c.revision = cmds[i].revision /\ c.published = cmds[i].published
      /\ c.journal = cmds[i].journal /\ c.receipt = cmds[i].receipt /\ ~c.leased
      /\ c.state = IF reported THEN answer ELSE "queued"
      /\ c.run = IF starts THEN "waiting" ELSE cmds[i].run
      /\ c.taken = (cmds[i].taken \/ starts)
      /\ cmds[i].state \in Outstanding
  BY <1>1, <1>2 DEF UserCommands, Outstanding
<1>5. c \in UserCommands
  <2>1. PICK s, w, k : /\ s = IF reported THEN answer ELSE "queued"
                       /\ w = IF starts THEN "waiting" ELSE cmds[i].run
                       /\ k = (cmds[i].taken \/ starts)
    OBVIOUS
  <2>2. /\ s \in Outstanding \cup {"succeeded", "failed", "expired", "superseded"}
        /\ w \in {"none", "waiting", "staged"} /\ k \in BOOLEAN
    BY <1>1, <1>3, <2>1 DEF UserCommands, Outstanding
  <2>3. c = [cmds[i] EXCEPT !.state = s, !.leased = FALSE, !.run = w, !.taken = k]
    BY <2>1
  <2> HIDE DEF c
  <2> QED
    BY <1>1, <2>2, <2>3 DEF UserCommands
<1> HIDE DEF c
<1>6. Sane(c)
  BY <1>1, <1>3, <1>4 DEF Sane
<1>7. /\ Same /\ cmds'[i] = c
      /\ \A j \in Indices \ {i} : cmds'[j] = cmds[j]
  BY <1>1, <1>2, <1>4, <1>5, SetIs
<1>8. AgentInv' /\ agent' \in AgentStates /\ agent'.read = agent.read /\ agent'.seen = agent.seen
  <2>1. CASE starts
    <3>1. agent' = [agent EXCEPT !.stage = "command", !.cmd = i] /\ i \in Nat
      BY <1>1, <1>2, <2>1, Lengths
    <3>2. agent'.stage = "command" /\ agent'.cmd = i /\ agent' \in AgentStates
          /\ agent'.read = agent.read /\ agent'.seen = agent.seen
      BY <3>1, OtherFacts DEF AgentStates
    <3>3. applied'[cmds'[i].name] = cmds'[i].revision - 1 /\ cmds'[i].taken
      BY <1>2, <1>3, <1>4, <1>7, <2>1 DEF Current
    <3> QED
      BY <1>7, <3>2, <3>3, SameSets DEF AgentInv, Current
  <2>2. CASE ~starts
    <3>1. \A j \in Indices : cmds[j].taken => cmds'[j].taken
      BY <1>4, <1>7
    <3>2. agent' = agent
      BY <1>2, <2>2
    <3> QED
      BY <1>2, <1>7, <3>1, <3>2, AgentKept, OtherFacts
  <2> QED
    BY <2>1, <2>2
<1>9. StageInv'
  <2>1. \A j \in Indices : cmds'[j].run = "staged" =>
          cmds[j].run = "staged" /\ privd'.staging = privd.staging /\ privd'.up = privd.up
    BY <1>2, <1>4, <1>7
  <2>2. \A j \in Indices : cmds'[j].published <=> cmds[j].published
    BY <1>4, <1>7
  <2> QED
    BY <1>2, <1>7, <2>1, <2>2, StageKept
<1>10. agent.read = {} /\ privd' \in [up : BOOLEAN, staging : Nat] /\ faults' \in Nat
  BY <1>2, OtherFacts
<1>11. c.taken => cmds[i].taken \/ Current(i)
  BY <1>3, <1>4
<1> QED
  BY <1>2, <1>4, <1>5, <1>6, <1>8, <1>9, <1>10, <1>11, StatusStep

\* A change is staged, or refused with a receipt.
LEMMA stage_user_fileInv ==
  ASSUME UserStateInv, NEW i \in Indices, stage_user_file(i)
  PROVE  UserStateInv'
<1> DEFINE good == Acceptable(cmds[i]) /\ ~Outdated(i)
           c == IF good THEN [cmds[i] EXCEPT !.run = "staged"]
                ELSE [cmds[i] EXCEPT !.run = "none", !.receipt = "rejected"]
<1>1. cmds[i] \in UserCommands /\ Sane(cmds[i]) /\ UserStateTypeOK
  BY CommandFacts
<1>2. c \in UserCommands /\ Sane(c)
  BY <1>1 DEF stage_user_file, UserCommands, Sane, Outstanding, Receipts
<1>3. /\ c.name = cmds[i].name /\ c.kind = cmds[i].kind /\ c.members = cmds[i].members
      /\ c.revision = cmds[i].revision /\ c.published = cmds[i].published
      /\ c.journal = cmds[i].journal /\ c.state = cmds[i].state /\ c.taken = cmds[i].taken
      /\ (c.run = "staged" => good)
  BY <1>1 DEF UserCommands
<1>4. /\ Set(i, c) /\ UNCHANGED <<desired, file, agent, applied, pending, observed, faults>>
      /\ \A j \in Indices : cmds[j].run # "staged"
      /\ privd' = IF good THEN [privd EXCEPT !.staging = @ + 1] ELSE privd
  BY DEF stage_user_file, UserFileUnlocked, Indices
<1> HIDE DEF c
<1>5. /\ Same /\ cmds'[i] = c
      /\ \A j \in Indices \ {i} : cmds'[j] = cmds[j]
  BY <1>1, <1>2, <1>3, <1>4, SetIs
<1>6. AgentInv'
  <2>1. \A j \in Indices : cmds[j].taken => cmds'[j].taken
    BY <1>3, <1>5
  <2> QED
    BY <1>4, <1>5, <2>1, AgentKept
<1>7. privd' \in [up : BOOLEAN, staging : Nat]
      /\ (good => privd'.staging > 0 /\ privd'.up)
  BY <1>4, OtherFacts DEF stage_user_file
<1>8. StageInv'
  <2>1. SUFFICES ASSUME NEW k \in Indices, cmds'[k].run = "staged"
                 PROVE  /\ Acceptable(cmds[k])' /\ ~Outdated(k)' /\ privd'.up
                        /\ privd'.staging > 0
                        /\ \A j \in Indices : cmds'[j].run = "staged" => j = k
    BY <1>5, SameSets DEF StageInv
  <2>2. \A j \in Indices : cmds'[j].run = "staged" => j = i
    BY <1>4, <1>5
  <2>3. k = i /\ good
    BY <1>3, <1>5, <2>1, <2>2
  <2>4. Acceptable(cmds[i])'
    BY <1>3, <1>4, <1>5, <2>3 DEF Acceptable, In
  <2>5. ~Outdated(i)'
    <3>1. \A j \in Indices : cmds'[j].published <=> cmds[j].published
      BY <1>3, <1>5
    <3> QED
      BY <1>5, <2>3, <3>1, SameSets DEF Outdated, CommandsOf, Indices, Same, Statics
  <2> QED
    BY <1>7, <2>2, <2>3, <2>4, <2>5
<1>9. agent' \in AgentStates /\ faults' \in Nat /\ agent'.read = agent.read
       /\ agent'.seen = agent.seen /\ (agent'.stage # "snapshot" => agent.read = {})
  BY <1>4, OtherFacts
<1> QED
  BY <1>2, <1>3, <1>4, <1>6, <1>7, <1>8, <1>9, StatusStep

\* A change fails without a receipt.
LEMMA MutationFailsInv ==
  ASSUME UserStateInv, NEW i \in Indices, MutationFails(i)
  PROVE  UserStateInv'
<1> DEFINE c == [cmds[i] EXCEPT !.run = "none"]
<1>1. cmds[i] \in UserCommands /\ Sane(cmds[i]) /\ UserStateTypeOK
  BY CommandFacts
<1>2. c \in UserCommands /\ Sane(c)
  BY <1>1 DEF UserCommands, Sane
<1>3. /\ c.name = cmds[i].name /\ c.kind = cmds[i].kind /\ c.members = cmds[i].members
      /\ c.revision = cmds[i].revision /\ c.published = cmds[i].published
      /\ c.journal = cmds[i].journal /\ c.state = cmds[i].state /\ c.taken = cmds[i].taken
      /\ c.run = "none"
  BY <1>1 DEF UserCommands
<1>4. /\ Set(i, c) /\ UNCHANGED <<desired, file, agent, applied, pending, observed>>
      /\ faults' = faults + 1 /\ cmds[i].run \in {"waiting", "staged"}
      /\ privd' = [privd EXCEPT !.staging = @ - (IF cmds[i].run = "staged" THEN 1 ELSE 0)]
  BY DEF MutationFails, Fault
<1> HIDE DEF c
<1>5. /\ Same /\ cmds'[i] = c
      /\ \A j \in Indices \ {i} : cmds'[j] = cmds[j]
  BY <1>1, <1>2, <1>3, <1>4, SetIs
<1>6. AgentInv'
  <2>1. \A j \in Indices : cmds[j].taken => cmds'[j].taken
    BY <1>3, <1>5
  <2> QED
    BY <1>4, <1>5, <2>1, AgentKept
<1>7. privd' \in [up : BOOLEAN, staging : Nat]
  <2>1. cmds[i].run = "staged" => privd.staging > 0
    BY DEF UserStateInv, StageInv
  <2> QED
    BY <1>4, <2>1, OtherFacts
<1>8. StageInv'
  <2>1. ASSUME NEW j \in Indices, cmds'[j].run = "staged"
        PROVE  cmds[j].run = "staged" /\ privd'.staging = privd.staging /\ privd'.up = privd.up
    <3>1. cmds[j].run = "staged" /\ j # i
      BY <1>3, <1>5, <2>1
    <3>2. cmds[i].run # "staged"
      BY <3>1 DEF UserStateInv, StageInv
    <3> QED
      BY <1>4, <3>1, <3>2, OtherFacts
  <2>2. \A j \in Indices : cmds'[j].published <=> cmds[j].published
    BY <1>3, <1>5
  <2> QED
    BY <1>4, <1>5, <2>1, <2>2, StageKept
<1>9. agent' \in AgentStates /\ faults' \in Nat /\ agent'.read = agent.read
       /\ agent'.seen = agent.seen /\ (agent'.stage # "snapshot" => agent.read = {})
  BY <1>4, OtherFacts
<1> QED
  BY <1>2, <1>3, <1>4, <1>6, <1>7, <1>8, <1>9, StatusStep

\* What a result, or its absence, makes of a command.
LEMMA AnswerFacts ==
  ASSUME NEW c \in UserCommands, c.leased => c.state = "queued",
         NEW s \in {"succeeded", "failed", "unknown"}, NEW d \in {Answered(c, s), Unanswered(c)}
  PROVE  /\ d \in UserCommands
         /\ d.name = c.name /\ d.kind = c.kind /\ d.members = c.members
         /\ d.revision = c.revision /\ d.published = c.published /\ d.journal = c.journal
         /\ d.run = c.run /\ d.taken = c.taken /\ d.receipt = c.receipt
         /\ d.leased => c.leased /\ d.state = c.state
         /\ d.state \in {c.state, s, "unknown"}
         /\ c.state \notin Outstanding => d.state = c.state
<1>1. CASE d = Answered(c, s)
  BY <1>1 DEF Answered, UserCommands, Outstanding
<1>2. CASE d = Unanswered(c)
  BY <1>2 DEF Unanswered, UserCommands, Outstanding
<1> QED
  BY <1>1, <1>2

\* The Agent gives a command up: what privd does with it goes on.
LEMMA AgentInterruptedInv ==
  ASSUME UserStateInv, NEW i \in Indices, NEW lost \in BOOLEAN, AgentInterrupted(i, lost)
  PROVE  UserStateInv'
<1>0. PICK c : c = IF lost THEN Unanswered(cmds[i]) ELSE Answered(cmds[i], "unknown")
  OBVIOUS
<1>1. cmds[i] \in UserCommands /\ Sane(cmds[i]) /\ UserStateTypeOK
  BY CommandFacts
<1>2. /\ c \in UserCommands
      /\ c.name = cmds[i].name /\ c.kind = cmds[i].kind /\ c.members = cmds[i].members
      /\ c.revision = cmds[i].revision /\ c.published = cmds[i].published
      /\ c.journal = cmds[i].journal /\ c.run = cmds[i].run /\ c.taken = cmds[i].taken
      /\ c.receipt = cmds[i].receipt
      /\ (c.leased => cmds[i].leased /\ c.state = cmds[i].state)
      /\ c.state \in {cmds[i].state, "unknown"}
      /\ (cmds[i].state \in Outstanding \/ c.state = cmds[i].state)
  <2>1. c \in {Answered(cmds[i], "unknown"), Unanswered(cmds[i])}
    BY <1>0
  <2>2. cmds[i].leased => cmds[i].state = "queued"
    BY <1>1 DEF Sane
  <2> QED
    BY <1>1, <2>1, <2>2, AnswerFacts
<1>3. Sane(c)
  BY <1>1, <1>2 DEF Sane
<1>5. /\ Set(i, c) /\ UNCHANGED <<desired, file, privd, applied, pending, observed>>
      /\ agent' = Idle /\ faults' \in {faults, faults + 1}
  BY <1>0 DEF AgentInterrupted, Fault
<1>6. /\ Same /\ cmds'[i] = c
      /\ \A j \in Indices \ {i} : cmds'[j] = cmds[j]
  BY <1>1, <1>2, <1>5, SetIs
<1>7. /\ AgentInv' /\ agent' \in AgentStates /\ agent'.read = {}
      /\ \A r \in Resources : agent'.seen[r] = NoReading
  BY <1>5, IdleIs DEF AgentInv
<1>8. StageInv'
  <2>1. \A j \in Indices : cmds'[j].run = "staged" =>
          cmds[j].run = "staged" /\ privd'.staging = privd.staging /\ privd'.up = privd.up
    BY <1>2, <1>5, <1>6
  <2>2. \A j \in Indices : cmds'[j].published <=> cmds[j].published
    BY <1>2, <1>6
  <2> QED
    BY <1>5, <1>6, <2>1, <2>2, StageKept
<1>9. privd' \in [up : BOOLEAN, staging : Nat] /\ faults' \in Nat
  BY <1>5, OtherFacts
<1> QED
  BY <1>2, <1>3, <1>5, <1>7, <1>8, <1>9, StatusStep

\* A receipt is recorded, with the revision if it is a success.
LEMMA RecordInv ==
  ASSUME UserStateInv, NEW i \in Indices, NEW lost \in BOOLEAN, Record(i, lost),
         UNCHANGED <<desired, file, privd, pending, observed>>, faults' \in Nat,
         agent' = Idle \/ (agent' = agent /\ agent.stage = "idle")
  PROVE  UserStateInv'
<1> DEFINE r == cmds[i].name
<1>0. PICK d : d = [cmds[i] EXCEPT !.journal = cmds[i].receipt]
  OBVIOUS
<1>c. PICK c : c = IF lost THEN Unanswered(d) ELSE Answered(d, Outcome(d.receipt))
  OBVIOUS
<1>1. cmds[i] \in UserCommands /\ Sane(cmds[i]) /\ UserStateTypeOK
  BY CommandFacts
<1>2. cmds[i].receipt \in {"ok", "rejected"} /\ cmds[i].journal = "none" /\ cmds[i].taken
  BY <1>1 DEF Record, UserCommands, Receipts, Sane
<1>3. /\ d \in UserCommands /\ d.journal = cmds[i].receipt /\ d.receipt = cmds[i].receipt
      /\ d.name = r /\ d.kind = cmds[i].kind /\ d.members = cmds[i].members
      /\ d.revision = cmds[i].revision /\ d.published = cmds[i].published
      /\ d.run = cmds[i].run /\ d.taken = cmds[i].taken /\ d.state = cmds[i].state
      /\ d.leased = cmds[i].leased
  BY <1>0, <1>1, <1>2 DEF UserCommands, Receipts
<1>4. /\ c \in UserCommands
      /\ c.name = r /\ c.kind = cmds[i].kind /\ c.members = cmds[i].members
      /\ c.revision = cmds[i].revision /\ c.published = cmds[i].published
      /\ c.journal = cmds[i].receipt /\ c.receipt = cmds[i].receipt
      /\ c.run = cmds[i].run /\ c.taken = cmds[i].taken
      /\ (c.leased => cmds[i].leased /\ c.state = cmds[i].state)
      /\ c.state \in {cmds[i].state, "unknown", Outcome(cmds[i].receipt)}
      /\ (cmds[i].state \notin Outstanding => c.state = cmds[i].state)
  <2>1. PICK s : s = Outcome(d.receipt)
    OBVIOUS
  <2>2. s \in {"succeeded", "failed", "unknown"} /\ c \in {Answered(d, s), Unanswered(d)}
    BY <1>c, <2>1 DEF Outcome
  <2>3. d.leased => d.state = "queued"
    BY <1>1, <1>3 DEF Sane
  <2>4. /\ c \in UserCommands
        /\ c.name = d.name /\ c.kind = d.kind /\ c.members = d.members
        /\ c.revision = d.revision /\ c.published = d.published /\ c.journal = d.journal
        /\ c.run = d.run /\ c.taken = d.taken /\ c.receipt = d.receipt
        /\ (c.leased => d.leased /\ c.state = d.state)
        /\ c.state \in {d.state, s, "unknown"}
        /\ (d.state \notin Outstanding => c.state = d.state)
    BY <1>3, <2>2, <2>3, AnswerFacts
  <2> QED
    BY <1>3, <2>1, <2>4
<1>5. Sane(c)
  BY <1>1, <1>2, <1>4 DEF Sane, Outcome
<1>6. Set(i, c)
  BY <1>0, <1>c DEF Record
<1>7. /\ Same /\ cmds'[i] = c /\ cmds' \in Seq(UserCommands)
      /\ \A j \in Indices \ {i} : cmds'[j] = cmds[j]
  BY <1>1, <1>4, <1>6, SetIs
<1>8. /\ AgentInv' /\ agent' \in AgentStates /\ agent'.read = {}
      /\ \A x \in Resources : agent'.seen[x] = NoReading
  <2>1. CASE agent' = Idle
    BY <2>1, IdleIs DEF AgentInv
  <2>2. CASE agent' = agent /\ agent.stage = "idle"
    BY <2>2, OtherFacts DEF AgentInv, UserStateInv, SnapshotInv, Resources
  <2> QED
    BY <2>1, <2>2
<1>9. StageInv'
  <2>1. \A j \in Indices : cmds'[j].run = "staged" =>
          cmds[j].run = "staged" /\ privd'.staging = privd.staging /\ privd'.up = privd.up
    BY <1>4, <1>7
  <2>2. \A j \in Indices : cmds'[j].published <=> cmds[j].published
    BY <1>4, <1>7
  <2> QED
    BY <1>7, <2>1, <2>2, StageKept
<1>10. privd' \in [up : BOOLEAN, staging : Nat]
  BY OtherFacts
<1>11. CASE cmds[i].receipt = "rejected"
  <2>1. applied' = applied
    BY <1>11 DEF Record
  <2> QED
    BY <1>2, <1>4, <1>5, <1>6, <1>8, <1>9, <1>10, <1>11, <2>1, StatusStep
<1>12. CASE cmds[i].receipt = "ok"
  <2>1. /\ r \in Resources /\ applied' = [applied EXCEPT ![r] = cmds[i].revision]
        /\ applied \in [Resources -> Nat] /\ cmds[i].revision \in Nat
        /\ applied[r] <= cmds[i].revision
    BY <1>1, <1>12 DEF Record, UserCommands, UserStateTypeOK
  <2>2. /\ applied' \in [Resources -> Nat] /\ applied'[r] = cmds[i].revision
        /\ cmds[i].revision = applied[r] + 1
        /\ \A x \in Resources : x # r => applied'[x] = applied[x]
        /\ \A x \in Resources : applied[x] <= applied'[x]
    <3>1. cmds[i].revision <= applied[r] + 1
      BY <1>2 DEF UserStateInv, RevisionInv
    <3>2. ~(cmds[i].revision <= applied[r])
      BY <1>1, <1>2, <1>12, PublishedIsRecorded DEF Sane
    <3> QED
      BY <2>1, <3>1, <3>2
  <2>3. UserStateTypeOK'
    BY <1>1, <1>7, <1>8, <1>10, <2>2 DEF UserStateTypeOK, AgentStates
  <2>4. CommandInv'
    BY <1>5, <1>7, SameSets DEF UserStateInv, CommandInv
  <2>5. OrderInv'
    <3>1. \A j \in Indices : cmds[j].state \notin Outstanding => cmds'[j].state = cmds[j].state
      BY <1>4, <1>7
    <3> QED
      BY <1>7, <3>1, OrderKept
  <2>6. RevisionInv'
    <3>1. \A x \in Resources : applied'[x] <= desired'[x].revision
      BY <2>2, UpToDesired DEF UserStateInv, RevisionInv
    <3>2. ASSUME NEW x \in Resources, NEW q \in Nat, IsLast(q, CommandsOf(x))'
          PROVE  desired'[x].revision = IF q = 0 THEN applied'[x] ELSE cmds'[q].revision
      <4>1. IsLast(q, CommandsOf(x))
        BY <1>7, <3>2, SameSets DEF IsLast
      <4>2. desired[x].revision = IF q = 0 THEN applied[x] ELSE cmds[q].revision
        BY <4>1 DEF UserStateInv, RevisionInv
      <4>3. CASE q = 0
        <5>1. x # r
          BY <4>1, <4>3 DEF IsLast, CommandsOf, Indices
        <5> QED
          BY <2>2, <4>2, <4>3, <5>1
      <4>4. CASE q # 0
        <5>1. q \in Indices
          BY <4>1, <4>4 DEF IsLast, CommandsOf, Indices
        <5> QED
          BY <1>7, <4>2, <4>4, <5>1 DEF Same, Statics
      <4> QED
        BY <4>3, <4>4
    <3>0. \A k \in Indices : /\ cmds'[k].name = cmds[k].name /\ cmds[k].name \in Resources
                             /\ cmds'[k].revision = cmds[k].revision /\ cmds[k].revision \in Nat
      BY <1>7, CommandFacts DEF Same, Statics, UserCommands
    <3>3. ASSUME NEW k \in Indices, cmds'[k].revision <= applied'[cmds'[k].name]
          PROVE  Done(k)'
      <4>0. /\ cmds'[k].name = cmds[k].name /\ cmds'[k].revision = cmds[k].revision
            /\ cmds[k].name \in Resources /\ cmds[k].revision \in Nat
        BY <3>0
      <4>1. CASE cmds[k].revision <= applied[cmds[k].name]
        <5>1. PICK j \in Indices : /\ cmds[j].name = cmds[k].name
                             /\ cmds[j].revision = cmds[k].revision /\ cmds[j].journal = "ok"
          BY <4>1 DEF UserStateInv, RevisionInv, Done
        <5>2. cmds'[j].journal = "ok"
          BY <1>2, <1>7, <5>1
        <5>3. j \in Indices' /\ cmds'[j].name = cmds[j].name
              /\ cmds'[j].revision = cmds[j].revision
          BY <1>7, SameSets DEF Same, Statics
        <5> QED
          BY <4>0, <5>1, <5>2, <5>3 DEF Done
      <4>2. CASE ~(cmds[k].revision <= applied[cmds[k].name])
        <5>1. cmds[k].name = r /\ cmds[k].revision = cmds[i].revision
          BY <2>1, <2>2, <3>3, <4>0, <4>2
        <5>3. i \in Indices' /\ cmds'[i].journal = "ok" /\ cmds'[i].name = r
              /\ cmds'[i].revision = cmds[i].revision
          BY <1>4, <1>7, <1>12, SameSets
        <5> QED
          BY <4>0, <5>1, <5>3 DEF Done
      <4> QED
        BY <4>1, <4>2
    <3>4. ASSUME NEW k \in Indices, cmds'[k].journal = "ok"
          PROVE  cmds'[k].revision <= applied'[cmds'[k].name]
      <4>1. CASE k = i
        BY <2>1, <2>2, <3>0, <4>1
      <4>2. CASE k # i
        <5>1. cmds[k].revision <= applied[cmds[k].name]
          BY <1>7, <3>4, <4>2 DEF UserStateInv, RevisionInv
        <5> QED
          BY <2>1, <2>2, <3>0, <5>1
      <4> QED
        BY <4>1, <4>2
    <3>5. ASSUME NEW k \in Indices, cmds'[k].taken
          PROVE  cmds'[k].revision <= applied'[cmds'[k].name] + 1
      <4>1. cmds[k].taken
        BY <1>4, <1>7, <3>5
      <4>2. cmds[k].revision <= applied[cmds[k].name] + 1
        BY <4>1 DEF UserStateInv, RevisionInv
      <4> QED
        BY <2>1, <2>2, <3>0, <4>2
    <3> QED
      BY <1>7, <3>1, <3>2, <3>3, <3>4, <3>5, SameSets DEF RevisionInv
  <2>7. HostInv' /\ OnceInv'
    <3>1. \A j \in Indices : cmds'[j].published <=> cmds[j].published
      BY <1>4, <1>7
    <3> QED
      BY <1>7, <3>1, HostKept
  <2>8. DesiredInv'
    BY <1>7, DesiredKept
  <2>9. SnapshotInv' /\ ReportInv' /\ TelemetryInv'
    <3>1. Recorded
      BY <1>4, <1>7, <2>1, <2>2 DEF Same, Indices, Recorded
    <3>2. In(file) \subseteq In(file')
      BY DEF In
    <3> QED
      BY <1>7, <1>8, <2>2, <2>3, <3>1, <3>2, TelemetryKept DEF Same
  <2> QED
    BY <1>8, <1>9, <2>3, <2>4, <2>5, <2>6, <2>7, <2>8, <2>9 DEF UserStateInv
<1> QED
  BY <1>2, <1>11, <1>12

\* The Agent records the result of its command.
LEMMA CommandEndsInv ==
  ASSUME UserStateInv, NEW i \in Indices, NEW lost \in BOOLEAN, CommandEnds(i, lost)
  PROVE  UserStateInv'
<1>1. faults' \in Nat
  BY OtherFacts DEF CommandEnds, Fault
<1>2. /\ Record(i, lost) /\ agent' = Idle
      /\ UNCHANGED <<desired, file, privd, pending, observed>>
  BY DEF CommandEnds
<1> QED
  BY <1>1, <1>2, RecordInv

\* A reconciliation repeats a result, records a receipt or retries once.
LEMMA ReconcileInv ==
  ASSUME UserStateInv, NEW i \in Indices, Reconcile(i)
  PROVE  UserStateInv'
<1>1. cmds[i] \in UserCommands /\ Sane(cmds[i]) /\ UserStateTypeOK /\ i \in Nat
  BY CommandFacts, Lengths
<1>2. /\ cmds[i].state = "unknown" /\ agent.stage = "idle"
      /\ UNCHANGED <<desired, file, privd, pending, observed, faults>>
  BY DEF Reconcile
<1>3. /\ privd' \in [up : BOOLEAN, staging : Nat] /\ faults' \in Nat /\ agent \in AgentStates
      /\ agent.read = {} /\ \A r \in Resources : agent.seen[r] = NoReading
  BY <1>2, OtherFacts DEF UserStateInv, SnapshotInv, Resources
<1>4. CASE /\ cmds[i].journal # "none" /\ UNCHANGED <<agent, applied>>
           /\ Set(i, [cmds[i] EXCEPT !.state = Outcome(cmds[i].journal)])
  <2> DEFINE c == [cmds[i] EXCEPT !.state = Outcome(cmds[i].journal)]
  <2>1. c \in UserCommands
    BY <1>1 DEF Outcome, UserCommands, Outstanding
  <2>2. Sane(c)
    BY <1>1, <1>2, <1>4 DEF Outcome, UserCommands, Sane, Receipts
  <2>3. /\ c.name = cmds[i].name /\ c.kind = cmds[i].kind /\ c.members = cmds[i].members
        /\ c.revision = cmds[i].revision /\ c.published = cmds[i].published
        /\ c.journal = cmds[i].journal /\ c.run = cmds[i].run /\ c.taken = cmds[i].taken
        /\ cmds[i].state \in Outstanding
    BY <1>1, <1>2 DEF UserCommands, Outstanding
  <2>4. Set(i, c)
    BY <1>4
  <2> HIDE DEF c
  <2>5. /\ Same /\ cmds'[i] = c
        /\ \A j \in Indices \ {i} : cmds'[j] = cmds[j]
    BY <1>1, <2>1, <2>3, <2>4, SetIs
  <2>6. AgentInv'
    BY <1>2, <1>4 DEF AgentInv
  <2>7. StageInv'
    <3>1. \A j \in Indices : cmds'[j].run = "staged" =>
            cmds[j].run = "staged" /\ privd'.staging = privd.staging /\ privd'.up = privd.up
      BY <1>2, <2>3, <2>5
    <3>2. \A j \in Indices : cmds'[j].published <=> cmds[j].published
      BY <2>3, <2>5
    <3> QED
      BY <1>2, <2>5, <3>1, <3>2, StageKept
  <2> QED
    BY <1>2, <1>3, <1>4, <2>1, <2>2, <2>3, <2>4, <2>6, <2>7, StatusStep
<1>5. CASE Record(i, FALSE) /\ UNCHANGED agent
  BY <1>2, <1>3, <1>5, RecordInv
<1>6. CASE /\ Current(i) /\ cmds[i].receipt = "none" /\ cmds[i].run = "none"
           /\ ~cmds[i].published /\ UNCHANGED applied
           /\ Set(i, [cmds[i] EXCEPT !.state = "dispatched", !.run = "waiting",
                                     !.taken = TRUE, !.retried = TRUE])
           /\ agent' = [agent EXCEPT !.stage = "command", !.cmd = i]
  <2> DEFINE c == [cmds[i] EXCEPT !.state = "dispatched", !.run = "waiting",
                                  !.taken = TRUE, !.retried = TRUE]
  <2>1. c \in UserCommands
    BY <1>1 DEF UserCommands, Outstanding
  <2>2. Sane(c)
    BY <1>1, <1>2, <1>6 DEF UserCommands, Sane
  <2>3. /\ c.name = cmds[i].name /\ c.kind = cmds[i].kind /\ c.members = cmds[i].members
        /\ c.revision = cmds[i].revision /\ c.published = cmds[i].published
        /\ c.journal = cmds[i].journal /\ c.run = "waiting" /\ c.taken
        /\ cmds[i].state \in Outstanding
    BY <1>1, <1>2 DEF UserCommands, Outstanding
  <2>4. Set(i, c)
    BY <1>6
  <2> HIDE DEF c
  <2>5. /\ Same /\ cmds'[i] = c
        /\ \A j \in Indices \ {i} : cmds'[j] = cmds[j]
    BY <1>1, <2>1, <2>3, <2>4, SetIs
  <2>6. agent'.stage = "command" /\ agent'.cmd = i /\ agent' \in AgentStates
        /\ agent'.read = agent.read /\ agent'.seen = agent.seen
    BY <1>1, <1>3, <1>6 DEF AgentStates
  <2>7. AgentInv'
    <3>1. applied'[cmds'[i].name] = cmds'[i].revision - 1
      BY <1>6, <2>3, <2>5 DEF Current
    <3> QED
      BY <2>3, <2>5, <2>6, <3>1, SameSets DEF AgentInv, Current
  <2>8. StageInv'
    <3>1. \A j \in Indices : cmds'[j].run = "staged" =>
            cmds[j].run = "staged" /\ privd'.staging = privd.staging /\ privd'.up = privd.up
      BY <1>2, <2>3, <2>5
    <3>2. \A j \in Indices : cmds'[j].published <=> cmds[j].published
      BY <2>3, <2>5
    <3> QED
      BY <1>2, <2>5, <3>1, <3>2, StageKept
  <2> QED
    BY <1>2, <1>3, <1>6, <2>1, <2>2, <2>3, <2>4, <2>6, <2>7, <2>8, StatusStep
<1> QED
  BY <1>4, <1>5, <1>6 DEF Reconcile

-----------------------------------------------------------------------------
(* privd publishes                                                         *)

\* What the published file says of every user.
LEMMA AfterIs ==
  ASSUME UserStateInv, NEW i \in Indices, cmds[i].run = "staged", NEW f, f = After(file, i)
  PROVE  /\ f \in [Users -> Entries]
         /\ \A u \in Users :
              /\ f[u].present <=> file[u].present \/ u = cmds[i].name
              /\ f[u].password = IF u = cmds[i].name /\ cmds[i].kind \in Secrets THEN i
                                 ELSE file[u].password
              /\ f[u].locked <=> IF u = cmds[i].name /\ cmds[i].kind \in Locks
                                 THEN cmds[i].kind = "user_disable" ELSE file[u].locked
              /\ \A g \in Groups : f[u].present /\ g \in f[u].groups <=>
                   IF g = cmds[i].name THEN u \in cmds[i].members
                   ELSE file[u].present /\ g \in file[u].groups
<1> DEFINE n == cmds[i].name
           k == cmds[i].kind
<1>1. /\ cmds[i] \in UserCommands /\ Sane(cmds[i]) /\ i \in Nat
      /\ file \in [Users -> Entries] /\ Acceptable(cmds[i])
  BY CommandFacts, Lengths DEF UserStateInv, StageInv, UserStateTypeOK
<1>2. /\ n \in Resources /\ k \in UserKinds \cup {"group_apply"}
      /\ cmds[i].members \subseteq Users /\ (n \in Groups <=> k = "group_apply")
  BY <1>1 DEF UserCommands, Sane
<1>3. \A u \in Users : /\ file[u] \in Entries /\ file[u].password \in Nat
                       /\ file[u].locked \in BOOLEAN /\ file[u].groups \subseteq Groups
                       /\ file[u].present \in BOOLEAN
  BY <1>1 DEF Entries
<1>4. CASE k = "group_apply"
  <2>1. n \in Groups /\ n \notin Users /\ cmds[i].members \subseteq In(file)
    BY <1>1, <1>2, <1>4, UserStateAssumption DEF Acceptable
  <2>2. f = group_applied(file, i)
    BY <1>4 DEF After
  <2>3. ASSUME NEW u \in Users
        PROVE  f[u] = IF ~file[u].present THEN file[u]
                      ELSE [file[u] EXCEPT !.groups = (@ \ {n}) \cup
                              (IF u \in cmds[i].members THEN {n} ELSE {})]
    BY <2>2 DEF group_applied, In
  <2>4. ASSUME NEW u \in Users
        PROVE  /\ f[u] \in Entries /\ f[u].present = file[u].present
               /\ f[u].password = file[u].password /\ f[u].locked = file[u].locked
               /\ \A g \in Groups : file[u].present =>
                    (g \in f[u].groups <=>
                       IF g = n THEN u \in cmds[i].members ELSE g \in file[u].groups)
    <3>1. CASE ~file[u].present
      BY <1>3, <2>3, <3>1
    <3>2. CASE file[u].present
      <4> DEFINE G == (file[u].groups \ {n}) \cup (IF u \in cmds[i].members THEN {n} ELSE {})
      <4>1. f[u] = [file[u] EXCEPT !.groups = G]
        BY <2>3, <3>2
      <4>2. G \subseteq Groups /\ \A g \in Groups :
              g \in G <=> IF g = n THEN u \in cmds[i].members ELSE g \in file[u].groups
        BY <1>3, <2>1
      <4> HIDE DEF G
      <4>3. /\ f[u] \in Entries /\ f[u].present = file[u].present /\ f[u].groups = G
            /\ f[u].password = file[u].password /\ f[u].locked = file[u].locked
        BY <1>3, <4>1, <4>2 DEF Entries
      <4> QED
        BY <4>2, <4>3
    <3> QED
      BY <1>3, <3>1, <3>2
  <2>5. f \in [Users -> Entries]
    BY <2>2, <2>4 DEF group_applied
  <2>6. \A u \in Users : u \in cmds[i].members => file[u].present
    BY <2>1 DEF In
  <2> QED
    BY <1>3, <1>4, <2>1, <2>4, <2>5, <2>6 DEF Secrets, Locks
<1>5. CASE k \in {"user_create", "user_password_rotate"}
  <2>1. n \in Users /\ n \notin Groups
    BY <1>2, <1>5 DEF Resources
  <2>2. f = user_secret_applied(file, i)
    BY <1>5 DEF After
  <2>3. /\ f \in [Users -> Entries] /\ \A u \in Users \ {n} : f[u] = file[u]
        /\ f[n] = IF file[n].present THEN [file[n] EXCEPT !.password = i] ELSE NewEntry(i)
    <3>1. NewEntry(i) \in Entries /\ [file[n] EXCEPT !.password = i] \in Entries
      BY <1>1, <1>3, <2>1 DEF NewEntry, Absent, Entries
    <3> QED
      BY <1>1, <2>1, <2>2, <3>1 DEF user_secret_applied
  <2>4. k = "user_create" => ~file[n].present
    BY <1>1, <2>1 DEF Acceptable, In
  <2>5. k = "user_password_rotate" => file[n].present
    BY <1>1, <2>1 DEF Acceptable, In
  <2>6. CASE k = "user_create"
    <3>1. f[n] = NewEntry(i)
      BY <2>3, <2>4, <2>6
    <3>2. f[n].present /\ f[n].password = i /\ ~f[n].locked /\ f[n].groups = {}
      BY <3>1 DEF NewEntry, Absent
    <3> QED
      BY <2>1, <2>3, <2>4, <2>6, <3>2 DEF Secrets, Locks
  <2>7. CASE k = "user_password_rotate"
    <3>1. f[n] = [file[n] EXCEPT !.password = i]
      BY <2>3, <2>5, <2>7
    <3>2. /\ f[n].present /\ f[n].password = i /\ f[n].locked = file[n].locked
          /\ f[n].groups = file[n].groups
      BY <1>3, <2>1, <2>5, <2>7, <3>1 DEF Entries
    <3> QED
      BY <2>1, <2>3, <2>5, <2>7, <3>2 DEF Secrets, Locks
  <2> QED
    BY <1>5, <2>6, <2>7
<1>6. CASE k \in {"user_disable", "user_enable"}
  <2>1. n \in Users /\ n \notin Groups
    BY <1>2, <1>6 DEF Resources
  <2>2. f = user_lock_state(file, i) /\ file[n].present
    BY <1>1, <1>6 DEF After, Acceptable, In
  <2>3. f = [file EXCEPT ![n] = [file[n] EXCEPT !.locked = (k = "user_disable")]]
    BY <2>2 DEF user_lock_state
  <2>4. [file[n] EXCEPT !.locked = (k = "user_disable")] \in Entries
    BY <1>3, <2>1 DEF Entries
  <2>5. /\ f \in [Users -> Entries] /\ \A u \in Users \ {n} : f[u] = file[u]
        /\ f[n] = [file[n] EXCEPT !.locked = (k = "user_disable")]
    BY <1>1, <2>1, <2>3, <2>4
  <2>6. /\ f[n].present /\ f[n].password = file[n].password
        /\ f[n].locked = (k = "user_disable") /\ f[n].groups = file[n].groups
    BY <1>3, <2>1, <2>2, <2>5 DEF Entries
  <2> QED
    BY <1>6, <2>1, <2>2, <2>5, <2>6 DEF Secrets, Locks
<1> QED
  BY <1>2, <1>4, <1>5, <1>6 DEF UserKinds

\* A change is published after every other published change of its sort, and is the
\* only one of its revision: the row of its kind would have refused it, and a change of
\* another kind waited for a success.
LEMMA PublishedLast ==
  ASSUME UserStateInv, NEW i \in Indices, cmds[i].run = "staged"
  PROVE  /\ cmds[i].receipt = "none" /\ cmds[i].journal = "none" /\ ~cmds[i].published
         /\ cmds[i].taken
         /\ \A j \in Indices : cmds[j].name = cmds[i].name /\ cmds[j].published =>
              j < i /\ cmds[j].revision # cmds[i].revision
<1>1. cmds[i] \in UserCommands /\ Sane(cmds[i]) /\ Indices \subseteq Nat
  BY CommandFacts, Lengths
<1>2. /\ cmds[i].receipt = "none" /\ cmds[i].journal = "none" /\ ~cmds[i].published
      /\ cmds[i].taken
  BY <1>1 DEF Sane
<1>3. ASSUME NEW j \in Indices, cmds[j].name = cmds[i].name, cmds[j].published, j # i,
             cmds[j].kind = cmds[i].kind
      PROVE  ~(cmds[j].revision >= cmds[i].revision)
  BY <1>3 DEF UserStateInv, StageInv, Outdated, CommandsOf, Indices
<1>4. ASSUME NEW j \in Indices, cmds[j].name = cmds[i].name, cmds[j].published
      PROVE  j < i /\ cmds[j].revision # cmds[i].revision
  <2>1. j # i /\ j \in Nat /\ i \in Nat /\ cmds[i].revision \in Nat /\ cmds[j].revision \in Nat
    BY <1>1, <1>2, <1>4, CommandFacts DEF UserCommands
  <2>2. ASSUME i < j
        PROVE  FALSE
    <3>1. /\ Ordered(cmds[i], cmds[j])
          /\ cmds[i].kind # cmds[j].kind => Settled(i, j)
      BY <1>4, <2>2 DEF UserStateInv, OrderInv
    <3>2. cmds[i].kind # cmds[j].kind
      BY <1>3, <1>4, <2>1, <3>1 DEF Ordered
    <3>3. PICK k \in Indices : /\ i <= k /\ cmds[k].name = cmds[i].name
                               /\ cmds[k].kind = cmds[i].kind /\ cmds[k].state = "succeeded"
      BY <3>1, <3>2 DEF Settled
    <3>4. cmds[k].published /\ cmds[k].journal = "ok" /\ k \in Nat /\ cmds[k].revision \in Nat
      BY <1>1, <3>3, CommandFacts DEF Sane, UserCommands
    <3>5. k # i /\ i < k
      BY <1>2, <2>1, <3>3, <3>4
    <3>6. cmds[i].revision <= cmds[k].revision
      BY <3>3, <3>5 DEF UserStateInv, OrderInv, Ordered
    <3> QED
      BY <1>3, <2>1, <3>3, <3>4, <3>5, <3>6
  <2>3. cmds[j].revision # cmds[i].revision
    <3>1. SUFFICES ASSUME cmds[j].revision = cmds[i].revision
                   PROVE  FALSE
      OBVIOUS
    <3>2. j < i
      BY <2>1, <2>2
    <3>3. cmds[j].kind = cmds[i].kind
      BY <1>4, <3>1, <3>2 DEF UserStateInv, OrderInv, Ordered
    <3> QED
      BY <1>3, <1>4, <2>1, <3>1, <3>3
  <2> QED
    BY <2>1, <2>2, <2>3
<1> QED
  BY <1>2, <1>4

\* The staged file takes the place of the file.
LEMMA commit_desired_stagingInv ==
  ASSUME UserStateInv, NEW i \in Indices, NEW stored \in BOOLEAN,
         commit_desired_staging(i, stored)
  PROVE  UserStateInv'
<1> DEFINE c == [cmds[i] EXCEPT !.run = "none", !.published = TRUE,
                                !.receipt = IF stored THEN "ok" ELSE "none"]
           r == cmds[i].name
<1>1. cmds[i] \in UserCommands /\ Sane(cmds[i]) /\ UserStateTypeOK /\ i \in Nat
      /\ Indices \subseteq Nat /\ Len(cmds) \in Nat /\ i # 0
  BY CommandFacts, Lengths
<1>2. /\ cmds[i].run = "staged" /\ file' = After(file, i) /\ Set(i, c)
      /\ privd' = [privd EXCEPT !.staging = @ - 1] /\ faults' \in {faults, faults + 1}
      /\ UNCHANGED <<desired, agent, applied, pending, observed>>
  BY DEF commit_desired_staging, publish_user_staging, read_user_file, Fault
<1>3. /\ cmds[i].receipt = "none" /\ cmds[i].journal = "none" /\ ~cmds[i].published
      /\ cmds[i].taken
      /\ \A j \in Indices : cmds[j].name = r /\ cmds[j].published =>
           j < i /\ cmds[j].revision # cmds[i].revision
  BY <1>2, PublishedLast
<1>4. c \in UserCommands /\ Sane(c)
  <2>1. c \in UserCommands
    BY <1>1 DEF UserCommands, Receipts
  <2>2. Sane(c)
    BY <1>1, <1>3 DEF UserCommands, Sane
  <2> QED
    BY <2>1, <2>2
<1>5. /\ c.name = r /\ c.kind = cmds[i].kind /\ c.members = cmds[i].members
      /\ c.revision = cmds[i].revision /\ c.journal = cmds[i].journal
      /\ c.state = cmds[i].state /\ c.taken = cmds[i].taken /\ c.run = "none" /\ c.published
  BY <1>1 DEF UserCommands
<1> HIDE DEF c
<1>6. /\ cmds' \in Seq(UserCommands) /\ Same /\ cmds'[i] = c
      /\ \A j \in Indices \ {i} : cmds'[j] = cmds[j]
  BY <1>1, <1>2, <1>4, <1>5, SetIs
<1>7. /\ file' \in [Users -> Entries]
      /\ \A u \in Users :
           /\ file'[u].present <=> file[u].present \/ u = r
           /\ file'[u].password = IF u = r /\ cmds[i].kind \in Secrets THEN i
                                  ELSE file[u].password
           /\ file'[u].locked <=> IF u = r /\ cmds[i].kind \in Locks
                                  THEN cmds[i].kind = "user_disable" ELSE file[u].locked
           /\ \A g \in Groups : file'[u].present /\ g \in file'[u].groups <=>
                IF g = r THEN u \in cmds[i].members
                ELSE file[u].present /\ g \in file[u].groups
  BY <1>2, AfterIs
<1>8. UserStateTypeOK'
  <2>1. privd.staging > 0 /\ privd \in [up : BOOLEAN, staging : Nat]
    BY <1>2, OtherFacts DEF UserStateInv, StageInv
  <2>2. privd' \in [up : BOOLEAN, staging : Nat]
    BY <1>2, <2>1
  <2>3. faults' \in Nat
    BY <1>2, OtherFacts
  <2> QED
    BY <1>1, <1>2, <1>6, <1>7, <2>2, <2>3 DEF UserStateTypeOK
<1>9. CommandInv'
  BY <1>4, <1>6, SameSets DEF UserStateInv, CommandInv
<1>10. OrderInv'
  <2>1. \A j \in Indices : cmds[j].state \notin Outstanding => cmds'[j].state = cmds[j].state
    BY <1>5, <1>6
  <2> QED
    BY <1>6, <2>1, OrderKept
<1>11. RevisionInv'
  <2>1. \A j \in Indices : cmds'[j].journal = "ok" <=> cmds[j].journal = "ok"
    BY <1>5, <1>6
  <2>2. \A j \in Indices : cmds'[j].taken => cmds[j].taken \/ Current(j)
    BY <1>5, <1>6
  <2> QED
    BY <1>2, <1>6, <2>1, <2>2, RevisionKept
<1>12. AgentInv'
  <2>1. \A j \in Indices : cmds[j].taken => cmds'[j].taken
    BY <1>5, <1>6
  <2> QED
    BY <1>2, <1>6, <2>1, AgentKept
<1>13. StageInv'
  <2>1. \A j \in Indices : cmds'[j].run # "staged"
    BY <1>2, <1>5, <1>6 DEF UserStateInv, StageInv
  <2> QED
    BY <1>6, <2>1, SameSets DEF StageInv
<1>14. HostInv'
  <2>1. ASSUME NEW x, NEW K
        PROVE  PublishedOf(x, K)' = PublishedOf(x, K)
                 \cup (IF x = r /\ cmds[i].kind \in K THEN {i} ELSE {})
    <3>1. Indices' = Indices /\ Of(x, K)' = Of(x, K) /\ Of(x, K) \subseteq Indices
      BY <1>6, SameSets, Positions
    <3>2. i \in Of(x, K) <=> x = r /\ cmds[i].kind \in K
      BY DEF Of, CommandsOf, Indices
    <3>3. \A j \in Of(x, K) : cmds'[j].published <=> j = i \/ cmds[j].published
      BY <1>5, <1>6, <3>1
    <3>4. PublishedOf(x, K)' = {j \in Of(x, K) : cmds'[j].published}
      BY <3>1 DEF PublishedOf
    <3> QED
      BY <3>2, <3>3, <3>4 DEF PublishedOf
  <2>2. ASSUME NEW x, NEW K, x = r, cmds[i].kind \in K
        PROVE  IsLast(i, PublishedOf(x, K)')
    <3>1. \A j \in PublishedOf(x, K) : j <= i
      BY <1>1, <1>3, <2>2 DEF PublishedOf, Of, CommandsOf, Indices
    <3> QED
      BY <1>1, <2>1, <2>2, <3>1 DEF IsLast
  <2>3. ASSUME NEW x, NEW K
        PROVE  PublishedOf(x, K)' \subseteq Nat
    <3>1. Of(x, K)' = Of(x, K) /\ Of(x, K) \subseteq Indices
      BY <1>6, SameSets, Positions
    <3> QED
      BY <1>1, <3>1 DEF PublishedOf
  <2>4. ASSUME NEW x, NEW K, NEW q, IsLast(q, PublishedOf(x, K)')
        PROVE  IF x = r /\ cmds[i].kind \in K THEN q = i ELSE IsLast(q, PublishedOf(x, K))
    <3>1. CASE x = r /\ cmds[i].kind \in K
      BY <2>2, <2>3, <2>4, <3>1, OneLast
    <3>2. CASE ~(x = r /\ cmds[i].kind \in K)
      BY <2>1, <2>4, <3>2
    <3> QED
      BY <3>1, <3>2
  <2>5. ASSUME NEW x, NEW K, NEW q, IsLast(q, PublishedOf(x, K)')
        PROVE  (Locked(q)' <=> Locked(q)) /\ Asked(q)' = Asked(q)
    <3>1. PublishedOf(x, K)' \subseteq 1..Len(cmds)
      BY <1>6, SameSets, Positions DEF PublishedOf, Indices
    <3>2. q \in 0..Len(cmds)
      BY <1>1, <2>5, <3>1, LastIn
    <3> QED
      BY <1>1, <1>6, <3>2, SameAsked DEF Same
  <2>6. \A u \in Users : IsLast(file'[u].password, PublishedOf(u, Secrets)')
    <3>1. SUFFICES ASSUME NEW u \in Users
                   PROVE  IsLast(file'[u].password, PublishedOf(u, Secrets)')
      OBVIOUS
    <3>2. CASE u = r /\ cmds[i].kind \in Secrets
      BY <1>7, <2>2, <3>2
    <3>3. CASE ~(u = r /\ cmds[i].kind \in Secrets)
      <4>1. PublishedOf(u, Secrets)' = PublishedOf(u, Secrets)
        BY <2>1, <3>3
      <4> QED
        BY <1>7, <3>3, <4>1 DEF UserStateInv, HostInv
    <3> QED
      BY <3>2, <3>3
  <2>7. \A u \in Users : \A q \in Nat : IsLast(q, PublishedOf(u, Locks)') =>
          (file'[u].locked <=> Locked(q)')
    <3>1. SUFFICES ASSUME NEW u \in Users, NEW q \in Nat, IsLast(q, PublishedOf(u, Locks)')
                   PROVE  file'[u].locked <=> Locked(q)
      BY <2>5
    <3>2. CASE u = r /\ cmds[i].kind \in Locks
      BY <1>1, <1>7, <2>4, <3>1, <3>2 DEF Locked
    <3>3. CASE ~(u = r /\ cmds[i].kind \in Locks)
      <4>1. IsLast(q, PublishedOf(u, Locks))
        BY <2>4, <3>1, <3>3
      <4> QED
        BY <1>7, <3>3, <4>1 DEF UserStateInv, HostInv
    <3> QED
      BY <3>2, <3>3
  <2>8. \A g \in Groups : \A q \in Nat : IsLast(q, PublishedOf(g, Groupings)') =>
          MembersIn(file', g) = Asked(q)'
    <3>1. SUFFICES ASSUME NEW g \in Groups, NEW q \in Nat,
                          IsLast(q, PublishedOf(g, Groupings)')
                   PROVE  MembersIn(file', g) = Asked(q)
      BY <2>5
    <3>2. CASE g = r
      <4>1. cmds[i].kind \in Groupings /\ cmds[i].members \subseteq Users
        BY <1>1, <3>2 DEF Sane, Groupings, UserCommands
      <4>2. q = i
        BY <2>4, <3>1, <3>2, <4>1
      <4>3. MembersIn(file', g) = cmds[i].members
        BY <1>7, <3>2, <4>1 DEF MembersIn, In
      <4> QED
        BY <1>1, <4>2, <4>3 DEF Asked
    <3>3. CASE g # r
      <4>1. IsLast(q, PublishedOf(g, Groupings))
        BY <2>4, <3>1, <3>3
      <4>2. MembersIn(file', g) = MembersIn(file, g)
        BY <1>7, <3>3 DEF MembersIn, In
      <4> QED
        BY <4>1, <4>2 DEF UserStateInv, HostInv
    <3> QED
      BY <3>2, <3>3
  <2>9. \A j \in Indices' : cmds'[j].published /\ cmds'[j].name \in Users =>
          cmds'[j].name \in In(file')
    <3>1. SUFFICES ASSUME NEW j \in Indices, cmds'[j].published, cmds'[j].name \in Users
                   PROVE  cmds'[j].name \in In(file')
      BY <1>6, SameSets
    <3>2. CASE j = i
      BY <1>5, <1>6, <1>7, <3>1, <3>2 DEF In
    <3>3. CASE j # i
      <4>1. cmds[j].name \in In(file) /\ cmds'[j].name = cmds[j].name
        BY <1>6, <3>1, <3>3 DEF UserStateInv, HostInv
      <4> QED
        BY <1>7, <4>1 DEF In
    <3> QED
      BY <3>2, <3>3
  <2> QED
    BY <2>6, <2>7, <2>8, <2>9 DEF HostInv, IsLast, MembersIn, In
<1>15. DesiredInv'
  BY <1>2, <1>6, DesiredKept
<1>16. SnapshotInv' /\ ReportInv' /\ TelemetryInv'
  <2>1. Recorded
    BY <1>5, <1>6 DEF Same, Indices, Recorded
  <2>2. \A x \in Resources : applied[x] <= applied'[x]
    BY <1>1, <1>2 DEF UserStateTypeOK
  <2>3. In(file) \subseteq In(file')
    BY <1>7 DEF In
  <2>4. agent'.read = agent.read /\ agent'.seen = agent.seen /\ applied' = applied
        /\ (agent'.stage # "snapshot" => agent.read = {})
    BY <1>2, OtherFacts
  <2> QED
    BY <1>2, <1>6, <1>8, <2>1, <2>2, <2>3, <2>4, TelemetryKept DEF Same
<1>17. OnceInv'
  <2>1. SUFFICES ASSUME NEW j \in Indices, NEW k \in Indices, cmds'[j].published,
                        cmds'[k].published, cmds[j].name = cmds[k].name,
                        cmds[j].revision = cmds[k].revision
                 PROVE  j = k
    BY <1>6, SameSets DEF OnceInv, Same, Statics
  <2>2. (j = i \/ cmds[j].published) /\ (k = i \/ cmds[k].published)
    BY <1>6, <2>1
  <2>3. CASE cmds[j].published /\ cmds[k].published
    BY <2>1, <2>3 DEF UserStateInv, OnceInv
  <2>4. CASE j = i \/ k = i
    BY <1>3, <2>1, <2>2, <2>4
  <2> QED
    BY <2>2, <2>3, <2>4
<1> QED
  BY <1>8, <1>9, <1>10, <1>11, <1>12, <1>13, <1>14, <1>15, <1>16, <1>17 DEF UserStateInv

\* privd dies: every request of it ends.
LEMMA PrivdCrashInv ==
  ASSUME UserStateInv, PrivdCrash
  PROVE  UserStateInv'
<1>1. /\ UserStateTypeOK /\ cmds \in Seq(UserCommands) /\ Len(cmds) \in Nat
      /\ \A i \in Indices : cmds[i] \in UserCommands /\ Sane(cmds[i])
  BY CommandFacts, Lengths DEF UserStateInv, UserStateTypeOK
<1>2. /\ cmds' = [i \in 1..Len(cmds) |-> [cmds[i] EXCEPT !.run = "none"]]
      /\ privd' = [privd EXCEPT !.up = FALSE] /\ faults' = faults + 1
      /\ UNCHANGED <<desired, file, agent, applied, pending, observed>>
  BY DEF PrivdCrash, Fault
<1>3. \A i \in Indices : [cmds[i] EXCEPT !.run = "none"] \in UserCommands
  BY <1>1 DEF UserCommands
<1>4. cmds' \in Seq(UserCommands) /\ Len(cmds') = Len(cmds)
  BY <1>1, <1>2, <1>3 DEF Indices
<1>5. \A i \in Indices :
        /\ cmds'[i] = [cmds[i] EXCEPT !.run = "none"] /\ cmds'[i].run = "none"
        /\ cmds'[i].name = cmds[i].name /\ cmds'[i].kind = cmds[i].kind
        /\ cmds'[i].members = cmds[i].members /\ cmds'[i].revision = cmds[i].revision
        /\ cmds'[i].state = cmds[i].state /\ cmds'[i].taken = cmds[i].taken
        /\ cmds'[i].journal = cmds[i].journal /\ cmds'[i].published = cmds[i].published
        /\ Sane(cmds'[i])
  BY <1>1, <1>2 DEF Indices, UserCommands, Sane
<1>6. Same
  <2>1. \A i \in Indices : /\ cmds'[i].name = cmds[i].name /\ cmds'[i].kind = cmds[i].kind
                           /\ cmds'[i].members = cmds[i].members
                           /\ cmds'[i].revision = cmds[i].revision
    BY <1>5
  <2>2. Len(cmds') >= Len(cmds)
    BY <1>1, <1>4
  <2> QED
    BY <1>4, <2>1, <2>2 DEF Same, Statics
<1>7. UserStateTypeOK'
  <2>1. privd' \in [up : BOOLEAN, staging : Nat]
    <3>1. privd \in [up : BOOLEAN, staging : Nat]
      BY OtherFacts
    <3> QED
      BY <1>2, <3>1
  <2>2. faults' \in Nat
    <3>1. faults \in Nat
      BY OtherFacts
    <3> QED
      BY <1>2, <3>1
  <2> QED
    BY <1>1, <1>2, <1>4, <2>1, <2>2 DEF UserStateTypeOK
<1>8. CommandInv'
  BY <1>5, <1>6, SameSets DEF CommandInv
<1>9. OrderInv'
  BY <1>5, <1>6, OrderKept
<1>10. RevisionInv'
  BY <1>2, <1>5, <1>6, RevisionKept
<1>11. AgentInv'
  BY <1>2, <1>5, <1>6, AgentKept
<1>12. StageInv'
  BY <1>5, <1>6, SameSets DEF StageInv
<1>13. HostInv' /\ OnceInv'
  <2>1. \A i \in Indices : cmds'[i].published <=> cmds[i].published
    BY <1>5
  <2> QED
    BY <1>2, <1>6, <2>1, HostKept
<1>14. DesiredInv'
  BY <1>2, <1>6, DesiredKept
<1>15. SnapshotInv' /\ ReportInv' /\ TelemetryInv'
  <2>1. Recorded
    BY <1>4, <1>5 DEF Indices, Recorded
  <2>2. \A x \in Resources : applied[x] <= applied'[x]
    BY <1>1, <1>2 DEF UserStateTypeOK
  <2>3. In(file) \subseteq In(file')
    BY <1>2 DEF In
  <2>4. agent'.read = agent.read /\ agent'.seen = agent.seen /\ applied' = applied
        /\ (agent'.stage # "snapshot" => agent.read = {})
    BY <1>2, OtherFacts
  <2> QED
    BY <1>2, <1>6, <1>7, <2>1, <2>2, <2>3, <2>4, TelemetryKept DEF Same
<1> QED
  BY <1>7, <1>8, <1>9, <1>10, <1>11, <1>12, <1>13, <1>14, <1>15 DEF UserStateInv

-----------------------------------------------------------------------------
-----------------------------------------------------------------------------
(* Telemetry                                                               *)

\* A step that leaves commands, rows, file and journal alone.
LEMMA QuietStep ==
  ASSUME UserStateInv, UNCHANGED <<desired, cmds, file, applied>>, faults' \in Nat,
         privd' \in [up : BOOLEAN, staging : Nat], agent' \in AgentStates,
         pending' \in Seq(Batches), observed' \in Reports,
         privd' = privd \/ \A i \in Indices : cmds[i].run # "staged",
         agent'.stage # "command" \/ agent' = agent,
         SnapshotInv', ReportInv', TelemetryInv'
  PROVE  UserStateInv'
<1>1. UserStateTypeOK'
  BY DEF UserStateInv, UserStateTypeOK, AgentStates
<1>2. Same /\ UserStateTypeOK
  BY Lengths DEF Same, Statics, UserStateInv
<1>3. CommandInv' /\ OrderInv'
  BY <1>2, OrderKept DEF UserStateInv, CommandInv, Indices
<1>4. RevisionInv'
  BY <1>2, RevisionKept
<1>5. AgentInv'
  BY DEF UserStateInv, AgentInv, Current, Indices
<1>6. StageInv'
  BY <1>2, StageKept, SameSets DEF StageInv
<1>7. HostInv' /\ OnceInv'
  BY <1>2, HostKept
<1>8. DesiredInv'
  BY <1>2, DesiredKept
<1> QED
  BY <1>1, <1>3, <1>4, <1>5, <1>6, <1>7, <1>8 DEF UserStateInv

\* A step of the Agent or of privd that reads, reports and ingests nothing.
LEMMA PauseStep ==
  ASSUME UserStateInv, UNCHANGED <<desired, cmds, file, applied, pending, observed>>,
         faults' \in Nat, privd' \in [up : BOOLEAN, staging : Nat], agent' \in AgentStates,
         privd' = privd \/ \A i \in Indices : cmds[i].run # "staged",
         agent'.stage # "command" \/ agent' = agent,
         \/ agent'.read = agent.read /\ agent'.seen = agent.seen
            /\ (agent'.stage # "snapshot" => agent.read = {})
         \/ agent'.read = {} /\ \A r \in Resources : agent'.seen[r] = NoReading
  PROVE  UserStateInv'
<1>1. UserStateTypeOK /\ Len(cmds) \in Nat
  BY Lengths DEF UserStateInv
<1>2. UserStateTypeOK' /\ pending' \in Seq(Batches) /\ observed' \in Reports
  BY <1>1 DEF UserStateTypeOK, AgentStates
<1>3. SnapshotInv' /\ ReportInv' /\ TelemetryInv'
  <2>1. Recorded
    BY DEF Recorded, Indices
  <2>2. \A x \in Resources : applied[x] <= applied'[x]
    BY <1>1 DEF UserStateTypeOK
  <2>3. In(file) \subseteq In(file') /\ Statics
    BY <1>1 DEF In, Statics
  <2> QED
    BY <1>2, <2>1, <2>2, <2>3, TelemetryKept
<1> QED
  BY <1>2, <1>3, QuietStep

\* privd starts again, with nothing staged.
LEMMA cleanup_stale_user_stagingInv ==
  ASSUME UserStateInv, cleanup_stale_user_staging
  PROVE  UserStateInv'
<1>1. /\ privd' = [up |-> TRUE, staging |-> 0] /\ ~privd.up /\ faults' \in Nat
      /\ UNCHANGED <<desired, cmds, file, agent, applied, pending, observed>>
  BY OtherFacts DEF cleanup_stale_user_staging
<1>2. \A i \in Indices : cmds[i].run # "staged"
  BY <1>1 DEF UserStateInv, StageInv
<1>3. privd' \in [up : BOOLEAN, staging : Nat]
  BY <1>1
<1>4. agent' \in AgentStates /\ agent'.read = agent.read /\ agent'.seen = agent.seen
      /\ (agent'.stage # "snapshot" => agent.read = {})
  BY <1>1, OtherFacts
<1> QED
  BY <1>1, <1>2, <1>3, <1>4, PauseStep

\* A snapshot begins.
LEMMA HeartbeatInv ==
  ASSUME UserStateInv, Heartbeat
  PROVE  UserStateInv'
<1>1. /\ agent' = [agent EXCEPT !.stage = "snapshot"] /\ faults' \in Nat
      /\ UNCHANGED <<desired, cmds, file, privd, applied, pending, observed>>
  BY OtherFacts DEF Heartbeat
<1>2. /\ agent' \in AgentStates /\ agent'.read = agent.read /\ agent'.seen = agent.seen
      /\ agent'.stage = "snapshot"
  BY <1>1, OtherFacts DEF AgentStates
<1>3. privd' \in [up : BOOLEAN, staging : Nat]
  BY <1>1, OtherFacts
<1> QED
  BY <1>1, <1>2, <1>3, PauseStep

\* A snapshot is given up.
LEMMA SnapshotIncompleteInv ==
  ASSUME UserStateInv, NEW failed \in BOOLEAN, SnapshotIncomplete(failed)
  PROVE  UserStateInv'
<1>1. /\ agent' = Idle /\ faults' \in Nat
      /\ UNCHANGED <<desired, cmds, file, privd, applied, pending, observed>>
  BY OtherFacts DEF SnapshotIncomplete, Fault
<1>2. /\ agent' \in AgentStates /\ agent'.read = {} /\ agent'.stage = "idle"
      /\ \A r \in Resources : agent'.seen[r] = NoReading
  BY <1>1, IdleIs
<1>3. privd' \in [up : BOOLEAN, staging : Nat]
  BY <1>1, OtherFacts
<1> QED
  BY <1>1, <1>2, <1>3, PauseStep

\* The file shows every change that is applied.
LEMMA FileShows ==
  ASSUME UserStateInv, NEW r \in Resources, NEW a,
         r \in Groups => a.members = MembersIn(file, r),
         r \notin Groups => a.password = file[r].password /\ (a.enabled <=> ~file[r].locked)
  PROVE  Shows(a, r, applied[r])
<1>1. UserStateTypeOK /\ Len(cmds) \in Nat /\ Indices \subseteq Nat
  BY Lengths DEF UserStateInv
<1>2. ASSUME NEW K, NEW q, IsLast(q, PublishedOf(r, K))
      PROVE  Covers(q, Of(r, K), applied[r]) /\ q \in 0..Len(cmds)
  <2>1. q = 0 \/ (q \in Of(r, K) /\ cmds[q].published)
    BY <1>2 DEF IsLast, PublishedOf
  <2>2. ASSUME NEW j \in Of(r, K), cmds[j].journal = "ok"
        PROVE  j <= q
    <3>1. j \in Indices
      BY DEF Of, CommandsOf, Indices
    <3>2. j \in PublishedOf(r, K)
      BY <2>2, <3>1, CommandFacts DEF Sane, PublishedOf
    <3> QED
      BY <1>2, <3>2 DEF IsLast
  <2>3. q \in 0..Len(cmds)
    BY <1>1, <1>2, LastIn, Positions DEF Indices
  <2> QED
    BY <2>1, <2>2, <2>3 DEF Covers
<1>3. ASSUME NEW K
      PROVE  \E q \in Nat : IsLast(q, PublishedOf(r, K))
  BY <1>1, SomeLast, Positions DEF Indices
<1>4. CASE r \in Groups
  <2>1. PICK q \in Nat : IsLast(q, PublishedOf(r, Groupings))
    BY <1>3
  <2>2. a.members = Asked(q)
    BY <1>4, <2>1 DEF UserStateInv, HostInv
  <2> QED
    BY <1>2, <1>4, <2>1, <2>2 DEF Shows
<1>5. CASE r \notin Groups
  <2>0. r \in Users
    BY <1>5 DEF Resources
  <2>1. PICK q \in Nat : IsLast(q, PublishedOf(r, Locks))
    BY <1>3
  <2>2. a.enabled <=> ~Locked(q)
    BY <1>5, <2>0, <2>1 DEF UserStateInv, HostInv
  <2>3. IsLast(a.password, PublishedOf(r, Secrets))
    BY <1>5, <2>0 DEF UserStateInv, HostInv
  <2> QED
    BY <1>2, <1>5, <2>1, <2>2, <2>3 DEF Shows
<1> QED
  BY <1>4, <1>5

\* What a reading shows depends on what it says.
LEMMA ShowsSame ==
  ASSUME NEW a, NEW b, NEW r, NEW v, Shows(a, r, v),
         b.members = a.members, b.password = a.password, b.enabled = a.enabled
  PROVE  Shows(b, r, v)
  BY DEF Shows

\* A reading shows the changes up to an earlier revision too.
LEMMA ShowsLess ==
  ASSUME UserStateTypeOK, NEW a, NEW r, NEW v \in Nat, NEW w \in Nat, w <= v, Shows(a, r, v)
  PROVE  Shows(a, r, w)
<1>1. ASSUME NEW K, NEW q, Covers(q, Of(r, K), v)
      PROVE  Covers(q, Of(r, K), w)
  <2>1. \A j \in Of(r, K) : cmds[j].revision \in Nat
    BY Lengths DEF Of, CommandsOf, Indices, UserCommands
  <2> QED
    BY <1>1, <2>1 DEF Covers
<1> QED
  BY <1>1 DEF Shows

\* What a step of the telemetry leaves of what a reading shows.
LEMMA QuietShows ==
  ASSUME UNCHANGED cmds, NEW a, NEW r, NEW v
  PROVE  Shows(a, r, v)' <=> Shows(a, r, v)
  BY DEF Shows, Covers, Of, CommandsOf, Asked, Locked

\* The Agent reads one of the lists.
LEMMA execute_readInv ==
  ASSUME UserStateInv, NEW list \in {"users", "groups"}, execute_read(list)
  PROVE  UserStateInv'
<1> DEFINE found == IF list = "users" THEN parse_user_file(file)
                    ELSE parse_groups_from_user_file(file)
           S == [r \in Resources |-> IF r \in DOMAIN found THEN found[r] ELSE agent.seen[r]]
<1>1. UserStateTypeOK /\ agent \in AgentStates
  BY OtherFacts DEF UserStateInv
<1>2. /\ agent' = [agent EXCEPT !.read = @ \cup {list}, !.seen = S]
      /\ agent.stage = "snapshot" /\ list \notin agent.read /\ faults' \in Nat
      /\ UNCHANGED <<desired, cmds, file, privd, applied, pending, observed>>
  BY OtherFacts DEF execute_read, read_user_file
<1>3. /\ \A u \in Users : file[u] \in Entries
      /\ \A r \in Resources : agent.seen[r] \in Readings
      /\ Users \cap Groups = {} /\ Users \subseteq Resources /\ Groups \subseteq Resources
  BY <1>1, UserStateAssumption DEF UserStateTypeOK, AgentStates, Reports, Resources
<1>4. CASE list = "users"
  <2>1. DOMAIN found = In(file) /\ \A u \in In(file) :
          found[u] = [NoReading EXCEPT !.known = TRUE, !.enabled = ~file[u].locked,
                                       !.password = file[u].password]
    BY <1>4 DEF parse_user_file
  <2>2. \A u \in In(file) :
          /\ found[u] \in Readings /\ found[u].known /\ found[u].password = file[u].password
          /\ (found[u].enabled <=> ~file[u].locked)
    <3>1. SUFFICES ASSUME NEW u \in In(file)
                   PROVE  /\ found[u] \in Readings /\ found[u].known
                          /\ found[u].password = file[u].password
                          /\ (found[u].enabled <=> ~file[u].locked)
      OBVIOUS
    <3>2. file[u] \in Entries
      BY <1>3 DEF In
    <3>3. file[u].locked \in BOOLEAN /\ file[u].password \in Nat
      BY <3>2 DEF Entries
    <3>4. found[u] = [NoReading EXCEPT !.known = TRUE, !.enabled = ~file[u].locked,
                                       !.password = file[u].password]
      BY <2>1
    <3> HIDE DEF found
    <3>5. NoReading \in Readings
      BY IdleTyped
    <3> QED
      BY <3>3, <3>4, <3>5 DEF Readings
  <2> HIDE DEF found
  <2>3. /\ \A r \in Resources : S[r] \in Readings
        /\ \A g \in Groups : S[g] = agent.seen[g]
        /\ \A u \in Users : S[u] = IF u \in In(file) THEN found[u] ELSE agent.seen[u]
    BY <1>3, <2>1, <2>2 DEF In
  <2>4. S \in Reports
    BY <2>3 DEF Reports
  <2> HIDE DEF S
  <2>5. /\ agent' \in AgentStates /\ agent'.read = agent.read \cup {"users"}
        /\ agent'.seen = S /\ agent'.stage = "snapshot"
    BY <1>1, <1>2, <1>4, <2>4 DEF AgentStates
  <2>6. \A u \in Users : ~agent.seen[u].known
    BY <1>2, <1>4 DEF UserStateInv, SnapshotInv, NoReading
  <2>7. ASSUME NEW u \in Users, S[u].known
        PROVE  u \in In(file) /\ Shows(S[u], u, applied[u])
    <3>1. u \in In(file) /\ S[u] = found[u]
      BY <2>3, <2>6, <2>7
    <3>2. u \in Resources /\ u \notin Groups
      BY <1>3
    <3> QED
      BY <2>2, <3>1, <3>2, FileShows
  <2>8. SnapshotInv'
    <3>1. "groups" \notin agent'.read => \A g \in Groups : agent'.seen[g] = NoReading
      BY <2>3, <2>5 DEF UserStateInv, SnapshotInv
    <3>2. ASSUME NEW g \in Groups, "groups" \in agent'.read
          PROVE  Shows(agent.seen[g], g, applied[g])'
      <4>1. Shows(agent.seen[g], g, applied[g]) /\ agent'.seen[g] = agent.seen[g]
        BY <2>3, <2>5, <3>2 DEF UserStateInv, SnapshotInv
      <4>2. PICK a : a = agent.seen[g]
        OBVIOUS
      <4>3. PICK v : v = applied[g]
        OBVIOUS
      <4>4. Shows(a, g, v)'
        BY <1>2, <4>1, <4>2, <4>3, QuietShows
      <4> QED
        BY <1>2, <4>1, <4>2, <4>3, <4>4
    <3>3. ASSUME NEW u \in Users, agent'.seen[u].known
          PROVE  u \in In(file)' /\ Shows(agent.seen[u], u, applied[u])'
      <4>1. u \in In(file) /\ Shows(S[u], u, applied[u])
        BY <2>5, <2>7, <3>3
      <4>2. PICK a : a = S[u]
        OBVIOUS
      <4>3. PICK v : v = applied[u]
        OBVIOUS
      <4>4. Shows(a, u, v)'
        BY <1>2, <4>1, <4>2, <4>3, QuietShows
      <4>5. a = agent'.seen[u] /\ v = applied'[u]
        BY <1>2, <2>5, <4>2, <4>3
      <4> QED
        BY <1>2, <4>1, <4>4, <4>5 DEF In
    <3> QED
      BY <2>5, <3>1, <3>2, <3>3 DEF SnapshotInv
  <2>9. ReportInv' /\ TelemetryInv'
    <3>1. \A u \in Users : u \in In(file) => S[u].known
      BY <2>2, <2>3
    <3>2. \A u \in Users : observed[u].known => u \in In(file)
      BY <1>3 DEF UserStateInv, ReportInv, True
    <3>3. \A u \in Users : \A k \in 1..Len(pending) :
            pending[k].report[u].known => u \in In(file)
      BY <1>3 DEF UserStateInv, ReportInv, True
    <3>4. TelemetryInv'
      BY <1>2, <2>5, <3>1, <3>2, <3>3 DEF UserStateInv, TelemetryInv, Newer
    <3>5. ReportInv'
      BY <1>2 DEF UserStateInv, ReportInv, True, In, Shows, Covers, Of, CommandsOf, Asked, Locked
    <3> QED
      BY <3>4, <3>5
  <2>10. privd' \in [up : BOOLEAN, staging : Nat] /\ pending' \in Seq(Batches)
         /\ observed' \in Reports
    BY <1>1, <1>2 DEF UserStateTypeOK
  <2> QED
    BY <1>2, <2>5, <2>8, <2>9, <2>10, QuietStep
<1>5. CASE list = "groups"
  <2>0. list # "users"
    BY <1>5
  <2>1. /\ DOMAIN found = UNION {file[u].groups : u \in In(file)}
        /\ \A g \in DOMAIN found : found[g] = [NoReading EXCEPT !.known = TRUE,
                                     !.members = {u \in In(file) : g \in file[u].groups}]
    BY <2>0 DEF parse_groups_from_user_file
  <2> HIDE DEF found
  <2>2. DOMAIN found \subseteq Groups
    BY <1>3, <2>1 DEF Entries, In
  <2>3. \A g \in Groups : g \notin DOMAIN found => MembersIn(file, g) = {}
    BY <2>1 DEF MembersIn
  <2>4. \A g \in DOMAIN found : found[g] \in Readings /\ found[g].members = MembersIn(file, g)
    <3>1. SUFFICES ASSUME NEW g \in DOMAIN found
                   PROVE  found[g] \in Readings /\ found[g].members = MembersIn(file, g)
      OBVIOUS
    <3>2. found[g] = [NoReading EXCEPT !.known = TRUE, !.members = MembersIn(file, g)]
      BY <2>1 DEF MembersIn
    <3>3. MembersIn(file, g) \subseteq Users
      BY DEF MembersIn, In
    <3>4. NoReading \in Readings
      BY IdleTyped
    <3> QED
      BY <3>2, <3>3, <3>4 DEF Readings
  <2>5. \A g \in Groups : agent.seen[g] = NoReading
    BY <1>2, <1>5 DEF UserStateInv, SnapshotInv
  <2>6. /\ \A r \in Resources : S[r] \in Readings
        /\ \A u \in Users : S[u] = agent.seen[u]
        /\ \A g \in Groups : S[g].members = MembersIn(file, g)
    <3>1. NoReading.members = {}
      BY DEF NoReading
    <3>2. \A r \in Resources : S[r] = IF r \in DOMAIN found THEN found[r] ELSE agent.seen[r]
      OBVIOUS
    <3> HIDE DEF S
    <3>3. \A u \in Users : u \notin DOMAIN found
      BY <1>3, <2>2
    <3> QED
      BY <1>3, <2>3, <2>4, <2>5, <3>1, <3>2, <3>3
  <2>7. S \in Reports
    BY <2>6 DEF Reports
  <2> HIDE DEF S
  <2>8. /\ agent' \in AgentStates /\ agent'.read = agent.read \cup {"groups"}
        /\ agent'.seen = S /\ agent'.stage = "snapshot"
    BY <1>1, <1>2, <1>5, <2>7 DEF AgentStates
  <2>9. SnapshotInv'
    <3>1. "users" \notin agent'.read => \A u \in Users : agent'.seen[u] = NoReading
      BY <2>6, <2>8 DEF UserStateInv, SnapshotInv
    <3>2. ASSUME NEW g \in Groups
          PROVE  Shows(agent.seen[g], g, applied[g])'
      <4>1. Shows(S[g], g, applied[g])
        BY <1>3, <2>6, FileShows
      <4>2. PICK a : a = S[g]
        OBVIOUS
      <4>3. PICK v : v = applied[g]
        OBVIOUS
      <4>4. Shows(a, g, v)'
        BY <1>2, <4>1, <4>2, <4>3, QuietShows
      <4>5. a = agent'.seen[g] /\ v = applied'[g]
        BY <1>2, <2>8, <4>2, <4>3
      <4> QED
        BY <4>4, <4>5
    <3>3. ASSUME NEW u \in Users, "users" \in agent'.read, agent'.seen[u].known
          PROVE  u \in In(file)' /\ Shows(agent.seen[u], u, applied[u])'
      <4>1. u \in In(file) /\ Shows(agent.seen[u], u, applied[u]) /\ agent'.seen[u] = agent.seen[u]
        BY <2>6, <2>8, <3>3 DEF UserStateInv, SnapshotInv
      <4>2. PICK a : a = agent.seen[u]
        OBVIOUS
      <4>3. PICK v : v = applied[u]
        OBVIOUS
      <4>4. Shows(a, u, v)'
        BY <1>2, <4>1, <4>2, <4>3, QuietShows
      <4>5. a = agent'.seen[u] /\ v = applied'[u]
        BY <1>2, <4>1, <4>2, <4>3
      <4> QED
        BY <1>2, <4>1, <4>4, <4>5 DEF In
    <3> QED
      BY <2>8, <3>1, <3>2, <3>3 DEF SnapshotInv
  <2>10. ReportInv' /\ TelemetryInv'
    <3>1. TelemetryInv'
      BY <1>2, <2>6, <2>8 DEF UserStateInv, TelemetryInv, Newer
    <3>2. ReportInv'
      BY <1>2 DEF UserStateInv, ReportInv, True, In, Shows, Covers, Of, CommandsOf, Asked, Locked
    <3> QED
      BY <3>1, <3>2
  <2>11. privd' \in [up : BOOLEAN, staging : Nat] /\ pending' \in Seq(Batches)
         /\ observed' \in Reports
    BY <1>1, <1>2 DEF UserStateTypeOK
  <2> QED
    BY <1>2, <2>8, <2>9, <2>10, <2>11, QuietStep
<1> QED
  BY <1>4, <1>5

\* What a step of the telemetry leaves of the truth of a reading.
LEMMA QuietTrue ==
  ASSUME UNCHANGED <<cmds, file, applied>>, NEW a, NEW r, True(a, r)
  PROVE  True(a, r)'
<1>1. PICK v : v = a.revision
  OBVIOUS
<1>2. Shows(a, r, v)' <=> Shows(a, r, v)
  BY QuietShows
<1> QED
  BY <1>1, <1>2 DEF True, In

\* The batches and the observation are reports.
LEMMA ReportFacts ==
  ASSUME UserStateInv
  PROVE  /\ pending \in Seq(Batches) /\ Len(pending) \in Nat /\ observed \in Reports
         /\ \A k \in 1..Len(pending) : pending[k] \in Batches /\ pending[k].report \in Reports
         /\ \A r \in Resources : applied[r] \in Nat
         /\ privd \in [up : BOOLEAN, staging : Nat]
<1>1. pending \in Seq(Batches)
  BY DEF UserStateInv, UserStateTypeOK
<1>2. \A k \in 1..Len(pending) : pending[k] \in Batches
  BY <1>1
<1>3. \A k \in 1..Len(pending) : pending[k].report \in Reports
  BY <1>2 DEF Batches
<1> QED
  BY <1>1, <1>2, <1>3 DEF UserStateInv, UserStateTypeOK

\* Where the batches of p were: f[k] is the place k's had, 0 that of the new one.
\* What was moved behind the new one is overtaken, unless that is stale.
Fits(p, new, f) ==
  /\ \A k \in 1..Len(p) : f[k] = 0 => p[k] = new
  /\ \A k \in 1..Len(p) : f[k] # 0 =>
       /\ p[k].report = pending[f[k]].report /\ p[k].unread = pending[f[k]].unread
       /\ Fresh(p[k]) => Fresh(pending[f[k]])
  /\ \A j, k \in 1..Len(p) : j < k =>
       /\ f[j] # 0 /\ f[k] # 0 => f[j] < f[k]
       /\ f[j] = 0 => f[k] # 0 /\ (new.stale \/ ~Fresh(p[k]))

\* A batch takes its place.
LEMMA enqueue_telemetryIs ==
  ASSUME UserStateInv, NEW new \in Batches, NEW place \in 0..Len(pending),
         NEW p, p = enqueue_telemetry(new, place)
  PROVE  /\ p \in Seq(Batches)
         /\ \E f \in [1..Len(p) -> 0..Len(pending)] : Fits(p, new, f)
<1>1. PICK n : n = Len(pending)
  OBVIOUS
<1>2. /\ pending \in Seq(Batches) /\ n \in Nat /\ MaxPending \in Nat \ {0} /\ place \in 0..n
      /\ \A k \in 1..n : pending[k] \in Batches
  BY <1>1, ReportFacts, UserStateAssumption
<1>3. PICK full : full = Placed(new, place)
  OBVIOUS
<1>4. PICK e : e = [j \in 1..(n + 1) |->
                      IF j <= place THEN j ELSE IF j = place + 1 THEN 0 ELSE j - 1]
  OBVIOUS
<1>5. full = [j \in 1..(n + 1) |->
                IF j <= place THEN pending[j] ELSE IF j = place + 1 THEN new
                ELSE [pending[j - 1] EXCEPT !.overtaken = @ \/ ~new.stale]]
  BY <1>1, <1>3 DEF Placed
<1>6. ASSUME NEW j \in 1..(n + 1)
      PROVE  \/ j <= place /\ full[j] = pending[j] /\ e[j] = j /\ j \in 1..n
             \/ j = place + 1 /\ full[j] = new /\ e[j] = 0
             \/ /\ j > place + 1 /\ full[j] = [pending[j - 1] EXCEPT !.overtaken = @ \/ ~new.stale]
                /\ e[j] = j - 1 /\ j - 1 \in 1..n
  BY <1>2, <1>4, <1>5
<1>7. ASSUME NEW j \in 1..(n + 1)
      PROVE  \/ j <= place /\ full[j] = pending[j] /\ e[j] = j /\ j \in 1..n
             \/ j = place + 1 /\ full[j] = new /\ e[j] = 0
             \/ /\ j > place + 1 /\ e[j] = j - 1 /\ j - 1 \in 1..n /\ full[j] \in Batches
                /\ full[j].report = pending[j - 1].report
                /\ full[j].unread = pending[j - 1].unread
                /\ Fresh(full[j]) => new.stale /\ Fresh(pending[j - 1])
  <2>1. CASE /\ j > place + 1 /\ full[j] = [pending[j - 1] EXCEPT !.overtaken = @ \/ ~new.stale]
             /\ e[j] = j - 1 /\ j - 1 \in 1..n
    <3>1. pending[j - 1] \in Batches
      BY <1>2, <2>1
    <3>2. PICK c \in Batches : c = pending[j - 1]
      BY <3>1
    <3>3. PICK d : d = [c EXCEPT !.overtaken = @ \/ ~new.stale]
      OBVIOUS
    <3>4. /\ d \in Batches /\ d.report = c.report /\ d.unread = c.unread /\ d.stale = c.stale
          /\ d.overtaken <=> (c.overtaken \/ ~new.stale)
      BY <3>3 DEF Batches
    <3>5. full[j] = d
      BY <2>1, <3>2, <3>3
    <3>6. Fresh(d) => new.stale /\ Fresh(c)
      BY <3>4 DEF Fresh
    <3> QED
      BY <2>1, <3>2, <3>4, <3>5, <3>6
  <2> QED
    BY <1>6, <2>1
<1>8. full \in Seq(Batches) /\ Len(full) = n + 1
  <2>1. \A j \in 1..(n + 1) : full[j] \in Batches
    BY <1>2, <1>7
  <2>2. full = [j \in 1..(n + 1) |-> full[j]]
    BY <1>5
  <2> QED
    BY <1>2, <2>1, <2>2
<1>9. e \in [1..(n + 1) -> 0..n]
  BY <1>2, <1>4
<1>10. \A k \in 1..(n + 1) : e[k] = 0 => full[k] = new /\ k = place + 1
  BY <1>2, <1>7
<1>11. \A k \in 1..(n + 1) : e[k] # 0 =>
         /\ full[k].report = pending[e[k]].report /\ full[k].unread = pending[e[k]].unread
         /\ Fresh(full[k]) => Fresh(pending[e[k]])
  BY <1>2, <1>7
<1>12. \A j, k \in 1..(n + 1) : j < k =>
         /\ e[j] # 0 /\ e[k] # 0 => e[j] < e[k]
         /\ e[j] = 0 => e[k] # 0 /\ (new.stale \/ ~Fresh(full[k]))
  BY <1>2, <1>7
<1>13. CASE n < MaxPending
  <2>1. p = full /\ Len(p) = n + 1
    BY <1>1, <1>3, <1>8, <1>13 DEF enqueue_telemetry
  <2>2. Fits(p, new, e)
    BY <1>10, <1>11, <1>12, <2>1 DEF Fits
  <2> QED
    BY <1>1, <1>8, <1>9, <2>1, <2>2
<1>14. CASE ~(n < MaxPending)
  <2>1. p = Tail(full)
    BY <1>1, <1>3, <1>14 DEF enqueue_telemetry
  <2>2. /\ p \in Seq(Batches) /\ Len(p) = n
        /\ \A k \in 1..n : p[k] = full[k + 1] /\ k + 1 \in 1..(n + 1)
    BY <1>2, <1>8, <2>1
  <2>3. PICK f : f = [k \in 1..n |-> e[k + 1]]
    OBVIOUS
  <2>4. f \in [1..Len(p) -> 0..Len(pending)] /\ \A k \in 1..n : f[k] = e[k + 1]
    BY <1>1, <1>9, <2>2, <2>3
  <2>5. \A j, k \in 1..n : j < k => j + 1 < k + 1
    BY <1>2
  <2>6. \A k \in 1..n : f[k] = 0 => p[k] = new
    BY <1>10, <2>2, <2>4
  <2>7. \A k \in 1..n : f[k] # 0 =>
          /\ p[k].report = pending[f[k]].report /\ p[k].unread = pending[f[k]].unread
          /\ Fresh(p[k]) => Fresh(pending[f[k]])
    BY <1>11, <2>2, <2>4
  <2>8. ASSUME NEW j \in 1..n, NEW k \in 1..n, j < k
        PROVE  /\ f[j] # 0 /\ f[k] # 0 => f[j] < f[k]
               /\ f[j] = 0 => f[k] # 0 /\ (new.stale \/ ~Fresh(p[k]))
    <3>1. PICK x, y : x = j + 1 /\ y = k + 1
      OBVIOUS
    <3>2. /\ x \in 1..(n + 1) /\ y \in 1..(n + 1) /\ x < y /\ p[k] = full[y]
          /\ f[j] = e[x] /\ f[k] = e[y]
      BY <2>2, <2>4, <2>5, <2>8, <3>1
    <3> QED
      BY <1>12, <3>2
  <2>9. Fits(p, new, f)
    BY <2>2, <2>6, <2>7, <2>8 DEF Fits
  <2> QED
    BY <2>2, <2>4, <2>9
<1> QED
  BY <1>13, <1>14

\* What the Agent reports of a complete snapshot: every reading is true, and newer than
\* all that is known where the journal could be read.
LEMMA build_telemetryIs ==
  ASSUME UserStateInv, agent.read = {"users", "groups"},
         NEW unread \in SUBSET applied_revisions, NEW b, b = build_telemetry(agent.seen, unread)
  PROVE  /\ b \in Reports /\ \A r \in Resources : True(b[r], r)
         /\ \A c \in Batches : c.report = b /\ c.unread = unread =>
              /\ Newer(c, observed)
              /\ \A k \in 1..Len(pending) : Newer(c, pending[k].report)
<1>1. /\ \A r \in Resources : applied[r] \in Nat
      /\ observed \in Reports /\ UserStateTypeOK
      /\ \A k \in 1..Len(pending) : pending[k].report \in Reports
  BY ReportFacts DEF UserStateInv
<1>2. ASSUME NEW r \in Resources
      PROVE  /\ b[r] \in Readings
             /\ b[r].known <=> \/ agent.seen[r].known
                               \/ r \in Groups /\ applied[r] > 0 /\ r \notin unread
             /\ b[r].known => /\ b[r].revision = IF r \in unread THEN 0 ELSE applied[r]
                              /\ b[r].members = agent.seen[r].members
                              /\ b[r].password = agent.seen[r].password
                              /\ b[r].enabled = agent.seen[r].enabled
  <2>1. PICK s, v : s = agent.seen[r] /\ v = IF r \in unread THEN 0 ELSE applied[r]
    OBVIOUS
  <2>2. s \in Readings /\ v \in Nat
    BY <1>1, <2>1, OtherFacts DEF AgentStates, Reports
  <2>3. NoReading \in Readings /\ ~NoReading.known
    BY IdleTyped DEF NoReading
  <2>4. CASE s.known \/ (r \in Groups /\ applied[r] > 0 /\ r \notin unread)
    <3>1. b[r] = [s EXCEPT !.known = TRUE, !.revision = v]
      BY <2>1, <2>4 DEF build_telemetry, applied_revisions, Resources
    <3>2. /\ b[r] \in Readings /\ b[r].known /\ b[r].revision = v /\ b[r].members = s.members
          /\ b[r].password = s.password /\ b[r].enabled = s.enabled
      BY <2>2, <3>1 DEF Readings
    <3> QED
      BY <2>1, <2>4, <3>2
  <2>5. CASE ~(s.known \/ (r \in Groups /\ applied[r] > 0 /\ r \notin unread))
    <3>1. b[r] = NoReading
      BY <2>1, <2>5 DEF build_telemetry, applied_revisions, Resources
    <3> QED
      BY <2>1, <2>3, <2>5, <3>1
  <2> QED
    BY <2>4, <2>5
<1>3. b \in Reports
  <2>1. \A r \in Resources : b[r] \in Readings
    BY <1>2
  <2>2. b = [r \in Resources |-> b[r]]
    BY DEF build_telemetry
  <2> QED
    BY <2>1, <2>2 DEF Reports
<1>4. ASSUME NEW r \in Resources
      PROVE  True(b[r], r)
  <2>1. SUFFICES ASSUME b[r].known
                 PROVE  /\ b[r].revision <= applied[r] /\ Shows(b[r], r, b[r].revision)
                        /\ r \in Users => r \in In(file)
    BY DEF True
  <2>2. b[r].revision <= applied[r] /\ b[r].revision \in Nat /\ applied[r] \in Nat
    BY <1>1, <1>2, <2>1
  <2>3. CASE r \in Groups
    <3>1. Shows(agent.seen[r], r, applied[r])
      BY <2>3 DEF UserStateInv, SnapshotInv
    <3>2. Shows(b[r], r, applied[r])
      BY <1>2, <2>1, <3>1, ShowsSame
    <3>3. Shows(b[r], r, b[r].revision)
      BY <1>1, <2>2, <3>2, ShowsLess
    <3> QED
      BY <2>2, <2>3, <3>3, UserStateAssumption
  <2>4. CASE r \in Users
    <3>1. agent.seen[r].known
      BY <1>2, <2>1, <2>4, UserStateAssumption
    <3>2. r \in In(file) /\ Shows(agent.seen[r], r, applied[r])
      BY <2>4, <3>1 DEF UserStateInv, SnapshotInv
    <3>3. Shows(b[r], r, applied[r])
      BY <1>2, <2>1, <3>2, ShowsSame
    <3>4. Shows(b[r], r, b[r].revision)
      BY <1>1, <2>2, <3>3, ShowsLess
    <3> QED
      BY <2>2, <3>2, <3>4
  <2> QED
    BY <2>3, <2>4 DEF Resources
<1>5. ASSUME NEW c \in Batches, c.report = b, c.unread = unread, NEW a \in Reports,
             \A r \in Resources : True(a[r], r), \A u \in Users : a[u].known => agent.seen[u].known
      PROVE  Newer(c, a)
  <2>1. SUFFICES ASSUME NEW r \in Resources, r \notin unread, a[r].known,
                        r \in Users \/ a[r].revision > 0
                 PROVE  b[r].known /\ a[r].revision <= b[r].revision
    BY <1>5 DEF Newer
  <2>2. a[r].revision <= applied[r] /\ a[r].revision \in Nat /\ applied[r] \in Nat
    BY <1>1, <1>5, <2>1 DEF True, Reports, Readings
  <2>3. agent.seen[r].known \/ (r \in Groups /\ applied[r] > 0)
    BY <1>5, <2>1, <2>2 DEF Resources
  <2>4. b[r].known
    BY <1>2, <2>1, <2>3
  <2> QED
    BY <1>2, <2>1, <2>2, <2>4
<1>6. ASSUME NEW c \in Batches, c.report = b, c.unread = unread
      PROVE  Newer(c, observed) /\ \A k \in 1..Len(pending) : Newer(c, pending[k].report)
  <2>1. \A u \in Users :
          /\ observed[u].known => agent.seen[u].known
          /\ \A k \in 1..Len(pending) : pending[k].report[u].known => agent.seen[u].known
    BY DEF UserStateInv, TelemetryInv
  <2>2. Newer(c, observed)
    BY <1>1, <1>5, <1>6, <2>1 DEF UserStateInv, ReportInv
  <2>3. ASSUME NEW k \in 1..Len(pending)
        PROVE  Newer(c, pending[k].report)
    BY <1>1, <1>5, <1>6, <2>1 DEF UserStateInv, ReportInv
  <2> QED
    BY <2>2, <2>3
<1> QED
  BY <1>3, <1>4, <1>6

\* A complete snapshot is reported with the revisions of the journal.
LEMMA send_telemetryInv ==
  ASSUME UserStateInv, NEW unread \in SUBSET applied_revisions, NEW place \in 0..Len(pending),
         NEW stale \in BOOLEAN, send_telemetry(unread, place, stale)
  PROVE  UserStateInv'
<1>1. PICK b : b = build_telemetry(agent.seen, unread)
  OBVIOUS
<1>2. PICK new : new = IF stale THEN StaleBatch
                       ELSE [report |-> b, unread |-> unread, stale |-> FALSE, overtaken |-> FALSE]
  OBVIOUS
<1>3. /\ pending' = enqueue_telemetry(new, place)
      /\ agent' = Idle /\ agent.read = {"users", "groups"} /\ faults' \in Nat
      /\ UNCHANGED <<desired, cmds, file, privd, applied, observed>>
  BY <1>1, <1>2, OtherFacts DEF send_telemetry, Fault
<1>4. /\ b \in Reports /\ \A r \in Resources : True(b[r], r)
      /\ \A c \in Batches : c.report = b /\ c.unread = unread =>
           Newer(c, observed) /\ \A k \in 1..Len(pending) : Newer(c, pending[k].report)
  BY <1>1, <1>3, build_telemetryIs
<1>5. /\ new \in Batches
      /\ new.stale \/ (new.report = b /\ new.unread = unread)
      /\ new.stale => \A r \in Resources : ~new.report[r].known
  BY <1>2, <1>4, IdleTyped DEF Batches, StaleBatch, NothingSeen, NoReading, applied_revisions
<1>6. \A r \in Resources : True(new.report[r], r)
  BY <1>4, <1>5 DEF True
<1>7. \/ new.stale
      \/ Newer(new, observed) /\ \A k \in 1..Len(pending) : Newer(new, pending[k].report)
  BY <1>4, <1>5
<1>8. PICK p : p = pending'
  OBVIOUS
<1>9. p \in Seq(Batches) /\ \E f \in [1..Len(p) -> 0..Len(pending)] : Fits(p, new, f)
  BY <1>3, <1>5, <1>8, enqueue_telemetryIs
<1>10. PICK f \in [1..Len(p) -> 0..Len(pending)] : Fits(p, new, f)
  BY <1>9
<1>11. /\ \A k \in 1..Len(p) : f[k] = 0 => p[k] = new
       /\ \A k \in 1..Len(p) : f[k] # 0 =>
            /\ p[k].report = pending[f[k]].report /\ p[k].unread = pending[f[k]].unread
            /\ Fresh(p[k]) => Fresh(pending[f[k]])
       /\ \A j, k \in 1..Len(p) : j < k =>
            /\ f[j] # 0 /\ f[k] # 0 => f[j] < f[k]
            /\ f[j] = 0 => f[k] # 0 /\ (new.stale \/ ~Fresh(p[k]))
  BY <1>10 DEF Fits
<1>12. \A k \in 1..Len(p) : f[k] # 0 => f[k] \in 1..Len(pending)
  BY <1>10, ReportFacts
<1>13. TelemetryInv'
  <2>1. ASSUME NEW k \in 1..Len(p), Fresh(p[k])
        PROVE  Newer(p[k], observed)
    <3>1. CASE f[k] = 0
      BY <1>7, <1>11, <2>1, <3>1 DEF Fresh
    <3>2. CASE f[k] # 0
      BY <1>11, <1>12, <2>1, <3>2 DEF UserStateInv, TelemetryInv, Newer
    <3> QED
      BY <3>1, <3>2
  <2>2. ASSUME NEW j \in 1..Len(p), NEW k \in 1..Len(p), j < k, Fresh(p[k])
        PROVE  Newer(p[k], p[j].report)
    <3>1. CASE f[k] = 0
      <4>1. ~new.stale /\ f[j] # 0 /\ f[j] \in 1..Len(pending) /\ p[k] = new
        <5>1. f[j] = 0 => f[k] # 0
          BY <1>10, <2>2 DEF Fits
        <5> QED
          BY <1>11, <1>12, <2>2, <3>1, <5>1 DEF Fresh
      <4> QED
        BY <1>7, <1>11, <4>1
    <3>2. CASE f[k] # 0 /\ f[j] = 0
      <4>1. new.stale /\ p[j] = new
        BY <1>11, <2>2, <3>2
      <4> QED
        BY <1>5, <4>1 DEF Newer
    <3>3. CASE f[k] # 0 /\ f[j] # 0
      <4>1. /\ f[j] \in 1..Len(pending) /\ f[k] \in 1..Len(pending) /\ f[j] < f[k]
            /\ Fresh(pending[f[k]])
        BY <1>11, <1>12, <2>2, <3>3
      <4>2. Newer(pending[f[k]], pending[f[j]].report)
        BY <4>1 DEF UserStateInv, TelemetryInv
      <4> QED
        BY <1>11, <3>3, <4>2 DEF Newer
    <3> QED
      BY <3>1, <3>2, <3>3
  <2>3. agent'.read = {}
    BY <1>3, IdleIs
  <2> QED
    BY <1>3, <1>8, <2>1, <2>2, <2>3 DEF TelemetryInv
<1>14. ReportInv'
  <2>1. ASSUME NEW r \in Resources
        PROVE  True(observed[r], r)'
    <3>1. PICK a : a = observed[r]
      OBVIOUS
    <3>2. True(a, r)
      BY <3>1 DEF UserStateInv, ReportInv
    <3>3. True(a, r)'
      BY <1>3, <3>2, QuietTrue
    <3> QED
      BY <1>3, <3>1, <3>3
  <2>2. ASSUME NEW k \in 1..Len(pending'), NEW r \in Resources
        PROVE  True(pending[k].report[r], r)'
    <3>1. PICK a : a = p[k].report[r]
      OBVIOUS
    <3>2. True(a, r)
      <4>1. CASE f[k] = 0
        BY <1>6, <1>8, <1>11, <3>1, <4>1
      <4>2. CASE f[k] # 0
        BY <1>8, <1>11, <1>12, <3>1, <4>2 DEF UserStateInv, ReportInv
      <4> QED
        BY <4>1, <4>2
    <3>3. True(a, r)'
      BY <1>3, <3>2, QuietTrue
    <3> QED
      BY <1>8, <3>1, <3>3
  <2> QED
    BY <2>1, <2>2 DEF ReportInv
<1>15. SnapshotInv' /\ agent' \in AgentStates /\ agent'.stage = "idle"
  BY <1>3, IdleIs DEF SnapshotInv, Resources
<1>16. /\ privd' \in [up : BOOLEAN, staging : Nat]
       /\ observed' \in Reports /\ pending' \in Seq(Batches)
  BY <1>9, <1>3, <1>8, ReportFacts
<1> QED
  BY <1>3, <1>13, <1>14, <1>15, <1>16, QuietStep

\* A batch is ingested: what was taken before it can no longer be observed.
LEMMA ingestTxInv ==
  ASSUME UserStateInv, NEW i \in 1..Len(pending), ingestTx(i)
  PROVE  UserStateInv'
<1> DEFINE n == Len(pending)
<1>1. PICK old : old = StaleBatch
  OBVIOUS
<1>2. /\ observed' = IF pending[i].stale THEN observed ELSE pending[i].report
      /\ pending' = [j \in 1..(n - 1) |-> IF j < i THEN old ELSE pending[j + 1]]
      /\ UNCHANGED <<desired, cmds, file, privd, agent, applied>> /\ faults' \in Nat
  BY <1>1, OtherFacts DEF ingestTx
<1>3. /\ pending \in Seq(Batches) /\ n \in Nat /\ observed \in Reports /\ i \in 1..n
      /\ \A k \in 1..n : pending[k] \in Batches /\ pending[k].report \in Reports
  BY ReportFacts
<1>4. old \in Batches
  BY <1>1, IdleTyped DEF StaleBatch, Batches
<1>5. \A j \in 1..(n - 1) : (IF j < i THEN old ELSE pending[j + 1]) \in Batches
  BY <1>3, <1>4
<1>6. pending' \in Seq(Batches) /\ Len(pending') = n - 1
  BY <1>2, <1>3, <1>5
<1>7. observed' \in Reports
  BY <1>2, <1>3
<1>8. \A k \in 1..Len(pending') :
        \/ k < i /\ pending'[k] = old
        \/ k >= i /\ k + 1 \in 1..n /\ pending'[k] = pending[k + 1]
  BY <1>2, <1>3, <1>6
<1>9. old.stale /\ \A r \in Resources : ~old.report[r].known
  BY <1>1 DEF StaleBatch, NothingSeen, NoReading
<1>10. ReportInv'
  <2>1. ASSUME NEW r \in Resources
        PROVE  True(observed[r], r)'
    <3>1. PICK a : a = observed'[r]
      OBVIOUS
    <3>2. True(a, r)
      BY <1>2, <3>1 DEF UserStateInv, ReportInv
    <3>3. True(a, r)'
      BY <1>2, <3>2, QuietTrue
    <3> QED
      BY <3>1, <3>3
  <2>2. ASSUME NEW k \in 1..Len(pending'), NEW r \in Resources
        PROVE  True(pending[k].report[r], r)'
    <3>1. PICK a : a = pending'[k].report[r]
      OBVIOUS
    <3>2. True(a, r)
      <4>1. CASE pending'[k] = old
        BY <1>9, <3>1, <4>1 DEF True
      <4>2. CASE k + 1 \in 1..n /\ pending'[k] = pending[k + 1]
        BY <3>1, <4>2 DEF UserStateInv, ReportInv
      <4> QED
        BY <1>8, <4>1, <4>2
    <3>3. True(a, r)'
      BY <1>2, <3>2, QuietTrue
    <3> QED
      BY <3>1, <3>3
  <2> QED
    BY <2>1, <2>2 DEF ReportInv
<1>11. TelemetryInv'
  <2>1. ASSUME NEW k \in 1..Len(pending'), Fresh(pending'[k])
        PROVE  Newer(pending'[k], observed')
    <3>1. k >= i /\ k + 1 \in 1..n /\ pending'[k] = pending[k + 1]
      BY <1>8, <1>9, <2>1 DEF Fresh
    <3>2. i < k + 1
      BY <1>3, <3>1
    <3>3. Newer(pending[k + 1], observed) /\ Newer(pending[k + 1], pending[i].report)
      BY <1>3, <2>1, <3>1, <3>2 DEF UserStateInv, TelemetryInv
    <3> QED
      BY <1>2, <3>1, <3>3
  <2>2. ASSUME NEW j \in 1..Len(pending'), NEW k \in 1..Len(pending'), j < k,
               Fresh(pending'[k])
        PROVE  Newer(pending'[k], pending'[j].report)
    <3>1. k + 1 \in 1..n /\ pending'[k] = pending[k + 1]
      BY <1>8, <1>9, <2>2 DEF Fresh
    <3>2. CASE pending'[j] = old
      BY <1>9, <3>2 DEF Newer
    <3>3. CASE j + 1 \in 1..n /\ pending'[j] = pending[j + 1]
      <4>1. j + 1 < k + 1
        BY <2>2
      <4> QED
        BY <2>2, <3>1, <3>3, <4>1 DEF UserStateInv, TelemetryInv
    <3> QED
      BY <1>8, <3>2, <3>3
  <2>3. ASSUME "users" \in agent'.read, NEW u \in Users
        PROVE  /\ observed'[u].known => agent'.seen[u].known
               /\ \A k \in 1..Len(pending') : pending'[k].report[u].known => agent'.seen[u].known
    <3>1. /\ observed[u].known => agent.seen[u].known
          /\ \A k \in 1..n : pending[k].report[u].known => agent.seen[u].known
      BY <1>2, <2>3 DEF UserStateInv, TelemetryInv
    <3>2. observed'[u].known => agent'.seen[u].known
      BY <1>2, <1>3, <3>1
    <3>3. \A k \in 1..Len(pending') : pending'[k].report[u].known => agent'.seen[u].known
      BY <1>2, <1>8, <1>9, <3>1 DEF Resources
    <3> QED
      BY <3>2, <3>3
  <2> QED
    BY <2>1, <2>2, <2>3 DEF TelemetryInv
<1>12. SnapshotInv'
  BY <1>2 DEF UserStateInv, SnapshotInv, In, Shows, Covers, Of, CommandsOf, Asked, Locked
<1>13. /\ privd' \in [up : BOOLEAN, staging : Nat] /\ agent' \in AgentStates
       /\ agent' = agent /\ privd' = privd
  BY <1>2, ReportFacts, OtherFacts
<1> QED
  BY <1>2, <1>6, <1>7, <1>10, <1>11, <1>12, <1>13, QuietStep

-----------------------------------------------------------------------------
(* A change is made                                                        *)

\* A change may take revision rev: no command of the resource has a later one; the
\* commands that have it are of the same kind and were given up, or are superseded
\* now (co); if it is applied already, one of them did it; and a command of another kind
\* was followed by a success.
Follows(r, kind, rev, co) ==
  /\ rev \in Nat /\ rev >= desired[r].revision
  /\ \A i \in CommandsOf(r) :
       /\ cmds[i].revision <= rev
       /\ cmds[i].revision = rev =>
            cmds[i].kind = kind /\ (cmds[i].state \in Dead \/ i \in co)
  /\ rev <= applied[r] => \E j \in CommandsOf(r) :
       cmds[j].revision = rev /\ cmds[j].journal = "ok"
  /\ \A i \in CommandsOf(r) : cmds[i].kind # kind => \E k \in CommandsOf(r) :
       i <= k /\ cmds[k].kind = cmds[i].kind /\ cmds[k].state = "succeeded"

\* The revision that a change takes is such a one.
LEMMA MutateRevision ==
  ASSUME UserStateInv, NEW r \in Resources, NEW kind, revisionReplacement(r, kind) # "busy",
         NEW co, co = supersedePending(r, kind), NEW rev,
         rev = IF revisionReplacement(r, kind) = "reuse" \/ co # {} THEN desired[r].revision
               ELSE desired[r].revision + 1
  PROVE  Follows(r, kind, rev, co)
<1> DEFINE D == desired[r].revision
           L == LastRevision(r)
<1>1. /\ UserStateTypeOK /\ Len(cmds) \in Nat /\ D \in Nat /\ applied[r] \in Nat
      /\ applied[r] <= D
  BY Lengths DEF UserStateInv, UserStateTypeOK, Desires, RevisionInv
<1>2. \A i \in CommandsOf(r) : i \in Indices /\ i \in Nat /\ cmds[i].name = r
        /\ cmds[i].revision \in Nat /\ cmds[i].revision <= D
  <2>1. SUFFICES ASSUME NEW i \in CommandsOf(r)
                 PROVE  i \in Indices /\ i \in Nat /\ cmds[i].name = r
                        /\ cmds[i].revision \in Nat /\ cmds[i].revision <= D
    OBVIOUS
  <2>2. i \in Indices /\ cmds[i].name = r
    BY DEF CommandsOf, Indices
  <2>3. cmds[i] \in UserCommands
    BY <2>2, CommandFacts
  <2> QED
    BY <1>1, <2>2, <2>3, UpToDesired, Lengths DEF UserCommands
<1>3. \A i \in co : i \in AtRevision(r) /\ cmds[i].state = "queued" /\ cmds[i].kind = kind
  BY DEF supersedePending, Pending, AtRevision
<1>4. AtRevision(r) \subseteq CommandsOf(r)
  BY DEF AtRevision
<1>5. IsLast(L, AtRevision(r))
  BY <1>1, LastRevisionIsLast
<1>6. ASSUME NEW i \in AtRevision(r), NEW j \in AtRevision(r), i < j
      PROVE  cmds[i].state \in Dead /\ cmds[i].kind = cmds[j].kind
  <2>1. i \in Indices /\ j \in Indices /\ cmds[i].name = cmds[j].name
        /\ cmds[i].revision = cmds[j].revision
    BY <1>2, <1>4 DEF AtRevision
  <2> QED
    BY <1>6, <2>1 DEF UserStateInv, OrderInv, Ordered
<1>7. ASSUME NEW i \in CommandsOf(r), cmds[i].kind # kind
      PROVE  \E k \in CommandsOf(r) :
               i <= k /\ cmds[k].kind = cmds[i].kind /\ cmds[k].state = "succeeded"
  <2>1. PICK q \in Nat : IsLast(q, CommandsOf(r))
    BY <1>1, SomeLast DEF CommandsOf
  <2>2. q \in CommandsOf(r) /\ i <= q /\ q # 0
    BY <1>1, <2>1 DEF IsLast, CommandsOf
  <2>3. cmds[q].revision = D
    BY <2>1, <2>2 DEF UserStateInv, RevisionInv
  <2>4. q \in AtRevision(r)
    BY <2>2, <2>3 DEF AtRevision
  <2>5. L \in AtRevision(r) /\ q <= L
    BY <1>5, <2>4 DEF IsLast
  <2>6. L \in CommandsOf(r) /\ L <= q
    BY <1>4, <2>1, <2>5 DEF IsLast
  <2>7. L = q
    <3>1. L \in Nat
      BY <1>2, <2>6
    <3> QED
      BY <2>5, <2>6, <3>1
  <2>8. cmds[q].state = "succeeded" \/ cmds[q].kind = kind
    BY <2>2, <2>7 DEF revisionReplacement
  <2>9. CASE cmds[i].kind = cmds[q].kind
    BY <1>7, <2>2, <2>8, <2>9
  <2>10. CASE cmds[i].kind # cmds[q].kind
    <3>1. i < q /\ i \in Indices /\ q \in Indices /\ cmds[i].name = cmds[q].name
      <4>1. i # q
        BY <2>10
      <4>2. i \in Nat /\ i \in Indices /\ q \in Indices /\ cmds[i].name = r /\ cmds[q].name = r
        BY <1>2, <2>2
      <4> QED
        BY <2>2, <4>1, <4>2
    <3>2. Settled(i, q)
      BY <2>10, <3>1 DEF UserStateInv, OrderInv
    <3>3. PICK k \in Indices : /\ i <= k /\ cmds[k].name = cmds[i].name
                               /\ cmds[k].kind = cmds[i].kind /\ cmds[k].state = "succeeded"
      BY <3>2 DEF Settled
    <3>4. k \in CommandsOf(r)
      BY <1>2, <3>3 DEF CommandsOf, Indices
    <3> QED
      BY <3>3, <3>4
  <2> QED
    BY <2>9, <2>10
<1>8. CASE rev = D + 1
  BY <1>1, <1>2, <1>8, <1>7 DEF Follows
<1>9. CASE rev = D /\ (revisionReplacement(r, kind) = "reuse" \/ co # {})
  <2>1. /\ L \in AtRevision(r) /\ L \in Indices /\ L \in Nat /\ cmds[L].kind = kind
        /\ cmds[L].state \in Dead \/ L \in co
    <3>1. CASE co # {}
      <4>1. PICK c : c \in co
        BY <3>1
      <4>2. c \in AtRevision(r) /\ cmds[c].state = "queued" /\ cmds[c].kind = kind
        BY <1>3, <4>1
      <4>3. L \in AtRevision(r) /\ c <= L
        BY <1>5, <4>2 DEF IsLast
      <4>4. c \in Nat /\ L \in Nat /\ L \in Indices
        BY <1>2, <1>4, <4>2, <4>3
      <4>5. c = L
        BY <1>6, <4>2, <4>3, <4>4 DEF Dead
      <4> QED
        BY <4>1, <4>2, <4>3, <4>4, <4>5
    <3>2. CASE revisionReplacement(r, kind) = "reuse"
      <4>0. L \in 0..Len(cmds)
        BY <1>1, LastRevisionIsLast
      <4>1. L # 0 /\ L \in Indices /\ L \in Nat
        BY <1>1, <3>2, <4>0 DEF revisionReplacement, Indices
      <4>2. L \in AtRevision(r)
        BY <1>5, <4>1 DEF IsLast
      <4>3. cmds[L].state \in {"queued", "dispatched", "unknown", "succeeded", "failed",
                               "expired", "superseded"}
        BY <4>1, CommandFacts DEF UserCommands, Outstanding
      <4>4. cmds[L].state \in {"failed", "expired"} /\ cmds[L].kind = kind
        BY <3>2, <4>1, <4>3 DEF revisionReplacement
      <4> QED
        BY <4>1, <4>2, <4>4 DEF Dead
    <3> QED
      BY <1>9, <3>1, <3>2
  <2>2. ASSUME rev <= applied[r]
        PROVE  \E j \in CommandsOf(r) : cmds[j].revision = rev /\ cmds[j].journal = "ok"
    <3>1. cmds[L].name = r /\ cmds[L].revision = D
      BY <2>1 DEF AtRevision, CommandsOf
    <3>2. PICK j \in Indices : cmds[j].name = r /\ cmds[j].revision = D /\ cmds[j].journal = "ok"
      BY <1>9, <2>1, <2>2, <3>1 DEF UserStateInv, RevisionInv, Done
    <3>3. j \in CommandsOf(r)
      BY <3>2 DEF CommandsOf, Indices
    <3> QED
      BY <1>9, <3>2, <3>3
  <2>3. ASSUME NEW i \in CommandsOf(r), cmds[i].revision = D
        PROVE  cmds[i].kind = kind /\ (cmds[i].state \in Dead \/ i \in co)
    <3>1. i \in AtRevision(r) /\ i \in Nat
      BY <1>2, <2>3 DEF AtRevision
    <3>2. i <= L
      BY <1>5, <3>1 DEF IsLast
    <3>3. CASE i = L
      BY <2>1, <3>3
    <3>4. CASE i < L
      BY <1>6, <2>1, <3>1, <3>4
    <3> QED
      BY <2>1, <3>1, <3>2, <3>3, <3>4
  <2> QED
    BY <1>1, <1>2, <1>9, <1>7, <2>2, <2>3 DEF Follows
<1> QED
  BY <1>8, <1>9

\* The last of the commands of some kinds, when one more command is made.
LEMMA LastOfMore ==
  ASSUME NEW n \in Nat, NEW S \in SUBSET (1..n), NEW q \in Nat, IsLast(q, S \cup {n + 1})
  PROVE  q = n + 1
  BY DEF IsLast

\* What a change makes of the commands.
Made(r, kind, members, rev, co, new) ==
  /\ new = [kind |-> kind, name |-> r, members |-> members, revision |-> rev,
            state |-> "queued", leased |-> FALSE, taken |-> FALSE, run |-> "none",
            receipt |-> "none", journal |-> "none", published |-> FALSE, retried |-> FALSE]
  /\ co = supersedePending(r, kind)
  /\ cmds' \in Seq(UserCommands) /\ Len(cmds') = Len(cmds) + 1 /\ cmds'[Len(cmds) + 1] = new
  /\ \A i \in Indices : /\ i \notin co => cmds'[i] = cmds[i]
                        /\ i \in co => cmds'[i] = [cmds[i] EXCEPT !.state = "superseded"]

\* What a change makes: a command of a revision that no other command of the resource
\* has or that the Controller gave up, the superseded ones, and the desired row.
Makes(r, kind, members, rev, co, new) ==
  /\ Follows(r, kind, rev, co) /\ Made(r, kind, members, rev, co, new)
  /\ members \in SUBSET Users /\ (r \in Groups <=> kind = "group_apply")
  /\ WriteDesired(r, kind, members, rev, Len(cmds) + 1)
  /\ UNCHANGED <<file, privd, agent, applied, pending, observed, faults>>

\* A change makes a command and supersedes those that wait with its revision.
LEMMA MutateMakes ==
  ASSUME UserStateInv, NEW r \in Resources, NEW kind \in UserKinds \cup {"group_apply"},
         NEW members \in Members \cup {{}}, Mutate(r, kind, members)
  PROVE  \E rev, co, new : Makes(r, kind, members, rev, co, new)
<1>1. PICK co : co = supersedePending(r, kind)
  OBVIOUS
<1>2. PICK rev : rev = IF revisionReplacement(r, kind) = "reuse" \/ co # {}
                       THEN desired[r].revision ELSE desired[r].revision + 1
  OBVIOUS
<1>3. PICK new : new = [kind |-> kind, name |-> r, members |-> members, revision |-> rev,
                        state |-> "queued", leased |-> FALSE, taken |-> FALSE,
                        run |-> "none", receipt |-> "none", journal |-> "none",
                        published |-> FALSE, retried |-> FALSE]
  OBVIOUS
<1>4. PICK rest : rest = [i \in 1..Len(cmds) |->
                            IF i \in co THEN [cmds[i] EXCEPT !.state = "superseded"]
                            ELSE cmds[i]]
  OBVIOUS
<1>5. /\ revisionReplacement(r, kind) # "busy" /\ cmds' = Append(rest, new)
      /\ IF r \in Groups THEN kind = "group_apply" /\ members \in Members
                         ELSE kind \in UserKinds /\ members = {}
      /\ WriteDesired(r, kind, members, rev, Len(cmds) + 1)
      /\ UNCHANGED <<file, privd, agent, applied, pending, observed, faults>>
  BY <1>1, <1>2, <1>3, <1>4 DEF Mutate
<1>6. members \in SUBSET Users /\ (r \in Groups <=> kind = "group_apply")
  BY <1>5, UserStateAssumption DEF UserKinds
<1>7. Follows(r, kind, rev, co)
  BY <1>1, <1>2, <1>5, MutateRevision
<1>8. new \in UserCommands
  BY <1>3, <1>6, <1>7 DEF Follows, UserCommands, Outstanding, Receipts
<1>9. cmds \in Seq(UserCommands) /\ \A i \in 1..Len(cmds) : cmds[i] \in UserCommands
  BY CommandFacts DEF UserStateInv, UserStateTypeOK, Indices
<1>10. \A i \in 1..Len(cmds) : [cmds[i] EXCEPT !.state = "superseded"] \in UserCommands
  BY <1>9 DEF UserCommands
<1>11. \A i \in 1..Len(cmds) :
         (IF i \in co THEN [cmds[i] EXCEPT !.state = "superseded"] ELSE cmds[i]) \in UserCommands
  BY <1>9, <1>10
<1>12. /\ rest \in Seq(UserCommands) /\ Len(rest) = Len(cmds) /\ Len(cmds) \in Nat
       /\ \A i \in 1..Len(cmds) : /\ i \notin co => rest[i] = cmds[i]
                                  /\ i \in co => rest[i] = [cmds[i] EXCEPT !.state = "superseded"]
  BY <1>4, <1>9, <1>11
<1>13. /\ cmds' \in Seq(UserCommands) /\ Len(cmds') = Len(cmds) + 1
       /\ cmds'[Len(cmds) + 1] = new /\ \A i \in 1..Len(cmds) : cmds'[i] = rest[i]
  BY <1>5, <1>8, <1>12
<1>14. Made(r, kind, members, rev, co, new)
  BY <1>1, <1>3, <1>12, <1>13 DEF Made, Indices
<1>15. Makes(r, kind, members, rev, co, new)
  BY <1>5, <1>6, <1>7, <1>14 DEF Makes
<1> QED
  BY <1>15

\* A change keeps the invariant.
LEMMA MutateInv ==
  ASSUME UserStateInv, NEW r \in Resources, NEW kind \in UserKinds \cup {"group_apply"},
         NEW members \in Members \cup {{}}, Mutate(r, kind, members)
  PROVE  UserStateInv'
<1>1. PICK rev, co, new : Makes(r, kind, members, rev, co, new)
  BY MutateMakes
<1>2. /\ rev \in Nat /\ Made(r, kind, members, rev, co, new)
      /\ rev >= desired[r].revision
      /\ \A i \in CommandsOf(r) :
           /\ cmds[i].revision <= rev
           /\ cmds[i].revision = rev =>
                cmds[i].kind = kind /\ (cmds[i].state \in Dead \/ i \in co)
      /\ rev <= applied[r] => \E j \in CommandsOf(r) :
           cmds[j].revision = rev /\ cmds[j].journal = "ok"
      /\ \A i \in CommandsOf(r) : cmds[i].kind # kind => \E k \in CommandsOf(r) :
           i <= k /\ cmds[k].kind = cmds[i].kind /\ cmds[k].state = "succeeded"
      /\ members \in SUBSET Users /\ (r \in Groups <=> kind = "group_apply")
      /\ WriteDesired(r, kind, members, rev, Len(cmds) + 1)
      /\ UNCHANGED <<file, privd, agent, applied, pending, observed, faults>>
  BY <1>1 DEF Makes, Follows
<1> DEFINE n == Len(cmds) + 1
<1>3. /\ UserStateTypeOK /\ Len(cmds) \in Nat /\ n \in Nat /\ n \notin Indices /\ n # 0
      /\ Indices \subseteq Nat \ {0} /\ \A i \in Indices : i < n
  BY Lengths DEF UserStateInv, Indices
<1>4. /\ cmds' \in Seq(UserCommands) /\ Len(cmds') = n /\ cmds'[n] = new
      /\ Indices' = Indices \cup {n}
  BY <1>2, <1>3 DEF Made, Indices
<1>5. /\ new.name = r /\ new.kind = kind /\ new.members = members /\ new.revision = rev
      /\ new.state = "queued" /\ ~new.leased /\ new.run = "none" /\ new.receipt = "none"
      /\ new.journal = "none" /\ ~new.published /\ ~new.taken
  BY <1>2 DEF Made
<1>6. ASSUME NEW i \in Indices
      PROVE  /\ cmds[i] \in UserCommands
             /\ cmds'[i].name = cmds[i].name /\ cmds'[i].kind = cmds[i].kind
             /\ cmds'[i].members = cmds[i].members /\ cmds'[i].revision = cmds[i].revision
             /\ cmds'[i].leased = cmds[i].leased /\ cmds'[i].run = cmds[i].run
             /\ cmds'[i].receipt = cmds[i].receipt /\ cmds'[i].journal = cmds[i].journal
             /\ cmds'[i].published = cmds[i].published /\ cmds'[i].taken = cmds[i].taken
             /\ i \notin co => cmds'[i].state = cmds[i].state
             /\ i \in co => /\ cmds'[i].state = "superseded" /\ cmds[i].state = "queued"
                            /\ ~cmds[i].leased
  <2>1. cmds[i] \in UserCommands
    BY CommandFacts
  <2>2. /\ i \notin co => cmds'[i] = cmds[i]
        /\ i \in co => cmds'[i] = [cmds[i] EXCEPT !.state = "superseded"]
    BY <1>2 DEF Made
  <2>3. i \in co => cmds[i].state = "queued" /\ ~cmds[i].leased
    BY <1>2 DEF Made, supersedePending, Pending
  <2> QED
    BY <2>1, <2>2, <2>3 DEF UserCommands
<1>7. Statics
  <2>1. Len(cmds') >= Len(cmds)
    BY <1>3, <1>4
  <2> QED
    BY <1>6, <2>1 DEF Statics
<1>8. /\ desired' = [desired EXCEPT ![r] = desired'[r]]
      /\ desired'[r].revision = rev /\ desired'[r].members = members
      /\ desired'[r].enabled = IF kind = "user_password_rotate" THEN desired[r].enabled
                               ELSE kind # "user_disable"
      /\ desired'[r].password = IF kind \in Secrets THEN n ELSE desired[r].password
      /\ desired'[r] \in Desires
  <2>1. desired \in [Resources -> Desires] /\ desired[r] \in Desires
    BY <1>3 DEF UserStateTypeOK
  <2>2. PICK d : d = [revision |-> rev,
                      enabled |-> IF kind = "user_password_rotate" THEN desired[r].enabled
                                  ELSE kind # "user_disable",
                      members |-> members,
                      password |-> IF kind \in Secrets THEN n ELSE desired[r].password]
    OBVIOUS
  <2>3. desired' = [desired EXCEPT ![r] = d]
    BY <1>2, <2>2 DEF WriteDesired, Secrets
  <2>4. d \in Desires
    <3>1. desired[r].enabled \in BOOLEAN /\ desired[r].password \in Nat
      BY <2>1 DEF Desires
    <3>2. (IF kind = "user_password_rotate" THEN desired[r].enabled
           ELSE kind # "user_disable") \in BOOLEAN
      BY <3>1
    <3>3. (IF kind \in Secrets THEN n ELSE desired[r].password) \in Nat
      BY <1>3, <3>1
    <3> QED
      BY <1>2, <2>2, <3>2, <3>3 DEF Desires
  <2>5. desired'[r] = d
    BY <2>1, <2>3
  <2>6. d.revision = rev /\ d.members = members
    BY <2>2
  <2>7. /\ d.enabled = IF kind = "user_password_rotate" THEN desired[r].enabled
                       ELSE kind # "user_disable"
        /\ d.password = IF kind \in Secrets THEN n ELSE desired[r].password
    BY <2>2
  <2> QED
    BY <2>3, <2>4, <2>5, <2>6, <2>7
<1>9. \A x \in Resources : x # r => desired'[x] = desired[x]
  BY <1>3, <1>8 DEF UserStateTypeOK
<1>10. UserStateTypeOK'
  <2>1. desired' \in [Resources -> Desires]
    BY <1>3, <1>8 DEF UserStateTypeOK
  <2> QED
    BY <1>2, <1>3, <1>4, <2>1 DEF UserStateTypeOK
<1>11. CommandInv'
  <2>1. Sane(new)
    BY <1>2, <1>5 DEF Sane
  <2>2. ASSUME NEW i \in Indices
        PROVE  Sane(cmds'[i])
    <3>1. Sane(cmds[i])
      BY CommandFacts
    <3> QED
      BY <1>6, <3>1 DEF Sane
  <2> QED
    BY <1>4, <2>1, <2>2 DEF CommandInv
<1>12. OrderInv'
  <2>1. SUFFICES ASSUME NEW i \in Indices', NEW j \in Indices', i < j,
                        cmds'[i].name = cmds'[j].name
                 PROVE  /\ Ordered(cmds'[i], cmds'[j])
                        /\ cmds'[i].kind # cmds'[j].kind => Settled(i, j)'
    BY DEF OrderInv
  <2>2. i \in Indices
    BY <1>3, <1>4, <2>1
  <2>3. ASSUME NEW k \in Indices, i <= k, k < j, cmds[k].name = cmds[i].name,
               cmds[k].kind = cmds[i].kind, cmds[k].state = "succeeded"
        PROVE  Settled(i, j)'
    <3>1. /\ k \in Indices' /\ cmds'[k].name = cmds'[i].name /\ cmds'[k].kind = cmds'[i].kind
          /\ cmds'[k].state = "succeeded"
      BY <1>4, <1>6, <2>2, <2>3
    <3> QED
      BY <2>3, <3>1 DEF Settled
  <2>4. CASE j \in Indices
    <3>1. Ordered(cmds[i], cmds[j]) /\ (cmds[i].kind # cmds[j].kind => Settled(i, j))
      BY <1>6, <2>1, <2>2, <2>4 DEF UserStateInv, OrderInv
    <3>2. cmds[i].state \in Dead => cmds'[i].state \in Dead
      BY <1>6, <2>2 DEF Dead
    <3>3. Ordered(cmds'[i], cmds'[j])
      BY <1>6, <2>2, <2>4, <3>1, <3>2 DEF Ordered
    <3>4. cmds'[i].kind # cmds'[j].kind => Settled(i, j)'
      BY <1>6, <2>2, <2>3, <2>4, <3>1 DEF Settled
    <3> QED
      BY <3>3, <3>4
  <2>5. CASE j = n
    <3>1. i \in CommandsOf(r) /\ cmds[i].name = r
      BY <1>4, <1>5, <1>6, <2>1, <2>2, <2>5 DEF CommandsOf, Indices
    <3>2. /\ cmds[i].revision <= rev
          /\ cmds[i].revision = rev => cmds[i].kind = kind /\ cmds'[i].state \in Dead
      BY <1>2, <1>6, <2>2, <3>1 DEF Dead
    <3>3. Ordered(cmds'[i], cmds'[j])
      BY <1>4, <1>5, <1>6, <2>2, <2>5, <3>2 DEF Ordered
    <3>4. ASSUME cmds'[i].kind # cmds'[j].kind
          PROVE  Settled(i, j)'
      <4>1. cmds[i].kind # kind
        BY <1>4, <1>5, <1>6, <2>2, <2>5, <3>4
      <4>2. PICK k \in CommandsOf(r) :
              i <= k /\ cmds[k].kind = cmds[i].kind /\ cmds[k].state = "succeeded"
        BY <1>2, <3>1, <4>1
      <4>3. k \in Indices /\ cmds[k].name = r
        BY DEF CommandsOf, Indices
      <4> QED
        BY <1>3, <2>3, <2>5, <3>1, <4>2, <4>3
    <3> QED
      BY <3>3, <3>4
  <2> QED
    BY <1>4, <2>1, <2>4, <2>5
<1>13. ASSUME NEW x, NEW K
       PROVE  /\ x # r => CommandsOf(x)' = CommandsOf(x)
              /\ CommandsOf(r)' = CommandsOf(r) \cup {n}
              /\ ~(x = r /\ kind \in K) => Of(x, K)' = Of(x, K)
              /\ kind \in K => Of(r, K)' = Of(r, K) \cup {n}
              /\ PublishedOf(x, K)' = PublishedOf(x, K)
              /\ CommandsOf(x) \in SUBSET (1..Len(cmds)) /\ Of(x, K) \in SUBSET (1..Len(cmds))
              /\ PublishedOf(x, K) \in SUBSET (1..Len(cmds))
  <2>1. /\ x # r => CommandsOf(x)' = CommandsOf(x)
        /\ CommandsOf(r)' = CommandsOf(r) \cup {n}
    BY <1>3, <1>4, <1>5, <1>6 DEF CommandsOf, Indices
  <2>2. /\ ~(x = r /\ kind \in K) => Of(x, K)' = Of(x, K)
        /\ kind \in K => Of(r, K)' = Of(r, K) \cup {n}
    BY <1>3, <1>4, <1>5, <1>6, <2>1 DEF Of, CommandsOf, Indices
  <2>3. PublishedOf(x, K)' = PublishedOf(x, K)
    BY <1>3, <1>4, <1>5, <1>6, <2>2 DEF PublishedOf, Of, CommandsOf, Indices
  <2> QED
    BY <2>1, <2>2, <2>3, Positions DEF Indices
<1>14. ASSUME NEW q \in 0..Len(cmds)
       PROVE  (Locked(q)' <=> Locked(q)) /\ Asked(q)' = Asked(q)
  BY <1>3, <1>7, SameAsked
<1>15. RevisionInv'
  <2>1. \A x \in Resources : applied'[x] <= desired'[x].revision
    <3>1. \A x \in Resources : applied[x] <= desired[x].revision /\ applied[x] \in Nat
      BY <1>3 DEF UserStateInv, RevisionInv, UserStateTypeOK
    <3> QED
      <4>1. desired[r].revision \in Nat
        BY <1>3 DEF UserStateTypeOK, Desires
      <4> QED
        BY <1>2, <1>8, <1>9, <3>1, <4>1
  <2>2. ASSUME NEW x \in Resources, NEW q \in Nat, IsLast(q, CommandsOf(x)')
        PROVE  desired'[x].revision = IF q = 0 THEN applied'[x] ELSE cmds'[q].revision
    <3>1. CASE x = r
      <4>1. q = n
        <5>1. IsLast(q, CommandsOf(r) \cup {n}) /\ CommandsOf(r) \in SUBSET (1..Len(cmds))
          BY <1>13, <2>2, <3>1
        <5> QED
          BY <1>3, <5>1, LastOfMore
      <4> QED
        BY <1>3, <1>4, <1>5, <1>8, <3>1, <4>1
    <3>2. CASE x # r
      <4>1. IsLast(q, CommandsOf(x))
        BY <1>13, <2>2, <3>2
      <4>2. q # 0 => q \in Indices
        BY <4>1 DEF IsLast, CommandsOf, Indices
      <4>3. desired[x].revision = IF q = 0 THEN applied[x] ELSE cmds[q].revision
        BY <4>1 DEF UserStateInv, RevisionInv
      <4> QED
        BY <1>2, <1>6, <1>9, <3>2, <4>2, <4>3
    <3> QED
      BY <3>1, <3>2
  <2>3. ASSUME NEW i \in Indices', cmds'[i].revision <= applied'[cmds'[i].name]
        PROVE  Done(i)'
    <3>1. PICK j \in Indices : /\ cmds[j].name = cmds'[i].name
                               /\ cmds[j].revision = cmds'[i].revision /\ cmds[j].journal = "ok"
      <4>1. CASE i \in Indices
        BY <1>2, <1>6, <2>3, <4>1 DEF UserStateInv, RevisionInv, Done
      <4>2. CASE i = n
        <5>1. rev <= applied[r]
          BY <1>2, <1>4, <1>5, <2>3, <4>2
        <5>2. PICK j \in CommandsOf(r) : cmds[j].revision = rev /\ cmds[j].journal = "ok"
          BY <1>2, <5>1
        <5>3. j \in Indices /\ cmds[j].name = r
          BY DEF CommandsOf, Indices
        <5> QED
          BY <1>4, <1>5, <4>2, <5>2, <5>3
      <4> QED
        BY <1>4, <4>1, <4>2
    <3>2. /\ j \in Indices' /\ cmds'[j].name = cmds'[i].name
          /\ cmds'[j].revision = cmds'[i].revision /\ cmds'[j].journal = "ok"
      BY <1>4, <1>6, <3>1
    <3> QED
      BY <3>2 DEF Done
  <2>4. ASSUME NEW i \in Indices', cmds'[i].journal = "ok"
        PROVE  cmds'[i].revision <= applied'[cmds'[i].name]
    <3>1. i \in Indices
      BY <1>4, <1>5, <2>4
    <3> QED
      BY <1>2, <1>6, <2>4, <3>1 DEF UserStateInv, RevisionInv
  <2>5. \A x \in Resources : \A q \in Nat : IsLast(q, CommandsOf(x))' = IsLast(q, CommandsOf(x)')
    BY DEF IsLast
  <2>6. ASSUME NEW i \in Indices', cmds'[i].taken
        PROVE  cmds'[i].revision <= applied'[cmds'[i].name] + 1
    <3>1. i \in Indices
      BY <1>4, <1>5, <2>6
    <3> QED
      BY <1>2, <1>6, <2>6, <3>1 DEF UserStateInv, RevisionInv
  <2> QED
    BY <2>1, <2>2, <2>3, <2>4, <2>5, <2>6 DEF RevisionInv
<1>16. OnceInv'
  BY <1>4, <1>5, <1>6 DEF UserStateInv, OnceInv
<1>17. AgentInv'
  BY <1>2, <1>4, <1>6 DEF UserStateInv, AgentInv, Current
<1>18. StageInv'
  <2>1. SUFFICES ASSUME NEW i \in Indices', cmds'[i].run = "staged"
                 PROVE  /\ Acceptable(cmds[i])' /\ ~Outdated(i)' /\ privd'.up /\ privd'.staging > 0
                        /\ \A j \in Indices' : cmds'[j].run = "staged" => j = i
    BY DEF StageInv
  <2>2. i \in Indices
    BY <1>4, <1>5, <2>1
  <2>3. /\ Acceptable(cmds[i]) /\ ~Outdated(i) /\ privd.up /\ privd.staging > 0
        /\ \A j \in Indices : cmds[j].run = "staged" => j = i
    BY <1>6, <2>1, <2>2 DEF UserStateInv, StageInv
  <2>4. Acceptable(cmds[i])'
    BY <1>2, <1>6, <2>2, <2>3 DEF Acceptable, In
  <2>5. \A j \in Indices' : cmds'[j].run = "staged" => j = i
    BY <1>4, <1>5, <1>6, <2>3
  <2>6. ASSUME NEW j \in CommandsOf(cmds[i].name)', j # i, cmds'[j].published,
               cmds'[j].kind = cmds'[i].kind, cmds'[j].revision >= cmds'[i].revision
        PROVE  FALSE
    <3>1. j \in Indices /\ cmds'[j].name = cmds'[i].name
      BY <1>4, <1>5, <2>6 DEF CommandsOf, Indices
    <3>2. j \in CommandsOf(cmds[i].name)
      BY <1>6, <2>2, <3>1 DEF CommandsOf, Indices
    <3> QED
      BY <1>6, <2>2, <2>3, <2>6, <3>1, <3>2 DEF Outdated
  <2> QED
    BY <1>2, <2>3, <2>4, <2>5, <2>6 DEF Outdated
<1>19. HostInv'
  <2>1. ASSUME NEW x, NEW K, NEW q, IsLast(q, PublishedOf(x, K))
        PROVE  q \in 0..Len(cmds)
    BY <1>3, <1>13, <2>1, LastIn
  <2>2. \A u \in Users : IsLast(file'[u].password, PublishedOf(u, Secrets)')
    BY <1>2, <1>13 DEF UserStateInv, HostInv
  <2>3. \A u \in Users : \A q \in Nat : IsLast(q, PublishedOf(u, Locks)') =>
          (file'[u].locked <=> Locked(q)')
    BY <1>2, <1>13, <1>14, <2>1 DEF UserStateInv, HostInv
  <2>4. \A g \in Groups : \A q \in Nat : IsLast(q, PublishedOf(g, Groupings)') =>
          MembersIn(file', g) = Asked(q)'
    BY <1>2, <1>13, <1>14, <2>1 DEF UserStateInv, HostInv
  <2>5. \A i \in Indices' : cmds'[i].published /\ cmds'[i].name \in Users =>
          cmds'[i].name \in In(file')
    BY <1>2, <1>4, <1>5, <1>6 DEF UserStateInv, HostInv
  <2> QED
    BY <2>2, <2>3, <2>4, <2>5 DEF HostInv, IsLast, MembersIn, In
<1>20. DesiredInv'
  <2>0. /\ Users \cap Groups = {} /\ Users \subseteq Resources /\ Groups \subseteq Resources
        /\ (r \in Users => r \notin Groups /\ kind \in UserKinds)
    BY <1>2, UserStateAssumption DEF Resources
  <2>1. ASSUME NEW x, NEW K, NEW q, IsLast(q, Of(x, K))
        PROVE  q \in 0..Len(cmds)
    BY <1>3, <1>13, <2>1, LastIn
  <2>2. ASSUME NEW u \in Users
        PROVE  IsLast(desired'[u].password, Of(u, Secrets)')
    <3>1. IsLast(desired[u].password, Of(u, Secrets))
      BY DEF UserStateInv, DesiredInv
    <3>2. CASE u = r /\ kind \in Secrets
      <4>1. Of(u, Secrets)' = Of(u, Secrets) \cup {n} /\ Of(u, Secrets) \in SUBSET (1..Len(cmds))
        BY <1>13, <3>2
      <4>2. desired'[u].password = n
        BY <1>8, <3>2
      <4> QED
        BY <1>3, <4>1, <4>2 DEF IsLast
    <3>3. CASE ~(u = r /\ kind \in Secrets)
      <4>1. desired'[u].password = desired[u].password
        BY <1>8, <1>9, <2>0, <3>3
      <4> QED
        BY <1>13, <3>1, <3>3, <4>1
    <3> QED
      BY <3>2, <3>3
  <2>3. ASSUME NEW u \in Users, NEW q \in Nat, IsLast(q, Of(u, Locks)')
        PROVE  desired'[u].enabled <=> ~Locked(q)'
    <3>1. CASE u = r /\ kind \in Locks
      <4>1. q = n
        <5>1. IsLast(q, Of(r, Locks) \cup {n}) /\ Of(r, Locks) \in SUBSET (1..Len(cmds))
          BY <1>13, <2>3, <3>1
        <5> QED
          BY <1>3, <5>1, LastOfMore
      <4>2. Locked(q)' <=> kind = "user_disable"
        BY <1>3, <1>4, <1>5, <4>1 DEF Locked
      <4> QED
        BY <1>8, <3>1, <4>2 DEF Locks
    <3>2. CASE ~(u = r /\ kind \in Locks)
      <4>1. IsLast(q, Of(u, Locks))
        BY <1>13, <2>3, <3>2
      <4>2. desired[u].enabled <=> ~Locked(q)
        BY <4>1 DEF UserStateInv, DesiredInv
      <4>3. desired'[u].enabled = desired[u].enabled
        BY <1>8, <1>9, <2>0, <3>2 DEF Locks, UserKinds
      <4> QED
        BY <1>14, <2>1, <4>1, <4>2, <4>3
    <3> QED
      BY <3>1, <3>2
  <2>4. ASSUME NEW g \in Groups, NEW q \in Nat, IsLast(q, Of(g, Groupings)')
        PROVE  desired'[g].members = Asked(q)'
    <3>1. CASE g = r
      <4>1. kind \in Groupings
        BY <1>2, <3>1 DEF Groupings
      <4>2. q = n
        <5>1. IsLast(q, Of(r, Groupings) \cup {n}) /\ Of(r, Groupings) \in SUBSET (1..Len(cmds))
          BY <1>13, <2>4, <3>1, <4>1
        <5> QED
          BY <1>3, <5>1, LastOfMore
      <4>3. Asked(q)' = members
        BY <1>3, <1>4, <1>5, <4>2 DEF Asked
      <4> QED
        BY <1>8, <3>1, <4>3
    <3>2. CASE g # r
      <4>1. IsLast(q, Of(g, Groupings))
        BY <1>13, <2>4, <3>2
      <4>2. desired[g].members = Asked(q)
        BY <4>1 DEF UserStateInv, DesiredInv
      <4>3. desired'[g] = desired[g]
        BY <1>9, <2>0, <3>2
      <4> QED
        BY <1>14, <2>1, <4>1, <4>2, <4>3
    <3> QED
      BY <3>1, <3>2
  <2> QED
    BY <2>2, <2>3, <2>4 DEF DesiredInv, IsLast
<1>21. SnapshotInv' /\ ReportInv' /\ TelemetryInv'
  <2>1. Recorded
    BY <1>4, <1>5, <1>6 DEF Recorded, Indices
  <2>2. \A x \in Resources : applied[x] <= applied'[x]
    BY <1>2, <1>3 DEF UserStateTypeOK
  <2>3. In(file) \subseteq In(file')
    BY <1>2 DEF In
  <2>4. agent'.read = agent.read /\ agent'.seen = agent.seen /\ applied' = applied
        /\ (agent'.stage # "snapshot" => agent.read = {})
    BY <1>2, OtherFacts
  <2> QED
    BY <1>2, <1>7, <1>10, <2>1, <2>2, <2>3, <2>4, TelemetryKept
<1> QED
  BY <1>10, <1>11, <1>12, <1>15, <1>17, <1>18, <1>19, <1>20, <1>21, <1>16
     DEF UserStateInv

-----------------------------------------------------------------------------
(* The invariant holds                                                     *)

\* At first nothing is queued, and the managed users are on the host.
LEMMA UserStateInitInv ==
  ASSUME UserStateInit
  PROVE  UserStateInv
<1>1. /\ cmds = <<>> /\ Len(cmds) = 0 /\ Indices = {} /\ pending = <<>> /\ Len(pending) = 0
      /\ agent = Idle /\ observed = NothingSeen /\ faults = 0
      /\ privd = [up |-> TRUE, staging |-> 0]
  BY DEF UserStateInit, Indices
<1>2. PICK managed \in SUBSET Users :
        /\ desired = [r \in Resources |->
                        [NoDesired EXCEPT !.revision = IF r \in managed THEN 1 ELSE 0]]
        /\ file = [u \in Users |-> IF u \in managed THEN NewEntry(0) ELSE Absent]
        /\ applied = [r \in Resources |-> desired[r].revision]
  BY DEF UserStateInit
<1>3. \A r \in Resources :
        /\ desired[r] \in Desires /\ applied[r] = desired[r].revision /\ applied[r] \in Nat
        /\ desired[r].password = 0 /\ desired[r].enabled /\ desired[r].members = {}
  BY <1>2 DEF NoDesired, Desires
<1>4. \A u \in Users :
        /\ file[u] \in Entries /\ file[u].password = 0 /\ ~file[u].locked /\ file[u].groups = {}
  BY <1>2 DEF NewEntry, Absent, Entries
<1>5. \A r \in Resources : observed[r] = NoReading /\ ~observed[r].known
  BY <1>1 DEF NothingSeen, NoReading
<1>6. UserStateTypeOK
  <2>1. desired \in [Resources -> Desires] /\ applied \in [Resources -> Nat]
    BY <1>2, <1>3
  <2>2. file \in [Users -> Entries]
    BY <1>2, <1>4
  <2>3. agent \in AgentStates /\ observed \in Reports
    BY <1>1, IdleTyped
  <2> QED
    BY <1>1, <2>1, <2>2, <2>3 DEF UserStateTypeOK, AgentStates
<1>7. \A r, K : CommandsOf(r) = {} /\ Of(r, K) = {} /\ PublishedOf(r, K) = {}
  BY <1>1 DEF CommandsOf, Of, PublishedOf
<1>8. \A q : IsLast(q, {}) <=> q = 0
  BY DEF IsLast
<1>9. CommandInv /\ OrderInv /\ StageInv /\ OnceInv
  BY <1>1 DEF CommandInv, OrderInv, StageInv, OnceInv
<1>10. AgentInv /\ SnapshotInv
  BY <1>1, IdleIs DEF AgentInv, SnapshotInv, Resources
<1>11. RevisionInv
  <2>1. \A r \in Resources : applied[r] <= desired[r].revision
    BY <1>3
  <2>2. \A r \in Resources : \A q \in Nat : IsLast(q, CommandsOf(r)) =>
          desired[r].revision = IF q = 0 THEN applied[r] ELSE cmds[q].revision
    BY <1>3, <1>7, <1>8
  <2> QED
    BY <1>1, <2>1, <2>2 DEF RevisionInv
<1>12. HostInv
  <2>1. \A u \in Users : IsLast(file[u].password, PublishedOf(u, Secrets))
    BY <1>4, <1>7, <1>8
  <2>2. \A u \in Users : \A q \in Nat : IsLast(q, PublishedOf(u, Locks)) =>
          (file[u].locked <=> Locked(q))
    BY <1>4, <1>7, <1>8 DEF Locked
  <2>3. \A g \in Groups : MembersIn(file, g) = {}
    BY <1>4 DEF MembersIn, In
  <2>4. \A g \in Groups : \A q \in Nat : IsLast(q, PublishedOf(g, Groupings)) =>
          MembersIn(file, g) = Asked(q)
    BY <1>7, <1>8, <2>3 DEF Asked
  <2> QED
    BY <1>1, <2>1, <2>2, <2>4 DEF HostInv
<1>13. DesiredInv
  BY <1>3, <1>7, <1>8 DEF DesiredInv, Locked, Asked, Resources
<1>14. ReportInv /\ TelemetryInv
  BY <1>1, <1>5, IdleIs DEF ReportInv, TelemetryInv, True
<1> QED
  BY <1>6, <1>9, <1>10, <1>11, <1>12, <1>13, <1>14 DEF UserStateInv

\* Every step keeps the invariant.
LEMMA UserStateNextInv ==
  ASSUME UserStateInv, [UserStateNext]_userVars
  PROVE  UserStateInv'
<1>1. CASE UNCHANGED userVars
  <2>1. UNCHANGED <<desired, cmds, file, privd, agent, applied, pending, observed, faults>>
    BY <1>1 DEF userVars
  <2>2. /\ privd' \in [up : BOOLEAN, staging : Nat] /\ agent' \in AgentStates
        /\ agent'.read = agent.read /\ agent'.seen = agent.seen
        /\ (agent'.stage # "snapshot" => agent.read = {}) /\ faults' \in Nat
    BY <2>1, OtherFacts
  <2> QED
    BY <2>1, <2>2, PauseStep
<1>2. ASSUME NEW r \in Resources, NEW kind \in UserKinds \cup {"group_apply"},
             NEW members \in Members \cup {{}}, Mutate(r, kind, members)
      PROVE  UserStateInv'
  BY <1>2, MutateInv
<1>3. ASSUME NEW i \in Indices,
             \/ Claim(i) \/ Release(i) \/ ExpireQueued(i)
             \/ stage_user_file(i) \/ MutationFails(i) \/ Reconcile(i)
      PROVE  UserStateInv'
  BY <1>3, ClaimInv, ReleaseInv, ExpireQueuedInv, stage_user_fileInv, MutationFailsInv,
     ReconcileInv
<1>4. ASSUME NEW i \in Indices, NEW stored \in BOOLEAN, commit_desired_staging(i, stored)
      PROVE  UserStateInv'
  BY <1>4, commit_desired_stagingInv
<1>5. ASSUME NEW i \in Indices, NEW x \in BOOLEAN,
             Deliver(i, x) \/ CommandEnds(i, x) \/ AgentInterrupted(i, x)
      PROVE  UserStateInv'
  BY <1>5, DeliverInv, CommandEndsInv, AgentInterruptedInv
<1>6. ASSUME \/ PrivdCrash \/ cleanup_stale_user_staging \/ Heartbeat
             \/ \E failed \in BOOLEAN : SnapshotIncomplete(failed)
      PROVE  UserStateInv'
  BY <1>6, PrivdCrashInv, cleanup_stale_user_stagingInv, HeartbeatInv, SnapshotIncompleteInv
<1>7. ASSUME NEW list \in {"users", "groups"}, execute_read(list)
      PROVE  UserStateInv'
  BY <1>7, execute_readInv
<1>8. ASSUME NEW i \in 1..Len(pending), ingestTx(i)
      PROVE  UserStateInv'
  BY <1>8, ingestTxInv
<1>9. ASSUME NEW unread \in SUBSET applied_revisions, NEW place \in 0..Len(pending),
             NEW stale \in BOOLEAN, send_telemetry(unread, place, stale)
      PROVE  UserStateInv'
  BY <1>9, send_telemetryInv
<1> QED
  BY <1>1, <1>2, <1>3, <1>4, <1>5, <1>6, <1>7, <1>8, <1>9 DEF UserStateNext, Indices

\* The Controller's rows, the password file, the Agent's journal and the telemetry
\* between them stay consistent: no reachable state of any number of users,
\* groups and changes breaks the invariant (Mutate, the dispatch, privd's
\* mutations, the Agent's records and reports, ingestion).
THEOREM UserStateInvariant == UserStateSpec => []UserStateInv
<1>1. UserStateInit => UserStateInv
  BY UserStateInitInv
<1>2. UserStateInv /\ [UserStateNext]_userVars => UserStateInv'
  BY UserStateNextInv
<1> QED
  BY <1>1, <1>2, PTL DEF UserStateSpec

\* Every row, command, line, snapshot and batch has its type (the tables, the
\* password file, the Agent's state and its telemetry buffer).
THEOREM UserStateTypeCorrect == UserStateSpec => []UserStateTypeOK
<1>1. UserStateInv => UserStateTypeOK
  BY DEF UserStateInv
<1> QED
  BY <1>1, UserStateInvariant, PTL

\* When the last change of a resource is reported as succeeded, the host holds all
\* that was ever asked of it, for any users, groups and changes between
\* (user_secret_apply, user_lock_state, group_apply, Mutate).
THEOREM UserStateSucceededIsOnHost == UserStateSpec => []SucceededIsOnHost
<1>1. ASSUME UserStateInv
      PROVE  SucceededIsOnHost
  <2>1. SUFFICES ASSUME NEW r \in Resources, Latest(r) # 0, cmds[Latest(r)].state = "succeeded"
                 PROVE  OnHost(r)
    BY DEF SucceededIsOnHost, Succeeded
  <2>2. Latest(r) \in Indices
    BY <1>1, <2>1, LatestFacts
  <2>3. cmds[Latest(r)].journal = "ok"
    BY <1>1, <2>1, <2>2, CommandFacts DEF Sane
  <2> QED
    BY <1>1, <2>1, <2>3, HostHoldsDesired
<1> QED
  BY <1>1, UserStateInvariant, PTL

\* What converged means: the desired revision was observed, so the Agent has
\* applied it, and no later change is under way.
LEMMA ConvergedIs ==
  ASSUME UserStateInv, NEW r \in Resources, convergence(r) = "converged"
  PROVE  /\ desired[r].revision # 0 /\ observed[r].known
         /\ observed[r].revision = desired[r].revision
         /\ IF r \in Groups THEN observed[r].members = desired[r].members
            ELSE observed[r].enabled = desired[r].enabled
         /\ Latest(r) = 0 \/ cmds[Latest(r)].state \notin {"queued", "dispatched"}
         /\ applied[r] = desired[r].revision /\ Shows(observed[r], r, desired[r].revision)
<1>1. /\ desired[r].revision # 0 /\ observed[r].known
      /\ observed[r].revision = desired[r].revision
      /\ IF r \in Groups THEN observed[r].members = desired[r].members
         ELSE observed[r].enabled = desired[r].enabled
      /\ Latest(r) = 0 \/ cmds[Latest(r)].state \notin {"queued", "dispatched"}
  BY DEF convergence
<1>2. observed[r].revision <= applied[r] /\ Shows(observed[r], r, observed[r].revision)
  BY <1>1 DEF UserStateInv, ReportInv, True
<1>3. desired[r] \in Desires /\ applied[r] \in Nat /\ applied[r] <= desired[r].revision
  BY DEF UserStateInv, UserStateTypeOK, RevisionInv
<1>4. applied[r] = desired[r].revision
  BY <1>1, <1>2, <1>3 DEF Desires
<1> QED
  BY <1>1, <1>2, <1>4

\* A resource reported as converged holds the effect of its last change, whatever
\* revisions were used again and whatever the fingerprint leaves out, unless a
\* command that strayed was published under the revision (convergence,
\* revisionReplacement).
THEOREM UserStateConvergedIsApplied == UserStateSpec => []ConvergedIsApplied
<1>1. ASSUME UserStateInv
      PROVE  ConvergedIsApplied
  <2>1. SUFFICES ASSUME NEW r \in Resources, convergence(r) = "converged",
                        ~\E i \in CommandsOf(r) : /\ Strayed(i) /\ cmds[i].published
                                                  /\ cmds[i].revision = desired[r].revision
                 PROVE  /\ Latest(r) # 0 => cmds[Latest(r)].published
                        /\ r \in Users => observed[r].password = desired[r].password
    BY DEF ConvergedIsApplied
  <2>2. applied[r] = desired[r].revision /\ Shows(observed[r], r, desired[r].revision)
    BY <1>1, <2>1, ConvergedIs
  <2>3. ASSUME Latest(r) # 0
        PROVE  cmds[Latest(r)].journal = "ok" /\ cmds[Latest(r)].published
    <3>1. PICK m : m = Latest(r)
      OBVIOUS
    <3>2. /\ m \in Indices /\ cmds[m].name = r /\ cmds[m].revision = desired[r].revision
          /\ \A j \in CommandsOf(r) : j <= m
      BY <1>1, <2>3, <3>1, LatestFacts
    <3>3. cmds[m].revision <= applied[cmds[m].name]
      <4>1. applied[r] \in Nat
        BY <1>1 DEF UserStateInv, UserStateTypeOK
      <4> QED
        BY <2>2, <3>2, <4>1
    <3>4. PICK j \in Indices : /\ cmds[j].name = r /\ cmds[j].revision = cmds[m].revision
                               /\ cmds[j].journal = "ok"
      BY <1>1, <3>2, <3>3 DEF UserStateInv, RevisionInv, Done
    <3>5. j \in CommandsOf(r) /\ j <= m /\ j \in Nat /\ m \in Nat
      BY <1>1, <3>2, <3>4, Lengths DEF CommandsOf, Indices, UserStateInv
    <3>6. Sane(cmds[j])
      BY <1>1, <3>4, CommandFacts
    <3>7. cmds[j].published /\ cmds[j].taken /\ cmds[j].state # "failed"
      BY <3>4, <3>6 DEF Sane
    <3>8. CASE j < m
      <4>1. cmds[j].state \in Dead
        BY <1>1, <3>2, <3>4, <3>8 DEF UserStateInv, OrderInv, Ordered
      <4>2. Strayed(j)
        BY <3>7, <4>1 DEF Strayed, Dead
      <4> QED
        BY <2>1, <3>2, <3>4, <3>5, <3>7, <4>2
    <3>9. CASE j = m
      BY <3>1, <3>4, <3>7, <3>9
    <3> QED
      BY <3>5, <3>8, <3>9
  <2>4. ASSUME r \in Users
        PROVE  observed[r].password = desired[r].password
    <3>1. PICK a : a = observed[r]
      OBVIOUS
    <3>2. Latest(r) = 0 \/ cmds[Latest(r)].journal = "ok"
      BY <2>3
    <3> QED
      BY <1>1, <2>2, <2>4, <3>1, <3>2, ShownIsDesired
  <2> QED
    BY <2>3, <2>4
<1> QED
  BY <1>1, UserStateInvariant, PTL

\* A command that is neither waiting nor under way, and whose revision does not follow
\* the applied one, stays so.
LEMMA StateStays ==
  ASSUME UserStateInv, [UserStateNext]_userVars, NEW i \in Indices, ~Current(i),
         cmds[i].state \notin {"queued", "dispatched"}
  PROVE  cmds'[i].state \notin {"queued", "dispatched"}
<1>1. cmds \in Seq(UserCommands) /\ Len(cmds) \in Nat /\ i \in 1..Len(cmds)
      /\ cmds[i] \in UserCommands
  BY CommandFacts DEF UserStateInv, UserStateTypeOK, Indices
<1>2. CASE UNCHANGED cmds
  BY <1>2
<1>3. ASSUME NEW j \in Indices, j # i, NEW c, Set(j, c)
      PROVE  cmds'[i].state \notin {"queued", "dispatched"}
  <2>1. cmds'[i] = cmds[i]
    BY <1>1, <1>3 DEF Set
  <2> QED
    BY <2>1
<1>4. ASSUME NEW c, Set(i, c), c.state \notin {"queued", "dispatched"}
      PROVE  cmds'[i].state \notin {"queued", "dispatched"}
  <2>1. cmds'[i] = c
    BY <1>1, <1>4 DEF Set
  <2> QED
    BY <1>4, <2>1
<1>5. ASSUME NEW j \in Indices,
             \/ Claim(j) \/ Release(j) \/ ExpireQueued(j)
             \/ \E reported \in BOOLEAN : Deliver(j, reported)
      PROVE  cmds'[i].state \notin {"queued", "dispatched"}
  <2>1. j # i
    BY <1>5 DEF Claim, Release, ExpireQueued, Deliver
  <2> QED
    BY <1>3, <1>5, <2>1 DEF Claim, Release, ExpireQueued, Deliver
<1>6. ASSUME NEW x, x \in Receipts
      PROVE  Outcome(x) \notin {"queued", "dispatched"}
  BY DEF Outcome
<1>7. ASSUME NEW j \in Indices, \/ stage_user_file(j) \/ MutationFails(j)
                                \/ \E stored \in BOOLEAN : commit_desired_staging(j, stored)
      PROVE  cmds'[i].state \notin {"queued", "dispatched"}
  <2>1. PICK c : Set(j, c) /\ c.state = cmds[j].state
    <3>1. cmds[j] \in UserCommands
      BY CommandFacts
    <3>2. CASE stage_user_file(j)
      <4>1. \/ Set(j, [cmds[j] EXCEPT !.run = "staged"])
            \/ Set(j, [cmds[j] EXCEPT !.run = "none", !.receipt = "rejected"])
        BY <3>2 DEF stage_user_file
      <4>2. /\ [cmds[j] EXCEPT !.run = "staged"].state = cmds[j].state
            /\ [cmds[j] EXCEPT !.run = "none", !.receipt = "rejected"].state = cmds[j].state
        BY <3>1 DEF UserCommands
      <4> QED
        BY <4>1, <4>2
    <3>3. CASE MutationFails(j)
      <4>1. Set(j, [cmds[j] EXCEPT !.run = "none"])
        BY <3>3 DEF MutationFails
      <4>2. [cmds[j] EXCEPT !.run = "none"].state = cmds[j].state
        BY <3>1 DEF UserCommands
      <4> QED
        BY <4>1, <4>2
    <3>4. ASSUME NEW stored \in BOOLEAN, commit_desired_staging(j, stored)
          PROVE  \E c : Set(j, c) /\ c.state = cmds[j].state
      <4>1. PICK c : c = [cmds[j] EXCEPT !.run = "none", !.published = TRUE,
                                         !.receipt = IF stored THEN "ok" ELSE "none"]
        OBVIOUS
      <4>2. Set(j, c)
        BY <3>4, <4>1 DEF commit_desired_staging
      <4>3. c.state = cmds[j].state
        BY <3>1, <4>1 DEF UserCommands
      <4> QED
        BY <4>2, <4>3
    <3> QED
      BY <1>7, <3>2, <3>3, <3>4
  <2> QED
    BY <1>3, <1>4, <2>1
<1>8. ASSUME NEW c \in UserCommands, c.state \notin {"queued", "dispatched"}, NEW s,
             s \notin {"queued", "dispatched"}
      PROVE  /\ Unanswered(c).state \notin {"queued", "dispatched"}
             /\ Answered(c, s).state \notin {"queued", "dispatched"}
  <2>1. Unanswered(c) = c
    BY <1>8 DEF Unanswered
  <2>2. Answered(c, s) = c \/ Answered(c, s) = [c EXCEPT !.state = s, !.leased = FALSE]
    BY DEF Answered
  <2>3. [c EXCEPT !.state = s, !.leased = FALSE].state = s
    BY DEF UserCommands
  <2> QED
    BY <1>8, <2>1, <2>2, <2>3
<1>9. ASSUME NEW j \in Indices, NEW lost \in BOOLEAN, Record(j, lost)
      PROVE  cmds'[i].state \notin {"queued", "dispatched"}
  <2>1. PICK c : c = [cmds[j] EXCEPT !.journal = cmds[j].receipt]
    OBVIOUS
  <2>2. Set(j, IF lost THEN Unanswered(c) ELSE Answered(c, Outcome(c.receipt)))
    BY <1>9, <2>1 DEF Record
  <2>3. CASE j # i
    BY <1>3, <2>2, <2>3
  <2>4. CASE j = i
    <3>1. c \in UserCommands /\ c.state = cmds[i].state /\ c.receipt \in Receipts
      BY <1>1, <2>1, <2>4 DEF UserCommands
    <3>2. Outcome(c.receipt) \notin {"queued", "dispatched"}
      BY <1>6, <3>1
    <3>3. /\ Unanswered(c).state \notin {"queued", "dispatched"}
          /\ Answered(c, Outcome(c.receipt)).state \notin {"queued", "dispatched"}
      BY <1>8, <3>1, <3>2
    <3> QED
      BY <1>4, <2>2, <2>4, <3>3
  <2> QED
    BY <2>3, <2>4
<1>10. ASSUME NEW j \in Indices, NEW lost \in BOOLEAN, AgentInterrupted(j, lost)
       PROVE  cmds'[i].state \notin {"queued", "dispatched"}
  <2>1. Set(j, IF lost THEN Unanswered(cmds[j]) ELSE Answered(cmds[j], "unknown"))
    BY <1>10 DEF AgentInterrupted
  <2>2. CASE j # i
    BY <1>3, <2>1, <2>2
  <2>3. CASE j = i
    <3>1. /\ Unanswered(cmds[i]).state \notin {"queued", "dispatched"}
          /\ Answered(cmds[i], "unknown").state \notin {"queued", "dispatched"}
      BY <1>1, <1>8
    <3> QED
      BY <1>4, <2>1, <2>3, <3>1
  <2> QED
    BY <2>2, <2>3
<1>11. ASSUME NEW j \in Indices, Reconcile(j)
       PROVE  cmds'[i].state \notin {"queued", "dispatched"}
  <2>1. CASE Set(j, [cmds[j] EXCEPT !.state = Outcome(cmds[j].journal)])
    <3>1. PICK c : c = [cmds[j] EXCEPT !.state = Outcome(cmds[j].journal)]
      OBVIOUS
    <3>2. cmds[j] \in UserCommands /\ cmds[j].journal \in Receipts
      BY CommandFacts DEF UserCommands
    <3>3. c.state = Outcome(cmds[j].journal)
      BY <3>1, <3>2 DEF UserCommands
    <3> QED
      BY <1>3, <1>4, <1>6, <2>1, <3>1, <3>2, <3>3
  <2>2. CASE Record(j, FALSE)
    BY <1>9, <2>2
  <2>3. CASE Current(j) /\ Set(j, [cmds[j] EXCEPT !.state = "dispatched", !.run = "waiting",
                                                  !.taken = TRUE, !.retried = TRUE])
    BY <1>3, <2>3
  <2> QED
    BY <1>11, <2>1, <2>2, <2>3 DEF Reconcile
<1>12. CASE PrivdCrash
  <2>1. cmds'[i] = [cmds[i] EXCEPT !.run = "none"]
    BY <1>1, <1>12 DEF PrivdCrash
  <2> QED
    BY <1>1, <2>1 DEF UserCommands
<1>13. ASSUME NEW r \in Resources, NEW kind \in UserKinds \cup {"group_apply"},
              NEW members \in Members \cup {{}}, Mutate(r, kind, members)
       PROVE  cmds'[i].state \notin {"queued", "dispatched"}
  <2>1. PICK rev, co, new : Makes(r, kind, members, rev, co, new)
    BY <1>13, MutateMakes
  <2>2. cmds'[i] = cmds[i] \/ cmds'[i] = [cmds[i] EXCEPT !.state = "superseded"]
    BY <2>1 DEF Makes, Made
  <2>3. [cmds[i] EXCEPT !.state = "superseded"].state = "superseded"
    BY <1>1 DEF UserCommands
  <2> QED
    BY <2>2, <2>3
<1>14. CASE \/ cleanup_stale_user_staging \/ Heartbeat
            \/ (\E list \in {"users", "groups"} : execute_read(list))
            \/ (\E failed \in BOOLEAN : SnapshotIncomplete(failed))
            \/ (\E unread \in SUBSET applied_revisions, place \in 0..Len(pending),
                   stale \in BOOLEAN : send_telemetry(unread, place, stale))
            \/ (\E k \in 1..Len(pending) : ingestTx(k))
            \/ UNCHANGED userVars
  <2>1. UNCHANGED cmds
    BY <1>14 DEF cleanup_stale_user_staging, Heartbeat, execute_read, SnapshotIncomplete,
       send_telemetry, ingestTx, userVars
  <2> QED
    BY <1>2, <2>1
<1>15. ASSUME NEW j \in Indices, NEW lost \in BOOLEAN, CommandEnds(j, lost)
       PROVE  cmds'[i].state \notin {"queued", "dispatched"}
  BY <1>9, <1>15 DEF CommandEnds
<1> QED
  BY <1>5, <1>7, <1>10, <1>11, <1>12, <1>13, <1>14, <1>15 DEF UserStateNext, Indices

\* The row of a resource changes only with its last command.
LEMMA DesiredStays ==
  ASSUME UserStateInv, [UserStateNext]_userVars, NEW r \in Resources, Latest(r)' = Latest(r)
  PROVE  desired'[r] = desired[r]
<1>1. CASE UNCHANGED desired
  BY <1>1
<1>2. ASSUME NEW x \in Resources, NEW kind \in UserKinds \cup {"group_apply"},
             NEW members \in Members \cup {{}}, Mutate(x, kind, members)
      PROVE  desired'[r] = desired[r]
  <2>1. PICK rev, co, new : Makes(x, kind, members, rev, co, new)
    BY <1>2, MutateMakes
  <2>2. CASE x # r
    BY <2>1, <2>2 DEF Makes, WriteDesired, UserStateInv, UserStateTypeOK
  <2>3. CASE x = r
    <3>1. /\ Len(cmds) \in Nat /\ Len(cmds') = Len(cmds) + 1
          /\ cmds'[Len(cmds) + 1] = new /\ new.name = r
      BY <2>1, <2>3, Lengths DEF Makes, Made, UserStateInv
    <3>2. Len(cmds) + 1 \in CommandsOf(r)'
      BY <3>1 DEF CommandsOf
    <3>3. PICK S : S = CommandsOf(r)'
      OBVIOUS
    <3>4. S \subseteq 1..Len(cmds') /\ Len(cmds') \in Nat /\ Len(cmds) + 1 \in S
      BY <3>1, <3>2, <3>3 DEF CommandsOf
    <3>5. PICK q \in Nat : IsLast(q, S)
      BY <3>4, SomeLast
    <3>6. q \in S /\ \A j \in S : j <= q
      BY <3>4, <3>5 DEF IsLast
    <3>7. Latest(r)' = CHOOSE y \in S : \A j \in S : j <= y
      BY <3>3, <3>4 DEF Latest
    <3>8. Len(cmds) + 1 <= Latest(r)'
      BY <3>4, <3>6, <3>7
    <3>9. Latest(r) \in 0..Len(cmds)
      BY LatestIsLast DEF UserStateInv
    <3> QED
      BY <3>1, <3>8, <3>9
  <2> QED
    BY <2>2, <2>3
<1> QED
  BY <1>1, <1>2 DEF UserStateNext, userVars, Claim, Release, ExpireQueued, Deliver,
     stage_user_file, MutationFails, commit_desired_staging, CommandEnds, AgentInterrupted,
     Reconcile, PrivdCrash, cleanup_stale_user_staging, Heartbeat, execute_read,
     SnapshotIncomplete, send_telemetry, ingestTx

\* An observation of the desired revision is only replaced by another one that says
\* the same, unless the batch misleads.
LEMMA ObservedStays ==
  ASSUME UserStateInv, [UserStateNext]_userVars, NEW r \in Resources,
         convergence(r) = "converged", ~Misleading(r)
  PROVE  /\ observed'[r].known /\ observed'[r].revision = observed[r].revision
         /\ r \in Groups => observed'[r].members = observed[r].members
         /\ r \notin Groups => observed'[r].enabled = observed[r].enabled
<1>0. /\ desired[r].revision # 0 /\ observed[r].known
      /\ observed[r].revision = desired[r].revision
      /\ applied[r] = desired[r].revision /\ Shows(observed[r], r, desired[r].revision)
  BY ConvergedIs
<1>1. CASE UNCHANGED observed
  BY <1>0, <1>1
<1>2. CASE \E i \in 1..Len(pending) : ingestTx(i)
  <2>1. PICK i \in 1..Len(pending) : ingestTx(i)
    BY <1>2
  <2>2. CASE pending[i].stale
    BY <1>0, <2>1, <2>2 DEF ingestTx
  <2>3. CASE ~pending[i].stale
    <3>1. observed' = pending[i].report
      BY <2>1, <2>3 DEF ingestTx
    <3>2. PICK a, b : a = observed[r] /\ b = pending[i].report[r]
      OBVIOUS
    <3>3. a \in Readings /\ b \in Readings /\ desired[r] \in Desires /\ applied[r] \in Nat
      BY <3>2, ReportFacts DEF Reports, UserStateInv, UserStateTypeOK
    <3>4. /\ b.revision \in Nat /\ a.revision \in Nat /\ desired[r].revision \in Nat
          /\ a.enabled \in BOOLEAN /\ b.enabled \in BOOLEAN
      BY <3>3 DEF Readings, Desires
    <3>5. r \notin pending[i].unread /\ Fresh(pending[i])
      BY <2>3, <3>1 DEF Misleading, Fresh
    <3>6. Newer(pending[i], observed)
      BY <3>5 DEF UserStateInv, TelemetryInv
    <3>7. b.known /\ a.revision <= b.revision
      BY <1>0, <3>2, <3>4, <3>5, <3>6 DEF Newer
    <3>8. True(b, r)
      BY <3>2 DEF UserStateInv, ReportInv
    <3>9. b.revision <= applied[r] /\ Shows(b, r, b.revision)
      BY <3>7, <3>8 DEF True
    <3>10. b.revision = a.revision /\ b.revision = desired[r].revision
      BY <1>0, <3>2, <3>3, <3>4, <3>7, <3>9
    <3>11. Shows(a, r, desired[r].revision) /\ Shows(b, r, desired[r].revision)
      BY <1>0, <3>2, <3>9, <3>10
    <3>12. /\ r \in Groups => a.members = b.members
           /\ r \notin Groups => (a.enabled <=> b.enabled)
      BY <1>0, <3>11, ShownIsSame
    <3> QED
      BY <3>1, <3>2, <3>4, <3>7, <3>10, <3>12
  <2> QED
    BY <2>2, <2>3
<1> QED
  BY <1>1, <1>2 DEF UserStateNext, userVars, Mutate, Claim, Release, ExpireQueued, Deliver,
     stage_user_file, MutationFails, commit_desired_staging, CommandEnds, AgentInterrupted,
     Reconcile, PrivdCrash, cleanup_stale_user_staging, Heartbeat, execute_read,
     SnapshotIncomplete, send_telemetry

\* A converged resource stays converged until it is changed, whatever telemetry is
\* late, reordered or dropped and whatever else is changed, unless a batch is
\* ingested that could not name the revision or that the node's clock put after a
\* later one (UpsertSnapshot, build_telemetry, convergence).
THEOREM UserStateConvergedIsStable == UserStateSpec => ConvergedIsStable
<1>1. ASSUME UserStateInv, UserStateInv', [UserStateNext]_userVars
      PROVE  [\A r \in Resources : convergence(r) = "converged" =>
                convergence(r)' = "converged" \/ Latest(r)' # Latest(r) \/ Misleading(r)]_userVars
  <2>1. SUFFICES ASSUME NEW r \in Resources, convergence(r) = "converged",
                        Latest(r)' = Latest(r), ~Misleading(r)
                 PROVE  convergence(r)' = "converged"
    OBVIOUS
  <2>2. /\ desired[r].revision # 0 /\ observed[r].known
        /\ observed[r].revision = desired[r].revision
        /\ IF r \in Groups THEN observed[r].members = desired[r].members
           ELSE observed[r].enabled = desired[r].enabled
        /\ Latest(r) = 0 \/ cmds[Latest(r)].state \notin {"queued", "dispatched"}
        /\ applied[r] = desired[r].revision
    BY <1>1, <2>1, ConvergedIs
  <2>3. desired'[r] = desired[r]
    BY <1>1, <2>1, DesiredStays
  <2>4. /\ observed'[r].known /\ observed'[r].revision = observed[r].revision
        /\ r \in Groups => observed'[r].members = observed[r].members
        /\ r \notin Groups => observed'[r].enabled = observed[r].enabled
    BY <1>1, <2>1, ObservedStays
  <2>5. ASSUME Latest(r) # 0
        PROVE  cmds'[Latest(r)].state \notin {"queued", "dispatched"}
    <3>1. PICK m : m = Latest(r)
      OBVIOUS
    <3>2. m \in Indices /\ cmds[m].name = r /\ cmds[m].revision = desired[r].revision
      BY <1>1, <2>5, <3>1, LatestFacts
    <3>3. desired[r].revision \in Nat
      BY <1>1 DEF UserStateInv, UserStateTypeOK, Desires
    <3>4. ~Current(m)
      BY <2>2, <3>2, <3>3 DEF Current
    <3> QED
      BY <1>1, <2>2, <2>5, <3>1, <3>2, <3>4, StateStays
  <2>6. ~(Latest(r)' # 0 /\ cmds'[Latest(r)'].state \in {"queued", "dispatched"})
    BY <2>1, <2>5
  <2> QED
    BY <2>2, <2>3, <2>4, <2>6 DEF convergence
<1> QED
  BY <1>1, UserStateInvariant, PTL DEF UserStateSpec, ConvergedIsStable

=============================================================================
