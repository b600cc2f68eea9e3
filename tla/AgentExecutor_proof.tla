------------------------ MODULE AgentExecutor_proof -------------------------
(***************************************************************************)
(* What privd promises, and what the Agent and privd promise together,     *)
(* proved for every set of commands, users, concurrent requests and privd  *)
(* clients.                                                                *)
(*                                                                         *)
(* The Agent only ever takes steps of privd that PrivdEffects allows, so   *)
(* every theorem about PrivdEffects holds on a node.  The journal is       *)
(* then tied to it: a response is read by the call that asked for it, and  *)
(* a command is being executed only while its record is running.  The      *)
(* second half follows a command through its executions: a rejection is    *)
(* final, a retry starts only what nobody is executing, and a mutation of  *)
(* a user is executed on top of the revision before it.                    *)
(***************************************************************************)
EXTENDS AgentExecutor, TLAPS

(***************************************************************************)
(* PrivdEffects                                                            *)
(***************************************************************************)

Working == {"run", "performed", "finish"}

\* Which requests exist: one holder of user_file_lock, whose view of the file
\* is current until it publishes; host effects and user mutations keep to
\* their own stages.
SlotsInv ==
  /\ \A s \in Slots :
       /\ slot[s].stage # "idle" => slot[s].cmd \in Commands
       /\ slot[s].stage \in Holding \cup {"observe"} => ~Fixed(slot[s].cmd)
       /\ slot[s].stage = "performed" => Fixed(slot[s].cmd)
       /\ slot[s].stage \in {"locked", "prepared"} => slot[s].before = file
       /\ slot[s].stage = "finish" => slot[s].reply \in Attested
       /\ slot[s].stage \in Holding \cup {"idle", "run", "performed", "observe"}
            => slot[s].reply = "none"
  /\ \A s, t \in Slots :
       slot[s].stage \in Holding /\ slot[t].stage \in Holding => s = t

\* A fixed host effect is reserved by its row, and only one request works on it.
FixedInv ==
  /\ \A s \in Slots : slot[s].stage \in Working /\ Fixed(slot[s].cmd) =>
       /\ authorized[slot[s].cmd].state = "prepared"
       /\ slot[s].stage = "run" => performed[slot[s].cmd] = 0
       /\ slot[s].stage = "performed" => performed[slot[s].cmd] = 1
  /\ \A s, t \in Slots :
       /\ slot[s].stage \in Working /\ slot[t].stage \in Working
       /\ Fixed(slot[s].cmd) /\ slot[s].cmd = slot[t].cmd
       => s = t
  /\ \A c \in Commands : Fixed(c) =>
       /\ performed[c] <= 1
       /\ performed[c] = 1 => authorized[c].state # "none" \/ c \in expired

\* A row of desired_effects tells whether its command reached the file.
RowsInv ==
  \A k \in Keys : desired[k].state # "none" =>
    LET r == desired[k] IN
    /\ r.cmd \in Commands /\ ~Fixed(r.cmd) /\ Key(r.cmd) = k
    /\ r.state = "applied" => performed[r.cmd] = 1
    /\ r.state = "prepared" =>
         /\ r.after = After(r.before, r.cmd)
         /\ r.before[User[r.cmd]] # r.cmd
         /\ \/ performed[r.cmd] = 0 /\ file = r.before
            \/ performed[r.cmd] = 1 /\ file = r.after

\* A command that reached the file is the one its row names, or an older one.
PublishedInv ==
  /\ \A c \in Commands : ~Fixed(c) =>
       /\ performed[c] <= 1
       /\ performed[c] = 1 =>
            /\ desired[Key(c)].state # "none"
            /\ desired[Key(c)].cmd # c => Revision[c] < Revision[desired[Key(c)].cmd]
  /\ \A u \in Users : file[u] \in Commands => performed[file[u]] = 1

\* While a request is between prepare and mark_applied, its row is the only
\* unresolved one.
HolderInv ==
  \A s \in Slots : slot[s].stage \in {"prepared", "published"} =>
    LET c == slot[s].cmd IN
    /\ desired[Key(c)].state = "prepared" /\ desired[Key(c)].cmd = c
    /\ slot[s].stage = "prepared" => performed[c] = 0
    /\ slot[s].stage = "published" => performed[c] = 1
    /\ \A k \in Keys : desired[k].state = "prepared" => k = Key(c)

PrivdInv ==
  /\ PrivdTypeOK
  /\ SlotsInv
  /\ FixedInv
  /\ RowsInv
  /\ PublishedInv
  /\ HolderInv
  /\ AttestedSuccessIsReal

-----------------------------------------------------------------------------

\* Files, rows and requests are of their types whatever is written into them.
LEMMA EmptyFileType == EmptyFile \in Files
BY DEF EmptyFile, Files

\* The staged file is a file.
LEMMA AfterType ==
  ASSUME NEW f \in Files, NEW c \in Commands
  PROVE  After(f, c) \in Files
BY ConstantsAssumption DEF After, Files

\* The initial state satisfies the inductive invariant.
LEMMA InitInv == PrivdInit => PrivdInv
<1> SUFFICES ASSUME PrivdInit PROVE PrivdInv
  OBVIOUS
<1>1. PrivdTypeOK
  <2>1. file \in Files
    BY DEF PrivdInit, Files
  <2> QED
    BY <2>1, EmptyFileType DEF PrivdInit, PrivdTypeOK, NoAuthorized, NoDesired, IdleSlot,
       AuthorizedRows, DesiredRows, SlotStates, Modes, Stages, Replies
<1>2. SlotsInv /\ FixedInv /\ HolderInv
  BY DEF PrivdInit, SlotsInv, FixedInv, HolderInv, IdleSlot, Holding, Working
<1>3. RowsInv /\ PublishedInv
  BY ConstantsAssumption DEF PrivdInit, RowsInv, PublishedInv, NoDesired
<1>4. AttestedSuccessIsReal
  BY DEF PrivdInit, AttestedSuccessIsReal, NoAuthorized, IdleSlot
<1> QED
  BY <1>1, <1>2, <1>3, <1>4 DEF PrivdInv

-----------------------------------------------------------------------------

\* A step that rewrites one request and nothing durable keeps the invariant,
\* provided the request does not start working on an effect.
LEMMA SlotOnlyInv ==
  ASSUME PrivdInv, NEW s \in Slots, NEW r \in SlotStates,
         slot' = [slot EXCEPT ![s] = r],
         UNCHANGED <<authorized, desired, file, expired, performed>>,
         r.stage # "idle" => r.cmd \in Commands,
         r.stage \in Holding =>
           r.stage = "locked" /\ r.before = file /\ UserFileUnlocked,
         r.stage \in Holding \cup {"observe"} => ~Fixed(r.cmd),
         r.stage \in Working =>
           /\ r.stage = "finish" /\ r.reply \in Attested
           /\ Fixed(r.cmd) => slot[s].stage \in Working /\ slot[s].cmd = r.cmd,
         r.stage \in Holding \cup {"idle", "observe"} => r.reply = "none",
         r.reply = "ok" => performed[r.cmd] = 1
  PROVE  PrivdInv'
<1> USE DEF PrivdInv
<1>0. slot \in [Slots -> SlotStates]
  BY DEF PrivdTypeOK
<1>1. slot' \in [Slots -> SlotStates] /\ slot'[s] = r
      /\ \A t \in Slots : t # s => slot'[t] = slot[t]
  BY <1>0
<1>2. PrivdTypeOK'
  BY <1>1 DEF PrivdTypeOK
<1>3. SlotsInv'
  BY <1>1 DEF SlotsInv, UserFileUnlocked, Holding, Working, Fixed
<1>4. FixedInv'
  BY <1>1 DEF FixedInv, Working, Fixed
<1>5. RowsInv'
  BY DEF RowsInv, Fixed, Key, Keys, After
<1>6. PublishedInv'
  BY DEF PublishedInv, Fixed, Key
<1>7. HolderInv'
  BY <1>1 DEF HolderInv, Holding, Key
<1>8. AttestedSuccessIsReal'
  BY <1>1 DEF AttestedSuccessIsReal
<1> QED
  BY <1>2, <1>3, <1>4, <1>5, <1>6, <1>7, <1>8

\* An answer without a receipt, or one that repeats the stored receipt.
LEMMA AnswerInv ==
  ASSUME PrivdInv, NEW s \in Slots, NEW c \in Commands, NEW reply \in Replies,
         Answer(s, c, reply), reply = "ok" => performed[c] = 1,
         UNCHANGED <<authorized, desired, file, expired, performed>>
  PROVE  PrivdInv'
<1> DEFINE r == [stage |-> "replied", cmd |-> c, mode |-> "execute",
                 before |-> EmptyFile, reply |-> reply]
<1>1. r \in SlotStates
  BY EmptyFileType DEF SlotStates, Stages, Modes
<1>2. slot' = [slot EXCEPT ![s] = r]
  BY DEF Answer, Settle
<1> HIDE DEF r
<1>3. r.stage = "replied" /\ r.cmd = c /\ r.reply = reply
  BY DEF r
<1> QED
  BY <1>1, <1>2, <1>3, SlotOnlyInv DEF Holding, Working

\* The end of an effect: what is to be attested is known.
LEMMA FinishInv ==
  ASSUME PrivdInv, NEW s \in Slots, NEW result \in Attested, Finish(s, result),
         slot[s].stage \in Working \cup Holding,
         result = "ok" => performed[slot[s].cmd] = 1,
         UNCHANGED <<authorized, desired, file, expired, performed>>
  PROVE  PrivdInv'
<1> DEFINE r == [stage |-> "finish", cmd |-> slot[s].cmd, mode |-> slot[s].mode,
                 before |-> EmptyFile, reply |-> result]
<1>0. slot[s] \in SlotStates /\ slot[s].cmd \in Commands
      /\ (slot[s].stage \in Holding => ~Fixed(slot[s].cmd))
  BY DEF PrivdInv, PrivdTypeOK, SlotsInv, Working, Holding
<1>1. r \in SlotStates
  BY <1>0, EmptyFileType DEF SlotStates, Stages, Replies
<1>2. slot' = [slot EXCEPT ![s] = r]
  BY DEF Finish, Settle
<1> HIDE DEF r
<1>3. r.stage = "finish" /\ r.cmd = slot[s].cmd /\ r.reply = result
  BY DEF r
<1> QED
  BY <1>0, <1>1, <1>2, <1>3, SlotOnlyInv DEF Holding, Working, Attested

-----------------------------------------------------------------------------

\* Reserving a command: the row is written before any request works on it.
LEMMA ReserveInv ==
  ASSUME PrivdInv, NEW s \in Slots, NEW c \in Commands, NEW mode \in {"execute", "retry"},
         slot[s].stage = "idle", Start(s, c, mode, "run"),
         NEW rows \in [Commands -> AuthorizedRows], authorized' = rows,
         rows[c].state = "prepared", rows[c].response = "ok" => performed[c] = 1,
         Fixed(c) => authorized[c].state = "none" /\ c \notin expired,
         \A d \in Commands : d # c =>
           \/ rows[d] = authorized[d]
           \/ authorized[d].state = "applied" /\ d \in expired /\ rows[d] = NoAuthorized,
         UNCHANGED <<desired, file, expired, performed>>
  PROVE  PrivdInv'
<1> USE DEF PrivdInv
<1>0. slot \in [Slots -> SlotStates]
  BY DEF PrivdTypeOK
<1>1. /\ slot' \in [Slots -> SlotStates]
      /\ slot'[s].stage = "run" /\ slot'[s].cmd = c /\ slot'[s].reply = "none"
      /\ \A t \in Slots : t # s => slot'[t] = slot[t]
  BY <1>0, EmptyFileType DEF Start, Settle, SlotStates, Stages, Modes, Replies
<1>2. PrivdTypeOK'
  BY <1>1 DEF PrivdTypeOK
<1>3. SlotsInv'
  BY <1>1 DEF SlotsInv, Holding, Fixed
<1>4. FixedInv'
  <2>1. Fixed(c) => performed[c] = 0
    BY DEF FixedInv, PrivdTypeOK
  <2>2. \A t \in Slots : slot[t].stage \in Working /\ Fixed(slot[t].cmd) => slot[t].cmd # c
    BY DEF FixedInv
  <2>3. \A t \in Slots : slot[t].stage \in Working => slot[t].cmd \in Commands
    BY DEF SlotsInv, Working
  <2>4. \A t \in Slots : slot[t].stage \in Working /\ Fixed(slot[t].cmd)
          => rows[slot[t].cmd] = authorized[slot[t].cmd]
    BY <2>2, <2>3 DEF FixedInv
  <2> QED
    BY <1>1, <2>1, <2>2, <2>4 DEF FixedInv, Working, Fixed
<1>5. RowsInv' /\ PublishedInv'
  BY DEF RowsInv, PublishedInv, Fixed, Key, Keys, After
<1>6. HolderInv'
  BY <1>1 DEF HolderInv, Key
<1>7. AttestedSuccessIsReal'
  BY <1>1 DEF AttestedSuccessIsReal, NoAuthorized
<1> QED
  BY <1>2, <1>3, <1>4, <1>5, <1>6, <1>7

\* Pruning forgets only applied rows, and leaves every other row as it is.
LEMMA PruneRows ==
  ASSUME authorized \in [Commands -> AuthorizedRows], NEW c \in Commands,
         NEW row \in AuthorizedRows,
         NEW rows, rows = [prune_expired_authorized_effects(authorized) EXCEPT ![c] = row]
  PROVE  /\ rows \in [Commands -> AuthorizedRows] /\ rows[c] = row
         /\ \A d \in Commands : d # c =>
              \/ rows[d] = authorized[d]
              \/ authorized[d].state = "applied" /\ d \in expired /\ rows[d] = NoAuthorized
<1>1. NoAuthorized \in AuthorizedRows
  BY DEF NoAuthorized, AuthorizedRows, Modes
<1> QED
  BY <1>1 DEF prune_expired_authorized_effects

\* prepare_authorized inserts a row.
LEMMA NewInv ==
  ASSUME PrivdInv, NEW s \in Slots, NEW c \in Commands, NEW mode \in Modes,
         prepare_authorized_new(s, c, mode)
  PROVE  PrivdInv'
<1> DEFINE row == [state |-> "prepared", mode |-> mode, response |-> "none"]
<1>1. mode \in {"execute", "retry"}
  BY DEF prepare_authorized_new
<1>2. row \in AuthorizedRows
  BY <1>1 DEF AuthorizedRows, Modes
<1>3. authorized \in [Commands -> AuthorizedRows]
  BY DEF PrivdInv, PrivdTypeOK
<1>4. authorized' = [prune_expired_authorized_effects(authorized) EXCEPT ![c] = row]
  BY DEF prepare_authorized_new
<1>5. row.state = "prepared" /\ row.response = "none"
  OBVIOUS
<1>6. slot[s].stage = "idle" /\ c \notin expired /\ authorized[c].state = "none"
      /\ Start(s, c, mode, "run") /\ UNCHANGED <<desired, file, expired, performed>>
  BY DEF prepare_authorized_new
<1> HIDE DEF row
<1> QED
  BY <1>1, <1>2, <1>3, <1>4, <1>5, <1>6, PruneRows, ReserveInv

\* prepare_authorized finds a row.
LEMMA ExistingInv ==
  ASSUME PrivdInv, NEW s \in Slots, NEW c \in Commands, NEW mode \in Modes,
         prepare_authorized_existing(s, c, mode)
  PROVE  PrivdInv'
<1>0. authorized \in [Commands -> AuthorizedRows] /\ authorized[c] \in AuthorizedRows
  BY DEF PrivdInv, PrivdTypeOK
<1>1. CASE Answer(s, c, authorized[c].response) /\ UNCHANGED authorized
  <2>1. authorized[c].response \in Replies
    BY <1>0 DEF AuthorizedRows, Replies, Attested
  <2> QED
    BY <1>1, <2>1, AnswerInv DEF prepare_authorized_existing, PrivdInv, AttestedSuccessIsReal
<1>2. CASE Answer(s, c, "unattested") /\ UNCHANGED authorized
  BY <1>2, AnswerInv DEF prepare_authorized_existing, Replies
<1>3. CASE /\ authorized[c].state = "prepared" /\ mode = "retry"
           /\ authorized' = [authorized EXCEPT ![c].mode = "retry"]
           /\ Start(s, c, mode, "run")
  <2> DEFINE rows == [authorized EXCEPT ![c].mode = "retry"]
  <2>1. rows \in [Commands -> AuthorizedRows] /\ rows[c].state = "prepared"
        /\ \A d \in Commands : d # c => rows[d] = authorized[d]
    BY <1>0, <1>3 DEF AuthorizedRows, Modes
  <2>2. rows[c].response = "ok" => performed[c] = 1
    BY <1>0 DEF AuthorizedRows, PrivdInv, AttestedSuccessIsReal
  <2>3. ~Fixed(c) /\ slot[s].stage = "idle" /\ UNCHANGED <<desired, file, expired, performed>>
    BY <1>3 DEF prepare_authorized_existing
  <2>4. authorized' = rows
    BY <1>3
  <2> HIDE DEF rows
  <2> QED
    BY <1>3, <2>4, <2>1, <2>2, <2>3, ReserveInv
<1> QED
  BY <1>1, <1>2, <1>3 DEF prepare_authorized_existing

-----------------------------------------------------------------------------

\* The fixed host effect itself: its request is the only one working on it.
LEMMA FixedEffectInv ==
  ASSUME PrivdInv, NEW s \in Slots, FixedEffect(s)
  PROVE  PrivdInv'
<1> USE DEF PrivdInv
<1> DEFINE c == slot[s].cmd
<1>0. c \in Commands /\ Fixed(c) /\ slot[s].stage = "run" /\ performed[c] = 0
  BY DEF FixedEffect, SlotsInv, FixedInv, Working
<1>1. /\ performed' \in [Commands -> Nat] /\ performed'[c] = 1
      /\ \A d \in Commands : d # c => performed'[d] = performed[d]
  BY <1>0 DEF FixedEffect, PrivdTypeOK
<1>2. /\ slot' \in [Slots -> SlotStates] /\ slot'[s].stage = "performed"
      /\ slot'[s].cmd = c /\ slot'[s].reply = slot[s].reply
      /\ \A t \in Slots : t # s => slot'[t] = slot[t]
  BY DEF FixedEffect, Stage, PrivdTypeOK, SlotStates, Stages
<1>3. UNCHANGED <<authorized, desired, file, expired>>
  BY DEF FixedEffect
<1> HIDE DEF c
<1>4. PrivdTypeOK'
  BY <1>1, <1>2, <1>3 DEF PrivdTypeOK
<1>5. SlotsInv'
  BY <1>0, <1>2, <1>3 DEF SlotsInv, Holding, Fixed, c
<1>6. FixedInv'
  <2>1. \A t \in Slots : t # s /\ slot[t].stage \in Working => slot[t].cmd # c
    BY <1>0 DEF FixedInv, Working, c
  <2>2. authorized[c].state = "prepared"
    BY <1>0 DEF FixedInv, Working, c
  <2>3. \A t \in Slots : slot[t].stage \in Working => slot[t].cmd \in Commands
    BY DEF SlotsInv, Working
  <2> QED
    BY <1>0, <1>1, <1>2, <1>3, <2>1, <2>2, <2>3 DEF FixedInv, Working, Fixed
<1>7. \A d \in Commands : ~Fixed(d) => performed'[d] = performed[d]
  BY <1>0, <1>1
<1>8. RowsInv'
  BY <1>3, <1>7 DEF RowsInv, Fixed, Key, Keys, After
<1>9. PublishedInv'
  BY <1>0, <1>1, <1>3, <1>7 DEF PublishedInv, Fixed, Key
<1>10. HolderInv'
  BY <1>0, <1>2, <1>3, <1>7 DEF HolderInv, SlotsInv, Holding, Key, Fixed
<1>11. AttestedSuccessIsReal'
  <2>1. \A d \in Commands : performed[d] = 1 => performed'[d] = 1
    BY <1>0, <1>1
  <2>2. \A t \in Slots : slot[t].reply = "ok" => slot[t].cmd \in Commands
    BY DEF SlotsInv
  <2> QED
    BY <1>0, <1>2, <1>3, <2>1, <2>2 DEF AttestedSuccessIsReal, SlotsInv
<1> QED
  BY <1>4, <1>5, <1>6, <1>8, <1>9, <1>10, <1>11

\* A step that only promotes rows whose transition is the current file, while
\* nobody is between prepare and mark_applied.
LEMMA PromoteInv ==
  ASSUME PrivdInv, NEW rows, rows \in [Keys -> DesiredRows],
         \A k \in Keys :
           \/ rows[k] = desired[k]
           \/ /\ desired[k].state # "none" /\ performed[desired[k].cmd] = 1
              /\ rows[k] = [desired[k] EXCEPT !.state = "applied"]
  PROVE  /\ \A k \in Keys : rows[k].state # "none" =>
              LET r == rows[k] IN
              /\ r.cmd \in Commands /\ ~Fixed(r.cmd) /\ Key(r.cmd) = k
              /\ r.state = "applied" => performed[r.cmd] = 1
              /\ r.state = "prepared" => r = desired[k]
         /\ \A k \in Keys : (rows[k].state = "none") <=> (desired[k].state = "none")
         /\ \A k \in Keys : rows[k].cmd = desired[k].cmd
<1>1. \A k \in Keys : desired[k] \in DesiredRows
  BY DEF PrivdInv, PrivdTypeOK
<1> QED
  BY <1>1 DEF PrivdInv, RowsInv, DesiredRows

\* A prepared row whose after-state is the file did reach the file.
LEMMA PublishedRow ==
  ASSUME PrivdInv
  PROVE  \A k \in Keys :
           desired[k].state = "prepared" /\ desired[k].after = file
             => performed[desired[k].cmd] = 1
<1> SUFFICES ASSUME NEW k \in Keys, desired[k].state = "prepared", desired[k].after = file,
                    performed[desired[k].cmd] # 1
             PROVE  FALSE
  OBVIOUS
<1> DEFINE c == desired[k].cmd
           b == desired[k].before
<1>1. /\ c \in Commands /\ b[User[c]] # c
      /\ desired[k].after = After(b, c) /\ file = b
  BY DEF PrivdInv, RowsInv
<1>2. b \in Files /\ User[c] \in Users
  BY <1>1, ConstantsAssumption DEF PrivdInv, PrivdTypeOK
<1>3. After(b, c)[User[c]] = c
  BY <1>2 DEF After, Files
<1> QED
  BY <1>1, <1>3

\* Promotion together with the end of the request that promotes.
LEMMA PromoteStepInv ==
  ASSUME PrivdInv, NEW s \in Slots, NEW r \in SlotStates,
         slot' = [slot EXCEPT ![s] = r],
         r.stage \in {"finish", "replied"}, r.cmd \in Commands, ~Fixed(r.cmd),
         r.stage = "finish" => r.reply \in Attested,
         r.reply = "ok" => performed[r.cmd] = 1,
         \A t \in Slots : slot[t].stage \notin {"prepared", "published"},
         NEW rows, rows \in [Keys -> DesiredRows], desired' = rows,
         \A k \in Keys :
           \/ rows[k] = desired[k]
           \/ /\ desired[k].state # "none" /\ performed[desired[k].cmd] = 1
              /\ rows[k] = [desired[k] EXCEPT !.state = "applied"],
         UNCHANGED <<authorized, file, expired, performed>>
  PROVE  PrivdInv'
<1> USE DEF PrivdInv
<1>1. slot' \in [Slots -> SlotStates] /\ slot'[s] = r
      /\ \A t \in Slots : t # s => slot'[t] = slot[t]
  BY DEF PrivdTypeOK
<1>2. PrivdTypeOK'
  BY <1>1 DEF PrivdTypeOK
<1>3. SlotsInv'
  BY <1>1 DEF SlotsInv, Holding, Fixed
<1>4. FixedInv'
  BY <1>1 DEF FixedInv, Working, Fixed
<1>5. /\ \A k \in Keys : rows[k].state # "none" =>
           LET x == rows[k] IN
           /\ x.cmd \in Commands /\ ~Fixed(x.cmd) /\ Key(x.cmd) = k
           /\ x.state = "applied" => performed[x.cmd] = 1
           /\ x.state = "prepared" => x = desired[k]
      /\ \A k \in Keys : (rows[k].state = "none") <=> (desired[k].state = "none")
      /\ \A k \in Keys : rows[k].cmd = desired[k].cmd
  BY PromoteInv
<1>6. RowsInv'
  <2> SUFFICES ASSUME NEW k \in Keys, rows[k].state # "none"
               PROVE  LET x == rows[k] IN
                      /\ x.cmd \in Commands /\ ~Fixed(x.cmd) /\ Key(x.cmd) = k
                      /\ x.state = "applied" => performed[x.cmd] = 1
                      /\ x.state = "prepared" =>
                           /\ x.after = After(x.before, x.cmd)
                           /\ x.before[User[x.cmd]] # x.cmd
                           /\ \/ performed[x.cmd] = 0 /\ file = x.before
                              \/ performed[x.cmd] = 1 /\ file = x.after
    BY DEF RowsInv, Fixed, Key, After
  <2>1. CASE rows[k].state = "prepared"
    BY <1>5, <2>1 DEF RowsInv
  <2>2. CASE rows[k].state # "prepared"
    BY <1>5, <2>2
  <2> QED
    BY <2>1, <2>2
<1>7. PublishedInv'
  <2>1. \A c \in Commands : ~Fixed(c) => Key(c) \in Keys
    BY ConstantsAssumption DEF Key, Keys, Fixed
  <2> QED
    BY <1>5, <2>1 DEF PublishedInv, Fixed, Key
<1>8. HolderInv'
  BY <1>1 DEF HolderInv
<1>9. AttestedSuccessIsReal'
  BY <1>1 DEF AttestedSuccessIsReal
<1> QED
  BY <1>2, <1>3, <1>4, <1>6, <1>7, <1>8, <1>9

\* Observation promotes at most the row of the command it observes.
LEMMA ObserveInv ==
  ASSUME PrivdInv, NEW s \in Slots, observe(s)
  PROVE  PrivdInv'
<1> USE DEF PrivdInv
<1> DEFINE c == slot[s].cmd
           r == [stage |-> "replied", cmd |-> c, mode |-> "execute",
                 before |-> EmptyFile, reply |-> Observed(c)]
           rows == IF Observed(c) = "applied_exact"
                   THEN [desired EXCEPT ![Key(c)].state = "applied"] ELSE desired
<1>1. c \in Commands /\ ~Fixed(c) /\ Key(c) \in Keys
  BY ConstantsAssumption DEF observe, SlotsInv, Key, Keys, Fixed
<1>2. Observed(c) \in Observations
  BY DEF Observed, Observations
<1>3. r \in SlotStates
  BY <1>1, <1>2, EmptyFileType DEF SlotStates, Stages, Modes, Replies
<1>4. slot' = [slot EXCEPT ![s] = r] /\ desired' = rows
      /\ UNCHANGED <<authorized, file, expired, performed>>
  BY DEF observe, Reply, Answer, Settle
<1>5. \A t \in Slots : slot[t].stage \notin {"prepared", "published"}
  BY DEF observe, UserFileUnlocked, Holding
<1>6. r.stage = "replied" /\ r.cmd = c /\ r.reply # "ok"
  BY <1>2 DEF Observations
<1>7. Observed(c) = "applied_exact" =>
        /\ desired[Key(c)].state # "none" /\ desired[Key(c)].cmd = c
        /\ desired[Key(c)].state = "applied" \/ desired[Key(c)].after = file
  BY DEF Observed
<1>8. Observed(c) = "applied_exact" => performed[c] = 1
  BY <1>1, <1>7, PublishedRow DEF RowsInv, PrivdTypeOK, DesiredRows
<1>9. desired \in [Keys -> DesiredRows]
  BY DEF PrivdTypeOK
<1>10. rows \in [Keys -> DesiredRows]
  BY <1>1, <1>9 DEF DesiredRows
<1>11. \A k \in Keys :
           \/ rows[k] = desired[k]
           \/ /\ desired[k].state # "none" /\ performed[desired[k].cmd] = 1
              /\ rows[k] = [desired[k] EXCEPT !.state = "applied"]
  BY <1>1, <1>7, <1>8, <1>9
<1> HIDE DEF r, rows, c, PrivdInv
<1> QED
  BY <1>1, <1>3, <1>4, <1>5, <1>6, <1>10, <1>11, PromoteStepInv

-----------------------------------------------------------------------------

\* EffectStore::prepare: everything else is resolved, then the row is written.
LEMMA PrepareInv ==
  ASSUME PrivdInv, NEW s \in Slots, prepare(s)
  PROVE  PrivdInv'
<1> USE DEF PrivdInv
<1> DEFINE c == slot[s].cmd
           f == slot[s].before
           rows == Promoted(f)
           K == Key(c)
<1>1. /\ c \in Commands /\ ~Fixed(c) /\ K \in Keys /\ f = file /\ f \in Files
      /\ slot[s].stage = "locked" /\ slot[s] \in SlotStates
  BY ConstantsAssumption DEF prepare, SlotsInv, Key, Keys, Fixed, Holding, PrivdTypeOK
<1>2. desired \in [Keys -> DesiredRows] /\ slot \in [Slots -> SlotStates]
  BY DEF PrivdTypeOK
<1>3. rows \in [Keys -> DesiredRows]
  BY <1>2 DEF Promoted, DesiredRows
<1>4. \A k \in Keys :
        \/ rows[k] = desired[k]
        \/ /\ desired[k].state # "none" /\ performed[desired[k].cmd] = 1
           /\ rows[k] = [desired[k] EXCEPT !.state = "applied"]
  BY <1>1, PublishedRow DEF Promoted
<1>5. \A t \in Slots : slot[t].stage \notin {"prepared", "published"}
  BY <1>1 DEF SlotsInv, Holding
<1>6. UNCHANGED <<authorized, file, expired, performed>>
  BY DEF prepare
<1>7. CASE rows[K].state = "applied" /\ rows[K].cmd = c
  <2> DEFINE r == [stage |-> "finish", cmd |-> c, mode |-> slot[s].mode,
                   before |-> EmptyFile, reply |-> "ok"]
  <2>1. desired' = rows /\ slot' = [slot EXCEPT ![s] = r]
    BY <1>7 DEF prepare, Finish, Settle
  <2>2. r \in SlotStates
    BY <1>1, EmptyFileType DEF SlotStates, Stages, Replies, Attested
  <2>3. performed[c] = 1
    BY <1>1, <1>3, <1>4, <1>7 DEF RowsInv, PrivdTypeOK, DesiredRows
  <2>4. r.stage = "finish" /\ r.cmd = c /\ r.reply = "ok"
    OBVIOUS
  <2> HIDE DEF r, rows, c, PrivdInv
  <2> QED
    BY <1>1, <1>3, <1>4, <1>5, <1>6, <2>1, <2>2, <2>3, <2>4, PromoteStepInv DEF Attested
<1>8. CASE ~(rows[K].state = "applied" /\ rows[K].cmd = c)
  <2> DEFINE new == [state |-> "prepared", cmd |-> c, before |-> f, after |-> After(f, c)]
  <2>1. desired' = [rows EXCEPT ![K] = new] /\ slot' = [slot EXCEPT ![s].stage = "prepared"]
    BY <1>8 DEF prepare, Stage
  <2>2. new \in DesiredRows
    BY <1>1, AfterType DEF DesiredRows
  <2>3. /\ desired' \in [Keys -> DesiredRows] /\ desired'[K] = new
        /\ \A k \in Keys : k # K => desired'[k] = rows[k]
    BY <1>1, <1>3, <2>1, <2>2
  <2>4. /\ slot' \in [Slots -> SlotStates]
        /\ \A t \in Slots : t # s => slot'[t] = slot[t]
    BY <1>1, <1>2, <2>1 DEF SlotStates, Stages, Holding
  <2>5. /\ slot'[s].stage = "prepared" /\ slot'[s].cmd = c /\ slot'[s].before = f
        /\ slot'[s].reply = slot[s].reply
    BY <1>1, <1>2, <2>1 DEF SlotStates
  \* Everything else is resolved ...
  <2>6. \A k \in Keys : k # K => rows[k].state # "prepared"
    <3> SUFFICES ASSUME NEW k \in Keys, k # K, rows[k].state = "prepared" PROVE FALSE
      OBVIOUS
    <3>1. desired[k].state = "prepared" /\ desired[k].after # f
      BY <1>2, <1>3 DEF Promoted, DesiredRows
    <3> QED
      BY <3>1 DEF prepare, PendingResolved
  \* ... and this command has not reached the file.
  <2>7. performed[c] = 0
    <3> SUFFICES ASSUME performed[c] # 0 PROVE FALSE
      OBVIOUS
    <3>1. performed[c] = 1
      BY <1>1 DEF PublishedInv, PrivdTypeOK
    <3>2. desired[K].state # "none" /\ desired[K] \in DesiredRows
      BY <1>1, <1>2, <3>1 DEF PublishedInv
    <3>3. CASE desired[K].cmd # c
      <4>1. Revision[c] < Revision[desired[K].cmd]
        BY <1>1, <3>1, <3>3 DEF PublishedInv
      <4>2. ~(Revision[desired[K].cmd] >= Revision[c])
        BY <3>2, <3>3 DEF prepare, DesiredRefused
      <4>3. Revision[c] \in Nat /\ Revision[desired[K].cmd] \in Nat
        BY <1>1, <3>2, ConstantsAssumption DEF RowsInv
      <4> QED
        BY <4>1, <4>2, <4>3
    <3>4. CASE desired[K].cmd = c
      <4>1. desired[K].state = "prepared"
        <5>1. CASE desired[K].state = "applied"
          BY <1>1, <1>8, <5>1, <3>4 DEF Promoted
        <5> QED
          BY <3>2, <5>1 DEF DesiredRows
      <4>2. desired[K].after = file
        BY <1>1, <3>1, <3>4, <4>1 DEF RowsInv
      <4> QED
        BY <1>1, <1>2, <1>8, <3>4, <4>1, <4>2 DEF Promoted, DesiredRows
    <3> QED
      BY <3>3, <3>4
  <2>8. f[User[c]] # c
    BY <1>1, <2>7, ConstantsAssumption DEF PublishedInv
  <2> HIDE DEF new, c, f, K, rows
  <2>9. new.state = "prepared" /\ new.cmd = c /\ new.before = f /\ new.after = After(f, c)
    BY DEF new
  <2>names. c = slot[s].cmd /\ f = slot[s].before /\ K = Key(c) /\ rows = Promoted(f)
    BY DEF c, f, K, rows
  <2>10. PrivdTypeOK'
    BY <1>6, <2>3, <2>4 DEF PrivdTypeOK
  <2>11. SlotsInv'
    BY <1>1, <1>6, <2>4, <2>5, <2>names DEF SlotsInv, Holding, Fixed
  <2>12. FixedInv'
    BY <1>1, <1>6, <2>4, <2>5, <2>names DEF FixedInv, Working, Fixed
  <2>13. /\ \A k \in Keys : rows[k].state # "none" =>
              LET x == rows[k] IN
              /\ x.cmd \in Commands /\ ~Fixed(x.cmd) /\ Key(x.cmd) = k
              /\ x.state = "applied" => performed[x.cmd] = 1
              /\ x.state = "prepared" => x = desired[k]
         /\ \A k \in Keys : (rows[k].state = "none") <=> (desired[k].state = "none")
         /\ \A k \in Keys : rows[k].cmd = desired[k].cmd
    <3> HIDE DEF rows, PrivdInv
    <3> QED
      BY <1>3, <1>4, PromoteInv
  <2>14. RowsInv'
    <3> SUFFICES ASSUME NEW k \in Keys, desired'[k].state # "none"
                 PROVE  LET x == desired'[k] IN
                        /\ x.cmd \in Commands /\ ~Fixed(x.cmd) /\ Key(x.cmd) = k
                        /\ x.state = "applied" => performed[x.cmd] = 1
                        /\ x.state = "prepared" =>
                             /\ x.after = After(x.before, x.cmd)
                             /\ x.before[User[x.cmd]] # x.cmd
                             /\ \/ performed[x.cmd] = 0 /\ file = x.before
                                \/ performed[x.cmd] = 1 /\ file = x.after
      BY <1>6 DEF RowsInv, Fixed, Key, After
    <3>1. CASE k = K
      BY <1>1, <2>3, <2>7, <2>8, <2>9, <2>names, <3>1
    <3>2. CASE k # K
      BY <2>3, <2>6, <2>13, <3>2
    <3> QED
      BY <3>1, <3>2
  <2>15. PublishedInv'
    <3>1. \A d \in Commands : ~Fixed(d) => Key(d) \in Keys
      BY ConstantsAssumption DEF Key, Keys, Fixed
    <3>2. \A d \in Commands : ~Fixed(d) /\ performed[d] = 1 /\ Key(d) = K =>
            d # c /\ Revision[d] < Revision[c]
      <4> SUFFICES ASSUME NEW d \in Commands, ~Fixed(d), performed[d] = 1, Key(d) = K
                   PROVE  d # c /\ Revision[d] < Revision[c]
        OBVIOUS
      <4>1. d # c
        BY <2>7
      <4>2. desired[K].state # "none" /\ desired[K] \in DesiredRows
        BY <1>1, <1>2 DEF PublishedInv
      <4>3. desired[K].cmd # d => Revision[d] < Revision[desired[K].cmd]
        BY DEF PublishedInv
      <4>4. desired[K].cmd # c => ~(Revision[desired[K].cmd] >= Revision[c])
        BY <4>2, <2>names DEF prepare, DesiredRefused
      <4>5. desired[K].cmd \in Commands
        BY <1>1, <4>2 DEF RowsInv
      <4> QED
        BY <1>1, <4>1, <4>3, <4>4, <4>5, ConstantsAssumption
    <3>3. ASSUME NEW d \in Commands, ~Fixed(d), performed[d] = 1
          PROVE  /\ desired'[Key(d)].state # "none"
                 /\ desired'[Key(d)].cmd # d => Revision[d] < Revision[desired'[Key(d)].cmd]
      <4>1. CASE Key(d) = K
        BY <1>1, <2>3, <2>9, <3>2, <3>3, <4>1
      <4>2. CASE Key(d) # K
        BY <2>3, <2>13, <3>1, <3>3, <4>2 DEF PublishedInv
      <4> QED
        BY <4>1, <4>2
    <3> QED
      BY <1>6, <3>3 DEF PublishedInv, Fixed, Key
  <2>16. HolderInv'
    BY <1>1, <1>5, <1>6, <2>3, <2>4, <2>5, <2>6, <2>7, <2>9, <2>names DEF HolderInv, Key
  <2>17. AttestedSuccessIsReal'
    BY <1>6, <2>4, <2>5, <2>names DEF AttestedSuccessIsReal
  <2> QED
    BY <2>10, <2>11, <2>12, <2>14, <2>15, <2>16, <2>17
<1> QED
  BY <1>7, <1>8

\* The rename: the only prepared row becomes the state of the file.
LEMMA PublishInv ==
  ASSUME PrivdInv, NEW s \in Slots, publish_user_staging(s)
  PROVE  PrivdInv'
<1> USE DEF PrivdInv
<1> DEFINE c == slot[s].cmd
           K == Key(c)
<1>1. /\ c \in Commands /\ ~Fixed(c) /\ K \in Keys
      /\ slot[s].stage = "prepared" /\ slot[s].before = file /\ slot[s] \in SlotStates
  BY ConstantsAssumption
     DEF publish_user_staging, SlotsInv, Key, Keys, Fixed, Holding, PrivdTypeOK
<1>2. /\ desired[K].state = "prepared" /\ desired[K].cmd = c /\ performed[c] = 0
      /\ \A k \in Keys : desired[k].state = "prepared" => k = K
  BY <1>1 DEF HolderInv
<1>3. /\ desired[K].after = After(desired[K].before, c) /\ desired[K].before = file
  BY <1>1, <1>2 DEF RowsInv
<1>4. /\ file' = After(file, c) /\ file' \in Files /\ file' = desired[K].after
      /\ UNCHANGED <<authorized, desired, expired>>
  BY <1>1, <1>3, AfterType DEF publish_user_staging, PrivdTypeOK
<1>5. /\ performed' \in [Commands -> Nat] /\ performed'[c] = 1
      /\ \A d \in Commands : d # c => performed'[d] = performed[d]
  BY <1>1, <1>2 DEF publish_user_staging, PrivdTypeOK
<1>6. /\ slot' \in [Slots -> SlotStates]
      /\ slot'[s].stage = "published" /\ slot'[s].cmd = c /\ slot'[s].reply = slot[s].reply
      /\ \A t \in Slots : t # s => slot'[t] = slot[t]
  BY <1>1 DEF publish_user_staging, Stage, PrivdTypeOK, SlotStates, Stages, Holding
<1>7. \A t \in Slots : t # s => slot[t].stage \notin Holding
  BY <1>1 DEF SlotsInv, Holding
<1>8. \A u \in Users : file'[u] = IF u = User[c] THEN c ELSE file[u]
  BY <1>1, <1>4 DEF After, PrivdTypeOK, Files
<1>names. c = slot[s].cmd /\ K = Key(c)
  OBVIOUS
<1> HIDE DEF c, K
<1>9. PrivdTypeOK'
  BY <1>4, <1>5, <1>6 DEF PrivdTypeOK
<1>10. SlotsInv'
  BY <1>1, <1>6, <1>7, <1>names DEF SlotsInv, Holding, Fixed
<1>11. FixedInv'
  <2>1. \A t \in Slots : slot[t].stage \in Working => slot[t].cmd \in Commands
    BY DEF SlotsInv, Working
  <2>2. \A d \in Commands : Fixed(d) => performed'[d] = performed[d]
    BY <1>1, <1>5
  <2>3. slot'[s].stage \notin Working
    BY <1>6 DEF Working
  <2> QED
    BY <1>4, <1>6, <2>1, <2>2, <2>3 DEF FixedInv, Fixed
<1>12. RowsInv'
  <2> SUFFICES ASSUME NEW k \in Keys, desired[k].state # "none"
               PROVE  LET x == desired[k] IN
                      /\ x.cmd \in Commands /\ ~Fixed(x.cmd) /\ Key(x.cmd) = k
                      /\ x.state = "applied" => performed'[x.cmd] = 1
                      /\ x.state = "prepared" =>
                           /\ x.after = After(x.before, x.cmd)
                           /\ x.before[User[x.cmd]] # x.cmd
                           /\ \/ performed'[x.cmd] = 0 /\ file' = x.before
                              \/ performed'[x.cmd] = 1 /\ file' = x.after
    BY <1>4 DEF RowsInv, Fixed, Key, After
  <2>1. CASE k = K
    BY <1>2, <1>3, <1>4, <1>5, <2>1 DEF RowsInv
  <2>2. CASE k # K
    BY <1>2, <1>5, <2>2 DEF RowsInv
  <2> QED
    BY <2>1, <2>2
<1>13. PublishedInv'
  <2>1. \A d \in Commands : ~Fixed(d) => performed'[d] <= 1
    BY <1>5 DEF PublishedInv
  <2>2. ASSUME NEW d \in Commands, ~Fixed(d), performed'[d] = 1
        PROVE  /\ desired[Key(d)].state # "none"
               /\ desired[Key(d)].cmd # d => Revision[d] < Revision[desired[Key(d)].cmd]
    <3>1. CASE d = c
      BY <1>2, <1>names, <3>1
    <3>2. CASE d # c
      BY <1>5, <2>2, <3>2 DEF PublishedInv
    <3> QED
      BY <3>1, <3>2
  <2>3. \A u \in Users : file'[u] \in Commands => performed'[file'[u]] = 1
    BY <1>5, <1>8 DEF PublishedInv
  <2> QED
    BY <1>4, <2>1, <2>2, <2>3 DEF PublishedInv, Fixed, Key
<1>14. HolderInv'
  BY <1>2, <1>4, <1>5, <1>6, <1>7, <1>names DEF HolderInv, Key, Holding
<1>15. AttestedSuccessIsReal'
  <2>1. \A t \in Slots : slot[t].reply = "ok" => slot[t].cmd \in Commands
    BY DEF SlotsInv
  <2> QED
    BY <1>1, <1>4, <1>5, <1>6, <2>1, <1>names DEF AttestedSuccessIsReal, SlotsInv, Holding
<1> QED
  BY <1>9, <1>10, <1>11, <1>12, <1>13, <1>14, <1>15

\* mark_applied resolves the row the request prepared.
LEMMA MarkAppliedInv ==
  ASSUME PrivdInv, NEW s \in Slots, mark_applied(s)
  PROVE  PrivdInv'
<1> USE DEF PrivdInv
<1> DEFINE c == slot[s].cmd
           K == Key(c)
           rows == [desired EXCEPT ![K].state = "applied"]
<1>1. /\ c \in Commands /\ ~Fixed(c) /\ K \in Keys
      /\ slot[s].stage = "published" /\ slot[s] \in SlotStates
  BY ConstantsAssumption DEF mark_applied, SlotsInv, Key, Keys, Fixed, Holding, PrivdTypeOK
<1>2. /\ desired[K].state = "prepared" /\ desired[K].cmd = c /\ performed[c] = 1
      /\ \A k \in Keys : desired[k].state = "prepared" => k = K
  BY <1>1 DEF HolderInv
<1>3. desired \in [Keys -> DesiredRows] /\ desired[K] \in DesiredRows
  BY <1>1 DEF PrivdTypeOK
<1>4. /\ desired' = rows /\ rows \in [Keys -> DesiredRows]
      /\ rows[K].state = "applied" /\ rows[K].cmd = c
      /\ \A k \in Keys : k # K => rows[k] = desired[k]
  BY <1>1, <1>2, <1>3 DEF mark_applied, DesiredRows
<1>5. UNCHANGED <<authorized, file, expired, performed>>
  BY DEF mark_applied
<1>6. /\ slot' \in [Slots -> SlotStates]
      /\ slot'[s].stage = "finish" /\ slot'[s].cmd = c /\ slot'[s].reply = "ok"
      /\ \A t \in Slots : t # s => slot'[t] = slot[t]
  BY <1>1, EmptyFileType DEF mark_applied, Finish, Settle, PrivdTypeOK, SlotStates, Stages,
                            Replies, Attested
<1>7. \A t \in Slots : t # s => slot[t].stage \notin Holding
  BY <1>1 DEF SlotsInv, Holding
<1>names. c = slot[s].cmd /\ K = Key(c)
  OBVIOUS
<1> HIDE DEF c, K, rows
<1>8. PrivdTypeOK'
  BY <1>4, <1>5, <1>6 DEF PrivdTypeOK
<1>9. SlotsInv'
  BY <1>1, <1>5, <1>6, <1>7 DEF SlotsInv, Holding, Fixed, Attested
<1>10. FixedInv'
  BY <1>1, <1>5, <1>6 DEF FixedInv, Working, Fixed
<1>11. RowsInv'
  <2> SUFFICES ASSUME NEW k \in Keys, rows[k].state # "none"
               PROVE  LET x == rows[k] IN
                      /\ x.cmd \in Commands /\ ~Fixed(x.cmd) /\ Key(x.cmd) = k
                      /\ x.state = "applied" => performed[x.cmd] = 1
                      /\ x.state = "prepared" =>
                           /\ x.after = After(x.before, x.cmd)
                           /\ x.before[User[x.cmd]] # x.cmd
                           /\ \/ performed[x.cmd] = 0 /\ file = x.before
                              \/ performed[x.cmd] = 1 /\ file = x.after
    BY <1>4, <1>5 DEF RowsInv, Fixed, Key, After
  <2>1. CASE k = K
    BY <1>1, <1>2, <1>4, <1>names, <2>1
  <2>2. CASE k # K
    BY <1>4, <2>2 DEF RowsInv
  <2> QED
    BY <2>1, <2>2
<1>12. PublishedInv'
  <2>1. ASSUME NEW d \in Commands, ~Fixed(d), performed[d] = 1
        PROVE  /\ rows[Key(d)].state # "none"
               /\ rows[Key(d)].cmd # d => Revision[d] < Revision[rows[Key(d)].cmd]
    <3>1. Key(d) \in Keys
      BY <2>1, ConstantsAssumption DEF Key, Keys, Fixed
    <3>2. CASE Key(d) = K
      BY <1>2, <1>4, <2>1, <3>2 DEF PublishedInv
    <3>3. CASE Key(d) # K
      BY <1>4, <2>1, <3>1, <3>3 DEF PublishedInv
    <3> QED
      BY <3>2, <3>3
  <2> QED
    BY <1>4, <1>5, <2>1 DEF PublishedInv, Fixed, Key
<1>13. HolderInv'
  BY <1>6, <1>7 DEF HolderInv, Holding
<1>14. AttestedSuccessIsReal'
  BY <1>2, <1>5, <1>6 DEF AttestedSuccessIsReal
<1> QED
  BY <1>8, <1>9, <1>10, <1>11, <1>12, <1>13, <1>14

-----------------------------------------------------------------------------

\* complete_authorized stores the attested response, or finds the same one.
LEMMA CompleteInv ==
  ASSUME PrivdInv, NEW s \in Slots, complete_authorized(s)
  PROVE  PrivdInv'
<1> USE DEF PrivdInv
<1> DEFINE c == slot[s].cmd
           reply == slot[s].reply
<1>1. /\ c \in Commands /\ reply \in Attested /\ slot[s].stage = "finish"
      /\ slot[s] \in SlotStates /\ (reply = "ok" => performed[c] = 1)
  BY DEF complete_authorized, SlotsInv, PrivdTypeOK, AttestedSuccessIsReal
<1>2. UNCHANGED <<desired, file, expired, performed>> /\ Answer(s, c, reply)
  BY DEF complete_authorized, Reply
<1>3. CASE UNCHANGED authorized
  <2>1. reply \in Replies
    BY <1>1 DEF Replies
  <2> HIDE DEF c, reply, PrivdInv
  <2> QED
    BY <1>1, <1>2, <1>3, <2>1, AnswerInv
<1>4. CASE /\ authorized[c].state = "prepared"
           /\ authorized' = [authorized EXCEPT ![c] =
                [state |-> "applied", mode |-> slot[s].mode, response |-> reply]]
  <2>1. /\ authorized' \in [Commands -> AuthorizedRows]
        /\ authorized'[c].state = "applied" /\ authorized'[c].response = reply
        /\ \A d \in Commands : d # c => authorized'[d] = authorized[d]
    BY <1>1, <1>4 DEF PrivdTypeOK, AuthorizedRows, SlotStates, Modes, Attested
  <2>2. /\ slot' \in [Slots -> SlotStates]
        /\ slot'[s].stage = "replied" /\ slot'[s].cmd = c /\ slot'[s].reply = reply
        /\ \A t \in Slots : t # s => slot'[t] = slot[t]
    BY <1>1, <1>2, EmptyFileType
       DEF Answer, Settle, PrivdTypeOK, SlotStates, Stages, Modes
  <2>names. c = slot[s].cmd /\ reply = slot[s].reply
    OBVIOUS
  <2> HIDE DEF c, reply
  <2>3. PrivdTypeOK'
    BY <1>2, <2>1, <2>2 DEF PrivdTypeOK
  <2>4. SlotsInv'
    BY <1>1, <1>2, <2>2 DEF SlotsInv, Holding, Fixed
  <2>5. FixedInv'
    <3>1. \A t \in Slots : t # s /\ slot[t].stage \in Working /\ Fixed(slot[t].cmd)
            => slot[t].cmd # c
      BY <1>1, <2>names DEF FixedInv, Working
    <3>2. \A t \in Slots : slot[t].stage \in Working => slot[t].cmd \in Commands
      BY DEF SlotsInv, Working
    <3>3. \A d \in Commands : authorized[d].state # "none" => authorized'[d].state # "none"
      BY <2>1
    <3>4. slot'[s].stage \notin Working
      BY <2>2 DEF Working
    <3> QED
      BY <1>2, <2>1, <2>2, <3>1, <3>2, <3>3, <3>4 DEF FixedInv, Fixed
  <2>6. RowsInv' /\ PublishedInv'
    BY <1>2 DEF RowsInv, PublishedInv, Fixed, Key, Keys, After
  <2>7. HolderInv'
    BY <1>2, <2>2 DEF HolderInv, Key
  <2>8. AttestedSuccessIsReal'
    BY <1>1, <1>2, <2>1, <2>2, <2>names DEF AttestedSuccessIsReal
  <2> QED
    BY <2>3, <2>4, <2>5, <2>6, <2>7, <2>8
<1> QED
  BY <1>3, <1>4 DEF complete_authorized

\* A crash forgets the requests and keeps what is durable.
LEMMA CrashInv == PrivdInv /\ PrivdCrash => PrivdInv'
<1> SUFFICES ASSUME PrivdInv, PrivdCrash PROVE PrivdInv'
  OBVIOUS
<1> USE DEF PrivdInv
<1>1. UNCHANGED <<authorized, desired, file, expired, performed>>
      /\ slot' = [s \in Slots |-> IdleSlot]
  BY DEF PrivdCrash
<1>2. IdleSlot \in SlotStates
  BY EmptyFileType DEF IdleSlot, SlotStates, Stages, Modes, Replies
<1>3. PrivdTypeOK'
  BY <1>1, <1>2 DEF PrivdTypeOK
<1>4. SlotsInv' /\ FixedInv' /\ HolderInv'
  BY <1>1 DEF SlotsInv, FixedInv, HolderInv, IdleSlot, Holding, Working, Fixed
<1>5. RowsInv' /\ PublishedInv'
  BY <1>1 DEF RowsInv, PublishedInv, Fixed, Key, Keys, After
<1>6. AttestedSuccessIsReal'
  BY <1>1 DEF AttestedSuccessIsReal, IdleSlot
<1> QED
  BY <1>3, <1>4, <1>5, <1>6

\* The passing of a deadline changes no row and no request.
LEMMA ExpiresInv ==
  ASSUME PrivdInv, NEW c \in Commands, CommandExpires(c)
  PROVE  PrivdInv'
<1> USE DEF PrivdInv
<1>1. UNCHANGED <<authorized, desired, file, slot, performed>> /\ expired' = expired \cup {c}
  BY DEF CommandExpires
<1>2. PrivdTypeOK'
  BY <1>1 DEF PrivdTypeOK
<1>3. SlotsInv' /\ FixedInv' /\ HolderInv'
  BY <1>1 DEF SlotsInv, FixedInv, HolderInv, Fixed, Key
<1>4. RowsInv' /\ PublishedInv' /\ AttestedSuccessIsReal'
  BY <1>1 DEF RowsInv, PublishedInv, AttestedSuccessIsReal, Fixed, Key, Keys, After
<1> QED
  BY <1>2, <1>3, <1>4

-----------------------------------------------------------------------------

\* A request presented to privd keeps the invariant.
LEMMA RequestInv ==
  ASSUME PrivdInv, NEW s \in Slots, NEW c \in Commands, NEW mode \in Modes,
         Request(s, c, mode)
  PROVE  PrivdInv'
<1>0. authorized[c] \in AuthorizedRows
      /\ (authorized[c].response = "ok" => performed[c] = 1)
  BY DEF PrivdInv, PrivdTypeOK, AttestedSuccessIsReal
<1>1. authorized[c].response \in Replies /\ "unattested" \in Replies
  BY <1>0 DEF AuthorizedRows, Replies, Attested
<1>2. CASE ExecuteRefused(s, c, mode)
  BY <1>1, <1>2, AnswerInv DEF ExecuteRefused
<1>3. CASE ReplayOnly(s, c)
  BY <1>0, <1>1, <1>3, AnswerInv DEF ReplayOnly
<1>4. CASE prepare_authorized_existing(s, c, mode)
  BY <1>4, ExistingInv
<1>5. CASE prepare_authorized_new(s, c, mode)
  BY <1>5, NewInv
<1>6. CASE replay_authorized(s, c)
  <2>1. CASE authorized[c].state = "applied" \/ Fixed(c)
    BY <1>0, <1>1, <1>6, <2>1, AnswerInv DEF replay_authorized
  <2>2. CASE ~(authorized[c].state = "applied" \/ Fixed(c))
    <3> DEFINE r == [stage |-> "observe", cmd |-> c, mode |-> "reconcile",
                     before |-> EmptyFile, reply |-> "none"]
    <3>1. r \in SlotStates
      BY EmptyFileType DEF SlotStates, Stages, Modes, Replies
    <3>2. slot' = [slot EXCEPT ![s] = r]
          /\ UNCHANGED <<authorized, desired, file, expired, performed>>
      BY <1>6, <2>2 DEF replay_authorized, Start, Settle
    <3>3. r.stage = "observe" /\ r.cmd = c /\ r.reply = "none"
      OBVIOUS
    <3> HIDE DEF r
    <3> QED
      BY <2>2, <3>1, <3>2, <3>3, SlotOnlyInv DEF Holding, Working
  <2> QED
    BY <2>1, <2>2
<1> QED
  BY <1>2, <1>3, <1>4, <1>5, <1>6 DEF Request

\* Taking user_file_lock: the file is read under it.
LEMMA LockInv ==
  ASSUME PrivdInv, NEW s \in Slots, LockUserFile(s)
  PROVE  PrivdInv'
<1> DEFINE r == [slot[s] EXCEPT !.stage = "locked", !.before = file]
<1>1. slot[s] \in SlotStates /\ slot \in [Slots -> SlotStates] /\ file \in Files
  BY DEF PrivdInv, PrivdTypeOK
<1>2. r \in SlotStates /\ r.stage = "locked" /\ r.before = file
      /\ r.cmd = slot[s].cmd /\ r.reply = slot[s].reply
  BY <1>1 DEF SlotStates, Stages, Holding
<1>3. slot' = [slot EXCEPT ![s] = r]
  BY <1>1 DEF LockUserFile
<1>4. /\ r.cmd \in Commands /\ ~Fixed(r.cmd) /\ UserFileUnlocked
      /\ r.reply = "none" /\ UNCHANGED <<authorized, desired, file, expired, performed>>
  BY <1>2 DEF LockUserFile, PrivdInv, SlotsInv
<1> HIDE DEF r
<1> QED
  BY <1>2, <1>3, <1>4, SlotOnlyInv DEF Holding, Working

\* Every step of a request keeps the invariant.
LEMMA StepInv ==
  ASSUME PrivdInv, NEW s \in Slots, PrivdStep(s)
  PROVE  PrivdInv'
<1>0. /\ slot[s].stage # "idle" => slot[s].cmd \in Commands
      /\ "unattested" \in Replies /\ "ok" \in Attested /\ "rejected" \in Attested
  BY DEF PrivdInv, SlotsInv, Replies, Attested
<1>1. CASE FixedRejected(s)
  BY <1>0, <1>1, FinishInv DEF FixedRejected, Working
<1>2. CASE FixedEffect(s)
  BY <1>2, FixedEffectInv
<1>3. CASE FixedSucceeded(s)
  <2>1. performed[slot[s].cmd] = 1 /\ slot[s].stage \in Working
    BY <1>3 DEF FixedSucceeded, PrivdInv, FixedInv, SlotsInv, Working
  <2> QED
    BY <1>0, <1>3, <2>1, FinishInv DEF FixedSucceeded
<1>4. CASE LockUserFile(s)
  BY <1>4, LockInv
<1>5. CASE PrepareRejected(s)
  BY <1>0, <1>5, FinishInv DEF PrepareRejected, Holding
<1>6. CASE PrepareBlocked(s)
  BY <1>0, <1>6, AnswerInv DEF PrepareBlocked, Reply
<1>7. CASE prepare(s)
  BY <1>7, PrepareInv
<1>8. CASE publish_user_staging(s)
  BY <1>8, PublishInv
<1>9. CASE mark_applied(s)
  BY <1>9, MarkAppliedInv
<1>10. CASE complete_authorized(s)
  BY <1>10, CompleteInv
<1>11. CASE CompleteFailed(s)
  BY <1>0, <1>11, AnswerInv DEF CompleteFailed, Reply
<1>12. CASE observe(s)
  BY <1>12, ObserveInv
<1>13. CASE DeadlineExceeded(s)
  BY <1>0, <1>13, AnswerInv DEF DeadlineExceeded, Reply
<1>14. CASE InputRejected(s)
  BY <1>0, <1>14, FinishInv DEF InputRejected, Holding
<1>15. CASE PublishFailed(s)
  BY <1>0, <1>15, AnswerInv DEF PublishFailed, Reply
<1> QED
  BY <1>1, <1>2, <1>3, <1>4, <1>5, <1>6, <1>7, <1>8, <1>9, <1>10, <1>11, <1>12, <1>13,
     <1>14, <1>15 DEF PrivdStep

\* Handing over the response frees the slot.
LEMMA TakeReplyInv ==
  ASSUME PrivdInv, NEW s \in Slots, TakeReply(s)
  PROVE  PrivdInv'
<1>1. IdleSlot \in SlotStates /\ IdleSlot.stage = "idle" /\ IdleSlot.reply = "none"
  BY EmptyFileType DEF IdleSlot, SlotStates, Stages, Modes, Replies
<1> QED
  BY <1>1, SlotOnlyInv DEF TakeReply, Holding, Working

\* The inductive step.
LEMMA NextInv == PrivdInv /\ [PrivdNext]_privdVars => PrivdInv'
<1> SUFFICES ASSUME PrivdInv, [PrivdNext]_privdVars PROVE PrivdInv'
  OBVIOUS
<1>1. CASE UNCHANGED privdVars
  BY <1>1 DEF PrivdInv, PrivdTypeOK, SlotsInv, FixedInv, RowsInv, PublishedInv, HolderInv,
     AttestedSuccessIsReal, privdVars, Fixed, Key, After, Keys
<1>2. CASE PrivdNext
  BY <1>2, RequestInv, StepInv, TakeReplyInv, CrashInv, ExpiresInv DEF PrivdNext
<1> QED
  BY <1>1, <1>2

-----------------------------------------------------------------------------

\* The inductive invariant holds in every reachable state of PrivdEffects.
THEOREM PrivdInvariant == PrivdSpec => []PrivdInv
BY InitInv, NextInv, PTL DEF PrivdSpec

\* PrivdEffects: every variable keeps its type.
THEOREM PrivdTypeCorrect == PrivdSpec => []PrivdTypeOK
BY PrivdInvariant, PTL DEF PrivdInv

\* However a command is presented and wherever privd crashes, its effect
\* reaches the host at most once (prepare_authorized, EffectStore::prepare).
THEOREM PrivdEffectAtMostOnce == PrivdSpec => []EffectAtMostOnce
<1>1. PrivdInv => EffectAtMostOnce
  BY DEF PrivdInv, FixedInv, PublishedInv, EffectAtMostOnce
<1> QED
  BY <1>1, PrivdInvariant, PTL

\* A signed success is only stored or returned for an effect that did happen
\* (complete_authorized, replay_authorized).
THEOREM PrivdAttestedSuccess == PrivdSpec => []AttestedSuccessIsReal
BY PrivdInvariant, PTL DEF PrivdInv

\* What EffectStore::observe reports of a user mutation is the truth.
THEOREM PrivdObservation == PrivdSpec => []ObservationSound
<1>1. PrivdInv => ObservationSound
  <2> SUFFICES ASSUME PrivdInv, NEW c \in Commands, ~Fixed(c)
               PROVE  /\ Observed(c) = "absent" => performed[c] = 0
                      /\ Observed(c) = "applied_exact" => performed[c] = 1
    BY DEF ObservationSound
  <2>1. Key(c) \in Keys
    BY ConstantsAssumption DEF Key, Keys, Fixed
  <2>2. desired[Key(c)] \in DesiredRows
    BY <2>1 DEF PrivdInv, PrivdTypeOK
  <2>3. CASE Observed(c) = "absent"
    BY <2>1, <2>2, <2>3 DEF Observed, PrivdInv, RowsInv, DesiredRows
  <2>4. CASE Observed(c) = "applied_exact"
    BY <2>1, <2>2, <2>4, PublishedRow DEF Observed, PrivdInv, RowsInv, DesiredRows
  <2> QED
    BY <2>3, <2>4
<1> QED
  BY <1>1, PrivdInvariant, PTL

\* No later write destroys the evidence of an unresolved transition
\* (EffectStore::prepare).
THEOREM PrivdEvidence == PrivdSpec => []EvidenceNotOverwritten
<1>1. PrivdInv => EvidenceNotOverwritten
  BY DEF PrivdInv, RowsInv, EvidenceNotOverwritten
<1> QED
  BY <1>1, PrivdInvariant, PTL

\* Only the child process of a fixed effect and the rename count as effects.
LEMMA EffectSteps ==
  ASSUME PrivdNext, performed' # performed
  PROVE  \E s \in Slots : FixedEffect(s) \/ publish_user_staging(s)
<1>1. ASSUME NEW s \in Slots, NEW c \in Commands, NEW mode \in Modes, Request(s, c, mode)
      PROVE  UNCHANGED performed
  BY <1>1 DEF Request, ExecuteRefused, ReplayOnly, prepare_authorized_existing,
     prepare_authorized_new, replay_authorized
<1>2. ASSUME NEW s \in Slots, PrivdStep(s), ~FixedEffect(s), ~publish_user_staging(s)
      PROVE  UNCHANGED performed
  BY <1>2 DEF PrivdStep, FixedRejected, FixedSucceeded, LockUserFile, PrepareRejected,
     InputRejected, PrepareBlocked, prepare, PublishFailed, mark_applied,
     complete_authorized, CompleteFailed, observe, DeadlineExceeded
<1>3. ASSUME NEW s \in Slots, TakeReply(s) PROVE UNCHANGED performed
  BY <1>3 DEF TakeReply
<1>4. PrivdCrash => UNCHANGED performed
  BY DEF PrivdCrash
<1>5. ASSUME NEW c \in Commands, CommandExpires(c) PROVE UNCHANGED performed
  BY <1>5 DEF CommandExpires
<1> QED
  BY <1>1, <1>2, <1>3, <1>4, <1>5 DEF PrivdNext

\* Effects of one mutation kind on one user reach the file in the order of
\* their desired revisions (EffectStore::prepare).
THEOREM PrivdRevisionOrder == PrivdSpec => PublishedInRevisionOrder
<1> DEFINE Order ==
      \A c, d \in Commands :
        /\ ~Fixed(c) /\ c # d /\ Key(c) = Key(d)
        /\ performed'[c] # performed[c] /\ performed[d] > 0
        => Revision[d] < Revision[c]
<1>1. PrivdInv /\ PrivdNext => Order
  <2> SUFFICES ASSUME PrivdInv, PrivdNext, NEW c \in Commands, NEW d \in Commands,
                      ~Fixed(c), c # d, Key(c) = Key(d),
                      performed'[c] # performed[c], performed[d] > 0
               PROVE  Revision[d] < Revision[c]
    OBVIOUS
  <2>1. PICK s \in Slots : FixedEffect(s) \/ publish_user_staging(s)
    BY EffectSteps
  <2>2. slot[s].cmd \in Commands
    BY <2>1 DEF FixedEffect, publish_user_staging, PrivdInv, SlotsInv
  <2>3. slot[s].cmd = c
    BY <2>1, <2>2 DEF FixedEffect, publish_user_staging, PrivdInv, PrivdTypeOK
  <2>4. slot[s].stage = "prepared"
    BY <2>1, <2>3 DEF FixedEffect, publish_user_staging
  <2>5. desired[Key(c)].cmd = c
    BY <2>3, <2>4 DEF PrivdInv, HolderInv
  <2>6. ~Fixed(d)
    BY DEF Key, Fixed
  <2>7. performed[d] = 1
    BY <2>6 DEF PrivdInv, PublishedInv, PrivdTypeOK
  <2> QED
    BY <2>5, <2>6, <2>7 DEF PrivdInv, PublishedInv
<1>2. PrivdInv /\ [PrivdNext]_privdVars => [Order]_privdVars
  BY <1>1
<1> HIDE DEF Order
<1>3. PrivdSpec => [][Order]_privdVars
  BY <1>2, PrivdInvariant, PTL DEF PrivdSpec
<1> QED
  BY <1>3 DEF PublishedInRevisionOrder, Order

(***************************************************************************)
(* AgentExecutor                                                           *)
(***************************************************************************)

\* The response the Agent waits for is one to its own call, and it waits for an
\* effect only while the journal has the command as running.
CallInv ==
  /\ call.stage # "idle" => call.cmd \in Commands
  /\ call.stage = "wait" =>
       /\ call.slot \in Slots
       /\ slot[call.slot].stage # "idle" => slot[call.slot].cmd = call.cmd
  /\ call.stage # "idle" /\ call.purpose = "command" =>
       journal[call.cmd].state = "running"

AgentInv ==
  /\ PrivdInv
  /\ AgentTypeOK
  /\ CallInv
  /\ JournalIsReal

-----------------------------------------------------------------------------

\* A step of the node is a step of privd or leaves privd alone.
LEMMA PrivdStepOfNode ==
  ASSUME AgentTypeOK, CallInv, [AgentNext]_nodeVars
  PROVE  [PrivdNext]_privdVars
<1>1. ASSUME NEW s \in Slots, CallPrivd(s) PROVE PrivdNext
  <2>1. call.cmd \in Commands /\ call.mode \in Modes /\ "reconcile" \in Modes
    BY <1>1 DEF CallPrivd, CallInv, AgentTypeOK, Calls, Modes
  <2>2. \E mode \in Modes : Request(s, call.cmd, mode)
    BY <1>1, <2>1 DEF CallPrivd
  <2> QED
    BY <2>1, <2>2 DEF PrivdNext
<1>2. ASSUME NEW s \in Slots, PrivdResponds(s) \/ ReplyDropped(s) PROVE PrivdNext
  BY <1>2 DEF PrivdResponds, ReplyDropped, PrivdNext
<1>3. PrivdAlone => PrivdNext
  BY DEF PrivdAlone, PrivdNext
<1>4. CallFails \/ AgentStops => UNCHANGED privdVars
  BY DEF CallFails, AgentStops
<1>5. ASSUME NEW c \in Commands,
             \/ prepare_external(c) \/ AcceptInterrupted(c)
             \/ retry_external(c) \/ ReconcileArrives(c)
             \/ \E mode \in Modes : CommandExpired(c, mode)
      PROVE  UNCHANGED privdVars
  BY <1>5 DEF prepare_external, AcceptInterrupted, retry_external, ReconcileArrives,
     CommandExpired
<1>6. CASE UNCHANGED nodeVars
  BY <1>6 DEF nodeVars
<1> QED
  BY <1>1, <1>2, <1>3, <1>4, <1>5, <1>6 DEF AgentNext

-----------------------------------------------------------------------------

\* What handling a response of privd may do to the journal and the revisions.
Handled(c, reply) ==
  /\ AgentTypeOK'
  /\ call'.stage # "idle" =>
       call'.stage = "connect" /\ call'.cmd = c /\ call'.purpose # "command"
  /\ \A d \in Commands : d # c \/ journal[d].state \in Settled => journal'[d] = journal[d]
  /\ \/ /\ revision' = revision
        /\ journal'[c].state = "succeeded" =>
             journal[c].state = "succeeded" \/ (Fixed(c) /\ reply = "ok")
     \/ /\ reply = "ok" /\ ~Fixed(c) /\ revision[User[c]] <= Revision[c]
        /\ revision' = [revision EXCEPT ![User[c]] = Revision[c]]

\* Journal, Respond and Connect keep the types.
LEMMA JournalType ==
  ASSUME AgentTypeOK, NEW c \in Commands,
         NEW state \in Settled \cup {"accepted", "running", "unknown"},
         NEW code \in {"none", "effect_absent", "outcome_requires_reconciliation", "other"},
         Journal(c, state, code)
  PROVE  /\ journal' \in [Commands -> Records]
         /\ journal'[c].state = state
         /\ \A d \in Commands : d # c => journal'[d] = journal[d]
BY DEF AgentTypeOK, Journal, Record, Records

\* A frame that is answered leaves the Agent idle.
LEMMA RespondType ==
  ASSUME NEW c \in Commands, NEW mode \in Modes,
         NEW state \in Settled \cup {"unknown", "rejected"}, Respond(c, mode, state)
  PROVE  call' \in Calls /\ answer' \in Answers /\ call'.stage = "idle"
BY DEF Respond, IdleCall, Calls, Answers, Modes

\* Completion changes a record that is not settled, and a success needs "ok".
LEMMA CompleteHandled ==
  ASSUME AgentTypeOK, NEW c \in Commands, NEW mode \in Modes, NEW reply,
         journal[c].state \notin Settled, complete_external(c, mode, reply)
  PROVE  Handled(c, reply)
<1>0. revision \in [Users -> Nat] /\ User[c] \in Users /\ Revision[c] \in Nat
  BY ConstantsAssumption DEF AgentTypeOK
<1>1. CASE /\ reply = "ok" /\ ~Fixed(c)
           /\ revision[User[c]] <= Revision[c]
           /\ Journal(c, "succeeded", "none")
           /\ revision' = [revision EXCEPT ![User[c]] = Revision[c]]
           /\ Respond(c, mode, "succeeded")
  <2>1. /\ journal' \in [Commands -> Records]
        /\ \A d \in Commands : d # c => journal'[d] = journal[d]
    BY <1>1, JournalType DEF Settled
  <2>2. call' \in Calls /\ answer' \in Answers /\ call'.stage = "idle"
    BY <1>1, RespondType DEF Settled
  <2>3. revision' \in [Users -> Nat]
    BY <1>0, <1>1
  <2> QED
    BY <1>1, <2>1, <2>2, <2>3 DEF Handled, AgentTypeOK
<1>2. CASE /\ reply = "ok" /\ Fixed(c)
           /\ Journal(c, "succeeded", "none") /\ UNCHANGED revision
           /\ Respond(c, mode, "succeeded")
  <2>1. /\ journal' \in [Commands -> Records]
        /\ \A d \in Commands : d # c => journal'[d] = journal[d]
    BY <1>2, JournalType DEF Settled
  <2>2. call' \in Calls /\ answer' \in Answers /\ call'.stage = "idle"
    BY <1>2, RespondType DEF Settled
  <2> QED
    BY <1>0, <1>2, <2>1, <2>2 DEF Handled, AgentTypeOK
<1>3. CASE /\ reply = "rejected"
           /\ Journal(c, "failed", "other") /\ UNCHANGED revision
           /\ Respond(c, mode, "failed")
  <2>1. /\ journal' \in [Commands -> Records]
        /\ journal'[c].state = "failed"
        /\ \A d \in Commands : d # c => journal'[d] = journal[d]
    BY <1>3, JournalType DEF Settled
  <2>2. call' \in Calls /\ answer' \in Answers /\ call'.stage = "idle"
    BY <1>3, RespondType DEF Settled
  <2> QED
    BY <1>0, <1>3, <2>1, <2>2 DEF Handled, AgentTypeOK
<1>4. CASE /\ Journal(c, "running", "none") /\ UNCHANGED revision
           /\ Respond(c, mode, "unknown")
  <2>1. /\ journal' \in [Commands -> Records]
        /\ journal'[c].state = "running"
        /\ \A d \in Commands : d # c => journal'[d] = journal[d]
    BY <1>4, JournalType DEF Settled
  <2>2. call' \in Calls /\ answer' \in Answers /\ call'.stage = "idle"
    BY <1>4, RespondType DEF Settled
  <2> QED
    BY <1>0, <1>4, <2>1, <2>2 DEF Handled, AgentTypeOK
<1> QED
  BY <1>1, <1>2, <1>3, <1>4 DEF complete_external

\* An unknown outcome is recorded without touching a result.
LEMMA UnknownHandled ==
  ASSUME AgentTypeOK, NEW c \in Commands, NEW mode \in Modes, NEW reply,
         journal[c].state \notin Settled, mark_external_unknown(c, mode)
  PROVE  Handled(c, reply)
<1>1. /\ journal' \in [Commands -> Records]
      /\ journal'[c].state = "unknown"
      /\ \A d \in Commands : d # c => journal'[d] = journal[d]
  BY JournalType DEF mark_external_unknown
<1>2. call' \in Calls /\ answer' \in Answers /\ call'.stage = "idle"
  BY RespondType DEF mark_external_unknown, Settled
<1> QED
  BY <1>1, <1>2 DEF mark_external_unknown, Handled, AgentTypeOK

\* A receipt is only taken over by a record that is not settled.
LEMMA RecoveryHandled ==
  ASSUME AgentTypeOK, NEW c \in Commands, NEW reply, begin_attested_recovery(c, reply)
  PROVE  Handled(c, reply)
<1>1. CASE journal[c].state \in {"none", "accepted", "unknown"}
  <2>1. CASE complete_external(c, "reconcile", reply)
    BY <1>1, <2>1, CompleteHandled DEF Settled, Modes
  <2>2. CASE /\ Journal(c, "running", "none")
             /\ call' = IdleCall /\ UNCHANGED <<revision, answer>>
    <3>1. /\ journal' \in [Commands -> Records]
          /\ journal'[c].state = "running"
          /\ \A d \in Commands : d # c => journal'[d] = journal[d]
      BY <2>2, JournalType DEF Settled
    <3>2. call' \in Calls /\ call'.stage = "idle"
      BY <2>2 DEF IdleCall, Calls, Modes
    <3> QED
      BY <1>1, <2>2, <3>1, <3>2 DEF Handled, AgentTypeOK, Settled
  <2> QED
    BY <1>1, <2>1, <2>2 DEF begin_attested_recovery
<1>2. CASE journal[c].state \notin {"none", "accepted", "unknown"}
  <2>1. Respond(c, "reconcile", "rejected") /\ UNCHANGED <<journal, revision>>
    BY <1>2 DEF begin_attested_recovery
  <2>2. call' \in Calls /\ answer' \in Answers /\ call'.stage = "idle"
    BY <2>1, RespondType DEF Modes
  <2> QED
    BY <2>1, <2>2 DEF Handled, AgentTypeOK
<1> QED
  BY <1>1, <1>2

\* An observation settles nothing.
LEMMA ReconcileHandled ==
  ASSUME AgentTypeOK, NEW c \in Commands, NEW observed, NEW reply,
         reconcile_external(c, observed)
  PROVE  Handled(c, reply)
<1> DEFINE r == journal[c]
<1>0. r \in Records /\ "reconcile" \in Modes
  BY DEF AgentTypeOK, Modes
<1>1. CASE /\ r.state \in Settled
           /\ Respond(c, "reconcile", r.state) /\ UNCHANGED <<journal, revision>>
  <2>1. call' \in Calls /\ answer' \in Answers /\ call'.stage = "idle"
    BY <1>0, <1>1, RespondType
  <2> QED
    BY <1>1, <2>1 DEF Handled, AgentTypeOK
<1>2. CASE /\ r.state \notin Settled
           /\ journal' = (IF r = NoRecord
                          THEN [journal EXCEPT ![c] = Record("accepted", "none")]
                          ELSE journal)
           /\ Respond(c, "reconcile", "rejected") /\ UNCHANGED revision
  <2>1. call' \in Calls /\ answer' \in Answers /\ call'.stage = "idle"
    BY <1>0, <1>2, RespondType
  <2>2. Record("accepted", "none") \in Records
    BY DEF Record, Records
  <2>3. /\ journal' \in [Commands -> Records]
        /\ journal'[c].state \notin Settled
        /\ \A d \in Commands : d # c => journal'[d] = journal[d]
    BY <1>2, <2>2 DEF AgentTypeOK, Record, Settled
  <2> QED
    BY <1>2, <2>1, <2>3 DEF Handled, AgentTypeOK, Settled
<1>3. CASE /\ r.state \notin Settled
           /\ \E code \in {"effect_absent", "other"} : Journal(c, "unknown", code)
           /\ Respond(c, "reconcile", "unknown") /\ UNCHANGED revision
  <2>1. call' \in Calls /\ answer' \in Answers /\ call'.stage = "idle"
    BY <1>0, <1>3, RespondType
  <2>2. PICK code \in {"effect_absent", "other"} : Journal(c, "unknown", code)
    BY <1>3
  <2>3. /\ journal' \in [Commands -> Records]
        /\ journal'[c].state = "unknown"
        /\ \A d \in Commands : d # c => journal'[d] = journal[d]
    BY <2>2, JournalType DEF Settled
  <2> QED
    BY <1>3, <2>1, <2>3 DEF Handled, AgentTypeOK, Settled
<1> QED
  BY <1>1, <1>2, <1>3 DEF reconcile_external

\* The fallback of reconciliation: ask privd again, or judge a reading of the host.
LEMMA ObserveHandled ==
  ASSUME AgentTypeOK, NEW c \in Commands, NEW reply, observe_external_effect(c)
  PROVE  Handled(c, reply)
<1>1. CASE Connect(c, "reconcile", "observation") /\ UNCHANGED <<journal, revision>>
  <2>1. /\ call' \in Calls /\ answer' \in Answers
        /\ call'.stage = "connect" /\ call'.cmd = c /\ call'.purpose = "observation"
    BY <1>1 DEF Connect, NoAnswer, Calls, Answers, Modes
  <2> QED
    BY <1>1, <2>1 DEF Handled, AgentTypeOK
<1>2. CASE \E seen \in {"absent", "applied_exact", "unknown"} : reconcile_external(c, seen)
  BY <1>2, ReconcileHandled
<1> QED
  BY <1>1, <1>2 DEF observe_external_effect

\* Whatever privd answers to whichever call of the Agent.
LEMMA RespondedHandled ==
  ASSUME AgentTypeOK, CallInv, call.stage # "idle", NEW reply, Responded(reply)
  PROVE  Handled(call.cmd, reply)
<1>0. call.cmd \in Commands /\ call.mode \in Modes
      /\ call.purpose \in {"command", "receipt", "observation"}
  BY DEF AgentTypeOK, CallInv, Calls
<1>1. CASE call.purpose = "command"
  <2>1. journal[call.cmd].state \notin Settled
    BY <1>1 DEF CallInv, Settled
  <2> QED
    BY <1>0, <1>1, <2>1, CompleteHandled, UnknownHandled DEF Responded
<1>2. CASE call.purpose = "receipt"
  BY <1>0, <1>2, RecoveryHandled, ObserveHandled DEF Responded
<1>3. CASE call.purpose = "observation"
  BY <1>0, <1>3, ReconcileHandled DEF Responded
<1> QED
  BY <1>0, <1>1, <1>2, <1>3

\* If only an effect on the host is answered with "ok", handling the answer
\* keeps the journal real.
LEMMA HandledReal ==
  ASSUME AgentTypeOK, PrivdTypeOK, JournalIsReal, NEW c \in Commands, NEW reply,
         Handled(c, reply), UNCHANGED performed, reply = "ok" => performed[c] = 1
  PROVE  JournalIsReal'
<1>0. /\ revision \in [Users -> Nat] /\ User \in [Commands -> Users]
      /\ Revision \in [Commands -> Nat \ {0}]
  BY ConstantsAssumption DEF AgentTypeOK
<1>1. CASE /\ revision' = revision
           /\ journal'[c].state = "succeeded" =>
                journal[c].state = "succeeded" \/ (Fixed(c) /\ reply = "ok")
  BY <1>1 DEF Handled, JournalIsReal, Settled, Fixed
<1>2. CASE /\ reply = "ok" /\ ~Fixed(c) /\ revision[User[c]] <= Revision[c]
           /\ revision' = [revision EXCEPT ![User[c]] = Revision[c]]
  <2>1. ASSUME NEW d \in Commands, journal'[d].state = "succeeded"
        PROVE  performed[d] = 1 /\ (Fixed(d) \/ revision'[User[d]] >= Revision[d])
    <3>1. CASE d = c
      BY <1>0, <1>2, <3>1
    <3>2. CASE d # c
      <4>1. performed[d] = 1 /\ (Fixed(d) \/ revision[User[d]] >= Revision[d])
        BY <2>1, <3>2 DEF Handled, JournalIsReal
      <4>2. revision'[User[d]] >= revision[User[d]]
        BY <1>0, <1>2
      <4>3. Revision[d] \in Nat /\ revision[User[d]] \in Nat /\ revision'[User[d]] \in Nat
        BY <1>0, <1>2
      <4> QED
        BY <4>1, <4>2, <4>3
    <3> QED
      BY <3>1, <3>2
  <2>2. ASSUME NEW u \in Users, revision'[u] > 0
        PROVE  \E d \in Commands : /\ ~Fixed(d) /\ User[d] = u
                                   /\ Revision[d] = revision'[u] /\ performed[d] = 1
    BY <1>0, <1>2, <2>2 DEF JournalIsReal
  <2> QED
    BY <2>1, <2>2 DEF JournalIsReal, Fixed
<1> QED
  BY <1>1, <1>2 DEF Handled

-----------------------------------------------------------------------------

\* privd works on a request of the same command until the reply is taken.
LEMMA StepKeepsCommand ==
  ASSUME PrivdTypeOK, NEW s \in Slots, PrivdStep(s), NEW t \in Slots
  PROVE  slot'[t].stage # "idle" =>
           slot[t].stage # "idle" /\ slot'[t].cmd = slot[t].cmd
<1>0. slot \in [Slots -> SlotStates]
  BY DEF PrivdTypeOK
<1> USE DEF Stage, Finish, Reply, Answer, Settle
<1>1. CASE FixedRejected(s) \/ FixedEffect(s) \/ FixedSucceeded(s) \/ LockUserFile(s)
  BY <1>0, <1>1 DEF FixedRejected, FixedEffect, FixedSucceeded, LockUserFile, SlotStates
<1>2. CASE PrepareRejected(s) \/ PrepareBlocked(s) \/ publish_user_staging(s)
           \/ InputRejected(s) \/ PublishFailed(s)
  BY <1>0, <1>2 DEF PrepareRejected, PrepareBlocked, publish_user_staging, InputRejected,
     PublishFailed, SlotStates
<1>3. CASE prepare(s)
  <2>1. Finish(s, "ok") \/ Stage(s, "prepared")
    BY <1>3 DEF prepare
  <2>2. slot[s].stage = "locked"
    BY <1>3 DEF prepare
  <2> QED
    BY <1>0, <2>1, <2>2 DEF SlotStates
<1>4. CASE mark_applied(s) \/ complete_authorized(s) \/ CompleteFailed(s)
  BY <1>0, <1>4 DEF mark_applied, complete_authorized, CompleteFailed, SlotStates
<1>5. CASE observe(s) \/ DeadlineExceeded(s)
  BY <1>0, <1>5 DEF observe, DeadlineExceeded, SlotStates
<1> QED
  BY <1>1, <1>2, <1>3, <1>4, <1>5 DEF PrivdStep

\* A request is answered or worked on for the command that was presented.
LEMMA RequestCommand ==
  ASSUME PrivdTypeOK, NEW s \in Slots, NEW c \in Commands, NEW mode \in Modes,
         Request(s, c, mode)
  PROVE  slot'[s].cmd = c
BY DEF Request, ExecuteRefused, ReplayOnly, prepare_authorized_existing,
   prepare_authorized_new, replay_authorized, Answer, Start, Settle, PrivdTypeOK

\* Nothing takes an effect back.
LEMMA PerformedStays ==
  ASSUME PrivdInv, PrivdInv', [PrivdNext]_privdVars, NEW c \in Commands, performed[c] = 1
  PROVE  performed'[c] = 1
<1>1. CASE performed' = performed
  BY <1>1
<1>2. CASE performed' # performed
  <2>1. PrivdNext
    BY <1>2 DEF privdVars
  <2>2. PICK s \in Slots : FixedEffect(s) \/ publish_user_staging(s)
    BY <1>2, <2>1, EffectSteps
  <2>3. performed' = [performed EXCEPT ![slot[s].cmd] = @ + 1]
    BY <2>2 DEF FixedEffect, publish_user_staging
  <2>4. performed \in [Commands -> Nat]
    BY DEF PrivdInv, PrivdTypeOK
  <2>5. performed'[c] \in {1, 2}
    BY <2>3, <2>4
  <2>6. performed'[c] <= 1
    BY DEF PrivdInv, FixedInv, PublishedInv
  <2> QED
    BY <2>5, <2>6
<1> QED
  BY <1>1, <1>2

\* JournalIsReal survives every step that leaves the Agent's tables alone.
LEMMA QuietReal ==
  ASSUME AgentInv, PrivdInv', [PrivdNext]_privdVars, UNCHANGED revision,
         \A c \in Commands : journal'[c].state = "succeeded" => journal[c].state = "succeeded"
  PROVE  JournalIsReal'
<1>1. \A c \in Commands : performed[c] = 1 => performed'[c] = 1
  BY PerformedStays DEF AgentInv
<1> QED
  BY <1>1 DEF AgentInv, JournalIsReal, Fixed

-----------------------------------------------------------------------------

\* The part of the invariant that is about the Agent.
AgentPart == AgentTypeOK /\ CallInv /\ JournalIsReal

\* A frame that arrives starts a call of its own command, or is answered.
LEMMA ArrivalInv ==
  ASSUME AgentInv, PrivdInv', NEW c \in Commands,
         \/ prepare_external(c) \/ AcceptInterrupted(c)
         \/ retry_external(c) \/ ReconcileArrives(c)
         \/ \E mode \in Modes : CommandExpired(c, mode)
  PROVE  AgentPart'
<1>0. UNCHANGED privdVars /\ UNCHANGED revision
  BY DEF prepare_external, AcceptInterrupted, retry_external, ReconcileArrives,
     CommandExpired
<1>00. journal[c] \in Records /\ {"execute", "retry", "reconcile"} = Modes
  BY DEF AgentInv, AgentTypeOK, Modes
<1>1. /\ \/ UNCHANGED journal
         \/ \E state \in {"running", "unknown", "accepted"},
               code \in {"none", "outcome_requires_reconciliation"} :
              Journal(c, state, code)
      /\ \/ /\ \E mode \in Modes, state \in Settled \cup {"unknown", "rejected"} :
                  Respond(c, mode, state)
         \/ /\ \E mode \in Modes : Connect(c, mode, "receipt")
         \/ /\ Journal(c, "running", "none")
            /\ \E mode \in Modes : Connect(c, mode, "command")
         \/ UNCHANGED call /\ call.stage = "idle" /\ answer' = NoAnswer
  <2>1. CASE prepare_external(c)
    BY <1>00, <2>1 DEF prepare_external
  <2>2. CASE AcceptInterrupted(c)
    BY <2>2 DEF AcceptInterrupted, Arrives
  <2>3. CASE retry_external(c)
    BY <1>00, <2>3 DEF retry_external
  <2>4. CASE ReconcileArrives(c)
    BY <1>00, <2>4 DEF ReconcileArrives
  <2>5. CASE \E mode \in Modes : CommandExpired(c, mode)
    BY <2>5 DEF CommandExpired
  <2> QED
    BY <2>1, <2>2, <2>3, <2>4, <2>5
<1>2. /\ journal' \in [Commands -> Records]
      /\ \A d \in Commands : journal'[d].state = "succeeded" => journal[d].state = "succeeded"
  <2>1. CASE UNCHANGED journal
    BY <2>1 DEF AgentInv, AgentTypeOK
  <2>2. CASE \E state \in {"running", "unknown", "accepted"},
               code \in {"none", "outcome_requires_reconciliation"} :
              Journal(c, state, code)
    BY <2>2, JournalType DEF AgentInv
  <2> QED
    BY <1>1, <2>1, <2>2
<1>3. JournalIsReal'
  BY <1>0, <1>2, QuietReal
<1>4. /\ call' \in Calls /\ answer' \in Answers
      /\ call'.stage # "idle" =>
           /\ call'.stage = "connect" /\ call'.cmd = c
           /\ call'.purpose = "command" => Journal(c, "running", "none")
  <2>1. ASSUME NEW mode \in Modes, NEW state \in Settled \cup {"unknown", "rejected"},
               Respond(c, mode, state)
        PROVE  call' \in Calls /\ answer' \in Answers /\ call'.stage = "idle"
    BY <2>1, RespondType
  <2>2. ASSUME NEW mode \in Modes, NEW purpose \in {"receipt", "command"},
               Connect(c, mode, purpose)
        PROVE  /\ call' \in Calls /\ answer' \in Answers
               /\ call'.stage = "connect" /\ call'.cmd = c /\ call'.purpose = purpose
    BY <2>2 DEF Connect, NoAnswer, Calls, Answers, Modes
  <2>3. ASSUME UNCHANGED call, call.stage = "idle", answer' = NoAnswer
        PROVE  call' \in Calls /\ answer' \in Answers /\ call'.stage = "idle"
    BY <2>3 DEF AgentInv, AgentTypeOK, NoAnswer, Answers, Modes
  <2> QED
    BY <1>1, <2>1, <2>2, <2>3
<1>5. AgentTypeOK'
  BY <1>0, <1>2, <1>4 DEF AgentTypeOK, AgentInv
<1>6. CallInv'
  <2>1. Journal(c, "running", "none") => journal'[c].state = "running"
    BY JournalType DEF AgentInv
  <2> QED
    BY <1>4, <2>1 DEF CallInv
<1> QED
  BY <1>3, <1>5, <1>6 DEF AgentPart

\* A request reaches privd.
LEMMA CallInvStep ==
  ASSUME AgentInv, PrivdInv', NEW s \in Slots, CallPrivd(s)
  PROVE  AgentPart'
<1>0. call.cmd \in Commands /\ call \in Calls /\ "reconcile" \in Modes
  BY DEF CallPrivd, AgentInv, CallInv, AgentTypeOK, Modes
<1>1. slot'[s].cmd = call.cmd
  <2>1. \E mode \in Modes : Request(s, call.cmd, mode)
    BY <1>0 DEF CallPrivd, Calls
  <2> QED
    BY <1>0, <2>1, RequestCommand DEF AgentInv, PrivdInv
<1>2. AgentTypeOK'
  BY <1>0 DEF CallPrivd, AgentInv, AgentTypeOK, Calls
<1>3. CallInv'
  BY <1>0, <1>1 DEF CallPrivd, AgentInv, CallInv, Calls
<1>4. [PrivdNext]_privdVars
  <2>1. AgentNext
    BY DEF AgentNext
  <2> QED
    BY <2>1, PrivdStepOfNode DEF AgentInv
<1>5. JournalIsReal'
  BY <1>4, QuietReal DEF CallPrivd
<1> QED
  BY <1>2, <1>3, <1>5 DEF AgentPart

\* The Agent reads the response of its own call, or gives the call up.
LEMMA AnsweredInv ==
  ASSUME AgentInv, PrivdInv',
         (\E s \in Slots : PrivdResponds(s)) \/ CallFails
  PROVE  AgentPart'
<1>1. PICK reply : /\ call.stage # "idle" /\ Responded(reply) /\ UNCHANGED performed
                   /\ reply = "ok" => performed[call.cmd] = 1
  <2>1. ASSUME NEW s \in Slots, PrivdResponds(s)
        PROVE  /\ call.stage # "idle" /\ Responded(slot[s].reply) /\ UNCHANGED performed
               /\ slot[s].reply = "ok" => performed[call.cmd] = 1
    <3>1. slot[s].cmd = call.cmd
      BY <2>1 DEF PrivdResponds, AgentInv, CallInv
    <3> QED
      BY <2>1, <3>1 DEF PrivdResponds, TakeReply, AgentInv, PrivdInv, AttestedSuccessIsReal
  <2>2. CASE CallFails
    BY <2>2 DEF CallFails, privdVars
  <2> QED
    BY <2>1, <2>2
<1>2. Handled(call.cmd, reply)
  BY <1>1, RespondedHandled DEF AgentInv
<1>3. call.cmd \in Commands
  BY <1>1 DEF AgentInv, CallInv
<1>4. JournalIsReal'
  BY <1>1, <1>2, <1>3, HandledReal DEF AgentInv, PrivdInv
<1>5. CallInv'
  BY <1>2, <1>3 DEF Handled, CallInv
<1> QED
  BY <1>2, <1>4, <1>5 DEF Handled, AgentPart

\* privd takes a step of its own, crashes, or answers a call that was given up.
LEMMA AloneInv ==
  ASSUME AgentInv, PrivdInv', PrivdAlone \/ \E s \in Slots : ReplyDropped(s)
  PROVE  AgentPart'
<1>1. UNCHANGED agentVars
  BY DEF PrivdAlone, ReplyDropped
<1>2. call.stage = "wait" =>
        /\ call.slot \in Slots
        /\ slot'[call.slot].stage # "idle" => slot'[call.slot].cmd = call.cmd
  <2>0. slot \in [Slots -> SlotStates]
    BY DEF AgentInv, PrivdInv, PrivdTypeOK
  <2>1. CASE \E s \in Slots : PrivdStep(s)
    BY <2>1, StepKeepsCommand DEF AgentInv, PrivdInv, CallInv
  <2>2. CASE PrivdCrash
    BY <2>2 DEF PrivdCrash, IdleSlot, AgentInv, CallInv
  <2>3. CASE \E c \in Commands : CommandExpires(c)
    BY <2>3 DEF CommandExpires, AgentInv, CallInv
  <2>4. CASE \E s \in Slots : ReplyDropped(s)
    BY <2>0, <2>4 DEF ReplyDropped, TakeReply, AgentInv, CallInv
  <2> QED
    BY <2>1, <2>2, <2>3, <2>4 DEF PrivdAlone
<1>3. AgentTypeOK' /\ CallInv'
  BY <1>1, <1>2 DEF AgentInv, AgentTypeOK, CallInv, agentVars
<1>4. [PrivdNext]_privdVars
  <2>1. AgentNext
    BY DEF AgentNext
  <2> QED
    BY <2>1, PrivdStepOfNode DEF AgentInv
<1>5. JournalIsReal'
  BY <1>1, <1>4, QuietReal DEF agentVars
<1> QED
  BY <1>3, <1>5 DEF AgentPart

\* The inductive step.
LEMMA AgentNextInv == AgentInv /\ [AgentNext]_nodeVars => AgentInv'
<1> SUFFICES ASSUME AgentInv, [AgentNext]_nodeVars PROVE AgentInv'
  OBVIOUS
<1>1. PrivdInv'
  BY PrivdStepOfNode, NextInv DEF AgentInv
<1>2. AgentPart'
  <2>1. CASE UNCHANGED nodeVars
    BY <2>1 DEF nodeVars, privdVars, agentVars, AgentInv, AgentPart, AgentTypeOK, CallInv,
       JournalIsReal, Fixed
  <2>2. CASE AgentStops
    <3>1. AgentTypeOK' /\ CallInv'
      BY <2>2 DEF AgentStops, IdleCall, Calls, Modes, AgentInv, AgentTypeOK, CallInv
    <3>2. JournalIsReal'
      BY <1>1, <2>2, QuietReal DEF AgentStops
    <3> QED
      BY <3>1, <3>2 DEF AgentPart
  <2>3. CASE AgentNext /\ ~AgentStops
    BY <1>1, <2>3, ArrivalInv, CallInvStep, AnsweredInv, AloneInv DEF AgentNext
  <2> QED
    BY <2>1, <2>2, <2>3
<1> QED
  BY <1>1, <1>2 DEF AgentInv, AgentPart

\* The initial state satisfies the inductive invariant.
LEMMA AgentInitInv == AgentInit => AgentInv
<1> SUFFICES ASSUME AgentInit PROVE AgentInv
  OBVIOUS
<1>1. PrivdInv
  BY InitInv DEF AgentInit
<1>2. AgentTypeOK
  BY DEF AgentInit, AgentTypeOK, NoRecord, Record, Records, IdleCall, Calls, NoAnswer,
     Answers, Modes
<1>3. CallInv /\ JournalIsReal
  BY DEF AgentInit, CallInv, JournalIsReal, IdleCall, NoRecord, Record
<1> QED
  BY <1>1, <1>2, <1>3 DEF AgentInv

-----------------------------------------------------------------------------

\* The inductive invariant holds in every reachable state of AgentExecutor.
THEOREM AgentInvariant == AgentSpec => []AgentInv
BY AgentInitInv, AgentNextInv, PTL DEF AgentSpec

\* The node implements privd: composed with the Agent, with its crashes, its
\* timeouts and the replies it drops, privd behaves as PrivdEffects specifies.
THEOREM AgentImplementsPrivd == AgentSpec => PrivdSpec
<1>1. AgentInit => PrivdInit
  BY DEF AgentInit
<1>2. AgentInv /\ [AgentNext]_nodeVars => [PrivdNext]_privdVars
  BY PrivdStepOfNode DEF AgentInv
<1> QED
  BY <1>1, <1>2, AgentInvariant, PTL DEF AgentSpec, PrivdSpec

\* On a node as a whole the effect of a command reaches the host at most once.
COROLLARY NodeEffectAtMostOnce == AgentSpec => []EffectAtMostOnce
BY AgentImplementsPrivd, PrivdEffectAtMostOnce, PTL

\* AgentExecutor: every variable keeps its type.
THEOREM AgentTypeCorrect == AgentSpec => []AgentTypeOK
BY AgentInvariant, PTL DEF AgentInv

\* A success and an applied revision in the journal are effects on the host
\* (complete_external_applied_attested).
THEOREM AgentJournalIsReal == AgentSpec => []JournalIsReal
BY AgentInvariant, PTL DEF AgentInv

\* A result in the journal is never changed again (transition_command).
THEOREM AgentJournalIsFinal == AgentSpec => JournalIsFinal
<1> DEFINE Final ==
      \A c \in Commands : journal[c].state \in Settled => journal'[c] = journal[c]
<1>1. AgentInv /\ [AgentNext]_nodeVars => [Final]_nodeVars
  <2> SUFFICES ASSUME AgentInv, AgentNext PROVE Final
    OBVIOUS
  <2>1. ASSUME NEW c \in Commands,
               \/ prepare_external(c) \/ AcceptInterrupted(c)
               \/ retry_external(c) \/ ReconcileArrives(c)
               \/ \E mode \in Modes : CommandExpired(c, mode)
        PROVE  Final
    <3>1. \/ UNCHANGED journal
          \/ /\ journal[c].state \notin Settled
             /\ \E state, code : Journal(c, state, code)
      BY <2>1 DEF prepare_external, AcceptInterrupted, retry_external, ReconcileArrives,
         CommandExpired, NoRecord, Record, Settled
    <3> QED
      BY <3>1 DEF Journal, AgentInv, AgentTypeOK
  <2>2. ASSUME (\E s \in Slots : PrivdResponds(s)) \/ CallFails PROVE Final
    <3>1. \E reply : call.stage # "idle" /\ Responded(reply)
      BY <2>2 DEF PrivdResponds, CallFails
    <3>2. \E reply : Handled(call.cmd, reply)
      BY <3>1, RespondedHandled DEF AgentInv
    <3> QED
      BY <3>2 DEF Handled
  <2>3. ASSUME AgentStops \/ PrivdAlone \/ \E s \in Slots : CallPrivd(s) \/ ReplyDropped(s)
        PROVE  Final
    BY <2>3 DEF AgentStops, PrivdAlone, CallPrivd, ReplyDropped, agentVars
  <2> QED
    BY <2>1, <2>2, <2>3 DEF AgentNext
<1> HIDE DEF Final
<1>2. AgentSpec => [][Final]_nodeVars
  BY <1>1, AgentInvariant, PTL DEF AgentSpec
<1> QED
  BY <1>2 DEF JournalIsFinal, Final

-----------------------------------------------------------------------------

(***************************************************************************)
(* Verdicts: a failure in the journal, and the absence that permits a      *)
(* retry, are true of the host however the executions of a command overlap.*)
(***************************************************************************)

\* The stages in which a request executes its command.
Busy == Holding \cup Working
Idle(c) == \A s \in Slots : ~(slot[s].stage \in Busy /\ slot[s].cmd = c)
Refusing(s) == slot[s].stage = "finish" /\ slot[s].reply = "rejected"

\* desired_effects names the command.
Entry(c) == ~Fixed(c) /\ desired[Key(c)].cmd = c

\* A command that never reached the host and never will.
Dead(c) == /\ performed[c] = 0 /\ Idle(c)
           /\ authorized[c].state = "applied" \/ c \in expired

\* A command that privd has not heard of.
Fresh(c) == authorized[c].state = "none" /\ performed[c] = 0 /\ Idle(c) /\ ~Entry(c)

\* A command whose execution may be granted once more: if privd still would,
\* nobody is executing it and it did not reach the host.
Safe(c) ==
  ~Fixed(c) =>
    /\ authorized[c].state # "none" \/ c \in expired
    /\ authorized[c].state = "prepared" /\ authorized[c].mode = "execute" =>
         performed[c] = 0 /\ Idle(c)

\* A request executes its command under the row that was reserved for it, and
\* until it reaches the host nobody else did; an execution that is not a retry
\* has found no row of desired_effects for its command.
WorkSlot(s) ==
  LET c == slot[s].cmd IN
  slot[s].stage \in Busy =>
    /\ authorized[c].state = "prepared" /\ authorized[c].mode = slot[s].mode
    /\ slot[s].stage \in {"run", "locked", "prepared"} \/ Refusing(s) => performed[c] = 0
    /\ slot[s].mode = "execute" /\ (slot[s].stage \in {"run", "locked"} \/ Refusing(s))
         => ~Entry(c)

\* One request at a time executes a command, and desired_effects names only
\* commands that were admitted.
WorkInv ==
  /\ \A s \in Slots : WorkSlot(s)
  /\ \A s, t \in Slots :
       slot[s].stage \in Busy /\ slot[t].stage \in Busy /\ slot[s].cmd = slot[t].cmd => s = t
  /\ \A c \in Commands : Entry(c) => authorized[c].state # "none" \/ c \in expired

\* A rejection, in the store, on its way or in the journal, is final.
RejectedInv ==
  /\ \A c \in Commands :
       authorized[c].response = "rejected" \/ journal[c].state = "failed" => Dead(c)
  /\ \A s \in Slots : slot[s].stage = "replied" /\ slot[s].reply = "rejected" =>
       Dead(slot[s].cmd)

\* An absence, on its way or in the journal, permits a retry.
AbsentInv ==
  /\ \A c \in Commands : journal[c].code = "effect_absent" => Safe(c)
  /\ \A s \in Slots : slot[s].stage = "replied" /\ slot[s].reply = "absent" =>
       Safe(slot[s].cmd)

\* privd hears of a command only after the journal has, and a first execution
\* is asked for once.
FreshInv ==
  /\ \A c \in Commands : journal[c] = NoRecord => Fresh(c)
  /\ call.stage # "idle" /\ call.purpose = "command" => call.mode # "reconcile"
  /\ call.stage = "connect" /\ call.purpose = "command" =>
       IF call.mode = "execute" THEN Fresh(call.cmd) ELSE Safe(call.cmd)

NodeInv == WorkInv /\ RejectedInv /\ AbsentInv /\ FreshInv

-----------------------------------------------------------------------------

\* What a step of privd on the request of slot s may do.
WorkStep(s) ==
  LET c == slot[s].cmd IN
  /\ \A t \in Slots : t # s => slot'[t] = slot[t]
  /\ UNCHANGED expired
  /\ c \in Commands /\ slot'[s].cmd = c
  /\ slot'[s].stage \in Busy => slot[s].stage \in Busy /\ slot'[s].mode = slot[s].mode
  /\ slot'[s].stage \in {"run", "locked"} \/ Refusing(s)' => slot[s].stage \in {"run", "locked"}
  /\ slot'[s].stage = "prepared" => slot[s].stage = "locked"
  /\ \A d \in Commands : performed'[d] # performed[d] =>
       /\ d = c /\ slot[s].stage \in {"run", "prepared"}
       /\ slot'[s].stage \in {"performed", "published"}
  /\ \A d \in Commands : authorized'[d] # authorized[d] =>
       /\ d = c /\ slot[s].stage = "finish" /\ slot'[s].stage = "replied"
       /\ authorized'[d].state = "applied" /\ authorized'[d].response = slot[s].reply
  /\ \A d \in Commands : Entry(d)' =>
       Entry(d) \/ (d = c /\ slot[s].stage = "locked" /\ slot'[s].stage = "prepared")
  /\ slot'[s].stage = "replied" /\ slot'[s].reply = "rejected" =>
       Refusing(s) /\ authorized'[c].state = "applied"
  /\ slot'[s].stage = "replied" /\ slot'[s].reply = "absent" =>
       /\ slot[s].stage = "observe" /\ UserFileUnlocked /\ Observed(c) = "absent"
       /\ UNCHANGED <<authorized, performed, desired>>

\* A step after which no request executes a command that did not before.
Quiet ==
  /\ UNCHANGED <<authorized, performed, desired>>
  /\ expired \subseteq expired'
  /\ \A t \in Slots : slot'[t].stage \in Busy => slot'[t] = slot[t]

\* A request is admitted: prepare_authorized reserves the command for it.
Starts(s, c, mode) ==
  /\ \A t \in Slots : t # s => slot'[t] = slot[t]
  /\ slot'[s].stage = "run" /\ slot'[s].cmd = c /\ slot'[s].mode = mode
  /\ UNCHANGED <<desired, expired, performed>>
  /\ c \notin expired
  /\ mode \in {"execute", "retry"} /\ ~(Fixed(c) /\ mode = "retry")
  /\ authorized'[c].state = "prepared" /\ authorized'[c].mode = mode
  /\ authorized'[c].response = "rejected" => authorized[c].response = "rejected"
  /\ \/ authorized[c].state = "none"
     \/ authorized[c].state = "prepared" /\ authorized[c].mode = "execute" /\ mode = "retry"
  /\ \A d \in Commands : d # c =>
       \/ authorized'[d] = authorized[d]
       \/ authorized[d].state = "applied" /\ d \in expired /\ authorized'[d] = NoAuthorized

-----------------------------------------------------------------------------

\* A request that moves from one stage to another and changes nothing else.
LEMMA MoveStep ==
  ASSUME PrivdInv, NEW s \in Slots, NEW r \in SlotStates,
         slot[s].stage # "idle",
         slot' = [slot EXCEPT ![s] = r], r.cmd = slot[s].cmd,
         r.stage \in Busy => slot[s].stage \in Busy /\ r.mode = slot[s].mode,
         r.stage \in {"run", "locked"} \/ (r.stage = "finish" /\ r.reply = "rejected") =>
           slot[s].stage \in {"run", "locked"},
         r.stage # "prepared",
         r.stage = "replied" => r.reply = "unattested",
         UNCHANGED <<authorized, expired, performed>>,
         \A d \in Commands : Entry(d)' => Entry(d)
  PROVE  WorkStep(s)
<1>1. slot \in [Slots -> SlotStates] /\ slot[s].cmd \in Commands
  BY DEF PrivdInv, PrivdTypeOK, SlotsInv
<1>2. slot'[s] = r /\ \A t \in Slots : t # s => slot'[t] = slot[t]
  BY <1>1
<1> QED
  BY <1>1, <1>2 DEF WorkStep, Refusing

\* A request that privd works on.
LEMMA WorkFacts ==
  ASSUME PrivdInv, NEW s \in Slots, PrivdStep(s)
  PROVE  WorkStep(s)
<1> DEFINE c == slot[s].cmd
<1>0. /\ slot \in [Slots -> SlotStates] /\ slot[s] \in SlotStates
      /\ authorized \in [Commands -> AuthorizedRows] /\ performed \in [Commands -> Nat]
      /\ desired \in [Keys -> DesiredRows]
  BY DEF PrivdInv, PrivdTypeOK
<1>00. slot[s].stage # "idle" => c \in Commands
  BY DEF PrivdInv, SlotsInv
<1>k. \A d \in Commands : ~Fixed(d) => Key(d) \in Keys
  BY ConstantsAssumption DEF Key, Keys, Fixed
<1>f. ASSUME NEW result \in {"ok", "rejected"}, Finish(s, result), slot[s].stage \in Busy,
             result = "rejected" => slot[s].stage \in {"run", "locked"},
             UNCHANGED <<authorized, expired, performed>>,
             \A d \in Commands : Entry(d)' => Entry(d)
      PROVE  WorkStep(s)
  <2> DEFINE r == [stage |-> "finish", cmd |-> c, mode |-> slot[s].mode,
                   before |-> EmptyFile, reply |-> result]
  <2>1. r \in SlotStates
    BY <1>0, EmptyFileType DEF SlotStates, Stages, Replies, Attested
  <2>2. slot' = [slot EXCEPT ![s] = r]
    BY <1>f DEF Finish, Settle
  <2>3. /\ r.stage = "finish" /\ r.cmd = c /\ r.mode = slot[s].mode /\ r.reply = result
    OBVIOUS
  <2>4. slot[s].stage # "idle"
    BY <1>f DEF Busy, Holding, Working
  <2> HIDE DEF r
  <2> QED
    BY <1>f, <2>1, <2>2, <2>3, <2>4, MoveStep
<1>u. ASSUME Reply(s, "unattested"), slot[s].stage # "idle",
             UNCHANGED <<authorized, desired, expired, performed>>
      PROVE  WorkStep(s)
  <2> DEFINE r == [stage |-> "replied", cmd |-> c, mode |-> "execute",
                   before |-> EmptyFile, reply |-> "unattested"]
  <2>1. r \in SlotStates
    BY <1>0, EmptyFileType DEF SlotStates, Stages, Replies, Modes
  <2>2. slot' = [slot EXCEPT ![s] = r]
    BY <1>u DEF Reply, Answer, Settle
  <2>3. /\ r.stage = "replied" /\ r.cmd = c /\ r.reply = "unattested"
        /\ r.stage \notin Busy
    BY DEF Busy, Holding, Working
  <2>4. \A d \in Commands : Entry(d)' => Entry(d)
    BY <1>u DEF Entry
  <2> HIDE DEF r
  <2> QED
    BY <1>u, <2>1, <2>2, <2>3, <2>4, MoveStep
<1>e. ASSUME UNCHANGED desired PROVE \A d \in Commands : Entry(d)' => Entry(d)
  BY <1>e DEF Entry
<1>1. CASE FixedRejected(s) \/ FixedSucceeded(s) \/ PrepareRejected(s) \/ InputRejected(s)
  <2>1. PICK result \in {"ok", "rejected"} :
          /\ Finish(s, result) /\ slot[s].stage \in {"run", "performed", "locked"}
          /\ result = "rejected" => slot[s].stage \in {"run", "locked"}
    BY <1>1 DEF FixedRejected, FixedSucceeded, PrepareRejected, InputRejected
  <2>2. UNCHANGED <<authorized, desired, expired, performed>>
    BY <1>1 DEF FixedRejected, FixedSucceeded, PrepareRejected, InputRejected
  <2>3. slot[s].stage \in Busy
    BY <2>1 DEF Busy, Holding, Working
  <2> QED
    BY <2>1, <2>2, <2>3, <1>e, <1>f
<1>2. CASE PrepareBlocked(s) \/ PublishFailed(s) \/ CompleteFailed(s) \/ DeadlineExceeded(s)
  <2>1. slot[s].stage # "idle" /\ Reply(s, "unattested")
        /\ UNCHANGED <<authorized, desired, expired, performed>>
    BY <1>2 DEF PrepareBlocked, PublishFailed, CompleteFailed, DeadlineExceeded
  <2> QED
    BY <2>1, <1>u
<1>3. CASE LockUserFile(s)
  <2> DEFINE r == [slot[s] EXCEPT !.stage = "locked", !.before = file]
  <2>1. r \in SlotStates /\ r.stage = "locked" /\ r.cmd = c /\ r.mode = slot[s].mode
    BY <1>0 DEF SlotStates, Stages, Holding, PrivdInv, PrivdTypeOK
  <2>2. slot' = [slot EXCEPT ![s] = r] /\ slot[s].stage = "run"
        /\ UNCHANGED <<authorized, desired, expired, performed>>
    BY <1>0, <1>3 DEF LockUserFile
  <2>3. slot[s].stage \in Busy
    BY <2>2 DEF Busy, Working
  <2> HIDE DEF r
  <2> QED
    BY <1>e, <2>1, <2>2, <2>3, MoveStep
<1>4. CASE FixedEffect(s) \/ publish_user_staging(s)
  <2>1. PICK stage \in {"performed", "published"} : Stage(s, stage)
    BY <1>4 DEF FixedEffect, publish_user_staging
  <2>2. /\ slot'[s].stage = stage /\ slot'[s].cmd = c /\ slot'[s].mode = slot[s].mode
        /\ \A t \in Slots : t # s => slot'[t] = slot[t]
    BY <1>0, <2>1 DEF Stage, SlotStates
  <2>3. /\ slot[s].stage \in {"run", "prepared"} /\ UNCHANGED <<authorized, desired, expired>>
        /\ performed' = [performed EXCEPT ![c] = @ + 1]
    BY <1>4 DEF FixedEffect, publish_user_staging
  <2>4. c \in Commands /\ slot[s].stage \in Busy
    BY <1>00, <2>3 DEF Busy, Holding, Working
  <2>5. \A d \in Commands : performed'[d] # performed[d] => d = c
    BY <1>0, <2>3
  <2>6. \A d \in Commands : Entry(d)' => Entry(d)
    BY <1>e, <2>3
  <2> QED
    BY <2>1, <2>2, <2>3, <2>4, <2>5, <2>6 DEF WorkStep, Refusing
<1>5. CASE prepare(s)
  <2>1. /\ slot[s].stage = "locked" /\ c \in Commands /\ ~Fixed(c) /\ Key(c) \in Keys
        /\ slot[s].stage \in Busy /\ UNCHANGED <<authorized, expired, performed>>
    BY <1>5, <1>00, <1>k DEF prepare, PrivdInv, SlotsInv, Holding, Busy
  <2>2. \A k \in Keys : Promoted(slot[s].before)[k].cmd = desired[k].cmd
    BY <1>0 DEF Promoted, DesiredRows
  <2>3. CASE desired' = Promoted(slot[s].before) /\ Finish(s, "ok")
    <3>1. \A d \in Commands : Entry(d)' => Entry(d)
      BY <2>2, <2>3, <1>k DEF Entry
    <3> QED
      BY <2>1, <2>3, <3>1, <1>f
  <2>4. CASE /\ \E row : row.cmd = c /\ desired' = [Promoted(slot[s].before) EXCEPT ![Key(c)] = row]
             /\ Stage(s, "prepared")
    <3>1. PICK row : row.cmd = c /\ desired' = [Promoted(slot[s].before) EXCEPT ![Key(c)] = row]
      BY <2>4
    <3>2. \A k \in Keys : k # Key(c) => desired'[k].cmd = desired[k].cmd
      BY <2>2, <3>1 DEF Promoted
    <3>3. desired'[Key(c)].cmd = c
      BY <2>1, <3>1 DEF Promoted
    <3>4. \A d \in Commands : Entry(d)' => Entry(d) \/ d = c
      BY <3>2, <3>3, <1>k DEF Entry
    <3>5. /\ slot'[s].stage = "prepared" /\ slot'[s].cmd = c /\ slot'[s].mode = slot[s].mode
          /\ \A t \in Slots : t # s => slot'[t] = slot[t]
      BY <1>0, <2>4 DEF Stage, SlotStates
    <3> QED
      BY <2>1, <3>4, <3>5 DEF WorkStep, Refusing
  <2>5. \/ desired' = Promoted(slot[s].before) /\ Finish(s, "ok")
        \/ /\ desired' = [Promoted(slot[s].before) EXCEPT ![Key(c)] =
                            [state |-> "prepared", cmd |-> c, before |-> slot[s].before,
                             after |-> After(slot[s].before, c)]]
           /\ Stage(s, "prepared")
    BY <1>5 DEF prepare
  <2> QED
    BY <2>3, <2>4, <2>5
<1>6. CASE mark_applied(s)
  <2>1. /\ slot[s].stage = "published" /\ slot[s].stage \in Busy /\ Finish(s, "ok")
        /\ UNCHANGED <<authorized, expired, performed>>
        /\ desired' = [desired EXCEPT ![Key(c)].state = "applied"]
    BY <1>6 DEF mark_applied, Busy, Holding
  <2>2. \A d \in Commands : Entry(d)' => Entry(d)
    BY <1>0, <1>k, <2>1 DEF Entry, DesiredRows
  <2> QED
    BY <2>1, <2>2, <1>f
<1>7. CASE complete_authorized(s)
  <2>1. /\ slot[s].stage = "finish" /\ c \in Commands /\ Reply(s, slot[s].reply)
        /\ UNCHANGED <<desired, expired, performed>> /\ slot[s].reply \in Attested
    BY <1>00, <1>7 DEF complete_authorized, PrivdInv, SlotsInv
  <2>2. /\ slot'[s].stage = "replied" /\ slot'[s].cmd = c /\ slot'[s].reply = slot[s].reply
        /\ \A t \in Slots : t # s => slot'[t] = slot[t]
    BY <1>0, <2>1 DEF Reply, Answer, Settle
  <2>3. /\ authorized'[c].state = "applied" /\ authorized'[c].response = slot[s].reply
        /\ \A d \in Commands : d # c => authorized'[d] = authorized[d]
    BY <1>0, <1>7, <2>1 DEF complete_authorized
  <2>4. \A d \in Commands : Entry(d)' => Entry(d)
    BY <1>e, <2>1
  <2>5. slot'[s].stage \notin Busy
    BY <2>2 DEF Busy, Holding, Working
  <2> QED
    BY <2>1, <2>2, <2>3, <2>4, <2>5 DEF WorkStep, Refusing, Attested
<1>8. CASE observe(s)
  <2>1. /\ slot[s].stage = "observe" /\ c \in Commands /\ Reply(s, Observed(c))
        /\ UNCHANGED <<authorized, expired, performed>> /\ UserFileUnlocked
        /\ Observed(c) = "absent" => UNCHANGED desired
        /\ UNCHANGED desired \/ desired' = [desired EXCEPT ![Key(c)].state = "applied"]
    BY <1>00, <1>8 DEF observe
  <2>2. /\ slot'[s].stage = "replied" /\ slot'[s].cmd = c /\ slot'[s].reply = Observed(c)
        /\ \A t \in Slots : t # s => slot'[t] = slot[t]
    BY <1>0, <2>1 DEF Reply, Answer, Settle
  <2>3. \A d \in Commands : Entry(d)' => Entry(d)
    BY <1>0, <1>k, <2>1 DEF Entry, DesiredRows
  <2>4. slot'[s].stage \notin Busy
    BY <2>2 DEF Busy, Holding, Working
  <2>5. Observed(c) # "rejected"
    BY DEF Observed
  <2> QED
    BY <2>1, <2>2, <2>3, <2>4, <2>5 DEF WorkStep, Refusing
<1> QED
  BY <1>1, <1>2, <1>3, <1>4, <1>5, <1>6, <1>7, <1>8 DEF PrivdStep

\* A request that is answered at once, from the store or without a receipt.
Answered(s, c) ==
  /\ \A t \in Slots : t # s => slot'[t] = slot[t]
  /\ slot'[s].cmd = c
  /\ slot'[s].stage \in {"replied", "observe"}
  /\ slot'[s].reply \in {"none", "unattested", authorized[c].response}

\* A request is answered, observed or started.
LEMMA RequestFacts ==
  ASSUME PrivdInv, NEW s \in Slots, NEW c \in Commands, NEW mode \in Modes,
         Request(s, c, mode)
  PROVE  \/ Quiet /\ Answered(s, c)
         \/ Starts(s, c, mode) /\ mode # "reconcile"
<1>0. /\ slot \in [Slots -> SlotStates] /\ authorized \in [Commands -> AuthorizedRows]
      /\ authorized[c] \in AuthorizedRows
  BY DEF PrivdInv, PrivdTypeOK
<1>a. ASSUME NEW reply \in {"unattested", authorized[c].response}, Answer(s, c, reply),
             UNCHANGED <<authorized, desired, file, expired, performed>>
      PROVE  Quiet /\ Answered(s, c)
  <2>1. /\ slot'[s].stage = "replied" /\ slot'[s].cmd = c /\ slot'[s].reply = reply
        /\ \A t \in Slots : t # s => slot'[t] = slot[t]
    BY <1>0, <1>a DEF Answer, Settle
  <2>2. "replied" \notin Busy
    BY DEF Busy, Holding, Working
  <2> QED
    BY <1>a, <2>1, <2>2 DEF Quiet, Answered
<1>s. ASSUME Start(s, c, mode, "run")
      PROVE  /\ slot'[s].stage = "run" /\ slot'[s].cmd = c /\ slot'[s].mode = mode
             /\ \A t \in Slots : t # s => slot'[t] = slot[t]
  BY <1>0, <1>s DEF Start, Settle
<1>1. CASE ExecuteRefused(s, c, mode)
  BY <1>1, <1>a DEF ExecuteRefused
<1>2. CASE ReplayOnly(s, c)
  BY <1>2, <1>a DEF ReplayOnly
<1>3. CASE prepare_authorized_existing(s, c, mode)
  <2>1. CASE Answer(s, c, authorized[c].response) /\ UNCHANGED authorized
    BY <1>3, <2>1, <1>a DEF prepare_authorized_existing
  <2>2. CASE Answer(s, c, "unattested") /\ UNCHANGED authorized
    BY <1>3, <2>2, <1>a DEF prepare_authorized_existing
  <2>3. CASE /\ authorized[c].state = "prepared"
             /\ mode = "retry" /\ authorized[c].mode = "execute"
             /\ authorized' = [authorized EXCEPT ![c].mode = "retry"]
             /\ Start(s, c, mode, "run")
    <3>1. /\ authorized'[c].state = "prepared" /\ authorized'[c].mode = mode
          /\ authorized'[c].response = authorized[c].response
          /\ \A d \in Commands : d # c => authorized'[d] = authorized[d]
      BY <1>0, <2>3 DEF AuthorizedRows
    <3> QED
      BY <1>3, <1>s, <2>3, <3>1 DEF prepare_authorized_existing, Starts
  <2> QED
    BY <1>3, <2>1, <2>2, <2>3 DEF prepare_authorized_existing
<1>4. CASE prepare_authorized_new(s, c, mode)
  <2> DEFINE row == [state |-> "prepared", mode |-> mode, response |-> "none"]
  <2>1. row \in AuthorizedRows
    BY DEF AuthorizedRows
  <2>2. authorized' = [prune_expired_authorized_effects(authorized) EXCEPT ![c] = row]
    BY <1>4 DEF prepare_authorized_new
  <2>3. row.state = "prepared" /\ row.mode = mode /\ row.response = "none"
    OBVIOUS
  <2> HIDE DEF row
  <2>4. /\ authorized'[c] = row
        /\ \A d \in Commands : d # c =>
             \/ authorized'[d] = authorized[d]
             \/ authorized[d].state = "applied" /\ d \in expired /\ authorized'[d] = NoAuthorized
    BY <1>0, <2>1, <2>2, PruneRows
  <2> QED
    BY <1>4, <1>s, <2>3, <2>4 DEF prepare_authorized_new, Starts
<1>5. CASE replay_authorized(s, c)
  <2>1. UNCHANGED <<authorized, desired, file, expired, performed>>
    BY <1>5 DEF replay_authorized
  <2>2. CASE Start(s, c, "reconcile", "observe")
    <3>1. /\ slot'[s].stage = "observe" /\ slot'[s].cmd = c /\ slot'[s].reply = "none"
          /\ \A t \in Slots : t # s => slot'[t] = slot[t]
      BY <1>0, <2>2 DEF Start, Settle
    <3>2. "observe" \notin Busy
      BY DEF Busy, Holding, Working
    <3> QED
      BY <2>1, <3>1, <3>2 DEF Quiet, Answered
  <2> QED
    BY <1>5, <1>a, <2>1, <2>2 DEF replay_authorized
<1> QED
  BY <1>1, <1>2, <1>3, <1>4, <1>5 DEF Request

-----------------------------------------------------------------------------

\* A step that starts no execution.
Steady ==
  /\ \A t \in Slots : slot'[t].stage \in Busy =>
       slot[t].stage \in Busy /\ slot'[t].cmd = slot[t].cmd
  /\ \A d \in Commands : performed'[d] # performed[d] => ~Idle(d)
  /\ \A d \in Commands : authorized'[d] # authorized[d] => authorized'[d].state = "applied"
  /\ \A d \in Commands : authorized'[d] # authorized[d] => ~Idle(d)
  /\ \A d \in Commands : Entry(d)' => Entry(d) \/ ~Idle(d)
  /\ expired \subseteq expired'

\* The steps of privd on a request start no execution.
LEMMA WorkSteady == ASSUME NEW s \in Slots, WorkStep(s) PROVE Steady
<1>1. slot[s].stage \in {"run", "prepared", "locked", "finish"} => ~Idle(slot[s].cmd)
  BY DEF Idle, Busy, Holding, Working
<1> QED
  BY <1>1 DEF WorkStep, Steady

\* Neither do quiet steps.
LEMMA QuietSteady == ASSUME Quiet PROVE Steady
BY DEF Quiet, Steady, Entry

\* Once idle, dead, safe or fresh, a command stays so until it is started.
LEMMA SteadyKeeps ==
  ASSUME Steady, NEW d \in Commands
  PROVE  /\ Idle(d) => Idle(d)'
         /\ Dead(d) => Dead(d)'
         /\ Safe(d) => Safe(d)'
         /\ Fresh(d) => Fresh(d)'
<1>1. Idle(d) => Idle(d)'
  BY DEF Steady, Idle
<1>2. Dead(d) => Dead(d)'
  BY <1>1 DEF Steady, Dead
<1>3. Safe(d) => Safe(d)'
  BY <1>1 DEF Steady, Safe, Fixed
<1>4. Fresh(d) => Fresh(d)'
  BY <1>1 DEF Steady, Fresh
<1> QED
  BY <1>1, <1>2, <1>3, <1>4

\* An execution that starts does not disturb the other commands; a dead command
\* is not started, and a safe one stays safe.
LEMMA StartKeeps ==
  ASSUME NEW s \in Slots, NEW c \in Commands, NEW mode, Starts(s, c, mode),
         NEW d \in Commands
  PROVE  /\ Dead(d) => Dead(d)'
         /\ Safe(d) => Safe(d)'
         /\ Fresh(d) /\ d # c => Fresh(d)'
<1>1. d # c /\ Idle(d) => Idle(d)'
  BY DEF Starts, Idle
<1>2. Entry(d)' <=> Entry(d)
  BY DEF Starts, Entry, Fixed, Key
<1>3. d # c => authorized'[d] = authorized[d]
               \/ (authorized[d].state = "applied" /\ d \in expired
                   /\ authorized'[d].state = "none")
  BY DEF Starts, NoAuthorized
<1>4. Dead(d) => Dead(d)'
  BY <1>1, <1>3 DEF Starts, Dead
<1>5. Safe(d) => Safe(d)'
  <2>1. CASE d = c
    BY <2>1 DEF Starts, Safe, Fixed
  <2>2. CASE d # c
    BY <1>1, <1>3, <2>2 DEF Starts, Safe, Fixed
  <2> QED
    BY <2>1, <2>2
<1>6. Fresh(d) /\ d # c => Fresh(d)'
  BY <1>1, <1>2, <1>3 DEF Starts, Fresh
<1> QED
  BY <1>4, <1>5, <1>6

-----------------------------------------------------------------------------

\* What is to be shown of a request after a step.
LEMMA WorkSlotNext ==
  ASSUME NEW t \in Slots, NEW d \in Commands, slot'[t].cmd = d,
         authorized'[d].state = "prepared", authorized'[d].mode = slot'[t].mode,
         slot'[t].stage \in {"run", "locked", "prepared"} \/ Refusing(t)' => performed'[d] = 0,
         slot'[t].mode = "execute" /\ (slot'[t].stage \in {"run", "locked"} \/ Refusing(t)')
           => ~Entry(d)'
  PROVE  WorkSlot(t)'
BY DEF WorkSlot, Entry, Refusing, Fixed, Key

\* A request that a step leaves alone, and its command with it.
LEMMA WorkSlotKept ==
  ASSUME NEW t \in Slots, WorkSlot(t), slot'[t] = slot[t],
         NEW d \in Commands, d = slot[t].cmd, slot[t].stage \in Busy,
         authorized'[d] = authorized[d], performed'[d] = performed[d], Entry(d)' => Entry(d)
  PROVE  WorkSlot(t)'
BY DEF WorkSlot, Entry, Refusing, Fixed, Key

\* WorkInv through the steps of privd on a request.
LEMMA WorkWork ==
  ASSUME PrivdInv, WorkInv, NEW s \in Slots, WorkStep(s)
  PROVE  WorkInv'
<1>0. slot[s].cmd \in Commands /\ slot'[s].cmd = slot[s].cmd
      /\ \A t \in Slots : t # s => slot'[t] = slot[t]
  BY DEF WorkStep
<1>1. PICK c \in Commands : c = slot[s].cmd
  BY <1>0
<1>2. \A t \in Slots : slot'[t].stage \in Busy =>
        slot[t].stage \in Busy /\ slot'[t].cmd = slot[t].cmd
  BY DEF WorkStep
<1>3. \A t, u \in Slots :
        slot'[t].stage \in Busy /\ slot'[u].stage \in Busy /\ slot'[t].cmd = slot'[u].cmd
          => t = u
  BY <1>2 DEF WorkInv
<1>b. {"run", "locked", "prepared", "finish"} \subseteq Busy /\ "replied" \notin Busy
  BY DEF Busy, Holding, Working
<1>4. ASSUME NEW t \in Slots, t # s, slot'[t].stage \in Busy
      PROVE  WorkSlot(t)'
  <2>1. slot'[t] = slot[t] /\ slot[t].stage \in Busy /\ slot[t].cmd \in Commands
    BY <1>0, <1>4 DEF PrivdInv, SlotsInv, Busy, Holding, Working
  <2>2. PICK d \in Commands : d = slot[t].cmd
    BY <2>1
  <2>3. slot[s].stage \in Busy => d # c
    BY <1>1, <1>4, <2>1, <2>2 DEF WorkInv
  <2>4. authorized'[d] = authorized[d] /\ performed'[d] = performed[d] /\ (Entry(d)' => Entry(d))
    BY <1>1, <1>b, <2>3 DEF WorkStep
  <2>5. WorkSlot(t)
    BY DEF WorkInv
  <2> QED
    BY <2>1, <2>2, <2>4, <2>5, WorkSlotKept
<1>5. ASSUME slot'[s].stage \in Busy
      PROVE  WorkSlot(s)'
  <2>0. WorkSlot(s)
    BY DEF WorkInv
  <2>1. slot[s].stage \in Busy /\ slot'[s].mode = slot[s].mode
    BY <1>5 DEF WorkStep
  <2>2. authorized'[c] = authorized[c]
    BY <1>5, <1>b DEF WorkStep
  <2>3. ASSUME slot'[s].stage \in {"run", "locked", "prepared"} \/ Refusing(s)'
        PROVE  performed'[c] = 0
    <3>1. slot[s].stage \in {"run", "locked"}
      BY <2>3 DEF WorkStep
    <3>2. performed'[c] = performed[c]
      BY <2>3 DEF WorkStep, Refusing
    <3> QED
      BY <1>1, <2>0, <2>1, <3>1, <3>2 DEF WorkSlot
  <2>4. ASSUME slot'[s].mode = "execute", slot'[s].stage \in {"run", "locked"} \/ Refusing(s)'
        PROVE  ~Entry(c)'
    <3>1. slot[s].stage \in {"run", "locked"}
      BY <2>4 DEF WorkStep
    <3>2. ~Entry(c)
      BY <1>1, <2>0, <2>1, <2>4, <3>1 DEF WorkSlot
    <3>3. slot'[s].stage # "prepared"
      BY <2>4 DEF Refusing
    <3> QED
      BY <3>2, <3>3 DEF WorkStep
  <2>5. authorized'[c].state = "prepared" /\ authorized'[c].mode = slot'[s].mode
    BY <1>1, <2>0, <2>1, <2>2 DEF WorkSlot
  <2> QED
    BY <1>0, <1>1, <2>3, <2>4, <2>5, WorkSlotNext
<1>6. ASSUME NEW d \in Commands, Entry(d)'
      PROVE  authorized'[d].state # "none" \/ d \in expired'
  <2>1. UNCHANGED expired /\ (authorized'[d].state = "none" => authorized'[d] = authorized[d])
    BY DEF WorkStep
  <2>2. CASE Entry(d)
    BY <2>1, <2>2 DEF WorkInv
  <2>3. CASE d = c /\ slot[s].stage = "locked"
    BY <1>1, <1>b, <2>1, <2>3 DEF WorkInv, WorkSlot
  <2> QED
    BY <1>1, <1>6, <2>2, <2>3 DEF WorkStep
<1>7. \A t \in Slots : WorkSlot(t)'
  BY <1>4, <1>5 DEF WorkSlot
<1> QED
  BY <1>3, <1>6, <1>7 DEF WorkInv

\* WorkInv through quiet steps.
LEMMA QuietWork ==
  ASSUME PrivdInv, WorkInv, Quiet
  PROVE  WorkInv'
<1>1. \A c \in Commands : Entry(c)' <=> Entry(c)
  BY DEF Quiet, Entry, Fixed, Key
<1>2. ASSUME NEW t \in Slots, slot'[t].stage \in Busy
      PROVE  slot'[t] = slot[t] /\ WorkSlot(t)'
  <2>1. slot'[t] = slot[t] /\ slot[t].cmd \in Commands
    BY <1>2 DEF Quiet, PrivdInv, SlotsInv, Busy, Holding, Working
  <2> QED
    BY <1>1, <1>2, <2>1, WorkSlotKept DEF WorkInv, Quiet
<1>3. \A t \in Slots : WorkSlot(t)'
  BY <1>2 DEF WorkSlot
<1>4. \A t, u \in Slots :
        slot'[t].stage \in Busy /\ slot'[u].stage \in Busy /\ slot'[t].cmd = slot'[u].cmd
          => t = u
  BY <1>2 DEF WorkInv
<1>5. \A c \in Commands : Entry(c)' => authorized'[c].state # "none" \/ c \in expired'
  BY <1>1 DEF WorkInv, Quiet
<1> QED
  BY <1>3, <1>4, <1>5 DEF WorkInv

\* WorkInv when an execution starts: the call was for a fresh or a safe command.
LEMMA StartWork ==
  ASSUME PrivdInv, WorkInv, NEW s \in Slots, NEW c \in Commands, NEW mode,
         Starts(s, c, mode), IF mode = "execute" THEN Fresh(c) ELSE Safe(c)
  PROVE  WorkInv'
<1>0. \A d \in Commands : Entry(d)' <=> Entry(d)
  BY DEF Starts, Entry, Fixed, Key
<1>1. performed[c] = 0 /\ Idle(c) /\ (mode = "execute" => ~Entry(c))
  BY DEF Starts, Fresh, Safe
<1>2. ASSUME NEW t \in Slots, t # s, slot'[t].stage \in Busy
      PROVE  /\ slot'[t] = slot[t] /\ slot[t].cmd \in Commands /\ slot[t].cmd # c
             /\ authorized'[slot[t].cmd] = authorized[slot[t].cmd]
  <2>1. slot'[t] = slot[t] /\ slot[t].stage \in Busy /\ slot[t].cmd \in Commands
    BY <1>2 DEF Starts, PrivdInv, SlotsInv, Busy, Holding, Working
  <2>2. slot[t].cmd # c
    BY <1>1, <2>1 DEF Idle
  <2>3. authorized[slot[t].cmd].state = "prepared"
    BY <2>1 DEF WorkInv, WorkSlot
  <2> QED
    BY <2>1, <2>2, <2>3 DEF Starts
<1>3. /\ slot'[s].stage = "run" /\ slot'[s].cmd = c /\ slot'[s].mode = mode
      /\ authorized'[c].state = "prepared" /\ authorized'[c].mode = mode
      /\ UNCHANGED <<performed, expired>>
  BY DEF Starts
<1>4. \A t, u \in Slots :
        slot'[t].stage \in Busy /\ slot'[u].stage \in Busy /\ slot'[t].cmd = slot'[u].cmd
          => t = u
  BY <1>2, <1>3 DEF WorkInv
<1>5. ASSUME NEW t \in Slots
      PROVE  WorkSlot(t)'
  <2>1. CASE t = s
    BY <1>0, <1>1, <1>3, <2>1, WorkSlotNext
  <2>2. CASE t # s /\ slot'[t].stage \in Busy
    <3>1. WorkSlot(t)
      BY DEF WorkInv
    <3>2. PICK d \in Commands : d = slot[t].cmd
      BY <1>2, <2>2
    <3> QED
      BY <1>0, <1>2, <1>3, <2>2, <3>1, <3>2, WorkSlotKept
  <2>3. CASE slot'[t].stage \notin Busy
    BY <2>3 DEF WorkSlot
  <2> QED
    BY <2>1, <2>2, <2>3
<1>6. ASSUME NEW d \in Commands, Entry(d)'
      PROVE  authorized'[d].state # "none" \/ d \in expired'
  BY <1>0, <1>3, <1>6 DEF WorkInv, Starts
<1> QED
  BY <1>4, <1>5, <1>6 DEF WorkInv

-----------------------------------------------------------------------------

\* A step that keeps dead commands dead and safe commands safe.
Keeps == \A d \in Commands : (Dead(d) => Dead(d)') /\ (Safe(d) => Safe(d)')

\* What is to be shown of rejections and absences after a step.
LEMMA VerdictsNext ==
  ASSUME PrivdInv, RejectedInv, AbsentInv, Keeps,
         \A d \in Commands : authorized'[d].response = "rejected" =>
           authorized[d].response = "rejected" \/ Dead(d)',
         \A d \in Commands : journal'[d].state = "failed" =>
           journal[d].state = "failed" \/ Dead(d),
         \A d \in Commands : journal'[d].code = "effect_absent" =>
           journal[d].code = "effect_absent" \/ Safe(d),
         \A t \in Slots : slot'[t].stage = "replied" /\ slot'[t].reply = "rejected" =>
           slot'[t] = slot[t] \/ \E d \in Commands : slot'[t].cmd = d /\ Dead(d)',
         \A t \in Slots : slot'[t].stage = "replied" /\ slot'[t].reply = "absent" =>
           slot'[t] = slot[t] \/ \E d \in Commands : slot'[t].cmd = d /\ Safe(d)'
  PROVE  RejectedInv' /\ AbsentInv'
<1>1. ASSUME NEW t \in Slots, slot'[t].stage = "replied", slot'[t].reply = "rejected"
      PROVE  Dead(slot[t].cmd)'
  <2>1. PICK d \in Commands : slot'[t].cmd = d /\ Dead(d)'
    <3>1. CASE slot'[t] = slot[t]
      <4>1. PICK d \in Commands : slot[t].cmd = d
        BY <1>1, <3>1 DEF PrivdInv, SlotsInv
      <4>2. Dead(d)
        BY <1>1, <3>1, <4>1 DEF RejectedInv
      <4> QED
        BY <3>1, <4>1, <4>2 DEF Keeps
    <3> QED
      BY <1>1, <3>1
  <2> QED
    BY <2>1 DEF Dead, Idle
<1>2. ASSUME NEW t \in Slots, slot'[t].stage = "replied", slot'[t].reply = "absent"
      PROVE  Safe(slot[t].cmd)'
  <2>1. PICK d \in Commands : slot'[t].cmd = d /\ Safe(d)'
    <3>1. CASE slot'[t] = slot[t]
      <4>1. PICK d \in Commands : slot[t].cmd = d
        BY <1>2, <3>1 DEF PrivdInv, SlotsInv
      <4>2. Safe(d)
        BY <1>2, <3>1, <4>1 DEF AbsentInv
      <4> QED
        BY <3>1, <4>1, <4>2 DEF Keeps
    <3> QED
      BY <1>2, <3>1
  <2> QED
    BY <2>1 DEF Safe, Idle, Fixed
<1>3. \A d \in Commands :
        /\ authorized'[d].response = "rejected" \/ journal'[d].state = "failed" => Dead(d)'
        /\ journal'[d].code = "effect_absent" => Safe(d)'
  BY DEF Keeps, RejectedInv, AbsentInv
<1> QED
  BY <1>1, <1>2, <1>3 DEF RejectedInv, AbsentInv

\* A refusal that is attested is final.
LEMMA RefusedIsDead ==
  ASSUME PrivdInv, WorkInv, NEW s \in Slots, WorkStep(s), Refusing(s),
         slot'[s].stage = "replied", NEW c \in Commands, c = slot[s].cmd,
         authorized'[c].state = "applied"
  PROVE  Dead(c)'
<1>1. slot[s].stage \in Busy /\ slot'[s].stage \notin Busy
  BY DEF Refusing, Busy, Holding, Working
<1>2. performed[c] = 0
  BY <1>1 DEF WorkInv, WorkSlot
<1>3. performed'[c] = performed[c]
  BY DEF WorkStep, Refusing
<1>4. \A t \in Slots : ~(slot'[t].stage \in Busy /\ slot'[t].cmd = c)
  BY <1>1 DEF WorkStep, WorkInv
<1> QED
  BY <1>2, <1>3, <1>4 DEF Dead, Idle

\* An absence that reconciliation observes permits a retry.
LEMMA AbsentIsSafe ==
  ASSUME PrivdInv, WorkInv, NEW c \in Commands, ~Fixed(c), UserFileUnlocked,
         Observed(c) = "absent"
  PROVE  Safe(c)
<1>0. Key(c) \in Keys /\ User[c] \in Users
  BY ConstantsAssumption DEF Key, Keys, Fixed
<1> DEFINE row == desired[Key(c)]
<1>1. /\ row.state # "none" /\ row.cmd = c /\ row.state # "applied" /\ row.after # file
      /\ row.before = file
  BY DEF Observed
<1>2. row \in DesiredRows
  BY <1>0 DEF PrivdInv, PrivdTypeOK
<1>3. row.state = "prepared"
  BY <1>1, <1>2 DEF DesiredRows
<1>4. performed[c] = 0
  BY <1>0, <1>1, <1>3 DEF PrivdInv, RowsInv
<1>5. Entry(c)
  BY <1>1 DEF Entry
<1>6. authorized[c].state # "none" \/ c \in expired
  BY <1>5 DEF WorkInv
<1>7. ASSUME authorized[c].mode = "execute", NEW t \in Slots,
             slot[t].stage \in Busy, slot[t].cmd = c
      PROVE  FALSE
  <2>1. slot[t].stage \notin Holding /\ slot[t].stage # "performed"
    BY <1>7 DEF UserFileUnlocked, PrivdInv, SlotsInv
  <2>2. slot[t].mode = "execute" /\ slot[t].stage # "run" /\ ~Refusing(t)
    BY <1>5, <1>7 DEF WorkInv, WorkSlot
  <2>3. slot[t].stage = "finish" /\ slot[t].reply = "ok"
    BY <1>7, <2>1, <2>2 DEF Busy, Working, Refusing, PrivdInv, SlotsInv, Attested
  <2> QED
    BY <1>4, <1>7, <2>3 DEF PrivdInv, AttestedSuccessIsReal
<1> QED
  BY <1>4, <1>6, <1>7 DEF Safe, Idle

\* What is to be shown of the call after a step that leaves the Agent alone.
LEMMA FreshNext ==
  ASSUME CallInv, FreshInv, Keeps, \A d \in Commands : Fresh(d) => Fresh(d)',
         UNCHANGED call, UNCHANGED journal
  PROVE  FreshInv'
<1>1. \A d \in Commands : journal'[d] = NoRecord => Fresh(d)'
  BY DEF FreshInv
<1>2. ASSUME call.stage = "connect", call.purpose = "command"
      PROVE  IF call.mode = "execute" THEN Fresh(call.cmd)' ELSE Safe(call.cmd)'
  <2>1. PICK c \in Commands : c = call.cmd
    BY <1>2 DEF CallInv
  <2>2. IF call.mode = "execute" THEN Fresh(c)' ELSE Safe(c)'
    BY <1>2, <2>1 DEF FreshInv, Keeps
  <2>3. call'.cmd = c
    BY <2>1
  <2>4. /\ Fresh(c)' => Fresh(call.cmd)'
        /\ Safe(c)' => Safe(call.cmd)'
    BY <2>3 DEF Fresh, Safe, Idle, Entry, Fixed, Key
  <2> QED
    BY <2>2, <2>4
<1> QED
  BY <1>1, <1>2 DEF FreshInv

\* The steps of privd on a request.
LEMMA WorkNode ==
  ASSUME PrivdInv, CallInv, NodeInv, NEW s \in Slots, PrivdStep(s), UNCHANGED agentVars
  PROVE  NodeInv'
<1>0. WorkStep(s)
  BY WorkFacts
<1>1. WorkInv'
  BY <1>0, WorkWork DEF NodeInv
<1>2. Steady
  BY <1>0, WorkSteady
<1>3. Keeps
  BY <1>2, SteadyKeeps DEF Keeps
<1>4. PICK c \in Commands : c = slot[s].cmd
  BY <1>0 DEF WorkStep
<1>5. UNCHANGED journal /\ UNCHANGED call
  BY DEF agentVars
<1>6. ASSUME NEW d \in Commands, authorized'[d].response = "rejected",
             authorized[d].response # "rejected"
      PROVE  Dead(d)'
  <2>1. d = c /\ Refusing(s) /\ slot'[s].stage = "replied" /\ authorized'[d].state = "applied"
    BY <1>0, <1>4, <1>6 DEF WorkStep, Refusing
  <2> QED
    BY <1>0, <1>4, <2>1, RefusedIsDead DEF NodeInv
<1>7. ASSUME NEW t \in Slots, slot'[t].stage = "replied", slot'[t].reply = "rejected"
      PROVE  slot'[t] = slot[t] \/ \E d \in Commands : slot'[t].cmd = d /\ Dead(d)'
  <2>1. CASE t # s
    BY <1>0, <2>1 DEF WorkStep
  <2>2. CASE t = s
    <3>1. Refusing(s) /\ authorized'[c].state = "applied" /\ slot'[s].cmd = c
      BY <1>0, <1>4, <1>7, <2>2 DEF WorkStep
    <3>2. Dead(c)'
      BY <1>0, <1>4, <1>7, <2>2, <3>1, RefusedIsDead DEF NodeInv
    <3> QED
      BY <2>2, <3>1, <3>2
  <2> QED
    BY <2>1, <2>2
<1>8. ASSUME NEW t \in Slots, slot'[t].stage = "replied", slot'[t].reply = "absent"
      PROVE  slot'[t] = slot[t] \/ \E d \in Commands : slot'[t].cmd = d /\ Safe(d)'
  <2>1. CASE t # s
    BY <1>0, <2>1 DEF WorkStep
  <2>2. CASE t = s
    <3>1. slot[s].stage = "observe" /\ UserFileUnlocked /\ Observed(c) = "absent"
          /\ slot'[s].cmd = c
      BY <1>0, <1>4, <1>8, <2>2 DEF WorkStep
    <3>2. ~Fixed(c)
      BY <1>4, <3>1 DEF PrivdInv, SlotsInv
    <3>3. Safe(c)
      BY <3>1, <3>2, AbsentIsSafe DEF NodeInv
    <3> QED
      BY <1>3, <2>2, <3>1, <3>3 DEF Keeps
  <2> QED
    BY <2>1, <2>2
<1>9. RejectedInv' /\ AbsentInv'
  BY <1>3, <1>5, <1>6, <1>7, <1>8, VerdictsNext DEF NodeInv
<1>10. FreshInv'
  <2>1. \A d \in Commands : Fresh(d) => Fresh(d)'
    BY <1>2, SteadyKeeps
  <2> QED
    BY <1>3, <1>5, <2>1, FreshNext DEF NodeInv
<1> QED
  BY <1>1, <1>9, <1>10 DEF NodeInv

\* A step of the clock, a crash or the end of a request, or no step of privd.
Rests == Quiet /\ \A t \in Slots : slot'[t].stage # "idle" => slot'[t] = slot[t]

\* Which steps of privd those are.
LEMMA RestFacts ==
  ASSUME PrivdInv,
         \/ UNCHANGED privdVars \/ PrivdCrash
         \/ (\E s \in Slots : TakeReply(s)) \/ (\E c \in Commands : CommandExpires(c))
  PROVE  Rests
<1>0. slot \in [Slots -> SlotStates] /\ IdleSlot.stage = "idle"
  BY DEF PrivdInv, PrivdTypeOK, IdleSlot
<1>b. "idle" \notin Busy
  BY DEF Busy, Holding, Working
<1>1. CASE UNCHANGED privdVars
  BY <1>1 DEF privdVars, Rests, Quiet
<1>2. CASE PrivdCrash
  BY <1>0, <1>2, <1>b DEF PrivdCrash, Rests, Quiet
<1>3. ASSUME NEW s \in Slots, TakeReply(s) PROVE Rests
  <2>1. slot'[s].stage = "idle" /\ \A t \in Slots : t # s => slot'[t] = slot[t]
    BY <1>0, <1>3 DEF TakeReply
  <2> QED
    BY <1>3, <1>b, <2>1 DEF TakeReply, Rests, Quiet
<1>4. ASSUME NEW c \in Commands, CommandExpires(c) PROVE Rests
  BY <1>4 DEF CommandExpires, Rests, Quiet
<1> QED
  BY <1>1, <1>2, <1>3, <1>4

\* Quiet steps keep every command what it is.
LEMMA QuietKeeps ==
  ASSUME Quiet
  PROVE  Keeps /\ \A d \in Commands : Fresh(d) => Fresh(d)'
BY QuietSteady, SteadyKeeps DEF Keeps

\* A step at rest, with what it does to the journal.
LEMMA RestVerdicts ==
  ASSUME PrivdInv, NodeInv, Rests,
         \A d \in Commands : journal'[d].state = "failed" =>
           journal[d].state = "failed" \/ Dead(d),
         \A d \in Commands : journal'[d].code = "effect_absent" =>
           journal[d].code = "effect_absent" \/ Safe(d)
  PROVE  WorkInv' /\ RejectedInv' /\ AbsentInv'
<1>1. WorkInv'
  BY QuietWork DEF NodeInv, Rests
<1>2. UNCHANGED authorized /\ \A t \in Slots : slot'[t].stage = "replied" => slot'[t] = slot[t]
  BY DEF Rests, Quiet
<1>3. RejectedInv' /\ AbsentInv'
  BY <1>2, QuietKeeps, VerdictsNext DEF NodeInv, Rests
<1> QED
  BY <1>1, <1>3

\* privd rests and the Agent does nothing.
LEMMA RestNode ==
  ASSUME PrivdInv, CallInv, NodeInv, Rests, UNCHANGED agentVars
  PROVE  NodeInv'
<1>1. UNCHANGED journal /\ UNCHANGED call
  BY DEF agentVars
<1>2. WorkInv' /\ RejectedInv' /\ AbsentInv'
  BY <1>1, RestVerdicts
<1>3. FreshInv'
  BY <1>1, QuietKeeps, FreshNext DEF NodeInv, Rests
<1> QED
  BY <1>2, <1>3 DEF NodeInv

\* The Agent stops.
LEMMA StopsNode ==
  ASSUME PrivdInv, NodeInv, AgentStops
  PROVE  NodeInv'
<1>1. UNCHANGED privdVars /\ UNCHANGED journal /\ call'.stage = "idle"
  BY DEF AgentStops, IdleCall
<1>2. Rests
  BY <1>1, RestFacts
<1>3. WorkInv' /\ RejectedInv' /\ AbsentInv'
  BY <1>1, <1>2, RestVerdicts
<1>4. FreshInv'
  BY <1>1, <1>2, QuietKeeps DEF FreshInv, NodeInv, Rests
<1> QED
  BY <1>3, <1>4 DEF NodeInv

\* A call reaches privd.
LEMMA CallNode ==
  ASSUME PrivdInv, AgentTypeOK, CallInv, NodeInv, NEW s \in Slots, CallPrivd(s)
  PROVE  NodeInv'
<1> DEFINE m == IF call.purpose = "command" THEN call.mode ELSE "reconcile"
<1>0. call.cmd \in Commands /\ call \in Calls /\ m \in Modes
  BY DEF CallPrivd, CallInv, AgentTypeOK, Modes, Calls
<1>1. PICK c \in Commands, mode \in Modes :
        /\ c = call.cmd /\ mode = m /\ Request(s, c, mode)
  BY <1>0 DEF CallPrivd
<1>2. /\ call'.stage = "wait" /\ call'.purpose = call.purpose /\ call'.mode = call.mode
      /\ UNCHANGED journal /\ call.stage = "connect"
  BY <1>0 DEF CallPrivd, Calls
<1>3. CASE Quiet /\ Answered(s, c)
  <2>1. WorkInv'
    BY <1>3, QuietWork DEF NodeInv
  <2>2. Keeps /\ \A d \in Commands : Fresh(d) => Fresh(d)'
    BY <1>3, QuietKeeps
  <2>3. authorized[c].response # "absent"
    BY DEF PrivdInv, PrivdTypeOK, AuthorizedRows
  <2>4. authorized[c].response = "rejected" => Dead(c)'
    BY <2>2 DEF NodeInv, RejectedInv, Keeps
  <2>5. ASSUME NEW t \in Slots, slot'[t].stage = "replied", slot'[t].reply = "rejected"
        PROVE  slot'[t] = slot[t] \/ \E d \in Commands : slot'[t].cmd = d /\ Dead(d)'
    BY <1>3, <2>4, <2>5 DEF Answered
  <2>6. \A t \in Slots : slot'[t].stage = "replied" /\ slot'[t].reply = "absent" =>
          slot'[t] = slot[t]
    BY <1>3, <2>3 DEF Answered
  <2>7. UNCHANGED authorized
    BY <1>3 DEF Quiet
  <2>8. RejectedInv' /\ AbsentInv'
    BY <1>2, <2>2, <2>5, <2>6, <2>7, VerdictsNext DEF NodeInv
  <2>9. FreshInv'
    BY <1>2, <2>2 DEF NodeInv, FreshInv
  <2> QED
    BY <2>1, <2>8, <2>9 DEF NodeInv
<1>4. CASE Starts(s, c, mode) /\ mode # "reconcile"
  <2>1. call.purpose = "command" /\ mode = call.mode
    BY <1>1, <1>4
  <2>2. IF mode = "execute" THEN Fresh(c) ELSE Safe(c)
    BY <1>1, <1>2, <2>1 DEF NodeInv, FreshInv
  <2>3. WorkInv'
    BY <1>4, <2>2, StartWork DEF NodeInv
  <2>4. Keeps /\ \A d \in Commands : Fresh(d) /\ d # c => Fresh(d)'
    BY <1>4, StartKeeps DEF Keeps
  <2>5. \A t \in Slots : slot'[t].stage = "replied" => slot'[t] = slot[t]
    BY <1>4 DEF Starts
  <2>6. \A d \in Commands : authorized'[d].response = "rejected" =>
          authorized[d].response = "rejected"
    BY <1>4 DEF Starts, NoAuthorized
  <2>7. RejectedInv' /\ AbsentInv'
    BY <1>2, <2>4, <2>5, <2>6, VerdictsNext DEF NodeInv
  <2>8. journal[c] # NoRecord
    BY <1>1, <1>2, <2>1 DEF CallInv, NoRecord, Record
  <2>9. FreshInv'
    BY <1>2, <2>4, <2>8 DEF NodeInv, FreshInv
  <2> QED
    BY <2>3, <2>7, <2>9 DEF NodeInv
<1> QED
  BY <1>1, <1>3, <1>4, RequestFacts

-----------------------------------------------------------------------------

\* What handling a response may put into the journal.
Judged(c, reply) ==
  /\ \A d \in Commands : journal'[d].state = "failed" =>
       journal[d].state = "failed" \/ (d = c /\ reply = "rejected")
  /\ \A d \in Commands : journal'[d].code = "effect_absent" =>
       journal[d].code = "effect_absent" \/ (d = c /\ (Fixed(c) \/ reply = "absent"))
  /\ \A d \in Commands : journal'[d] = NoRecord => journal[d] = NoRecord

\* A record that is written.
LEMMA JournalJudged ==
  ASSUME AgentTypeOK, NEW c \in Commands, NEW reply, NEW state, NEW code,
         Journal(c, state, code), state # "none",
         state = "failed" => reply = "rejected",
         code = "effect_absent" => Fixed(c) \/ reply = "absent"
  PROVE  Judged(c, reply)
<1>1. /\ journal'[c].state = state /\ journal'[c].code = code /\ journal'[c] # NoRecord
      /\ \A d \in Commands : d # c => journal'[d] = journal[d]
  BY DEF AgentTypeOK, Journal, Record, NoRecord
<1> QED
  BY <1>1 DEF Judged

\* An observation settles nothing, and absence is recorded only when observed.
LEMMA ReconcileJudged ==
  ASSUME AgentTypeOK, NEW c \in Commands, NEW observed, NEW reply,
         reconcile_external(c, observed),
         observed = "absent" => Fixed(c) \/ reply = "absent"
  PROVE  Judged(c, reply)
<1>1. \/ UNCHANGED journal
      \/ Journal(c, "accepted", "none")
      \/ \E code \in {"effect_absent", "other"} :
           /\ Journal(c, "unknown", code)
           /\ code = "effect_absent" => observed = "absent"
  BY DEF reconcile_external, Journal
<1>2. CASE UNCHANGED journal
  BY <1>2 DEF Judged
<1> QED
  BY <1>1, <1>2, JournalJudged

\* Whatever privd answers to whichever call of the Agent.
LEMMA RespondedJudged ==
  ASSUME AgentTypeOK, CallInv, call.stage # "idle", NEW reply, Responded(reply)
  PROVE  Judged(call.cmd, reply)
<1>0. call.cmd \in Commands /\ call.purpose \in {"command", "receipt", "observation"}
  BY DEF AgentTypeOK, CallInv, Calls
<1>c. ASSUME NEW mode, complete_external(call.cmd, mode, reply)
      PROVE  Judged(call.cmd, reply)
  BY <1>0, <1>c, JournalJudged DEF complete_external
<1>1. CASE call.purpose = "command"
  <2>1. \/ complete_external(call.cmd, call.mode, reply)
        \/ Journal(call.cmd, "unknown", "other")
    BY <1>1 DEF Responded, mark_external_unknown
  <2> QED
    BY <1>0, <1>c, <2>1, JournalJudged
<1>2. CASE call.purpose = "receipt"
  <2>1. \/ begin_attested_recovery(call.cmd, reply)
        \/ observe_external_effect(call.cmd)
    BY <1>2 DEF Responded
  <2>2. CASE begin_attested_recovery(call.cmd, reply)
    <3>1. \/ complete_external(call.cmd, "reconcile", reply)
          \/ Journal(call.cmd, "running", "none")
          \/ UNCHANGED journal
      BY <2>2 DEF begin_attested_recovery
    <3>2. CASE UNCHANGED journal
      BY <3>2 DEF Judged
    <3> QED
      BY <1>0, <1>c, <3>1, <3>2, JournalJudged
  <2>3. CASE observe_external_effect(call.cmd)
    <3>1. \/ UNCHANGED journal
          \/ /\ Fixed(call.cmd)
             /\ \E seen \in {"absent", "applied_exact", "unknown"} :
                  reconcile_external(call.cmd, seen)
      BY <2>3 DEF observe_external_effect
    <3>2. CASE UNCHANGED journal
      BY <3>2 DEF Judged
    <3> QED
      BY <1>0, <3>1, <3>2, ReconcileJudged
  <2> QED
    BY <2>1, <2>2, <2>3
<1>3. CASE call.purpose = "observation"
  <2>1. reconcile_external(call.cmd, IF reply \in Observations THEN reply ELSE "unknown")
    BY <1>3 DEF Responded
  <2> QED
    BY <1>0, <2>1, ReconcileJudged
<1> QED
  BY <1>0, <1>1, <1>2, <1>3

\* The Agent reads the response of its own call, or gives the call up.
LEMMA AnsweredNode ==
  ASSUME PrivdInv, AgentTypeOK, CallInv, NodeInv,
         (\E s \in Slots : PrivdResponds(s)) \/ CallFails
  PROVE  NodeInv'
<1>0. call.stage # "idle" /\ call.cmd \in Commands /\ Rests
  BY RestFacts DEF PrivdResponds, CallFails, CallInv
<1>1. PICK c \in Commands : c = call.cmd
  BY <1>0
<1>2. PICK reply : /\ Responded(reply)
                   /\ reply = "rejected" => Dead(c)
                   /\ reply = "absent" => Safe(c)
  <2>1. ASSUME NEW s \in Slots, PrivdResponds(s)
        PROVE  /\ Responded(slot[s].reply)
               /\ slot[s].reply = "rejected" => Dead(c)
               /\ slot[s].reply = "absent" => Safe(c)
    <3>1. slot[s].cmd = c
      BY <1>1, <2>1 DEF PrivdResponds, CallInv
    <3> QED
      BY <2>1, <3>1 DEF PrivdResponds, NodeInv, RejectedInv, AbsentInv
  <2>2. CASE CallFails
    BY <2>2 DEF CallFails
  <2> QED
    BY <2>1, <2>2
<1>3. Judged(c, reply) /\ Handled(c, reply)
  BY <1>0, <1>1, <1>2, RespondedJudged, RespondedHandled
<1>4. Fixed(c) => Safe(c)
  BY DEF Safe
<1>5. WorkInv' /\ RejectedInv' /\ AbsentInv'
  BY <1>0, <1>2, <1>3, <1>4, RestVerdicts DEF Judged
<1>6. FreshInv'
  <2>1. \A d \in Commands : journal'[d] = NoRecord => Fresh(d)'
    BY <1>0, <1>3, QuietKeeps DEF Judged, Rests, NodeInv, FreshInv
  <2> QED
    BY <1>3, <2>1 DEF Handled, FreshInv
<1> QED
  BY <1>5, <1>6 DEF NodeInv

\* A frame arrives: an execution is asked for when the command is fresh, a
\* retry when it is safe.
LEMMA ArrivalNode ==
  ASSUME PrivdInv, AgentTypeOK, NodeInv, NEW c \in Commands,
         \/ prepare_external(c) \/ AcceptInterrupted(c)
         \/ retry_external(c) \/ ReconcileArrives(c)
         \/ \E mode \in Modes : CommandExpired(c, mode)
  PROVE  NodeInv'
<1>0. UNCHANGED privdVars
  BY DEF prepare_external, AcceptInterrupted, retry_external, ReconcileArrives,
     CommandExpired
<1>1. Rests
  BY <1>0, RestFacts
<1>2. \/ UNCHANGED journal
      \/ \E state \in {"running", "unknown", "accepted"},
            code \in {"none", "outcome_requires_reconciliation"} :
           Journal(c, state, code)
  BY DEF prepare_external, AcceptInterrupted, retry_external, ReconcileArrives,
     CommandExpired
<1>3. Judged(c, "none")
  <2>1. CASE UNCHANGED journal
    BY <2>1 DEF Judged
  <2> QED
    BY <1>2, <2>1, JournalJudged
<1>4. call'.stage # "idle" /\ call'.purpose = "command" =>
        /\ call'.cmd = c
        /\ \/ call'.mode = "execute" /\ journal[c] = NoRecord
           \/ call'.mode = "retry" /\ journal[c].code = "effect_absent"
        /\ journal'[c] # NoRecord
  <2>1. CASE prepare_external(c)
    <3>1. CASE /\ journal[c] = NoRecord /\ Journal(c, "running", "none")
               /\ Connect(c, "execute", "command")
      BY <3>1 DEF Connect, Journal, AgentTypeOK, Record, NoRecord
    <3> QED
      BY <2>1, <3>1 DEF prepare_external, Respond, IdleCall
  <2>2. CASE AcceptInterrupted(c)
    BY <2>2 DEF AcceptInterrupted, Arrives
  <2>3. CASE retry_external(c)
    <3>1. CASE /\ journal[c] = Record("unknown", "effect_absent")
               /\ Journal(c, "running", "none") /\ Connect(c, "retry", "command")
      BY <3>1 DEF Connect, Journal, AgentTypeOK, Record, NoRecord
    <3> QED
      BY <2>3, <3>1 DEF retry_external, Respond, IdleCall
  <2>4. CASE ReconcileArrives(c)
    BY <2>4 DEF ReconcileArrives, Connect
  <2>5. CASE \E mode \in Modes : CommandExpired(c, mode)
    BY <2>5 DEF CommandExpired, Respond, IdleCall
  <2> QED
    BY <2>1, <2>2, <2>3, <2>4, <2>5
<1>5. WorkInv' /\ RejectedInv' /\ AbsentInv'
  BY <1>1, <1>3, RestVerdicts DEF Judged, Safe
<1>6. FreshInv'
  <2>1. \A d \in Commands : journal'[d] = NoRecord => Fresh(d)'
    BY <1>1, <1>3, QuietKeeps DEF Judged, Rests, NodeInv, FreshInv
  <2>2. ASSUME call'.stage # "idle", call'.purpose = "command"
        PROVE  /\ call'.mode # "reconcile"
               /\ IF call'.mode = "execute" THEN Fresh(call.cmd)' ELSE Safe(call.cmd)'
    <3>1. IF call'.mode = "execute" THEN Fresh(c)' ELSE Safe(c)'
      BY <1>1, <1>4, <2>2, QuietKeeps DEF Rests, Keeps, NodeInv, FreshInv, AbsentInv
    <3>2. /\ Fresh(c)' => Fresh(call.cmd)'
          /\ Safe(c)' => Safe(call.cmd)'
      BY <1>4, <2>2 DEF Fresh, Safe, Idle, Entry, Fixed, Key
    <3> QED
      BY <1>4, <2>2, <3>1, <3>2
  <2> QED
    BY <2>1, <2>2 DEF FreshInv
<1> QED
  BY <1>5, <1>6 DEF NodeInv

\* The inductive step.
LEMMA NodeNextInv == AgentInv /\ NodeInv /\ [AgentNext]_nodeVars => NodeInv'
<1> SUFFICES ASSUME AgentInv, NodeInv, [AgentNext]_nodeVars PROVE NodeInv'
  OBVIOUS
<1>0. PrivdInv /\ AgentTypeOK /\ CallInv
  BY DEF AgentInv
<1>1. ASSUME NEW c \in Commands,
             \/ prepare_external(c) \/ AcceptInterrupted(c)
             \/ retry_external(c) \/ ReconcileArrives(c)
             \/ \E mode \in Modes : CommandExpired(c, mode)
      PROVE  NodeInv'
  BY <1>0, <1>1, ArrivalNode
<1>2. ASSUME NEW s \in Slots, CallPrivd(s) PROVE NodeInv'
  BY <1>0, <1>2, CallNode
<1>3. CASE (\E s \in Slots : PrivdResponds(s)) \/ CallFails
  BY <1>0, <1>3, AnsweredNode
<1>4. ASSUME NEW s \in Slots, ReplyDropped(s) PROVE NodeInv'
  BY <1>0, <1>4, RestFacts, RestNode DEF ReplyDropped
<1>5. CASE AgentStops
  BY <1>0, <1>5, StopsNode
<1>6. CASE PrivdAlone
  <2>1. UNCHANGED agentVars
    BY <1>6 DEF PrivdAlone
  <2>2. CASE \E s \in Slots : PrivdStep(s)
    BY <1>0, <2>1, <2>2, WorkNode
  <2>3. CASE PrivdCrash \/ \E c \in Commands : CommandExpires(c)
    BY <1>0, <2>1, <2>3, RestFacts, RestNode
  <2> QED
    BY <1>6, <2>2, <2>3 DEF PrivdAlone
<1>7. CASE UNCHANGED nodeVars
  BY <1>0, <1>7, RestFacts, RestNode DEF nodeVars
<1> QED
  BY <1>1, <1>2, <1>3, <1>4, <1>5, <1>6, <1>7 DEF AgentNext

\* The initial state.
LEMMA NodeInitInv == AgentInit => NodeInv
<1> SUFFICES ASSUME AgentInit PROVE NodeInv
  OBVIOUS
<1>1. /\ \A s \in Slots : slot[s].stage = "idle"
      /\ \A c \in Commands : authorized[c].state = "none" /\ authorized[c].response = "none"
                             /\ performed[c] = 0 /\ journal[c] = NoRecord
      /\ call.stage = "idle"
  BY DEF AgentInit, PrivdInit, IdleSlot, NoAuthorized, IdleCall
<1>2. \A c \in Commands : ~Entry(c)
  BY ConstantsAssumption DEF AgentInit, PrivdInit, Entry, NoDesired, Key, Keys, Fixed
<1>3. "idle" \notin Busy /\ NoRecord.state = "none" /\ NoRecord.code = "none"
  BY DEF Busy, Holding, Working, NoRecord, Record
<1>4. \A c \in Commands : Fresh(c)
  BY <1>1, <1>2, <1>3 DEF Fresh, Idle
<1>5. WorkInv
  BY <1>1, <1>2, <1>3 DEF WorkInv, WorkSlot
<1>6. RejectedInv /\ AbsentInv
  BY <1>1, <1>3 DEF RejectedInv, AbsentInv
<1>7. FreshInv
  BY <1>1, <1>4 DEF FreshInv
<1> QED
  BY <1>5, <1>6, <1>7 DEF NodeInv

\* The stronger invariant of the node: verdicts are final, retries are safe.
THEOREM AgentNodeInvariant == AgentSpec => []NodeInv
BY NodeInitInv, NodeNextInv, AgentInvariant, PTL DEF AgentSpec

\* A failure in the journal is an effect that did not happen
\* (retry_external, EffectStore::observe).
THEOREM AgentFailedNeverPerformed == AgentSpec => []FailedNeverPerformed
<1>1. NodeInv => FailedNeverPerformed
  BY DEF NodeInv, RejectedInv, Dead, FailedNeverPerformed
<1> QED
  BY <1>1, AgentNodeInvariant, PTL

-----------------------------------------------------------------------------

\* The Controller numbers the desired states of a user, and gives the number of a
\* change that did not succeed again only to a change of the same kind
\* (userstate.Service: revisionReplacement, supersedePending).
SameKindRevisions ==
  \A c, d \in Commands :
    ~Fixed(c) /\ ~Fixed(d) /\ User[c] = User[d] /\ Revision[c] = Revision[d] =>
      Kind[c] = Kind[d]

\* The applied revision of the command's user is the one before the command's.
Current(c) == ~Fixed(c) => revision[User[c]] = Revision[c] - 1

\* privd has seen another command of the same kind and user with this revision or
\* a later one: EffectStore::prepare refuses the command.
Passed(c) ==
  LET row == desired[Key(c)] IN
  ~Fixed(c) /\ row.state # "none" /\ row.cmd # c /\ Revision[row.cmd] >= Revision[c]

\* A mutation is asked for and executed on top of the revision before it, or privd
\* will refuse it; and the applied revision does not go back below that.
RevisionInv ==
  /\ \A c \in Commands : ~Fixed(c) /\ (performed[c] = 1 \/ authorized[c].state # "none") =>
       revision[User[c]] >= Revision[c] - 1
  /\ \A s \in Slots :
       /\ slot[s].stage \in {"run", "locked"} => Current(slot[s].cmd) \/ Passed(slot[s].cmd)
       /\ slot[s].stage = "prepared" => Current(slot[s].cmd)
  /\ call.stage = "connect" /\ call.purpose = "command" => Current(call.cmd)

\* Revisions are numbers.
LEMMA RevisionTypes ==
  ASSUME AgentTypeOK
  PROVE  \A c \in Commands :
           /\ User[c] \in Users /\ Revision[c] \in Nat \ {0}
           /\ revision[User[c]] \in Nat
BY ConstantsAssumption DEF AgentTypeOK

\* A row gives way only to a later revision, and a command that it passed is not
\* prepared.
LEMMA PassedFacts ==
  ASSUME PrivdInv, NEW s \in Slots, PrivdStep(s)
  PROVE  /\ \A d \in Commands : Passed(d) => Passed(d)'
         /\ slot'[s].stage = "prepared" => ~Passed(slot[s].cmd)
<1> DEFINE c == slot[s].cmd
<1>0. /\ desired \in [Keys -> DesiredRows] /\ slot \in [Slots -> SlotStates]
      /\ slot[s].stage # "idle" => c \in Commands
  BY DEF PrivdInv, PrivdTypeOK, SlotsInv
<1>1. \A d \in Commands : Revision[d] \in Nat /\ (~Fixed(d) => Key(d) \in Keys)
  BY ConstantsAssumption DEF Key, Keys, Fixed
<1>2. \A k \in Keys : desired[k].state # "none" => desired[k].cmd \in Commands
  BY DEF PrivdInv, RowsInv
<1>3. ASSUME \A k \in Keys : desired'[k].cmd = desired[k].cmd
                             /\ (desired[k].state # "none" => desired'[k].state # "none")
      PROVE  \A d \in Commands : Passed(d) => Passed(d)'
  BY <1>1, <1>3 DEF Passed, Fixed, Key
<1>4. CASE prepare(s)
  <2>1. slot[s].stage = "locked" /\ c \in Commands /\ ~Fixed(c)
    BY <1>0, <1>4 DEF prepare, PrivdInv, SlotsInv, Holding
  <2>2. ~Passed(c)
    BY <1>4 DEF prepare, DesiredRefused, Passed
  <2>3. \A k \in Keys : Promoted(slot[s].before)[k].cmd = desired[k].cmd
                       /\ (desired[k].state # "none" =>
                             Promoted(slot[s].before)[k].state # "none")
    BY <1>0 DEF Promoted, DesiredRows
  <2>4. CASE desired' = Promoted(slot[s].before)
    BY <1>3, <2>2, <2>3, <2>4
  <2>5. CASE desired' = [Promoted(slot[s].before) EXCEPT ![Key(c)] =
                           [state |-> "prepared", cmd |-> c, before |-> slot[s].before,
                            after |-> After(slot[s].before, c)]]
    <3>1. Key(c) \in Keys /\ Promoted(slot[s].before) = [k \in Keys |-> Promoted(slot[s].before)[k]]
      BY <1>1, <2>1 DEF Promoted
    <3>2. desired'[Key(c)].state = "prepared" /\ desired'[Key(c)].cmd = c
      BY <2>5, <3>1
    <3>3. \A k \in Keys : k # Key(c) => desired'[k] = Promoted(slot[s].before)[k]
      BY <2>5, <3>1
    <3>4. ASSUME NEW d \in Commands, Passed(d) PROVE Passed(d)'
      <4>1. CASE Key(d) # Key(c)
        BY <1>1, <2>3, <3>3, <3>4, <4>1 DEF Passed, Fixed, Key
      <4>2. CASE Key(d) = Key(c)
        <5>1. d # c
          BY <2>2, <3>4
        <5>2. desired[Key(c)].cmd = c \/ Revision[desired[Key(c)].cmd] < Revision[c]
          BY <1>1, <1>2, <2>1, <2>2, <3>1, <3>4, <4>2 DEF Passed
        <5>3. PICK e \in Commands : e = desired[Key(c)].cmd /\ Revision[e] >= Revision[d]
          BY <1>2, <3>1, <3>4, <4>2 DEF Passed
        <5>4. e = c \/ Revision[e] < Revision[c]
          BY <5>2, <5>3
        <5>5. Revision[c] >= Revision[d]
          BY <1>1, <2>1, <5>3, <5>4
        <5> QED
          BY <3>2, <3>4, <4>2, <5>1, <5>5 DEF Passed, Fixed, Key
      <4> QED
        BY <4>1, <4>2
    <3> QED
      BY <2>2, <3>4
  <2> QED
    BY <1>4, <2>4, <2>5 DEF prepare
<1>5. CASE mark_applied(s) \/ observe(s)
  <2>1. slot'[s].stage # "prepared"
    BY <1>0, <1>5 DEF mark_applied, observe, Finish, Reply, Answer, Settle
  <2>2. desired' = desired \/ desired' = [desired EXCEPT ![Key(c)].state = "applied"]
    BY <1>5 DEF mark_applied, observe
  <2>3. \A k \in Keys : desired'[k].cmd = desired[k].cmd
                       /\ (desired[k].state # "none" => desired'[k].state # "none")
    BY <1>0, <2>2 DEF DesiredRows
  <2> QED
    BY <1>3, <2>1, <2>3
<1>6. CASE ~(prepare(s) \/ mark_applied(s) \/ observe(s))
  <2>a. \A r : slot' = [slot EXCEPT ![s] = r] => slot'[s] = r
    BY <1>0
  <2>b. \A g : Stage(s, g) => slot'[s].stage = g
    BY <1>0 DEF Stage, SlotStates
  <2>c. \A q : Finish(s, q) \/ Reply(s, q) => slot'[s].stage # "prepared"
    BY <2>a DEF Finish, Reply, Answer, Settle
  <2>d. LockUserFile(s) => slot'[s].stage = "locked"
    BY <1>0 DEF LockUserFile, SlotStates
  <2>1. UNCHANGED desired /\ slot'[s].stage # "prepared"
    BY <1>6, <2>b, <2>c, <2>d DEF PrivdStep, FixedRejected, FixedEffect, FixedSucceeded,
       LockUserFile, InputRejected, PrepareRejected, PrepareBlocked, publish_user_staging,
       PublishFailed, complete_authorized, CompleteFailed, DeadlineExceeded
  <2> QED
    BY <1>3, <2>1
<1> QED
  BY <1>4, <1>5, <1>6

\* The child process of a fixed effect, or the rename of a prepared transition.
LEMMA EffectCommand ==
  ASSUME PrivdInv, NEW s \in Slots, PrivdStep(s), NEW d \in Commands,
         performed'[d] # performed[d]
  PROVE  slot[s].cmd = d /\ (Fixed(d) \/ slot[s].stage = "prepared")
<1>1. performed \in [Commands -> Nat]
  BY DEF PrivdInv, PrivdTypeOK
<1> QED
  BY <1>1 DEF PrivdStep, FixedRejected, FixedEffect, FixedSucceeded, LockUserFile,
     InputRejected, PrepareRejected, PrepareBlocked, prepare, publish_user_staging,
     PublishFailed, mark_applied, complete_authorized, CompleteFailed, observe,
     DeadlineExceeded

\* Steps of privd that start nothing, while the revisions stay.
LEMMA SteadyRevision ==
  ASSUME PrivdInv, PrivdInv', AgentTypeOK, RevisionInv, UNCHANGED revision,
         \A d \in Commands : Passed(d) => Passed(d)',
         \A d \in Commands : performed'[d] # performed[d] => Current(d),
         \A d \in Commands : authorized'[d].state # "none" =>
           authorized[d].state # "none" \/ Current(d),
         \A t \in Slots : slot'[t].stage \in {"run", "locked", "prepared"} =>
           \/ /\ slot'[t].cmd = slot[t].cmd
              /\ IF slot'[t].stage = "prepared" THEN slot[t].stage = "prepared"
                 ELSE slot[t].stage \in {"run", "locked"}
           \/ \E d \in Commands : slot'[t].cmd = d /\ Current(d),
         call'.stage = "connect" /\ call'.purpose = "command" =>
           call' = call \/ \E d \in Commands : call'.cmd = d /\ Current(d)
  PROVE  RevisionInv'
<1>1. \A c : Current(c)' <=> (~Fixed(c) => revision[User[c]] = Revision[c] - 1)
  BY DEF Current, Fixed
<1>2. \A c \in Commands : Current(c) /\ ~Fixed(c) => revision[User[c]] >= Revision[c] - 1
  BY RevisionTypes DEF Current
<1>3. \A c \in Commands :
        ~Fixed(c) /\ (performed'[c] = 1 \/ authorized'[c].state # "none") =>
          revision[User[c]] >= Revision[c] - 1
  BY <1>2 DEF RevisionInv
<1>4. ASSUME NEW t \in Slots, slot'[t].stage \in {"run", "locked", "prepared"}
      PROVE  \/ Current(slot[t].cmd)'
             \/ slot'[t].stage # "prepared" /\ Passed(slot[t].cmd)'
  <2>1. PICK d \in Commands : slot'[t].cmd = d
    BY <1>4 DEF PrivdInv, SlotsInv
  <2>2. Current(d) \/ (slot'[t].stage # "prepared" /\ Passed(d))
    BY <1>4, <2>1 DEF RevisionInv
  <2>3. Current(d)' \/ (slot'[t].stage # "prepared" /\ Passed(d)')
    BY <2>2 DEF Current, Fixed
  <2> QED
    BY <2>1, <2>3 DEF Current, Passed, Fixed, Key
<1>5. call'.stage = "connect" /\ call'.purpose = "command" => Current(call.cmd)'
  BY DEF RevisionInv, Current, Fixed
<1> QED
  BY <1>3, <1>4, <1>5 DEF RevisionInv, Fixed

\* A success moves the applied revision to the command's own, over which no
\* other mutation of the user is being executed.
LEMMA SuccessRevision ==
  ASSUME SameKindRevisions, PrivdInv, AgentTypeOK, WorkInv, RevisionInv, Rests,
         NEW c \in Commands, ~Fixed(c), performed[c] = 1, revision[User[c]] <= Revision[c],
         revision' = [revision EXCEPT ![User[c]] = Revision[c]],
         call'.stage = "connect" => call'.purpose # "command"
  PROVE  RevisionInv'
<1>0. /\ revision \in [Users -> Nat] /\ User[c] \in Users /\ Revision[c] \in Nat \ {0}
      /\ \A d \in Commands : User[d] \in Users /\ Revision[d] \in Nat \ {0}
  BY RevisionTypes DEF AgentTypeOK
<1>1. revision[User[c]] \in {Revision[c] - 1, Revision[c]}
  <2>1. revision[User[c]] >= Revision[c] - 1
    BY DEF RevisionInv
  <2>2. revision[User[c]] \in Nat
    BY <1>0
  <2> QED
    BY <1>0, <2>1, <2>2
<1>2. UNCHANGED <<authorized, performed>>
      /\ \A t \in Slots : slot'[t].stage # "idle" => slot'[t] = slot[t]
  BY DEF Rests, Quiet
<1>3. ASSUME NEW d \in Commands, ~Fixed(d), performed'[d] = 1 \/ authorized'[d].state # "none"
      PROVE  revision'[User[d]] >= Revision[d] - 1
  <2>1. revision[User[d]] >= Revision[d] - 1
    BY <1>2, <1>3 DEF RevisionInv
  <2>2. revision'[User[d]] >= revision[User[d]] /\ revision'[User[d]] \in Nat
        /\ revision[User[d]] \in Nat
    BY <1>0
  <2> QED
    BY <1>0, <2>1, <2>2
<1>4. ASSUME NEW t \in Slots, slot'[t].stage \in {"run", "locked", "prepared"}
      PROVE  \/ Current(slot[t].cmd)'
             \/ slot'[t].stage # "prepared" /\ Passed(slot[t].cmd)'
  <2>1. slot'[t] = slot[t] /\ UNCHANGED desired
    BY <1>2, <1>4 DEF Rests, Quiet
  <2>2. PICK d \in Commands : d = slot[t].cmd
    BY <1>4, <2>1 DEF PrivdInv, SlotsInv
  <2>3. performed[d] = 0
    BY <1>4, <2>1, <2>2 DEF WorkInv, WorkSlot, Busy, Holding, Working
  <2>4. Current(d) \/ (slot[t].stage # "prepared" /\ Passed(d))
    BY <1>4, <2>1, <2>2 DEF RevisionInv
  <2>5. CASE Passed(d) /\ slot[t].stage # "prepared"
    BY <2>1, <2>2, <2>5 DEF Passed, Fixed, Key
  <2>6. CASE Fixed(d)
    BY <2>1, <2>2, <2>6 DEF Current, Fixed
  <2>7. ASSUME Current(d), ~Fixed(d)
        PROVE  \/ revision'[User[d]] = Revision[d] - 1
               \/ slot[t].stage # "prepared" /\ Passed(d)
    <3>1. CASE User[d] # User[c]
      BY <1>0, <2>7, <3>1 DEF Current
    <3>2. CASE User[d] = User[c] /\ revision[User[c]] = Revision[c]
      BY <1>0, <2>7, <3>2 DEF Current
    <3>3. CASE User[d] = User[c] /\ revision[User[c]] = Revision[c] - 1
      <4>1. Revision[d] = Revision[c]
        BY <1>0, <2>7, <3>3 DEF Current
      <4>2. Key(d) = Key(c) /\ c # d
        BY <2>3, <2>7, <3>3, <4>1 DEF SameKindRevisions, Key
      <4>3. /\ desired[Key(d)].state # "none"
            /\ desired[Key(d)].cmd # c => Revision[c] < Revision[desired[Key(d)].cmd]
        BY <4>2 DEF PrivdInv, PublishedInv
      <4>4. desired[Key(d)].cmd # d
        BY <1>0, <4>1, <4>2, <4>3
      <4>5. slot[t].stage # "prepared"
        BY <2>2, <4>4 DEF PrivdInv, HolderInv
      <4>6. Key(d) \in Keys
        BY <2>7, ConstantsAssumption DEF Key, Keys, Fixed
      <4>7. desired[Key(d)].cmd \in Commands
        BY <4>3, <4>6 DEF PrivdInv, RowsInv
      <4>8. Revision[desired[Key(d)].cmd] >= Revision[d]
        BY <1>0, <4>1, <4>3, <4>7
      <4> QED
        BY <2>7, <4>3, <4>4, <4>5, <4>8 DEF Passed
    <3> QED
      BY <1>1, <3>1, <3>2, <3>3
  <2> QED
    BY <2>1, <2>2, <2>4, <2>5, <2>6, <2>7 DEF Current, Passed, Fixed, Key
<1> QED
  BY <1>3, <1>4 DEF RevisionInv, Fixed

\* The inductive step of the revisions.
LEMMA RevisionNextInv ==
  ASSUME SameKindRevisions, AgentInv, AgentInv', NodeInv, RevisionInv, [AgentNext]_nodeVars
  PROVE  RevisionInv'
<1>0. PrivdInv /\ PrivdInv' /\ AgentTypeOK /\ CallInv /\ WorkInv
  BY DEF AgentInv, NodeInv
<1>r. ASSUME Rests, UNCHANGED revision,
             call'.stage = "connect" /\ call'.purpose = "command" =>
               call' = call \/ \E d \in Commands : call'.cmd = d /\ Current(d)
      PROVE  RevisionInv'
  <2>1. \A d \in Commands : Passed(d) => Passed(d)'
    BY <1>r DEF Rests, Quiet, Passed, Fixed, Key
  <2> QED
    BY <1>0, <1>r, <2>1, SteadyRevision DEF Rests, Quiet
<1>1. ASSUME NEW c \in Commands,
             \/ prepare_external(c) \/ AcceptInterrupted(c)
             \/ retry_external(c) \/ ReconcileArrives(c)
             \/ \E mode \in Modes : CommandExpired(c, mode)
      PROVE  RevisionInv'
  <2>1. UNCHANGED privdVars /\ UNCHANGED revision
    BY <1>1 DEF prepare_external, AcceptInterrupted, retry_external, ReconcileArrives,
       CommandExpired
  <2>2. desired_revision_fence(c) = "current" => Current(c)
    BY <1>0, RevisionTypes DEF desired_revision_fence, Current
  <2>3. call'.stage = "connect" /\ call'.purpose = "command" =>
          call'.cmd = c /\ desired_revision_fence(c) = "current"
    BY <1>1 DEF prepare_external, AcceptInterrupted, retry_external, ReconcileArrives,
       CommandExpired, Respond, Connect, IdleCall, Arrives
  <2> QED
    BY <1>0, <1>r, <2>1, <2>2, <2>3, RestFacts
<1>2. ASSUME NEW s \in Slots, CallPrivd(s) PROVE RevisionInv'
  <2>1. call.cmd \in Commands /\ call \in Calls
    BY <1>0, <1>2 DEF CallPrivd, CallInv, AgentTypeOK
  <2>2. call'.stage = "wait" /\ UNCHANGED revision /\ call.stage = "connect"
    BY <1>2, <2>1 DEF CallPrivd, Calls
  <2>3. PICK c \in Commands, mode \in Modes :
          /\ c = call.cmd /\ Request(s, c, mode)
          /\ mode # "reconcile" => call.purpose = "command"
    BY <1>2, <2>1 DEF CallPrivd, Calls, Modes
  <2>4. CASE Quiet /\ Answered(s, c)
    <3>1. UNCHANGED <<authorized, performed>>
          /\ \A t \in Slots : slot'[t].stage \in {"run", "locked", "prepared"} =>
               slot'[t] = slot[t]
      BY <2>4 DEF Quiet, Busy, Holding, Working
    <3>2. \A d \in Commands : Passed(d) => Passed(d)'
      BY <2>4 DEF Quiet, Passed, Fixed, Key
    <3> QED
      BY <1>0, <2>2, <3>1, <3>2, SteadyRevision
  <2>5. CASE Starts(s, c, mode) /\ mode # "reconcile"
    <3>1. Current(c)
      BY <2>2, <2>3, <2>5 DEF RevisionInv
    <3>2. UNCHANGED performed
          /\ \A t \in Slots : t # s => slot'[t] = slot[t]
      BY <2>5 DEF Starts
    <3>3. slot'[s].cmd = c
      BY <2>5 DEF Starts
    <3>4. \A d \in Commands : authorized'[d].state # "none" =>
            authorized[d].state # "none" \/ Current(d)
      BY <2>5, <3>1 DEF Starts, NoAuthorized
    <3>5. \A d \in Commands : Passed(d) => Passed(d)'
      BY <2>5 DEF Starts, Passed, Fixed, Key
    <3> QED
      BY <1>0, <2>2, <3>1, <3>2, <3>3, <3>4, <3>5, SteadyRevision
  <2> QED
    BY <1>0, <2>3, <2>4, <2>5, RequestFacts
<1>3. CASE (\E s \in Slots : PrivdResponds(s)) \/ CallFails
  <2>0. call.stage # "idle" /\ call.cmd \in Commands /\ Rests
    BY <1>0, <1>3, RestFacts DEF PrivdResponds, CallFails, CallInv
  <2>1. PICK c \in Commands : c = call.cmd
    BY <2>0
  <2>2. PICK reply : Responded(reply) /\ (reply = "ok" => performed[c] = 1)
    <3>1. ASSUME NEW s \in Slots, PrivdResponds(s)
          PROVE  Responded(slot[s].reply) /\ (slot[s].reply = "ok" => performed[c] = 1)
      <4>1. slot[s].cmd = c
        BY <1>0, <2>1, <3>1 DEF PrivdResponds, CallInv
      <4> QED
        BY <1>0, <3>1, <4>1 DEF PrivdResponds, PrivdInv, AttestedSuccessIsReal
    <3>2. CASE CallFails
      BY <3>2 DEF CallFails
    <3> QED
      BY <1>3, <3>1, <3>2
  <2>3. Handled(c, reply)
    BY <1>0, <2>0, <2>1, <2>2, RespondedHandled
  <2>4. call'.stage = "connect" => call'.purpose # "command"
    BY <2>3 DEF Handled
  <2>5. CASE revision' = revision
    BY <1>r, <2>0, <2>4, <2>5
  <2>6. CASE /\ reply = "ok" /\ ~Fixed(c) /\ revision[User[c]] <= Revision[c]
             /\ revision' = [revision EXCEPT ![User[c]] = Revision[c]]
    BY <1>0, <2>0, <2>2, <2>4, <2>6, SuccessRevision
  <2> QED
    BY <2>3, <2>5, <2>6 DEF Handled
<1>4. ASSUME NEW s \in Slots, ReplyDropped(s) PROVE RevisionInv'
  BY <1>0, <1>4, <1>r, RestFacts DEF ReplyDropped, agentVars
<1>5. CASE AgentStops
  BY <1>0, <1>5, <1>r, RestFacts DEF AgentStops, IdleCall
<1>6. CASE PrivdAlone
  <2>1. UNCHANGED <<call, revision>>
    BY <1>6 DEF PrivdAlone, agentVars
  <2>2. ASSUME NEW s \in Slots, PrivdStep(s) PROVE RevisionInv'
    <3>1. WorkStep(s)
      BY <1>0, <2>2, WorkFacts
    <3>2. \A d \in Commands : performed'[d] # performed[d] => Current(d)
      <4>1. \A d \in Commands : performed'[d] # performed[d] =>
              slot[s].cmd = d /\ (Fixed(d) \/ slot[s].stage = "prepared")
        BY <1>0, <2>2, EffectCommand
      <4> QED
        BY <4>1 DEF RevisionInv, Current
    <3>3. \A d \in Commands : authorized'[d].state # "none" =>
            authorized[d].state # "none" \/ Current(d)
      <4>1. \A d \in Commands : authorized'[d] # authorized[d] => authorized[d].state # "none"
        BY <1>0, <3>1 DEF WorkStep, WorkInv, WorkSlot, Busy, Working
      <4> QED
        BY <4>1
    <3>4. /\ \A d \in Commands : Passed(d) => Passed(d)'
          /\ slot'[s].stage = "prepared" => ~Passed(slot[s].cmd)
      BY <1>0, <2>2, PassedFacts
    <3>5. \A t \in Slots : slot'[t].stage \in {"run", "locked", "prepared"} =>
            \/ /\ slot'[t].cmd = slot[t].cmd
               /\ IF slot'[t].stage = "prepared" THEN slot[t].stage = "prepared"
                  ELSE slot[t].stage \in {"run", "locked"}
            \/ \E d \in Commands : slot'[t].cmd = d /\ Current(d)
      BY <3>1, <3>4 DEF WorkStep, RevisionInv
    <3> QED
      BY <1>0, <2>1, <3>2, <3>3, <3>4, <3>5, SteadyRevision
  <2>3. CASE PrivdCrash \/ \E c \in Commands : CommandExpires(c)
    BY <1>0, <1>r, <2>1, <2>3, RestFacts
  <2> QED
    BY <1>6, <2>2, <2>3 DEF PrivdAlone
<1>7. CASE UNCHANGED nodeVars
  BY <1>0, <1>7, <1>r, RestFacts DEF nodeVars, agentVars
<1> QED
  BY <1>1, <1>2, <1>3, <1>4, <1>5, <1>6, <1>7 DEF AgentNext

\* The revisions in every reachable state.
THEOREM AgentRevisionInvariant == SameKindRevisions /\ AgentSpec => []RevisionInv
<1> SUFFICES ASSUME SameKindRevisions PROVE AgentSpec => []RevisionInv
  OBVIOUS
<1>1. AgentInit => RevisionInv
  BY DEF AgentInit, PrivdInit, IdleSlot, NoAuthorized, IdleCall, RevisionInv
<1>2. AgentInv /\ AgentInv' /\ NodeInv /\ RevisionInv /\ [AgentNext]_nodeVars => RevisionInv'
  BY RevisionNextInv
<1> QED
  BY <1>1, <1>2, AgentInvariant, AgentNodeInvariant, PTL DEF AgentSpec

\* A user's entry is rewritten only on top of the revision before it
\* (desired_revision_fence), also when the Controller has given the revision twice to
\* changes of the same kind: EffectStore::prepare lets one of them through.
THEOREM AgentHostFollowsRevisions == SameKindRevisions /\ AgentSpec => HostFollowsRevisions
<1> DEFINE Follows ==
      \A c \in Commands : ~Fixed(c) /\ performed'[c] # performed[c] =>
        revision[User[c]] = Revision[c] - 1
<1> SUFFICES ASSUME SameKindRevisions PROVE AgentSpec => HostFollowsRevisions
  OBVIOUS
<1>1. AgentInv /\ RevisionInv /\ [AgentNext]_nodeVars => [Follows]_nodeVars
  <2> SUFFICES ASSUME AgentInv, RevisionInv, [AgentNext]_nodeVars,
                      NEW c \in Commands, performed'[c] # performed[c]
               PROVE  Current(c)
    BY DEF Current
  <2>1. PrivdNext
    BY PrivdStepOfNode DEF AgentInv, privdVars
  <2>2. PICK s \in Slots : FixedEffect(s) \/ publish_user_staging(s)
    BY <2>1, EffectSteps
  <2>3. performed' = [performed EXCEPT ![slot[s].cmd] = @ + 1]
        /\ slot[s].stage \in {"run", "prepared"}
    BY <2>2 DEF FixedEffect, publish_user_staging
  <2>4. slot[s].cmd = c
    BY <2>3 DEF AgentInv, PrivdInv, PrivdTypeOK
  <2>5. Fixed(c) \/ slot[s].stage = "prepared"
    BY <2>2, <2>4 DEF FixedEffect, publish_user_staging
  <2> QED
    BY <2>4, <2>5 DEF RevisionInv, Current
<1> HIDE DEF Follows
<1>2. AgentSpec => [][Follows]_nodeVars
  BY <1>1, AgentInvariant, AgentRevisionInvariant, PTL DEF AgentSpec
<1> QED
  BY <1>2 DEF HostFollowsRevisions, Follows

=============================================================================
