---------------------------- MODULE AgentExecutor ----------------------------
(***************************************************************************)
(* The Agent's command executor and its journal, composed with privd       *)
(* (rust/crates/agent, rust/crates/command-journal).                       *)
(*                                                                         *)
(* The Agent handles one command frame at a time.  Around every call of    *)
(* privd it commits the state of the command to its SQLite journal, so     *)
(* that a crash, a lost reply or a reply that comes too late leaves a      *)
(* record from which a later frame can be answered.  A call that the Agent *)
(* gave up goes on in privd.  Nothing is assumed of the Controller: every  *)
(* signed command may be delivered in every mode, at any time.             *)
(***************************************************************************)
EXTENDS PrivdEffects

ASSUME MissingAssumption == Missing \notin Slots

VARIABLES
  journal,   \* command_journal
  revision,  \* applied_resource_revisions of the users
  call,      \* the frame that is being handled
  answer     \* the result frame sent last, until the next frame arrives

agentVars == <<journal, revision, call, answer>>
nodeVars == <<privdVars, agentVars>>

(***************************************************************************)
(* Data.                                                                   *)
(***************************************************************************)

Settled == {"succeeded", "failed"}
\* "other" stands for the error codes on which no decision depends.
Records ==
  [state : Settled \cup {"none", "accepted", "running", "unknown"},
   code : {"none", "effect_absent", "outcome_requires_reconciliation", "other"}]
\* What the Agent is waiting for: the effect, the cached receipt of an earlier
\* execution, or an observation of the host.
Calls ==
  [stage : {"idle", "connect", "wait"}, cmd : Commands \cup {Missing}, mode : Modes,
   purpose : {"command", "receipt", "observation"}, slot : Slots \cup {Missing}]
Answers ==
  [cmd : Commands \cup {Missing}, mode : Modes,
   state : Settled \cup {"none", "unknown", "rejected"}]

Record(state, code) == [state |-> state, code |-> code]
NoRecord == Record("none", "none")
IdleCall ==
  [stage |-> "idle", cmd |-> Missing, mode |-> "execute", purpose |-> "command",
   slot |-> Missing]
NoAnswer == [cmd |-> Missing, mode |-> "execute", state |-> "none"]

AgentTypeOK ==
  /\ journal \in [Commands -> Records]
  /\ revision \in [Users -> Nat]
  /\ call \in Calls
  /\ answer \in Answers

AgentInit ==
  /\ PrivdInit
  /\ journal = [c \in Commands |-> NoRecord]
  /\ revision = [u \in Users |-> 0]
  /\ call = IdleCall
  /\ answer = NoAnswer

Journal(c, state, code) == journal' = [journal EXCEPT ![c] = Record(state, code)]

\* command_result, rejected_result and unknown_result: the frame is answered.
Respond(c, mode, state) ==
  /\ answer' = [cmd |-> c, mode |-> mode, state |-> state]
  /\ call' = IdleCall

\* The next thing the frame needs is a call of privd.
Connect(c, mode, purpose) ==
  /\ call' = [stage |-> "connect", cmd |-> c, mode |-> mode, purpose |-> purpose,
              slot |-> Missing]
  /\ answer' = NoAnswer

\* Mutant: a missing revision is not noticed.
FenceWithoutGap(c) ==
  IF ~Fixed(c) /\ revision[User[c]] > Revision[c] - 1 THEN "superseded" ELSE "current"

\* desired_revision_fence: the revisions of a user are applied one by one.
desired_revision_fence(c) ==
  CASE Fixed(c) \/ revision[User[c]] = Revision[c] - 1 -> "current"
    [] ~Fixed(c) /\ revision[User[c]] > Revision[c] - 1 -> "superseded"
    [] ~Fixed(c) /\ revision[User[c]] < Revision[c] - 1 -> "gap"

(***************************************************************************)
(* A frame arrives: execute_external_command up to its first await.        *)
(***************************************************************************)

Arrives(c, mode) == call.stage = "idle" /\ (mode = "reconcile" \/ c \notin expired)

\* validate_command: the execution deadline has passed.
CommandExpired(c, mode) ==
  /\ call.stage = "idle" /\ mode # "reconcile" /\ c \in expired
  /\ Respond(c, mode, "rejected")
  /\ UNCHANGED <<privdVars, journal, revision>>

prepare_external(c) ==
  LET r == journal[c] IN
  /\ Arrives(c, "execute")
  /\ \/ /\ r = NoRecord /\ desired_revision_fence(c) # "current"
        /\ Respond(c, "execute", "rejected")
        /\ UNCHANGED journal
     \/ /\ r = NoRecord /\ desired_revision_fence(c) = "current"
        /\ Journal(c, "running", "none")
        /\ Connect(c, "execute", "command")
     \/ /\ r.state \in Settled
        /\ Respond(c, "execute", r.state)
        /\ UNCHANGED journal
     \/ /\ r.state \in {"accepted", "running", "unknown"}
        /\ Journal(c, "unknown", "outcome_requires_reconciliation")
        /\ Respond(c, "execute", "unknown")
  /\ UNCHANGED <<privdVars, revision>>

\* The Agent stops between accepting the command and marking it as running.
AcceptInterrupted(c) ==
  /\ Arrives(c, "execute")
  /\ journal[c] = NoRecord /\ desired_revision_fence(c) = "current"
  /\ Journal(c, "accepted", "none")
  /\ answer' = NoAnswer
  /\ UNCHANGED <<privdVars, revision, call>>

\* Mutant: every unknown outcome may be retried.
RetryUnknown(c) ==
  /\ Arrives(c, "retry")
  /\ IF journal[c].state = "unknown" /\ desired_revision_fence(c) = "current"
     THEN Journal(c, "running", "none") /\ Connect(c, "retry", "command")
     ELSE Respond(c, "retry", "rejected") /\ UNCHANGED journal
  /\ UNCHANGED <<privdVars, revision>>

\* A retry needs an absence that reconciliation has recorded.
retry_external(c) ==
  LET permitted == /\ journal[c] = Record("unknown", "effect_absent")
                   /\ desired_revision_fence(c) = "current" IN
  /\ Arrives(c, "retry")
  /\ IF permitted
     THEN Journal(c, "running", "none") /\ Connect(c, "retry", "command")
     ELSE Respond(c, "retry", "rejected") /\ UNCHANGED journal
  /\ UNCHANGED <<privdVars, revision>>

\* Reconciliation asks privd for a receipt before it looks at the journal.
ReconcileArrives(c) ==
  /\ Arrives(c, "reconcile")
  /\ Connect(c, "reconcile", "receipt")
  /\ UNCHANGED <<privdVars, journal, revision>>

(***************************************************************************)
(* What the Agent does with the response of privd.                         *)
(***************************************************************************)

\* complete_external_attested and complete_external_applied_attested: result,
\* receipt and applied revision are one SQLite transaction.  When it fails, or
\* the revision would go back, the record stays running.
complete_external(c, mode, reply) ==
  \/ /\ reply = "ok" /\ ~Fixed(c)
     /\ revision[User[c]] <= Revision[c]
     /\ Journal(c, "succeeded", "none")
     /\ revision' = [revision EXCEPT ![User[c]] = Revision[c]]
     /\ Respond(c, mode, "succeeded")
  \/ /\ reply = "ok" /\ Fixed(c)
     /\ Journal(c, "succeeded", "none") /\ UNCHANGED revision
     /\ Respond(c, mode, "succeeded")
  \/ /\ reply = "rejected"
     /\ Journal(c, "failed", "other") /\ UNCHANGED revision
     /\ Respond(c, mode, "failed")
  \/ /\ Journal(c, "running", "none") /\ UNCHANGED revision
     /\ Respond(c, mode, "unknown")

mark_external_unknown(c, mode) ==
  /\ Journal(c, "unknown", "other") /\ UNCHANGED revision
  /\ Respond(c, mode, "unknown")

\* begin_attested_recovery: a receipt completes an accepted or unknown record,
\* or one that the journal has lost; any other state is refused.
begin_attested_recovery(c, reply) ==
  IF journal[c].state \in {"none", "accepted", "unknown"}
  THEN \/ complete_external(c, "reconcile", reply)
       \/ /\ Journal(c, "running", "none")            \* the Agent stops here
          /\ call' = IdleCall /\ UNCHANGED <<revision, answer>>
  ELSE Respond(c, "reconcile", "rejected") /\ UNCHANGED <<journal, revision>>

\* Mutant: an observed effect settles the command without a receipt.
ObservationSettles(c, observed) ==
  LET r == journal[c]
      state == CASE r.state \in Settled -> r.state
                 [] r.state \notin Settled /\ observed = "applied_exact" -> "succeeded"
                 [] r.state \notin Settled /\ observed # "applied_exact" -> "unknown"
  IN
  /\ IF r.state \in Settled THEN UNCHANGED journal
     ELSE Journal(c, state, IF observed = "absent" THEN "effect_absent" ELSE "other")
  /\ Respond(c, "reconcile", state) /\ UNCHANGED revision

\* reconcile_external: an observation never settles a command; it may only
\* record that a retry is safe.
reconcile_external(c, observed) ==
  LET r == journal[c]
      fence == desired_revision_fence(c)
      rebuilt == r = NoRecord
  IN
  \/ /\ r.state \in Settled
     /\ Respond(c, "reconcile", r.state) /\ UNCHANGED <<journal, revision>>
  \/ /\ r.state \notin Settled
     /\ fence = "gap" /\ ~(rebuilt /\ observed = "applied_exact")
     /\ journal' = IF rebuilt THEN [journal EXCEPT ![c] = Record("accepted", "none")]
                   ELSE journal
     /\ Respond(c, "reconcile", "rejected") /\ UNCHANGED revision
  \/ /\ r.state \notin Settled
     /\ fence # "gap" \/ (rebuilt /\ observed = "applied_exact")
     /\ Journal(c, "unknown",
                IF fence = "current" /\ observed = "absent" THEN "effect_absent"
                ELSE "other")
     /\ Respond(c, "reconcile", "unknown") /\ UNCHANGED revision

\* observe_external_effect: a user mutation is observed by privd; for a fixed
\* effect the Agent reads the current sessions or bans, which may show anything.
observe_external_effect(c) ==
  \/ /\ ~Fixed(c)
     /\ Connect(c, "reconcile", "observation")
     /\ UNCHANGED <<journal, revision>>
  \/ /\ Fixed(c)
     /\ \E seen \in {"absent", "applied_exact", "unknown"} : reconcile_external(c, seen)

Responded(reply) ==
  LET c == call.cmd IN
  CASE call.purpose = "command" ->
         IF reply \in Attested THEN complete_external(c, call.mode, reply)
         ELSE mark_external_unknown(c, call.mode)
    [] call.purpose = "receipt" ->
         IF reply \in Attested THEN begin_attested_recovery(c, reply)
         ELSE observe_external_effect(c)
    [] call.purpose = "observation" ->
         reconcile_external(c, IF reply \in Observations THEN reply ELSE "unknown")

(***************************************************************************)
(* The calls of privd.                                                     *)
(***************************************************************************)

CallPrivd(s) ==
  /\ call.stage = "connect"
  /\ Request(s, call.cmd, IF call.purpose = "command" THEN call.mode ELSE "reconcile")
  /\ call' = [call EXCEPT !.stage = "wait", !.slot = s]
  /\ UNCHANGED <<journal, revision, answer>>

PrivdResponds(s) ==
  /\ call.stage = "wait" /\ call.slot = s /\ slot[s].stage = "replied"
  /\ Responded(slot[s].reply)
  /\ TakeReply(s)

\* privd cannot be reached, or does not answer in time; it may go on all the same.
CallFails ==
  /\ call.stage \in {"connect", "wait"}
  /\ Responded("unattested")
  /\ UNCHANGED privdVars

\* The response to a call that the Agent has given up.
ReplyDropped(s) ==
  /\ ~(call.stage = "wait" /\ call.slot = s)
  /\ TakeReply(s)
  /\ UNCHANGED agentVars

AgentStops ==
  /\ call.stage # "idle"
  /\ call' = IdleCall
  /\ UNCHANGED <<privdVars, journal, revision, answer>>

PrivdAlone ==
  /\ (\E s \in Slots : PrivdStep(s)) \/ PrivdCrash \/ (\E c \in Commands : CommandExpires(c))
  /\ UNCHANGED agentVars

AgentNext ==
  \/ \E c \in Commands :
       \/ prepare_external(c) \/ AcceptInterrupted(c)
       \/ retry_external(c) \/ ReconcileArrives(c)
       \/ \E mode \in Modes : CommandExpired(c, mode)
  \/ \E s \in Slots : CallPrivd(s) \/ PrivdResponds(s) \/ ReplyDropped(s)
  \/ CallFails \/ AgentStops \/ PrivdAlone

AgentSpec == AgentInit /\ [][AgentNext]_nodeVars

(***************************************************************************)
(* Properties.                                                             *)
(***************************************************************************)

\* A success in the journal is an effect on the host, and a user revision the
\* journal calls applied was written to the password file, whichever of the
\* Agent and privd crashed in between (complete_external_applied_attested).
JournalIsReal ==
  /\ \A c \in Commands : journal[c].state = "succeeded" =>
       performed[c] = 1 /\ (Fixed(c) \/ revision[User[c]] >= Revision[c])
  /\ \A u \in Users : revision[u] > 0 =>
       \E c \in Commands : /\ ~Fixed(c) /\ User[c] = u
                           /\ Revision[c] = revision[u] /\ performed[c] = 1

\* A user's entry is rewritten only on top of the revision before it, whatever
\* kind of mutation each of the two is: a delayed execution, a retry and a
\* recovered journal never let one overtake the other (desired_revision_fence).
HostFollowsRevisions ==
  [][\A c \in Commands : ~Fixed(c) /\ performed'[c] # performed[c] =>
       revision[User[c]] = Revision[c] - 1]_nodeVars

\* A result in the journal is never changed again (transition_command).
JournalIsFinal ==
  [][\A c \in Commands : journal[c].state \in Settled => journal'[c] = journal[c]]_nodeVars

\* A failure in the journal is an effect that did not happen: a retry is never
\* refused because of what an earlier, unfinished execution of the same command
\* did to the host (retry_external, EffectStore::observe).
FailedNeverPerformed ==
  \A c \in Commands : journal[c].state = "failed" => performed[c] = 0
=============================================================================
