------------------------- MODULE Credentials_proof --------------------------
(***************************************************************************)
(* What names a node and its users, proved for any number of transfers,    *)
(* commands, upgrades, keys, grants, exports and crashes: the transfer of  *)
(* a node to another Controller keeps its binding whole and its work       *)
(* decided, and a PKCS#12 artifact is delivered once and never after its   *)
(* revocation.                                                             *)
(***************************************************************************)
EXTENDS Rebind, Artifacts, FiniteSetTheorems, TLAPS

(***************************************************************************)
(* Rebind                                                                  *)
(***************************************************************************)

Enrolling == {"stage", "rename", "enrolling", "request", "completion", "response"}

\* The steps of commit between the stop of the services and their start.
Quiesced == {"committing", "assess", "move", "record", "publish", "committed"}

ToolTypeOK ==
  /\ tool \in [step : Enrolling \cup Quiesced \cup {"off", "stop", "start", "poll"},
               blocked : BOOLEAN]
  /\ privd \in [node : Nodes \cup {None}, blocked : BOOLEAN, key : Keys \cup {0},
                opening : BOOLEAN]
  /\ privd.node = None => privd = Down

\* The tool's step follows from the phase it saved and the authority it found.
ToolInv ==
  /\ tool.step \in Enrolling => op.phase \in {"prepared", "enrolling"}
  /\ tool.step \in {"stop", "committing"} =>
       /\ op.phase \in {"enrolled", "committing"}
       /\ AlreadyCommitted \/ active = op.source
  /\ op.phase \in {"enrolled", "committing", "committed", "verified"} => op.node \in Nodes
  /\ tool.step \in {"assess", "move", "record", "publish"} =>
       op.phase = "committing" /\ active = op.source
  /\ tool.step \in {"record", "publish"} => op.node \in identity
  /\ tool.step = "committed" => op.phase = "committing"
  /\ tool.step \in {"start", "poll"} => op.phase = "committed"

\* Nothing runs from the stop of the services until they are started again.
StoppedInv ==
  tool.step \in Quiesced => ~unit /\ privd = Down /\ agent = None /\ runner = None

\* The decision of commit stays true until the record is published.
DecisionInv ==
  /\ tool.step \in {"move", "record"} /\ ~tool.blocked => ~unresolved(op.source)
  /\ tool.step = "publish" =>
       op.record # "none" /\ (op.record = "clear" => ~unresolved(op.source))

\* There is one key: it is what privd signs with and what is registered.
KeyInv ==
  /\ privd # Down => keyFile # 0 /\ privd.key = keyFile
  /\ \A n \in Nodes : registered[n] \in {0, keyFile}

RebindInv ==
  /\ RebindTypeOK
  /\ ToolTypeOK
  /\ ToolInv
  /\ StoppedInv
  /\ WholeBinding
  /\ DecisionInv
  /\ UncertainIsQuarantined
  /\ KeyInv
-----------------------------------------------------------------------------
\* The mark of no node is no node.
LEMMA NoneIsNoNode == None \notin Nodes
  BY RebindConstants DEF None, Nodes

\* A new operation starts when every earlier one is verified, with a target of its own.
LEMMA PrepareInv ==
  ASSUME RebindInv, Prepare
  PROVE  RebindInv'
<1>1. RebindTypeOK'
  <2>1. op.target + 1 \in Nodes
    BY RebindConstants DEF RebindInv, RebindTypeOK, Prepare, Nodes
  <2> QED
    BY <2>1 DEF RebindInv, RebindTypeOK, Open, Prepare, services, space, attest
<1>2. ToolTypeOK'
  BY NoneIsNoNode
     DEF RebindInv, ToolTypeOK, Enrolling, Quiesced, RebindTypeOK, Binding, Open, Prepare,
         Goto, services, space, attest, Down
<1>3. ToolInv'
  BY DEF ToolInv, Prepare, Goto
<1>4. StoppedInv'
  BY DEF StoppedInv, Quiesced, Prepare, Goto
<1>5. WholeBinding'
  BY DEF RebindInv, WholeBinding, Binding, Prepare, services
<1>6. DecisionInv'
  BY DEF DecisionInv, Prepare, Goto
<1>7. UncertainIsQuarantined' /\ KeyInv'
  BY DEF RebindInv, UncertainIsQuarantined, KeyInv, Prepare, services, space, attest
<1> QED
  BY <1>1, <1>2, <1>3, <1>4, <1>5, <1>6, <1>7 DEF RebindInv

\* A resumed operation stages again what is not staged yet.
LEMMA ResumeInv ==
  ASSUME RebindInv, Resume
  PROVE  RebindInv'
<1>1. ToolTypeOK'
  BY NoneIsNoNode
     DEF RebindInv, ToolTypeOK, Enrolling, Quiesced, RebindTypeOK, Binding, Open, Resume,
         Goto, services, space, attest, Down
<1>2. ToolInv'
  BY DEF ToolInv, Resume, Goto
<1>3. StoppedInv'
  BY DEF StoppedInv, Quiesced, Resume, Goto
<1>4. DecisionInv'
  BY DEF DecisionInv, Resume, Goto
<1>5. RebindTypeOK' /\ WholeBinding' /\ UncertainIsQuarantined' /\ KeyInv'
  BY DEF RebindInv, RebindTypeOK, Binding, WholeBinding, UncertainIsQuarantined, KeyInv,
         Resume, services, space, attest
<1> QED
  BY <1>1, <1>2, <1>3, <1>4, <1>5 DEF RebindInv

\* A directory that was left unfinished is refused.
LEMMA StageDirectoryInv ==
  ASSUME RebindInv, StageDirectory
  PROVE  RebindInv'
<1>1. RebindTypeOK'
  BY DEF RebindInv, RebindTypeOK, StageDirectory, services, space, attest
<1>2. ToolTypeOK'
  BY DEF RebindInv, ToolTypeOK, Enrolling, RebindTypeOK, StageDirectory, services, NoTool
<1>3. ToolInv'
  BY DEF RebindInv, ToolInv, RebindTypeOK, ToolTypeOK, Quiesced, StageDirectory, NoTool
<1>4. StoppedInv'
  BY DEF RebindInv, StoppedInv, Quiesced, RebindTypeOK, StageDirectory, NoTool
<1>5. DecisionInv'
  BY DEF RebindInv, DecisionInv, RebindTypeOK, StageDirectory, NoTool
<1>6. WholeBinding' /\ UncertainIsQuarantined' /\ KeyInv'
  BY DEF RebindInv, WholeBinding, UncertainIsQuarantined, KeyInv, StageDirectory,
         services, space, attest
<1> QED
  BY <1>1, <1>2, <1>3, <1>4, <1>5, <1>6 DEF RebindInv

\* The staged identity is complete once it is renamed.
LEMMA stage_rebindInv ==
  ASSUME RebindInv, stage_rebind
  PROVE  RebindInv'
<1>1. RebindTypeOK'
  BY DEF RebindInv, RebindTypeOK, stage_rebind, services, space, attest
<1>2. ToolTypeOK'
  BY DEF RebindInv, ToolTypeOK, Enrolling, stage_rebind, Goto, services
<1>3. ToolInv'
  BY DEF RebindInv, ToolInv, ToolTypeOK, Quiesced, stage_rebind, Goto
<1>4. StoppedInv'
  BY DEF StoppedInv, Quiesced, stage_rebind, Goto
<1>5. DecisionInv'
  BY DEF DecisionInv, stage_rebind, Goto
<1>6. WholeBinding' /\ UncertainIsQuarantined' /\ KeyInv'
  BY DEF RebindInv, WholeBinding, UncertainIsQuarantined, KeyInv, stage_rebind, services,
         space, attest
<1> QED
  BY <1>1, <1>2, <1>3, <1>4, <1>5, <1>6 DEF RebindInv

\* The phase is saved before the request.
LEMMA SaveEnrollingInv ==
  ASSUME RebindInv, SaveEnrolling
  PROVE  RebindInv'
<1>1. RebindTypeOK'
  BY DEF RebindInv, RebindTypeOK, Open, Enrolling, SaveEnrolling, services, space, attest
<1>2. ToolTypeOK'
  BY DEF RebindInv, ToolTypeOK, Enrolling, SaveEnrolling, Goto, services
<1>3. ToolInv'
  BY DEF ToolInv, Enrolling, SaveEnrolling, Goto
<1>4. StoppedInv'
  BY DEF StoppedInv, Quiesced, Enrolling, SaveEnrolling, Goto
<1>5. WholeBinding'
  BY DEF RebindInv, WholeBinding, Binding, Enrolling, ToolInv, SaveEnrolling, services
<1>6. DecisionInv'
  BY DEF DecisionInv, Enrolling, SaveEnrolling, Goto
<1>7. UncertainIsQuarantined' /\ KeyInv'
  BY DEF RebindInv, UncertainIsQuarantined, KeyInv, SaveEnrolling, services, space, attest
<1> QED
  BY <1>1, <1>2, <1>3, <1>4, <1>5, <1>6, <1>7 DEF RebindInv

\* A request that is valid goes on to its completion.
LEMMA enrollInv ==
  ASSUME RebindInv, enroll
  PROVE  RebindInv'
<1>1. ToolTypeOK'
  <2>1. tool' = NoTool \/ tool' = [tool EXCEPT !.step = "completion"]
    BY DEF enroll, Goto
  <2>2. privd' = privd
    BY DEF enroll, services
  <2>3. CASE tool' = NoTool
    BY <2>2, <2>3 DEF RebindInv, ToolTypeOK, NoTool
  <2>4. CASE tool' = [tool EXCEPT !.step = "completion"]
    BY <2>2, <2>4 DEF RebindInv, ToolTypeOK, Enrolling
  <2> QED
    BY <2>1, <2>3, <2>4
<1>2. ToolInv'
  BY DEF RebindInv, ToolInv, ToolTypeOK, Quiesced, enroll, Goto, NoTool
<1>3. StoppedInv'
  BY DEF RebindInv, StoppedInv, Quiesced, ToolTypeOK, enroll, Goto, NoTool
<1>4. DecisionInv'
  BY DEF RebindInv, DecisionInv, ToolTypeOK, enroll, Goto, NoTool
<1>5. RebindTypeOK' /\ WholeBinding' /\ UncertainIsQuarantined' /\ KeyInv'
  BY DEF RebindInv, RebindTypeOK, Binding, WholeBinding, UncertainIsQuarantined, KeyInv,
         enroll, services, space, attest
<1> QED
  BY <1>1, <1>2, <1>3, <1>4, <1>5 DEF RebindInv

\* The target has a pending node before the response.
LEMMA enrollBootstrapInv ==
  ASSUME RebindInv, enrollBootstrap
  PROVE  RebindInv'
<1>1. RebindTypeOK'
  <2>1. ctl' \in [Targets -> {"none", "pending", "active"}]
    BY DEF RebindInv, RebindTypeOK, enrollBootstrap
  <2>2. UNCHANGED <<active, op, stage, identity, services, space, attest, work, faults>>
    BY DEF enrollBootstrap
  <2> QED
    BY <2>1, <2>2 DEF RebindInv, RebindTypeOK, services, space, attest
<1>2. ToolTypeOK'
  <2>1. tool' = NoTool \/ tool' = [tool EXCEPT !.step = "response"]
    BY DEF enrollBootstrap, Goto
  <2>2. privd' = privd
    BY DEF enrollBootstrap, services
  <2>3. CASE tool' = NoTool
    BY <2>2, <2>3 DEF RebindInv, ToolTypeOK, NoTool
  <2>4. CASE tool' = [tool EXCEPT !.step = "response"]
    BY <2>2, <2>4 DEF RebindInv, ToolTypeOK, Enrolling
  <2> QED
    BY <2>1, <2>3, <2>4
<1>3. ToolInv'
  BY DEF RebindInv, ToolInv, ToolTypeOK, Quiesced, enrollBootstrap, Goto, NoTool
<1>4. StoppedInv'
  BY DEF RebindInv, StoppedInv, Quiesced, ToolTypeOK, enrollBootstrap, Goto, NoTool
<1>5. DecisionInv'
  BY DEF RebindInv, DecisionInv, ToolTypeOK, enrollBootstrap, Goto, NoTool
<1>6. WholeBinding' /\ UncertainIsQuarantined' /\ KeyInv'
  BY DEF RebindInv, WholeBinding, UncertainIsQuarantined, KeyInv, enrollBootstrap,
         services, space, attest
<1> QED
  BY <1>1, <1>2, <1>3, <1>4, <1>5, <1>6 DEF RebindInv

\* The node is saved with the phase.
LEMMA SaveEnrolledInv ==
  ASSUME RebindInv, SaveEnrolled
  PROVE  RebindInv'
<1>1. RebindTypeOK'
  BY NoneIsNoNode
     DEF RebindInv, RebindTypeOK, Binding, Open, ToolTypeOK, Enrolling, Quiesced,
         SaveEnrolled, services, space, attest, Down, NoTool
<1>2. ToolTypeOK'
  BY DEF RebindInv, ToolTypeOK, SaveEnrolled, services, NoTool
<1>3. ToolInv'
  BY DEF RebindInv, ToolInv, Enrolling, RebindTypeOK, SaveEnrolled, NoTool
<1>4. StoppedInv'
  BY DEF StoppedInv, Quiesced, SaveEnrolled, NoTool
<1>5. WholeBinding'
  BY DEF RebindInv, WholeBinding, Binding, Enrolling, ToolInv, SaveEnrolled, services
<1>6. DecisionInv'
  BY DEF DecisionInv, SaveEnrolled, NoTool
<1>7. UncertainIsQuarantined' /\ KeyInv'
  BY DEF RebindInv, UncertainIsQuarantined, KeyInv, SaveEnrolled, services, space, attest
<1> QED
  BY <1>1, <1>2, <1>3, <1>4, <1>5, <1>6, <1>7 DEF RebindInv

\* A commit starts from the saved phase, under the authority that it found.
LEMMA CommitInv ==
  ASSUME RebindInv, Commit
  PROVE  RebindInv'
<1>1. ToolTypeOK'
  <2>1. tool' = [tool EXCEPT !.step = "stop"] \/ tool' = [tool EXCEPT !.step = "start"]
    BY DEF Commit, Goto
  <2>2. privd' = privd
    BY DEF Commit, services
  <2> QED
    BY <2>1, <2>2 DEF RebindInv, ToolTypeOK
<1>2. ToolInv'
  BY DEF RebindInv, ToolInv, AlreadyCommitted, Record, Enrolling, Commit, Goto, NoTool
<1>3. StoppedInv'
  BY DEF StoppedInv, Quiesced, Commit, Goto, NoTool
<1>4. DecisionInv'
  BY DEF DecisionInv, Commit, Goto, NoTool
<1>5. RebindTypeOK' /\ WholeBinding' /\ UncertainIsQuarantined' /\ KeyInv'
  BY DEF RebindInv, RebindTypeOK, Binding, WholeBinding, UncertainIsQuarantined, KeyInv,
         Commit, services, space, attest
<1> QED
  BY <1>1, <1>2, <1>3, <1>4, <1>5 DEF RebindInv

\* No service and no runner is left once they are stopped.
LEMMA StopServicesInv ==
  ASSUME RebindInv, StopServices
  PROVE  RebindInv'
<1>1. RebindTypeOK'
  BY NoneIsNoNode
     DEF RebindInv, RebindTypeOK, Binding, Open, ToolTypeOK, Enrolling, Quiesced,
         StopServices, Goto, space, attest, Down
<1>2. ToolTypeOK'
  BY DEF RebindInv, ToolTypeOK, Quiesced, StopServices, Goto, Down
<1>3. ToolInv'
  BY DEF RebindInv, ToolInv, AlreadyCommitted, Record, Enrolling, StopServices, Goto
<1>4. StoppedInv'
  BY DEF StoppedInv, StopServices
<1>5. WholeBinding'
  BY DEF RebindInv, WholeBinding, Binding, StopServices
<1>6. DecisionInv'
  BY DEF DecisionInv, StopServices, Goto
<1>7. UncertainIsQuarantined'
  BY DEF RebindInv, UncertainIsQuarantined, StopServices, space
<1>8. KeyInv'
  BY DEF RebindInv, KeyInv, StopServices, attest
<1> QED
  BY <1>1, <1>2, <1>3, <1>4, <1>5, <1>6, <1>7, <1>8 DEF RebindInv

\* The phase is saved while the services are down.
LEMMA SaveCommittingInv ==
  ASSUME RebindInv, SaveCommitting
  PROVE  RebindInv'
<1>1. RebindTypeOK'
  BY DEF RebindInv, RebindTypeOK, Open, SaveCommitting, services, space, attest
<1>2. ToolTypeOK'
  BY DEF RebindInv, ToolTypeOK, Quiesced, SaveCommitting, Goto, services
<1>3. ToolInv'
  BY DEF RebindInv, ToolInv, Enrolling, SaveCommitting, Goto
<1>4. StoppedInv'
  BY DEF RebindInv, StoppedInv, ToolTypeOK, Enrolling, SaveCommitting, services
<1>5. WholeBinding'
  BY DEF RebindInv, WholeBinding, Binding, SaveCommitting, services
<1>6. DecisionInv'
  BY DEF DecisionInv, SaveCommitting, Goto
<1>7. UncertainIsQuarantined' /\ KeyInv'
  BY DEF RebindInv, UncertainIsQuarantined, KeyInv, SaveCommitting, services, space,
         attest
<1> QED
  BY <1>1, <1>2, <1>3, <1>4, <1>5, <1>6, <1>7 DEF RebindInv

\* The decision is made from the namespace that is retired, with the services down.
LEMMA AssessInv ==
  ASSUME RebindInv, Assess
  PROVE  RebindInv'
<1>1. ToolTypeOK'
  BY DEF RebindInv, ToolTypeOK, Quiesced, Assess, unresolved, services
<1>2. ToolInv'
  BY DEF RebindInv, ToolInv, Enrolling, Assess
<1>3. StoppedInv'
  BY DEF RebindInv, StoppedInv, ToolTypeOK, Enrolling, Assess, services
<1>4. DecisionInv'
  BY DEF DecisionInv, unresolved, Assess, space
<1>5. RebindTypeOK' /\ WholeBinding' /\ UncertainIsQuarantined' /\ KeyInv'
  BY DEF RebindInv, RebindTypeOK, Binding, WholeBinding, UncertainIsQuarantined, KeyInv,
         Assess, services, space, attest
<1> QED
  BY <1>1, <1>2, <1>3, <1>4, <1>5 DEF RebindInv

\* The record is reached only with the target's identity in place.
LEMMA MoveIdentityInv ==
  ASSUME RebindInv, MoveIdentity
  PROVE  RebindInv'
<1>1. RebindTypeOK'
  BY DEF RebindInv, RebindTypeOK, ToolInv, MoveIdentity, services, space, attest
<1>2. ToolTypeOK'
  <2>1. tool' = NoTool \/ tool' = [tool EXCEPT !.step = "record"]
    BY DEF MoveIdentity, Goto
  <2>2. privd' = privd
    BY DEF MoveIdentity, services
  <2>3. CASE tool' = NoTool
    BY <2>2, <2>3 DEF RebindInv, ToolTypeOK, NoTool
  <2>4. CASE tool' = [tool EXCEPT !.step = "record"]
    BY <2>2, <2>4 DEF RebindInv, ToolTypeOK, Quiesced
  <2> QED
    BY <2>1, <2>3, <2>4
<1>3. ToolInv'
  BY DEF RebindInv, ToolInv, Enrolling, ToolTypeOK, MoveIdentity, Goto, NoTool
<1>4. StoppedInv'
  BY DEF RebindInv, StoppedInv, ToolTypeOK, Enrolling, MoveIdentity, services
<1>5. WholeBinding'
  BY DEF RebindInv, WholeBinding, Binding, MoveIdentity, services
<1>6. DecisionInv'
  BY DEF RebindInv, DecisionInv, unresolved, ToolTypeOK, MoveIdentity, Goto, space, NoTool
<1>7. UncertainIsQuarantined' /\ KeyInv'
  BY DEF RebindInv, UncertainIsQuarantined, KeyInv, MoveIdentity, services, space, attest
<1> QED
  BY <1>1, <1>2, <1>3, <1>4, <1>5, <1>6, <1>7 DEF RebindInv

\* The record saves the decision that was made in this run.
LEMMA SaveRecordInv ==
  ASSUME RebindInv, SaveRecord
  PROVE  RebindInv'
<1>1. RebindTypeOK'
  BY DEF RebindInv, RebindTypeOK, SaveRecord, services, space, attest
<1>2. ToolTypeOK'
  BY DEF RebindInv, ToolTypeOK, Quiesced, SaveRecord, Goto, services
<1>3. ToolInv'
  BY DEF RebindInv, ToolInv, Record, Enrolling, SaveRecord, Goto
<1>4. StoppedInv'
  BY DEF RebindInv, StoppedInv, ToolTypeOK, Enrolling, SaveRecord, services
<1>5. WholeBinding'
  BY DEF RebindInv, WholeBinding, Binding, Record, SaveRecord, services
<1>6. DecisionInv'
  BY DEF RebindInv, DecisionInv, unresolved, Record, SaveRecord, Goto, space
<1>7. UncertainIsQuarantined' /\ KeyInv'
  BY DEF RebindInv, UncertainIsQuarantined, KeyInv, SaveRecord, services, space, attest
<1> QED
  BY <1>1, <1>2, <1>3, <1>4, <1>5, <1>6, <1>7 DEF RebindInv

\* The published binding is the record, with its identity in place.
LEMMA PublishInv ==
  ASSUME RebindInv, Publish
  PROVE  RebindInv'
<1>1. RebindTypeOK'
  <2>1. op.node \in Nodes
    BY DEF RebindInv, ToolInv, Publish
  <2> QED
    BY <2>1 DEF RebindInv, RebindTypeOK, Binding, Record, Publish, services, space, attest
<1>2. ToolTypeOK'
  BY DEF RebindInv, ToolTypeOK, Quiesced, Publish, Goto, services
<1>3. ToolInv'
  BY DEF RebindInv, ToolInv, Enrolling, Publish, Goto
<1>4. StoppedInv'
  BY DEF RebindInv, StoppedInv, ToolTypeOK, Enrolling, Publish, services
<1>5. WholeBinding'
  BY DEF RebindInv, WholeBinding, Binding, Quiesced, ToolInv, Record, StoppedInv, Publish,
         services
<1>6. DecisionInv'
  BY DEF DecisionInv, Publish, Goto
<1>7. UncertainIsQuarantined'
  <2> SUFFICES ASSUME ~active'.blocked, NEW n \in Nodes, n # active'.node
               PROVE  ~journal[n] /\ effect[n] # "prepared" /\ ~upgrade[n]
    BY DEF UncertainIsQuarantined, Publish, space
  <2>1. op.record = "clear" /\ active = op.source /\ ~unresolved(op.source)
    BY DEF RebindInv, RebindTypeOK, ToolInv, DecisionInv, Publish, Record
  <2>2. CASE n = op.source.node
    BY <2>1, <2>2 DEF unresolved
  <2>3. CASE n # op.source.node
    BY <2>1, <2>3 DEF unresolved, RebindInv, UncertainIsQuarantined
  <2> QED
    BY <2>2, <2>3
<1>8. KeyInv'
  BY DEF RebindInv, KeyInv, Publish, services, attest
<1> QED
  BY <1>1, <1>2, <1>3, <1>4, <1>5, <1>6, <1>7, <1>8 DEF RebindInv

\* The phase is saved after the publication.
LEMMA SaveCommittedInv ==
  ASSUME RebindInv, SaveCommitted
  PROVE  RebindInv'
<1>1. RebindTypeOK'
  BY DEF RebindInv, RebindTypeOK, SaveCommitted, services, space, attest
<1>2. ToolTypeOK'
  BY DEF RebindInv, ToolTypeOK, SaveCommitted, Goto, services
<1>3. ToolInv'
  BY DEF RebindInv, ToolInv, Enrolling, SaveCommitted, Goto
<1>4. StoppedInv'
  BY DEF StoppedInv, Quiesced, SaveCommitted, Goto
<1>5. WholeBinding'
  BY DEF RebindInv, WholeBinding, Binding, SaveCommitted, services
<1>6. DecisionInv'
  BY DEF DecisionInv, SaveCommitted, Goto
<1>7. UncertainIsQuarantined' /\ KeyInv'
  BY DEF RebindInv, UncertainIsQuarantined, KeyInv, SaveCommitted, services, space, attest
<1> QED
  BY <1>1, <1>2, <1>3, <1>4, <1>5, <1>6, <1>7 DEF RebindInv

\* The services start again under the published binding.
LEMMA StartServicesInv ==
  ASSUME RebindInv, StartServices
  PROVE  RebindInv'
<1>1. RebindTypeOK'
  BY DEF RebindInv, RebindTypeOK, StartServices, space, attest
<1>2. ToolTypeOK'
  BY DEF RebindInv, ToolTypeOK, StartServices, Goto
<1>3. ToolInv'
  BY DEF RebindInv, ToolInv, Enrolling, StartServices, Goto
<1>4. StoppedInv'
  BY DEF StoppedInv, Quiesced, StartServices, Goto
<1>5. DecisionInv'
  BY DEF DecisionInv, StartServices, Goto
<1>6. WholeBinding' /\ UncertainIsQuarantined' /\ KeyInv'
  BY DEF RebindInv, WholeBinding, UncertainIsQuarantined, KeyInv, StartServices, space,
         attest
<1> QED
  BY <1>1, <1>2, <1>3, <1>4, <1>5, <1>6 DEF RebindInv

\* The operation is verified by a grant of the published node.
LEMMA PollInv ==
  ASSUME RebindInv, Poll
  PROVE  RebindInv'
<1>1. RebindTypeOK'
  BY DEF RebindInv, RebindTypeOK, Poll, services, space, attest
<1>2. ToolTypeOK'
  BY DEF RebindInv, ToolTypeOK, Poll, services, NoTool
<1>3. ToolInv'
  <2>1. tool'.step = "off" /\ (op' = op \/ op' = [op EXCEPT !.phase = "verified"])
    BY DEF Poll, NoTool
  <2>2. op.phase = "committed"
    BY DEF RebindInv, ToolInv, Poll
  <2> QED
    BY <2>1, <2>2 DEF RebindInv, RebindTypeOK, ToolInv, Enrolling
<1>4. StoppedInv'
  BY DEF StoppedInv, Quiesced, Poll, NoTool
<1>5. WholeBinding'
  BY DEF RebindInv, WholeBinding, RebindTypeOK, Binding, Poll, services
<1>6. DecisionInv'
  BY DEF DecisionInv, Poll, NoTool
<1>7. UncertainIsQuarantined' /\ KeyInv'
  BY DEF RebindInv, UncertainIsQuarantined, KeyInv, Poll, services, space, attest
<1> QED
  BY <1>1, <1>2, <1>3, <1>4, <1>5, <1>6, <1>7 DEF RebindInv

\* privd starts with the published binding and the published key.
LEMMA StartPrivdInv ==
  ASSUME RebindInv, StartPrivd
  PROVE  RebindInv'
<1>1. RebindTypeOK'
  BY DEF RebindInv, RebindTypeOK, Binding, StartPrivd, load_active, transfer, space,
         attest
<1>2. ToolTypeOK'
  BY NoneIsNoNode
     DEF RebindInv, ToolTypeOK, RebindTypeOK, Binding, StartPrivd, load_active, transfer
<1>3. StoppedInv'
  BY DEF RebindInv, StoppedInv, StartPrivd, transfer
<1>4. WholeBinding'
  BY DEF RebindInv, WholeBinding, RebindTypeOK, Binding, StartPrivd, load_active, transfer
<1>5. KeyInv'
  BY DEF RebindInv, KeyInv, StartPrivd, attest
<1>6. ToolInv' /\ DecisionInv' /\ UncertainIsQuarantined'
  BY DEF RebindInv, ToolInv, AlreadyCommitted, Record, DecisionInv, unresolved,
         UncertainIsQuarantined, StartPrivd, transfer, space
<1> QED
  BY <1>1, <1>2, <1>3, <1>4, <1>5, <1>6 DEF RebindInv

\* The Agent starts for the published node, with its identity.
LEMMA StartAgentInv ==
  ASSUME RebindInv, StartAgent
  PROVE  RebindInv'
<1>1. RebindTypeOK'
  BY DEF RebindInv, RebindTypeOK, Binding, StartAgent, apply_local_binding, load_active,
         transfer, attest
<1>2. StoppedInv'
  BY DEF RebindInv, StoppedInv, StartAgent, transfer
<1>3. WholeBinding'
  BY DEF RebindInv, WholeBinding, Binding, StartAgent, apply_local_binding, load_active,
         transfer
<1>4. ToolTypeOK' /\ ToolInv' /\ DecisionInv' /\ UncertainIsQuarantined' /\ KeyInv'
  BY DEF RebindInv, ToolTypeOK, ToolInv, AlreadyCommitted, Record, DecisionInv,
         unresolved, UncertainIsQuarantined, KeyInv, StartAgent, transfer, attest
<1> QED
  BY <1>1, <1>2, <1>3, <1>4 DEF RebindInv

\* An upgrade that ends resolves the work of its namespace.
LEMMA RunnerEndsInv ==
  ASSUME RebindInv, RunnerEnds
  PROVE  RebindInv'
<1>1. RebindTypeOK'
  BY DEF RebindInv, RebindTypeOK, RunnerEnds, transfer, attest
<1>2. StoppedInv'
  BY DEF RebindInv, StoppedInv, RunnerEnds, transfer
<1>3. WholeBinding'
  BY DEF RebindInv, WholeBinding, Binding, RunnerEnds, transfer
<1>4. DecisionInv'
  BY DEF RebindInv, DecisionInv, Quiesced, StoppedInv, RunnerEnds, transfer
<1>5. UncertainIsQuarantined'
  BY DEF RebindInv, UncertainIsQuarantined, RunnerEnds
<1>6. ToolTypeOK' /\ ToolInv' /\ KeyInv'
  BY DEF RebindInv, ToolTypeOK, ToolInv, AlreadyCommitted, Record, KeyInv, RunnerEnds,
         transfer, attest
<1> QED
  BY <1>1, <1>2, <1>3, <1>4, <1>5, <1>6 DEF RebindInv

\* A crash of the tool leaves what it saved.
LEMMA ToolCrashInv ==
  ASSUME RebindInv, ToolCrash
  PROVE  RebindInv'
<1>1. RebindTypeOK'
  BY RebindConstants
     DEF RebindInv, RebindTypeOK, ToolCrash, Fault, services, space, attest
<1>2. ToolTypeOK'
  BY DEF RebindInv, ToolTypeOK, ToolCrash, services, NoTool
<1>3. ToolInv'
  BY DEF RebindInv, ToolInv, Enrolling, ToolCrash, NoTool
<1>4. StoppedInv'
  BY DEF StoppedInv, Quiesced, ToolCrash, NoTool
<1>5. DecisionInv'
  BY DEF DecisionInv, ToolCrash, NoTool
<1>6. WholeBinding' /\ UncertainIsQuarantined' /\ KeyInv'
  BY DEF RebindInv, WholeBinding, UncertainIsQuarantined, KeyInv, ToolCrash, services,
         space, attest
<1> QED
  BY <1>1, <1>2, <1>3, <1>4, <1>5, <1>6 DEF RebindInv

\* A crash of privd leaves its store, perhaps half made.
LEMMA PrivdCrashInv ==
  ASSUME RebindInv, PrivdCrash
  PROVE  RebindInv'
<1>1. RebindTypeOK'
  BY RebindConstants
     DEF RebindInv, RebindTypeOK, PrivdCrash, Fault, transfer, space, attest, Down
<1>2. ToolTypeOK'
  BY DEF RebindInv, ToolTypeOK, PrivdCrash, transfer, Down
<1>3. StoppedInv'
  BY DEF RebindInv, StoppedInv, PrivdCrash, transfer
<1>4. WholeBinding'
  BY DEF RebindInv, WholeBinding, Binding, PrivdCrash, transfer
<1>5. KeyInv'
  BY DEF RebindInv, KeyInv, PrivdCrash, attest
<1>6. ToolInv' /\ DecisionInv' /\ UncertainIsQuarantined'
  BY DEF RebindInv, ToolInv, AlreadyCommitted, Record, DecisionInv, unresolved,
         UncertainIsQuarantined, PrivdCrash, transfer, space
<1> QED
  BY <1>1, <1>2, <1>3, <1>4, <1>5, <1>6 DEF RebindInv

\* A crash of the Agent leaves its journal.
LEMMA AgentCrashInv ==
  ASSUME RebindInv, AgentCrash
  PROVE  RebindInv'
<1>1. RebindTypeOK'
  BY RebindConstants
     DEF RebindInv, RebindTypeOK, AgentCrash, Fault, transfer, space, attest
<1>2. StoppedInv'
  BY DEF RebindInv, StoppedInv, AgentCrash, transfer
<1>3. WholeBinding'
  BY DEF RebindInv, WholeBinding, Binding, AgentCrash, transfer
<1>4. ToolTypeOK' /\ ToolInv' /\ DecisionInv' /\ UncertainIsQuarantined' /\ KeyInv'
  BY DEF RebindInv, ToolTypeOK, ToolInv, AlreadyCommitted, Record, DecisionInv,
         unresolved, UncertainIsQuarantined, KeyInv, AgentCrash, transfer, space, attest
<1> QED
  BY <1>1, <1>2, <1>3, <1>4 DEF RebindInv

\* A crash of the host stops every process and leaves every file.
LEMMA HostCrashInv ==
  ASSUME RebindInv, HostCrash
  PROVE  RebindInv'
<1>1. RebindTypeOK'
  BY RebindConstants DEF RebindInv, RebindTypeOK, HostCrash, Fault, space, Down
<1>2. ToolTypeOK'
  BY DEF ToolTypeOK, HostCrash, Down, NoTool
<1>3. ToolInv'
  BY DEF RebindInv, ToolInv, Enrolling, HostCrash, NoTool
<1>4. StoppedInv'
  BY DEF StoppedInv, Quiesced, HostCrash, NoTool
<1>5. WholeBinding'
  BY DEF RebindInv, WholeBinding, Binding, HostCrash
<1>6. DecisionInv'
  BY DEF DecisionInv, HostCrash, NoTool
<1>7. UncertainIsQuarantined'
  BY DEF RebindInv, UncertainIsQuarantined, HostCrash, space
<1>8. KeyInv'
  BY DEF RebindInv, KeyInv, HostCrash
<1> QED
  BY <1>1, <1>2, <1>3, <1>4, <1>5, <1>6, <1>7, <1>8 DEF RebindInv

\* An approval touches nothing on the host.
LEMMA ApproveInv ==
  ASSUME RebindInv, NEW t \in Targets, Approve(t)
  PROVE  RebindInv'
<1>1. RebindTypeOK'
  BY DEF RebindInv, RebindTypeOK, Approve, transfer, services, space, attest
<1>2. /\ ToolTypeOK' /\ ToolInv' /\ StoppedInv' /\ WholeBinding'
      /\ DecisionInv' /\ UncertainIsQuarantined' /\ KeyInv'
  BY DEF RebindInv, ToolTypeOK, ToolInv, AlreadyCommitted, Record, StoppedInv,
         WholeBinding, DecisionInv, unresolved, UncertainIsQuarantined, KeyInv, Approve,
         transfer, services, space, attest
<1> QED
  BY <1>1, <1>2 DEF RebindInv

\* A generated key is one that nobody knows yet.
LEMMA load_or_create_signing_keyInv ==
  ASSUME RebindInv, NEW w \in Makers, load_or_create_signing_key(w)
  PROVE  RebindInv'
<1>1. RebindTypeOK'
  BY DEF RebindInv, RebindTypeOK, load_or_create_signing_key, transfer, services, space
<1>2. /\ ToolTypeOK' /\ ToolInv' /\ StoppedInv' /\ WholeBinding'
      /\ DecisionInv' /\ UncertainIsQuarantined' /\ KeyInv'
  BY DEF RebindInv, ToolTypeOK, ToolInv, AlreadyCommitted, Record, StoppedInv,
         WholeBinding, DecisionInv, unresolved, UncertainIsQuarantined, KeyInv,
         load_or_create_signing_key, transfer, services, space
<1> QED
  BY <1>1, <1>2 DEF RebindInv

\* A published key is never replaced.
LEMMA PublishKeyInv ==
  ASSUME RebindInv, NEW w \in Makers, PublishKey(w)
  PROVE  RebindInv'
<1>1. RebindTypeOK'
  BY DEF RebindInv, RebindTypeOK, PublishKey, transfer, services, space
<1>2. KeyInv'
  BY DEF RebindInv, KeyInv, PublishKey, services
<1>3. ToolTypeOK' /\ ToolInv' /\ StoppedInv' /\ WholeBinding' /\ DecisionInv' /\ UncertainIsQuarantined'
  BY DEF RebindInv, ToolTypeOK, ToolInv, AlreadyCommitted, Record, StoppedInv,
         WholeBinding, DecisionInv, unresolved, UncertainIsQuarantined, PublishKey,
         transfer, services, space
<1> QED
  BY <1>1, <1>2, <1>3 DEF RebindInv

\* The key that is registered is the one in the file.
LEMMA attestation_registrationInv ==
  ASSUME RebindInv, NEW n \in Nodes, attestation_registration(n)
  PROVE  RebindInv'
<1>1. RebindTypeOK'
  BY DEF RebindInv, RebindTypeOK, attestation_registration, sign_registration, transfer,
         services, space
<1>2. KeyInv'
  BY DEF RebindInv, KeyInv, attestation_registration, sign_registration, services
<1>3. ToolTypeOK' /\ ToolInv' /\ StoppedInv' /\ WholeBinding' /\ DecisionInv' /\ UncertainIsQuarantined'
  BY DEF RebindInv, ToolTypeOK, ToolInv, AlreadyCommitted, Record, StoppedInv,
         WholeBinding, DecisionInv, unresolved, UncertainIsQuarantined,
         attestation_registration, transfer, services, space
<1> QED
  BY <1>1, <1>2, <1>3 DEF RebindInv

\* A grant is recorded in the journal of the node at work.
LEMMA record_verified_session_grantInv ==
  ASSUME RebindInv, NEW n \in Nodes, record_verified_session_grant(n)
  PROVE  RebindInv'
<1>1. RebindTypeOK'
  BY DEF RebindInv, RebindTypeOK, record_verified_session_grant, transfer, services,
         attest
<1>2. /\ ToolTypeOK' /\ ToolInv' /\ StoppedInv' /\ WholeBinding'
      /\ DecisionInv' /\ UncertainIsQuarantined' /\ KeyInv'
  BY DEF RebindInv, ToolTypeOK, ToolInv, AlreadyCommitted, Record, StoppedInv,
         WholeBinding, DecisionInv, unresolved, UncertainIsQuarantined, KeyInv,
         record_verified_session_grant, transfer, services, attest
<1> QED
  BY <1>1, <1>2 DEF RebindInv

\* Accepted work is in the journal of the node at work.
LEMMA AcceptInv ==
  ASSUME RebindInv, NEW n \in Nodes, Accept(n)
  PROVE  RebindInv'
<1>1. RebindTypeOK'
  BY RebindConstants DEF RebindInv, RebindTypeOK, Accept, transfer, services, attest
<1>2. DecisionInv'
  BY NoneIsNoNode
     DEF RebindInv, DecisionInv, Quiesced, StoppedInv, Accept, Working, transfer
<1>3. UncertainIsQuarantined'
  BY NoneIsNoNode DEF RebindInv, UncertainIsQuarantined, WholeBinding, Accept, Working
<1>4. ToolTypeOK' /\ ToolInv' /\ StoppedInv' /\ WholeBinding' /\ KeyInv'
  BY DEF RebindInv, ToolTypeOK, ToolInv, AlreadyCommitted, Record, StoppedInv,
         WholeBinding, KeyInv, Accept, transfer, services, attest
<1> QED
  BY <1>1, <1>2, <1>3, <1>4 DEF RebindInv

\* A store is begun by a privd that is not blocked.
LEMMA load_or_create_effect_keyInv ==
  ASSUME RebindInv, NEW n \in Nodes, load_or_create_effect_key(n)
  PROVE  RebindInv'
<1>1. RebindTypeOK'
  BY DEF RebindInv, RebindTypeOK, load_or_create_effect_key, transfer, attest
<1>2. ToolTypeOK'
  <2>1. privd' = [privd EXCEPT !.opening = TRUE] /\ privd.node = n /\ tool' = tool
    BY DEF load_or_create_effect_key, Working, transfer
  <2> QED
    BY <2>1, NoneIsNoNode DEF RebindInv, ToolTypeOK
<1>3. StoppedInv'
  BY NoneIsNoNode DEF RebindInv, StoppedInv, load_or_create_effect_key, Working, transfer
<1>4. WholeBinding'
  BY NoneIsNoNode
     DEF RebindInv, WholeBinding, Binding, load_or_create_effect_key, Working, transfer,
         Down
<1>5. DecisionInv'
  BY DEF RebindInv, DecisionInv, unresolved, load_or_create_effect_key, transfer
<1>6. KeyInv'
  BY NoneIsNoNode DEF RebindInv, KeyInv, load_or_create_effect_key, Working, attest, Down
<1>7. ToolInv' /\ UncertainIsQuarantined'
  BY DEF RebindInv, ToolInv, AlreadyCommitted, Record, UncertainIsQuarantined,
         load_or_create_effect_key, transfer
<1> QED
  BY <1>1, <1>2, <1>3, <1>4, <1>5, <1>6, <1>7 DEF RebindInv

\* The store that privd opens is the one of its node.
LEMMA OpenStoreInv ==
  ASSUME RebindInv, NEW n \in Nodes, OpenStore(n)
  PROVE  RebindInv'
<1>1. RebindTypeOK'
  BY DEF RebindInv, RebindTypeOK, Open, OpenStore, transfer, attest
<1>2. ToolTypeOK'
  <2>1. privd' = [privd EXCEPT !.opening = (store[n] = "key")] /\ privd.node = n /\ tool' = tool
    BY DEF OpenStore, transfer
  <2> QED
    BY <2>1, NoneIsNoNode DEF RebindInv, ToolTypeOK
<1>3. StoppedInv'
  BY DEF RebindInv, StoppedInv, OpenStore, transfer, Down
<1>4. WholeBinding'
  BY DEF RebindInv, WholeBinding, Binding, Open, OpenStore, transfer, Down
<1>5. DecisionInv'
  BY DEF RebindInv, DecisionInv, Open, Quiesced, StoppedInv, OpenStore, transfer, Down
<1>6. KeyInv'
  BY DEF RebindInv, KeyInv, Open, OpenStore, attest, Down
<1>7. ToolInv' /\ UncertainIsQuarantined'
  BY DEF RebindInv, ToolInv, AlreadyCommitted, Record, UncertainIsQuarantined, OpenStore,
         transfer
<1> QED
  BY <1>1, <1>2, <1>3, <1>4, <1>5, <1>6, <1>7 DEF RebindInv

\* An effect is prepared in the namespace of the node at work.
LEMMA prepare_authorized_effectInv ==
  ASSUME RebindInv, NEW n \in Nodes, prepare_authorized_effect(n)
  PROVE  RebindInv'
<1>1. RebindTypeOK'
  BY DEF RebindInv, RebindTypeOK, prepare_authorized_effect, transfer, services, attest
<1>2. DecisionInv'
  BY DEF RebindInv, DecisionInv, unresolved, prepare_authorized_effect, transfer
<1>3. UncertainIsQuarantined'
  BY DEF RebindInv, UncertainIsQuarantined, prepare_authorized_effect
<1>4. ToolTypeOK' /\ ToolInv' /\ StoppedInv' /\ WholeBinding' /\ KeyInv'
  BY DEF RebindInv, ToolTypeOK, ToolInv, AlreadyCommitted, Record, StoppedInv,
         WholeBinding, KeyInv, prepare_authorized_effect, transfer, services, attest
<1> QED
  BY <1>1, <1>2, <1>3, <1>4 DEF RebindInv

\* An effect that privd completes is no longer unresolved.
LEMMA complete_authorized_effectInv ==
  ASSUME RebindInv, NEW n \in Nodes, complete_authorized_effect(n)
  PROVE  RebindInv'
<1>1. RebindTypeOK'
  BY DEF RebindInv, RebindTypeOK, complete_authorized_effect, transfer, services, attest
<1>2. DecisionInv'
  BY DEF RebindInv, DecisionInv, unresolved, complete_authorized_effect, transfer
<1>3. UncertainIsQuarantined'
  BY DEF RebindInv, UncertainIsQuarantined, complete_authorized_effect
<1>4. ToolTypeOK' /\ ToolInv' /\ StoppedInv' /\ WholeBinding' /\ KeyInv'
  BY DEF RebindInv, ToolTypeOK, ToolInv, AlreadyCommitted, Record, StoppedInv,
         WholeBinding, KeyInv, complete_authorized_effect, transfer, services, attest
<1> QED
  BY <1>1, <1>2, <1>3, <1>4 DEF RebindInv

\* A recorded result leaves no effect prepared.
LEMMA RecordResultInv ==
  ASSUME RebindInv, NEW n \in Nodes, RecordResult(n)
  PROVE  RebindInv'
<1>1. RebindTypeOK'
  BY DEF RebindInv, RebindTypeOK, RecordResult, transfer, services, attest
<1>2. DecisionInv'
  BY DEF RebindInv, DecisionInv, unresolved, Record, RecordResult, transfer
<1>3. UncertainIsQuarantined'
  BY DEF RebindInv, UncertainIsQuarantined, Record, RecordResult
<1>4. ToolTypeOK' /\ ToolInv' /\ StoppedInv' /\ WholeBinding' /\ KeyInv'
  BY DEF RebindInv, ToolTypeOK, ToolInv, AlreadyCommitted, Record, StoppedInv,
         WholeBinding, KeyInv, RecordResult, transfer, services, attest
<1> QED
  BY <1>1, <1>2, <1>3, <1>4 DEF RebindInv

\* An upgrade is scheduled in the namespace of the node at work.
LEMMA ScheduleUpgradeInv ==
  ASSUME RebindInv, NEW n \in Nodes, ScheduleUpgrade(n)
  PROVE  RebindInv'
<1>1. RebindTypeOK'
  BY RebindConstants DEF RebindInv, RebindTypeOK, ScheduleUpgrade, transfer, attest
<1>2. StoppedInv'
  BY DEF RebindInv, StoppedInv, ScheduleUpgrade, Working, transfer
<1>3. WholeBinding'
  BY DEF RebindInv, WholeBinding, Binding, ScheduleUpgrade, Working, transfer
<1>4. DecisionInv'
  BY NoneIsNoNode
     DEF RebindInv, DecisionInv, Quiesced, StoppedInv, ScheduleUpgrade, Working, transfer
<1>5. UncertainIsQuarantined'
  BY NoneIsNoNode
     DEF RebindInv, UncertainIsQuarantined, WholeBinding, ScheduleUpgrade, Working
<1>6. ToolTypeOK' /\ ToolInv' /\ KeyInv'
  BY DEF RebindInv, ToolTypeOK, ToolInv, AlreadyCommitted, Record, KeyInv,
         ScheduleUpgrade, transfer, attest
<1> QED
  BY <1>1, <1>2, <1>3, <1>4, <1>5, <1>6 DEF RebindInv

\* Nothing was transferred and nothing runs yet.
LEMMA RebindInitInv == Init => RebindInv
<1> SUFFICES ASSUME Init PROVE RebindInv
  OBVIOUS
<1>1. RebindTypeOK
  <2>1. 0 \in Nodes /\ MaxWork \in Nat /\ MaxFaults \in Nat
    BY RebindConstants DEF Nodes
  <2> QED
    BY <2>1 DEF Init, RebindTypeOK, Binding, Down
<1>2. ToolTypeOK
  BY DEF Init, ToolTypeOK, NoTool, Down
<1>3. ToolInv /\ StoppedInv /\ DecisionInv
  BY DEF Init, ToolInv, StoppedInv, DecisionInv, NoTool, Enrolling, Quiesced
<1>4. WholeBinding /\ UncertainIsQuarantined /\ KeyInv
  BY DEF Init, WholeBinding, UncertainIsQuarantined, KeyInv
<1> QED
  BY <1>1, <1>2, <1>3, <1>4 DEF RebindInv

\* Every step of the tool, the services, the Controllers and the faults keeps
\* the invariant.
LEMMA RebindNextInv ==
  ASSUME RebindInv, [Next]_vars
  PROVE  RebindInv'
<1>1. CASE Prepare
  BY <1>1, PrepareInv
<1>2. CASE Resume
  BY <1>2, ResumeInv
<1>3. CASE StageDirectory
  BY <1>3, StageDirectoryInv
<1>4. CASE stage_rebind
  BY <1>4, stage_rebindInv
<1>5. CASE SaveEnrolling
  BY <1>5, SaveEnrollingInv
<1>6. CASE enroll
  BY <1>6, enrollInv
<1>7. CASE enrollBootstrap
  BY <1>7, enrollBootstrapInv
<1>8. CASE SaveEnrolled
  BY <1>8, SaveEnrolledInv
<1>9. CASE Commit
  BY <1>9, CommitInv
<1>10. CASE StopServices
  BY <1>10, StopServicesInv
<1>11. CASE SaveCommitting
  BY <1>11, SaveCommittingInv
<1>12. CASE Assess
  BY <1>12, AssessInv
<1>13. CASE MoveIdentity
  BY <1>13, MoveIdentityInv
<1>14. CASE SaveRecord
  BY <1>14, SaveRecordInv
<1>15. CASE Publish
  BY <1>15, PublishInv
<1>16. CASE SaveCommitted
  BY <1>16, SaveCommittedInv
<1>17. CASE StartServices
  BY <1>17, StartServicesInv
<1>18. CASE Poll
  BY <1>18, PollInv
<1>19. CASE StartPrivd
  BY <1>19, StartPrivdInv
<1>20. CASE StartAgent
  BY <1>20, StartAgentInv
<1>21. CASE RunnerEnds
  BY <1>21, RunnerEndsInv
<1>22. CASE ToolCrash
  BY <1>22, ToolCrashInv
<1>23. CASE PrivdCrash
  BY <1>23, PrivdCrashInv
<1>24. CASE AgentCrash
  BY <1>24, AgentCrashInv
<1>25. CASE HostCrash
  BY <1>25, HostCrashInv
<1>26. ASSUME NEW t \in Targets, Approve(t)
       PROVE  RebindInv'
  BY <1>26, ApproveInv
<1>27. ASSUME NEW w \in Makers, load_or_create_signing_key(w)
       PROVE  RebindInv'
  BY <1>27, load_or_create_signing_keyInv
<1>28. ASSUME NEW w \in Makers, PublishKey(w)
       PROVE  RebindInv'
  BY <1>28, PublishKeyInv
<1>29. ASSUME NEW n \in Nodes, attestation_registration(n)
       PROVE  RebindInv'
  BY <1>29, attestation_registrationInv
<1>30. ASSUME NEW n \in Nodes, record_verified_session_grant(n)
       PROVE  RebindInv'
  BY <1>30, record_verified_session_grantInv
<1>31. ASSUME NEW n \in Nodes, Accept(n)
       PROVE  RebindInv'
  BY <1>31, AcceptInv
<1>32. ASSUME NEW n \in Nodes, load_or_create_effect_key(n)
       PROVE  RebindInv'
  BY <1>32, load_or_create_effect_keyInv
<1>33. ASSUME NEW n \in Nodes, OpenStore(n)
       PROVE  RebindInv'
  BY <1>33, OpenStoreInv
<1>34. ASSUME NEW n \in Nodes, prepare_authorized_effect(n)
       PROVE  RebindInv'
  BY <1>34, prepare_authorized_effectInv
<1>35. ASSUME NEW n \in Nodes, complete_authorized_effect(n)
       PROVE  RebindInv'
  BY <1>35, complete_authorized_effectInv
<1>36. ASSUME NEW n \in Nodes, RecordResult(n)
       PROVE  RebindInv'
  BY <1>36, RecordResultInv
<1>37. ASSUME NEW n \in Nodes, ScheduleUpgrade(n)
       PROVE  RebindInv'
  BY <1>37, ScheduleUpgradeInv
<1>38. CASE UNCHANGED vars
  BY <1>38
     DEF vars, RebindInv, RebindTypeOK, ToolTypeOK, ToolInv, StoppedInv, WholeBinding,
         DecisionInv, UncertainIsQuarantined, KeyInv, AlreadyCommitted, Record, unresolved
<1> QED
  BY <1>1, <1>2, <1>3, <1>4, <1>5, <1>6, <1>7, <1>8, <1>9, <1>10, <1>11, <1>12, <1>13,
     <1>14, <1>15, <1>16, <1>17, <1>18, <1>19, <1>20, <1>21, <1>22, <1>23, <1>24, <1>25,
     <1>26, <1>27, <1>28, <1>29, <1>30, <1>31, <1>32, <1>33, <1>34, <1>35, <1>36, <1>37,
     <1>38
     DEF Next, ToolStep, Serve

\* The inductive invariant holds in every reachable state.
THEOREM RebindInvariant == Spec => []RebindInv
<1>1. Init => RebindInv
  BY RebindInitInv
<1>2. RebindInv /\ [Next]_vars => RebindInv'
  BY RebindNextInv
<1> QED
  BY <1>1, <1>2, PTL DEF Spec

\* The records, the services, the namespaces and the keys keep their types.
THEOREM RebindTypeCorrect == Spec => []RebindTypeOK
<1>1. RebindInv => RebindTypeOK
  BY DEF RebindInv
<1> QED
  BY <1>1, RebindInvariant, PTL

\* privd, the Agent and the upgrader never work under two authorities, whatever
\* is interrupted (commit, load_active).
THEOREM RebindWholeBinding == Spec => []WholeBinding
<1>1. RebindInv => WholeBinding
  BY DEF RebindInv
<1> QED
  BY <1>1, RebindInvariant, PTL

\* A binding that may change the host leaves no uncertain work behind in a
\* retired one (commit, unresolved).
THEOREM RebindUncertainIsQuarantined == Spec => []UncertainIsQuarantined
<1>1. RebindInv => UncertainIsQuarantined
  BY DEF RebindInv
<1> QED
  BY <1>1, RebindInvariant, PTL

\* A running privd signs with the key its Controller registered, through
\* racing creations, restarts and transfers (load_or_create_signing_key).
THEOREM RebindReceiptsCreditable == Spec => []ReceiptsCreditable
<1>1. RebindInv => ReceiptsCreditable
  BY NoneIsNoNode
     DEF RebindInv, RebindTypeOK, ToolTypeOK, KeyInv, ReceiptsCreditable, verify_receipt,
         sign_receipt
<1> QED
  BY <1>1, RebindInvariant, PTL

(***************************************************************************)
(* Artifacts                                                               *)
(***************************************************************************)

\* The root ledger's record is consumed, by grant g.
ConsumedBy(g) == root.state = "consumed" /\ root.grant = g

\* Everyone who acts on a consumption has it from the root ledger: the holder of
\* the lock, the download and the reconciler that were answered, and the row.
LedgerInv ==
    /\ hand.op \in {"remove", "reremove"} => ConsumedBy(hand.grant)
    /\ \A g \in Grants : download[g] = "finalize" => ConsumedBy(g)
    /\ recon.step = "consumed" => ConsumedBy(recon.grant)
    /\ db.state = "consumed" => ConsumedBy(db.grant)

\* A completed download has left its grant in a row that stays consumed.
DeliveryInv ==
    \A g \in Grants : download[g] = "delivered" => db.state = "consumed" /\ db.grant = g

\* Until the export's result has arrived nobody downloads, so the result, which is
\* applied to a row in any state, undoes no consumption.
ExportInv ==
    /\ p12 # "closed" =>
        /\ db.state \in {"pending", "expired", "revoked"}
        /\ \A g \in Grants : download[g] = "none"
    /\ hand.op \in {"publish", "register"} => p12 = "sent"

\* A row is consuming while its certificate is not being revoked, and the node is
\* only told to revoke a certificate that is.
RevocationInv ==
    /\ db.state = "consuming" => cert.state \in {"issued", "expiring"}
    /\ hand.op \in {"revoke", "remove_key"} => cert.state = "revoking"

\* What is consumed or reconciled has been leased to a grant.
GrantedInv ==
    /\ db.state = "consuming" => db.grant \in Grants
    /\ recon.step # "idle" => recon.grant \in Grants

ArtifactsInv ==
    /\ ArtifactsTypeOK /\ LedgerInv /\ DeliveryInv /\ ExportInv /\ RevocationInv /\ GrantedInv

-----------------------------------------------------------------------------
(* The steps preserve the invariant                                        *)

\* The key and its request.
LEMMA certificate_csrInv ==
  ASSUME ArtifactsInv, certificate_csr
  PROVE  ArtifactsInv'
<1>1. ArtifactsTypeOK'
  BY DEF ArtifactsInv, ArtifactsTypeOK, Certificates, certificate_csr
<1>2. RevocationInv'
  BY DEF RevocationInv, certificate_csr, Free, Idle
<1>3. LedgerInv' /\ DeliveryInv' /\ ExportInv' /\ GrantedInv'
  BY DEF ArtifactsInv, LedgerInv, ConsumedBy, DeliveryInv, ExportInv, GrantedInv,
         certificate_csr
<1> QED
  BY <1>1, <1>2, <1>3 DEF ArtifactsInv

\* An export is asked for.
LEMMA CreateP12Inv ==
  ASSUME ArtifactsInv, CreateP12
  PROVE  ArtifactsInv'
<1>1. ArtifactsTypeOK'
  BY DEF ArtifactsInv, ArtifactsTypeOK, CreateP12, ctrl, node
<1>2. ExportInv'
  BY DEF ArtifactsInv, ExportInv, CreateP12, ctrl
<1>3. LedgerInv' /\ DeliveryInv' /\ RevocationInv' /\ GrantedInv'
  BY DEF ArtifactsInv, LedgerInv, ConsumedBy, DeliveryInv, RevocationInv, GrantedInv,
         CreateP12, ctrl, node
<1> QED
  BY <1>1, <1>2, <1>3 DEF ArtifactsInv

\* privd takes the export.
LEMMA BeginP12Inv ==
  ASSUME ArtifactsInv, BeginP12
  PROVE  ArtifactsInv'
<1>1. ArtifactsTypeOK'
  BY DEF ArtifactsInv, ArtifactsTypeOK, LedgerRecords, Holders, BeginP12,
         prepare_artifact, Idle, ctrl
<1>2. LedgerInv'
  BY DEF ArtifactsInv, LedgerInv, ConsumedBy, BeginP12, prepare_artifact, Idle, ctrl
<1>3. ExportInv'
  BY DEF ArtifactsInv, ExportInv, BeginP12, Free, Idle, ctrl
<1>4. RevocationInv'
  BY DEF ArtifactsInv, RevocationInv, BeginP12, Idle, ctrl
<1>5. DeliveryInv' /\ GrantedInv'
  BY DEF ArtifactsInv, DeliveryInv, GrantedInv, BeginP12, ctrl
<1> QED
  BY <1>1, <1>2, <1>3, <1>4, <1>5 DEF ArtifactsInv

\* The bundle is renamed into the spool.
LEMMA PublishP12Inv ==
  ASSUME ArtifactsInv, PublishP12
  PROVE  ArtifactsInv'
<1>1. ArtifactsTypeOK'
  BY ArtifactConstants DEF ArtifactsInv, ArtifactsTypeOK, Holders, PublishP12, Idle, ctrl
<1>2. LedgerInv'
  BY DEF ArtifactsInv, LedgerInv, ConsumedBy, PublishP12, ctrl
<1>3. ExportInv'
  BY DEF ArtifactsInv, ExportInv, PublishP12, ctrl
<1>4. RevocationInv'
  BY DEF ArtifactsInv, RevocationInv, PublishP12, ctrl
<1>5. DeliveryInv' /\ GrantedInv'
  BY DEF ArtifactsInv, DeliveryInv, GrantedInv, PublishP12, ctrl
<1> QED
  BY <1>1, <1>2, <1>3, <1>4, <1>5 DEF ArtifactsInv

\* The digest is registered.
LEMMA register_artifactInv ==
  ASSUME ArtifactsInv, register_artifact
  PROVE  ArtifactsInv'
<1>1. ArtifactsTypeOK'
  <2>1. root' \in LedgerRecords
    BY ArtifactConstants
       DEF ArtifactsInv, ArtifactsTypeOK, ArtifactRows, Certificates, DownloadStages,
           Passes, LedgerRecords, Holders, Terminal, Requests, register_artifact, Idle,
           ctrl
  <2>2. hand' \in Holders
    BY DEF Holders, register_artifact, Idle
  <2>3. p12' \in {"none", "sent", "ready", "failed", "closed"}
    BY DEF register_artifact
  <2> QED
    BY <2>1, <2>2, <2>3 DEF ArtifactsInv, ArtifactsTypeOK, register_artifact, ctrl
<1>2. LedgerInv'
  BY DEF ArtifactsInv, LedgerInv, ConsumedBy, register_artifact, Idle, ctrl
<1>3. ExportInv'
  BY DEF ArtifactsInv, ExportInv, register_artifact, Idle, ctrl
<1>4. RevocationInv'
  BY DEF ArtifactsInv, RevocationInv, register_artifact, Idle, ctrl
<1>5. DeliveryInv' /\ GrantedInv'
  BY DEF ArtifactsInv, DeliveryInv, GrantedInv, register_artifact, ctrl
<1> QED
  BY <1>1, <1>2, <1>3, <1>4, <1>5 DEF ArtifactsInv

\* The result arrives: nobody has leased the row before.
LEMMA ArtifactOutcomeInv ==
  ASSUME ArtifactsInv, ArtifactOutcome
  PROVE  ArtifactsInv'
<1>1. ArtifactsTypeOK'
  <2>1. db' \in ArtifactRows
    BY ArtifactConstants
       DEF ArtifactsInv, ArtifactsTypeOK, ArtifactRows, Certificates, DownloadStages,
           Passes, LedgerRecords, Holders, Terminal, Requests, ArtifactOutcome, node
  <2>2. p12' \in {"none", "sent", "ready", "failed", "closed"}
    BY DEF ArtifactOutcome
  <2> QED
    BY <2>1, <2>2 DEF ArtifactsInv, ArtifactsTypeOK, ArtifactOutcome, node
<1>2. LedgerInv'
  BY DEF ArtifactsInv, LedgerInv, ConsumedBy, ArtifactOutcome, node
<1>3. DeliveryInv'
  BY DEF ArtifactsInv, DeliveryInv, ExportInv, ArtifactOutcome
<1>4. ExportInv'
  BY DEF ArtifactsInv, ExportInv, ArtifactOutcome, node
<1>5. RevocationInv'
  BY DEF ArtifactsInv, RevocationInv, ArtifactOutcome, node
<1>6. GrantedInv'
  BY DEF ArtifactsInv, GrantedInv, ArtifactOutcome
<1> QED
  BY <1>1, <1>2, <1>3, <1>4, <1>5, <1>6 DEF ArtifactsInv

\* A row is leased.
LEMMA OpenArtifactInv ==
  ASSUME ArtifactsInv, NEW g \in Grants, OpenArtifact(g)
  PROVE  ArtifactsInv'
<1>1. ArtifactsTypeOK'
  <2>1. db' \in ArtifactRows
    BY ArtifactConstants
       DEF ArtifactsInv, ArtifactsTypeOK, ArtifactRows, Certificates, DownloadStages,
           Passes, LedgerRecords, Holders, Terminal, Requests, OpenArtifact, Issued,
           ArtifactFetchRequest, node
  <2>2. download' \in [Grants -> DownloadStages]
    BY DEF ArtifactsInv, ArtifactsTypeOK, DownloadStages, OpenArtifact
  <2>3. net' \subseteq Requests
    BY DEF ArtifactsInv, ArtifactsTypeOK, Requests, OpenArtifact, ArtifactFetchRequest
  <2> QED
    BY <2>1, <2>2, <2>3 DEF ArtifactsInv, ArtifactsTypeOK, OpenArtifact, node
<1>2. LedgerInv'
  BY DEF ArtifactsInv, LedgerInv, ConsumedBy, OpenArtifact, node
<1>3. DeliveryInv'
  BY DEF ArtifactsInv, DeliveryInv, OpenArtifact
<1>4. ExportInv'
  BY DEF ArtifactsInv, ExportInv, OpenArtifact, node
<1>5. RevocationInv'
  BY DEF ArtifactsInv, RevocationInv, OpenArtifact, node
<1>6. GrantedInv'
  BY DEF ArtifactsInv, GrantedInv, OpenArtifact
<1> QED
  BY <1>1, <1>2, <1>3, <1>4, <1>5, <1>6 DEF ArtifactsInv

\* The bytes are read: a consumed record is not leased again.
LEMMA artifact_readInv ==
  ASSUME ArtifactsInv, NEW g \in Grants, artifact_read(g)
  PROVE  ArtifactsInv'
<1>1. ArtifactsTypeOK'
  <2>1. net' \subseteq Requests
    BY DEF ArtifactsInv, ArtifactsTypeOK, Requests, artifact_read, handle_artifact_stream
  <2>2. root' \in LedgerRecords
    BY ArtifactConstants
       DEF ArtifactsInv, ArtifactsTypeOK, ArtifactRows, Certificates, DownloadStages,
           Passes, LedgerRecords, Holders, Terminal, Requests, artifact_read,
           ArtifactFetchRequest, MayLease, Leased, Free, handle_artifact_stream,
           verify_artifact_grant, Idle, verify_artifact_grant_inner
  <2>3. download' \in [Grants -> DownloadStages]
    BY DEF ArtifactsInv, ArtifactsTypeOK, DownloadStages, artifact_read
  <2> QED
    BY <2>1, <2>2, <2>3 DEF ArtifactsInv, ArtifactsTypeOK, artifact_read
<1>2. LedgerInv'
  BY DEF ArtifactsInv, LedgerInv, ConsumedBy, artifact_read, MayLease
<1>3. DeliveryInv'
  BY DEF ArtifactsInv, DeliveryInv, artifact_read
<1>4. ExportInv'
  BY DEF ArtifactsInv, ExportInv, artifact_read
<1>5. RevocationInv' /\ GrantedInv'
  BY DEF ArtifactsInv, RevocationInv, GrantedInv, artifact_read
<1> QED
  BY <1>1, <1>2, <1>3, <1>4, <1>5 DEF ArtifactsInv

\* The row becomes consuming, or a replay is answered from it.
LEMMA StartConsumptionInv ==
  ASSUME ArtifactsInv, NEW g \in Grants, StartConsumption(g)
  PROVE  ArtifactsInv'
<1>1. ArtifactsTypeOK'
  BY DEF ArtifactsInv, ArtifactsTypeOK, ArtifactRows, DownloadStages, Requests,
         StartConsumption, ArtifactConsumeRequest, node
<1>2. LedgerInv'
  BY DEF ArtifactsInv, LedgerInv, ConsumedBy, ArtifactsTypeOK, ArtifactRows,
         StartConsumption, node
<1>3. DeliveryInv'
  BY DEF ArtifactsInv, DeliveryInv, ArtifactsTypeOK, StartConsumption
<1>4. ExportInv'
  BY DEF ArtifactsInv, ExportInv, StartConsumption, node
<1>5. RevocationInv'
  BY DEF ArtifactsInv, RevocationInv, StartConsumption, Issued, node
<1>6. GrantedInv'
  BY DEF ArtifactsInv, GrantedInv, ArtifactsTypeOK, ArtifactRows, StartConsumption
<1> QED
  BY <1>1, <1>2, <1>3, <1>4, <1>5, <1>6 DEF ArtifactsInv

\* A request is abandoned.
LEMMA GiveUpInv ==
  ASSUME ArtifactsInv, NEW g \in Grants, GiveUp(g)
  PROVE  ArtifactsInv'
<1>1. ArtifactsTypeOK'
  BY DEF ArtifactsInv, ArtifactsTypeOK, DownloadStages, GiveUp, node
<1>2. LedgerInv'
  BY DEF ArtifactsInv, LedgerInv, ConsumedBy, GiveUp, node
<1>3. DeliveryInv'
  BY DEF ArtifactsInv, DeliveryInv, GiveUp
<1>4. ExportInv'
  BY DEF ArtifactsInv, ExportInv, GiveUp, node
<1>5. RevocationInv' /\ GrantedInv'
  BY DEF ArtifactsInv, RevocationInv, GrantedInv, GiveUp, node
<1> QED
  BY <1>1, <1>2, <1>3, <1>4, <1>5 DEF ArtifactsInv

\* The row becomes consumed, as the ledger is.
LEMMA finalizeArtifactConsumptionInv ==
  ASSUME ArtifactsInv, NEW g \in Grants, finalizeArtifactConsumption(g)
  PROVE  ArtifactsInv'
<1>1. ArtifactsTypeOK'
  BY DEF ArtifactsInv, ArtifactsTypeOK, ArtifactRows, DownloadStages, Terminal,
         finalizeArtifactConsumption, node
<1>2. LedgerInv'
  BY DEF ArtifactsInv, LedgerInv, ConsumedBy, finalizeArtifactConsumption, node
<1>3. DeliveryInv'
  BY DEF ArtifactsInv, DeliveryInv, finalizeArtifactConsumption
<1>4. ExportInv'
  BY DEF ArtifactsInv, ExportInv, finalizeArtifactConsumption, node
<1>5. RevocationInv'
  BY DEF ArtifactsInv, RevocationInv, finalizeArtifactConsumption, node
<1>6. GrantedInv'
  BY DEF ArtifactsInv, GrantedInv, finalizeArtifactConsumption
<1> QED
  BY <1>1, <1>2, <1>3, <1>4, <1>5, <1>6 DEF ArtifactsInv

\* A grant expires.
LEMMA GrantExpiresInv ==
  ASSUME ArtifactsInv, NEW g \in Grants, GrantExpires(g)
  PROVE  ArtifactsInv'
<1>1. ArtifactsTypeOK'
  BY DEF ArtifactsInv, ArtifactsTypeOK, GrantExpires, ctrl, node
<1>2. LedgerInv' /\ DeliveryInv' /\ ExportInv' /\ RevocationInv' /\ GrantedInv'
  BY DEF ArtifactsInv, LedgerInv, ConsumedBy, DeliveryInv, ExportInv, RevocationInv,
         GrantedInv, GrantExpires, ctrl, node
<1> QED
  BY <1>1, <1>2 DEF ArtifactsInv

\* The ledger commits a consumption, of the record of the exact grant.
LEMMA consume_artifactInv ==
  ASSUME ArtifactsInv, NEW request \in net, consume_artifact(request)
  PROVE  ArtifactsInv'
<1>1. ArtifactsTypeOK'
  BY DEF ArtifactsInv, ArtifactsTypeOK, DownloadStages, Passes, LedgerRecords, Holders,
         Terminal, consume_artifact, ExactLease, handle_artifact_consume, NoPass
<1>2. LedgerInv'
  BY DEF ArtifactsInv, LedgerInv, ConsumedBy, ArtifactsTypeOK, LedgerRecords,
         consume_artifact, ExactLease, NoPass
<1>3. DeliveryInv'
  BY DEF ArtifactsInv, DeliveryInv, ArtifactsTypeOK, consume_artifact
<1>4. ExportInv'
  BY DEF ArtifactsInv, ExportInv, ArtifactsTypeOK, consume_artifact
<1>5. RevocationInv'
  BY DEF ArtifactsInv, RevocationInv, consume_artifact
<1>6. GrantedInv'
  BY DEF ArtifactsInv, GrantedInv, consume_artifact, NoPass
<1> QED
  BY <1>1, <1>2, <1>3, <1>4, <1>5, <1>6 DEF ArtifactsInv

\* A request meets the end of its owner term.
LEMMA verify_artifact_fenceInv ==
  ASSUME ArtifactsInv, NEW request \in net, verify_artifact_fence(request)
  PROVE  ArtifactsInv'
<1>1. ArtifactsTypeOK'
  BY DEF ArtifactsInv, ArtifactsTypeOK, DownloadStages, Passes, Requests,
         verify_artifact_fence, NoPass, node
<1>2. LedgerInv'
  BY DEF ArtifactsInv, LedgerInv, ConsumedBy, verify_artifact_fence, NoPass, node
<1>3. DeliveryInv'
  BY DEF ArtifactsInv, DeliveryInv, verify_artifact_fence
<1>4. ExportInv'
  BY DEF ArtifactsInv, ExportInv, verify_artifact_fence, node
<1>5. RevocationInv'
  BY DEF ArtifactsInv, RevocationInv, verify_artifact_fence, node
<1>6. GrantedInv'
  BY DEF ArtifactsInv, GrantedInv, verify_artifact_fence, NoPass
<1> QED
  BY <1>1, <1>2, <1>3, <1>4, <1>5, <1>6 DEF ArtifactsInv

\* The bytes go, and whoever asked is answered.
LEMMA RemoveBytesInv ==
  ASSUME ArtifactsInv, RemoveBytes
  PROVE  ArtifactsInv'
<1>1. ArtifactsTypeOK'
  <2>1. file' \in 0..MaxMade
    BY ArtifactConstants DEF RemoveBytes
  <2>2. download' \in [Grants -> DownloadStages]
    BY ArtifactConstants
       DEF ArtifactsInv, ArtifactsTypeOK, ArtifactRows, Certificates, DownloadStages,
           Passes, LedgerRecords, Holders, Terminal, Requests, RemoveBytes,
           finalize_artifact_consumption, Idle
  <2>3. recon' \in Passes
    BY DEF ArtifactsInv, ArtifactsTypeOK, Passes, RemoveBytes,
           finalize_artifact_consumption
  <2>4. hand' \in Holders
    BY DEF Holders, RemoveBytes, Idle
  <2> QED
    BY <2>1, <2>2, <2>3, <2>4 DEF ArtifactsInv, ArtifactsTypeOK, RemoveBytes
<1>2. LedgerInv'
  BY DEF ArtifactsInv, LedgerInv, ConsumedBy, RemoveBytes, finalize_artifact_consumption,
         Idle
<1>3. DeliveryInv'
  BY DEF ArtifactsInv, DeliveryInv, RemoveBytes, finalize_artifact_consumption
<1>4. ExportInv'
  BY DEF ArtifactsInv, ExportInv, RemoveBytes, finalize_artifact_consumption, Idle
<1>5. RevocationInv'
  BY DEF ArtifactsInv, RevocationInv, RemoveBytes, Idle
<1>6. GrantedInv'
  BY DEF ArtifactsInv, GrantedInv, RemoveBytes, finalize_artifact_consumption
<1> QED
  BY <1>1, <1>2, <1>3, <1>4, <1>5, <1>6 DEF ArtifactsInv

\* The reconciler asks the ledger.
LEMMA ConfirmConsumedInv ==
  ASSUME ArtifactsInv, ConfirmConsumed
  PROVE  ArtifactsInv'
<1>1. ArtifactsTypeOK'
  BY DEF ArtifactsInv, ArtifactsTypeOK, ArtifactRows, Passes, ConfirmConsumed, node
<1>2. LedgerInv'
  BY DEF ArtifactsInv, LedgerInv, ConsumedBy, ConfirmConsumed, ExactLease, node
<1>3. GrantedInv'
  BY DEF ArtifactsInv, GrantedInv, ConfirmConsumed
<1>4. DeliveryInv' /\ ExportInv' /\ RevocationInv'
  BY DEF ArtifactsInv, DeliveryInv, ExportInv, RevocationInv, ConfirmConsumed, node
<1> QED
  BY <1>1, <1>2, <1>3, <1>4 DEF ArtifactsInv

\* The reconciler consumes.
LEMMA ReconcileConsumeInv ==
  ASSUME ArtifactsInv, ReconcileConsume
  PROVE  ArtifactsInv'
<1>1. ArtifactsTypeOK'
  <2>1. recon' \in Passes
    BY DEF ArtifactsInv, ArtifactsTypeOK, Passes, ReconcileConsume
  <2>2. net' \subseteq Requests
    BY DEF GrantedInv, ArtifactsInv, ArtifactsTypeOK, Requests, ReconcileConsume,
           ArtifactConsumeRequest
  <2> QED
    BY <2>1, <2>2 DEF ArtifactsInv, ArtifactsTypeOK, ReconcileConsume, node
<1>2. LedgerInv'
  BY DEF ArtifactsInv, LedgerInv, ConsumedBy, ReconcileConsume, node
<1>3. GrantedInv'
  BY DEF ArtifactsInv, GrantedInv, ReconcileConsume
<1>4. DeliveryInv' /\ ExportInv' /\ RevocationInv'
  BY DEF ArtifactsInv, DeliveryInv, ExportInv, RevocationInv, ReconcileConsume, node
<1> QED
  BY <1>1, <1>2, <1>3, <1>4 DEF ArtifactsInv

\* The reconciler gives up.
LEMMA ReconcileGivesUpInv ==
  ASSUME ArtifactsInv, ReconcileGivesUp
  PROVE  ArtifactsInv'
<1>1. ArtifactsTypeOK'
  BY DEF ArtifactsInv, ArtifactsTypeOK, Passes, ReconcileGivesUp, NoPass, node
<1>2. LedgerInv'
  BY DEF ArtifactsInv, LedgerInv, ConsumedBy, ReconcileGivesUp, NoPass, node
<1>3. GrantedInv'
  BY DEF ArtifactsInv, GrantedInv, ReconcileGivesUp, NoPass
<1>4. DeliveryInv' /\ ExportInv' /\ RevocationInv'
  BY DEF ArtifactsInv, DeliveryInv, ExportInv, RevocationInv, ReconcileGivesUp, node
<1> QED
  BY <1>1, <1>2, <1>3, <1>4 DEF ArtifactsInv

\* The reconciler settles the row as consumed.
LEMMA ReconcileFinalizeInv ==
  ASSUME ArtifactsInv, ReconcileFinalize
  PROVE  ArtifactsInv'
<1>1. ArtifactsTypeOK'
  BY DEF ArtifactsInv, ArtifactsTypeOK, ArtifactRows, Passes, Terminal, ReconcileFinalize,
         NoPass, node
<1>2. LedgerInv'
  BY DEF ArtifactsInv, LedgerInv, ConsumedBy, ReconcileFinalize, NoPass, node
<1>3. DeliveryInv'
  BY DEF ArtifactsInv, DeliveryInv, ReconcileFinalize
<1>4. ExportInv'
  BY DEF ArtifactsInv, ExportInv, ReconcileFinalize, node
<1>5. RevocationInv'
  BY DEF ArtifactsInv, RevocationInv, ReconcileFinalize, node
<1>6. GrantedInv'
  BY DEF ArtifactsInv, GrantedInv, ReconcileFinalize, NoPass
<1> QED
  BY <1>1, <1>2, <1>3, <1>4, <1>5, <1>6 DEF ArtifactsInv

\* The reconciler resets a row that is consuming.
LEMMA ResetConsumptionInv ==
  ASSUME ArtifactsInv, ResetConsumption
  PROVE  ArtifactsInv'
<1>1. ArtifactsTypeOK'
  <2>1. db' \in ArtifactRows
    BY ArtifactConstants
       DEF ArtifactsInv, ArtifactsTypeOK, ArtifactRows, Certificates, DownloadStages,
           Passes, LedgerRecords, Holders, Terminal, Requests, ResetConsumption, NoPass,
           node
  <2>2. recon' \in Passes
    BY DEF Passes, ResetConsumption, NoPass
  <2> QED
    BY <2>1, <2>2 DEF ArtifactsInv, ArtifactsTypeOK, ResetConsumption, node
<1>2. LedgerInv'
  BY DEF ArtifactsInv, LedgerInv, ConsumedBy, ResetConsumption, NoPass, node
<1>3. DeliveryInv'
  BY DEF ArtifactsInv, DeliveryInv, ResetConsumption
<1>4. ExportInv'
  BY DEF ArtifactsInv, ExportInv, ResetConsumption, node
<1>5. RevocationInv'
  BY DEF ArtifactsInv, RevocationInv, ResetConsumption, node
<1>6. GrantedInv'
  BY DEF ArtifactsInv, GrantedInv, ResetConsumption, NoPass
<1> QED
  BY <1>1, <1>2, <1>3, <1>4, <1>5, <1>6 DEF ArtifactsInv

\* The artifact expires.
LEMMA ArtifactExpiresInv ==
  ASSUME ArtifactsInv, ArtifactExpires
  PROVE  ArtifactsInv'
<1>1. ArtifactsTypeOK'
  BY DEF ArtifactsInv, ArtifactsTypeOK, ArtifactExpires, ctrl, node
<1>2. LedgerInv' /\ DeliveryInv' /\ ExportInv' /\ RevocationInv' /\ GrantedInv'
  BY DEF ArtifactsInv, LedgerInv, ConsumedBy, DeliveryInv, ExportInv, RevocationInv,
         GrantedInv, ArtifactExpires, ctrl, node
<1> QED
  BY <1>1, <1>2 DEF ArtifactsInv

\* An open row expires.
LEMMA MaintainInv ==
  ASSUME ArtifactsInv, Maintain
  PROVE  ArtifactsInv'
<1>1. ArtifactsTypeOK'
  BY DEF ArtifactsInv, ArtifactsTypeOK, ArtifactRows, Terminal, Maintain, node
<1>2. LedgerInv'
  BY DEF ArtifactsInv, LedgerInv, ConsumedBy, Maintain, node
<1>3. DeliveryInv'
  BY DEF ArtifactsInv, DeliveryInv, Maintain
<1>4. ExportInv'
  BY DEF ArtifactsInv, ExportInv, Maintain, node
<1>5. RevocationInv'
  BY DEF ArtifactsInv, RevocationInv, Maintain, node
<1>6. GrantedInv'
  BY DEF ArtifactsInv, GrantedInv, Maintain
<1> QED
  BY <1>1, <1>2, <1>3, <1>4, <1>5, <1>6 DEF ArtifactsInv

\* The certificate nears its end.
LEMMA CertificateExpiringInv ==
  ASSUME ArtifactsInv, CertificateExpiring
  PROVE  ArtifactsInv'
<1>1. ArtifactsTypeOK'
  BY DEF ArtifactsInv, ArtifactsTypeOK, Certificates, CertificateExpiring, node
<1>2. RevocationInv'
  BY DEF ArtifactsInv, RevocationInv, CertificateExpiring, node
<1>3. LedgerInv' /\ DeliveryInv' /\ ExportInv' /\ GrantedInv'
  BY DEF ArtifactsInv, LedgerInv, ConsumedBy, DeliveryInv, ExportInv, GrantedInv,
         CertificateExpiring, node
<1> QED
  BY <1>1, <1>2, <1>3 DEF ArtifactsInv

\* The cleanup leaves a consumed record alone.
LEMMA cleanup_stale_certificate_artifactsInv ==
  ASSUME ArtifactsInv, cleanup_stale_certificate_artifacts
  PROVE  ArtifactsInv'
<1>1. ArtifactsTypeOK'
  <2>1. root' \in LedgerRecords
    BY ArtifactConstants
       DEF ArtifactsInv, ArtifactsTypeOK, ArtifactRows, Certificates, DownloadStages,
           Passes, LedgerRecords, Holders, Terminal, Requests,
           cleanup_stale_certificate_artifacts, Free, reconcile_artifacts, ctrl, Idle
  <2>2. file' \in 0..MaxMade
    BY ArtifactConstants
       DEF ArtifactsInv, ArtifactsTypeOK, cleanup_stale_certificate_artifacts
  <2> QED
    BY <2>1, <2>2
       DEF ArtifactsInv, ArtifactsTypeOK, cleanup_stale_certificate_artifacts, ctrl
<1>2. LedgerInv'
  BY DEF ArtifactsInv, LedgerInv, ConsumedBy, cleanup_stale_certificate_artifacts,
         reconcile_artifacts, ctrl
<1>3. DeliveryInv' /\ ExportInv' /\ RevocationInv' /\ GrantedInv'
  BY DEF ArtifactsInv, DeliveryInv, ExportInv, RevocationInv, GrantedInv,
         cleanup_stale_certificate_artifacts, ctrl
<1> QED
  BY <1>1, <1>2, <1>3 DEF ArtifactsInv

\* The certificate and an open row are withdrawn.
LEMMA BeginRevocationInv ==
  ASSUME ArtifactsInv, BeginRevocation
  PROVE  ArtifactsInv'
<1>1. ArtifactsTypeOK'
  BY DEF ArtifactsInv, ArtifactsTypeOK, ArtifactRows, Certificates, Terminal,
         BeginRevocation, node
<1>2. LedgerInv'
  BY DEF ArtifactsInv, LedgerInv, ConsumedBy, BeginRevocation, node
<1>3. DeliveryInv'
  BY DEF ArtifactsInv, DeliveryInv, BeginRevocation
<1>4. ExportInv'
  BY DEF ArtifactsInv, ExportInv, BeginRevocation, node
<1>5. RevocationInv'
  BY DEF RevocationInv, BeginRevocation
<1>6. GrantedInv'
  BY DEF ArtifactsInv, GrantedInv, BeginRevocation
<1> QED
  BY <1>1, <1>2, <1>3, <1>4, <1>5, <1>6 DEF ArtifactsInv

\* The signer does not answer.
LEMMA RevocationUnknownInv ==
  ASSUME ArtifactsInv, RevocationUnknown
  PROVE  ArtifactsInv'
<1>1. ArtifactsTypeOK'
  BY ArtifactConstants
     DEF ArtifactsInv, ArtifactsTypeOK, Certificates, RevocationUnknown, node
<1>2. RevocationInv'
  BY DEF ArtifactsInv, RevocationInv, RevocationUnknown, node
<1>3. LedgerInv' /\ DeliveryInv' /\ ExportInv' /\ GrantedInv'
  BY DEF ArtifactsInv, LedgerInv, ConsumedBy, DeliveryInv, ExportInv, GrantedInv,
         RevocationUnknown, node
<1> QED
  BY <1>1, <1>2, <1>3 DEF ArtifactsInv

\* A revocation leaves a consumed record alone.
LEMMA revoke_certificate_artifactsInv ==
  ASSUME ArtifactsInv, revoke_certificate_artifacts
  PROVE  ArtifactsInv'
<1>1. ArtifactsTypeOK'
  BY DEF ArtifactsInv, ArtifactsTypeOK, LedgerRecords, Holders, Terminal,
         revoke_certificate_artifacts, Idle, ctrl
<1>2. LedgerInv'
  BY DEF ArtifactsInv, LedgerInv, ConsumedBy, revoke_certificate_artifacts, ctrl
<1>3. ExportInv'
  BY DEF ArtifactsInv, ExportInv, revoke_certificate_artifacts, ctrl
<1>4. RevocationInv'
  BY DEF ArtifactsInv, RevocationInv, revoke_certificate_artifacts, ctrl
<1>5. DeliveryInv' /\ GrantedInv'
  BY DEF ArtifactsInv, DeliveryInv, GrantedInv, revoke_certificate_artifacts, ctrl
<1> QED
  BY <1>1, <1>2, <1>3, <1>4, <1>5 DEF ArtifactsInv

\* The files of a revoked certificate go.
LEMMA RemoveRevokedFilesInv ==
  ASSUME ArtifactsInv, RemoveRevokedFiles
  PROVE  ArtifactsInv'
<1>1. ArtifactsTypeOK'
  BY ArtifactConstants
     DEF ArtifactsInv, ArtifactsTypeOK, Holders, RemoveRevokedFiles, Idle, ctrl
<1>2. LedgerInv'
  BY DEF ArtifactsInv, LedgerInv, ConsumedBy, RemoveRevokedFiles, ctrl
<1>3. ExportInv'
  BY DEF ArtifactsInv, ExportInv, RemoveRevokedFiles, ctrl
<1>4. RevocationInv'
  BY DEF ArtifactsInv, RevocationInv, RemoveRevokedFiles, ctrl
<1>5. DeliveryInv' /\ GrantedInv'
  BY DEF ArtifactsInv, DeliveryInv, GrantedInv, RemoveRevokedFiles, ctrl
<1> QED
  BY <1>1, <1>2, <1>3, <1>4, <1>5 DEF ArtifactsInv

\* The key of a revoked certificate goes.
LEMMA RemoveKeyInv ==
  ASSUME ArtifactsInv, RemoveKey
  PROVE  ArtifactsInv'
<1>1. ArtifactsTypeOK'
  <2>1. key' \in BOOLEAN
    BY ArtifactConstants
       DEF ArtifactsInv, ArtifactsTypeOK, ArtifactRows, Certificates, DownloadStages,
           Passes, LedgerRecords, Holders, Terminal, Requests, RemoveKey, Idle
  <2>2. hand' \in Holders
    BY DEF Holders, RemoveKey, Idle
  <2>3. cert' \in Certificates
    BY DEF ArtifactsInv, ArtifactsTypeOK, Certificates, RemoveKey
  <2> QED
    BY <2>1, <2>2, <2>3 DEF ArtifactsInv, ArtifactsTypeOK, RemoveKey
<1>2. LedgerInv'
  BY DEF ArtifactsInv, LedgerInv, ConsumedBy, RemoveKey, Idle
<1>3. ExportInv'
  BY DEF ArtifactsInv, ExportInv, RemoveKey, Idle
<1>4. RevocationInv'
  BY DEF ArtifactsInv, RevocationInv, RemoveKey, Idle
<1>5. DeliveryInv' /\ GrantedInv'
  BY DEF ArtifactsInv, DeliveryInv, GrantedInv, RemoveKey
<1> QED
  BY <1>1, <1>2, <1>3, <1>4, <1>5 DEF ArtifactsInv

\* privd dies.
LEMMA CrashPrivdInv ==
  ASSUME ArtifactsInv, CrashPrivd
  PROVE  ArtifactsInv'
<1>1. ArtifactsTypeOK'
  BY ArtifactConstants
     DEF ArtifactsInv, ArtifactsTypeOK, DownloadStages, Passes, Holders, CrashPrivd, Idle,
         NoPass
<1>2. LedgerInv'
  BY DEF ArtifactsInv, LedgerInv, ConsumedBy, CrashPrivd, Idle, NoPass
<1>3. DeliveryInv'
  BY DEF ArtifactsInv, DeliveryInv, CrashPrivd
<1>4. ExportInv'
  BY DEF ArtifactsInv, ExportInv, CrashPrivd, Idle
<1>5. RevocationInv'
  BY DEF ArtifactsInv, RevocationInv, CrashPrivd, Idle
<1>6. GrantedInv'
  BY DEF ArtifactsInv, GrantedInv, CrashPrivd, NoPass
<1> QED
  BY <1>1, <1>2, <1>3, <1>4, <1>5, <1>6 DEF ArtifactsInv

\* The Controller dies.
LEMMA CrashControllerInv ==
  ASSUME ArtifactsInv, CrashController
  PROVE  ArtifactsInv'
<1>1. ArtifactsTypeOK'
  BY ArtifactConstants
     DEF ArtifactsInv, ArtifactsTypeOK, DownloadStages, Passes, CrashController, NoPass,
         node
<1>2. LedgerInv'
  BY DEF ArtifactsInv, LedgerInv, ConsumedBy, CrashController, NoPass, node
<1>3. DeliveryInv'
  BY DEF ArtifactsInv, DeliveryInv, CrashController
<1>4. ExportInv'
  BY DEF ArtifactsInv, ExportInv, CrashController, node
<1>5. RevocationInv'
  BY DEF ArtifactsInv, RevocationInv, CrashController, node
<1>6. GrantedInv'
  BY DEF ArtifactsInv, GrantedInv, CrashController, NoPass
<1> QED
  BY <1>1, <1>2, <1>3, <1>4, <1>5, <1>6 DEF ArtifactsInv

\* The artifact starts with no grant.
LEMMA ArtifactsInitial == ArtifactsInit => ArtifactsInv
<1> SUFFICES ASSUME ArtifactsInit
             PROVE  ArtifactsInv
  OBVIOUS
<1>1. ArtifactsTypeOK
  <2>1. db \in ArtifactRows /\ recon \in Passes /\ hand \in Holders
    BY ArtifactConstants DEF ArtifactsInit, ArtifactRows, Passes, Holders, NoPass, Idle
  <2>2. root \in LedgerRecords /\ file \in 0..MaxMade
    BY ArtifactConstants DEF ArtifactsInit, LedgerRecords, NoRecord
  <2>3. cert \in Certificates /\ download \in [Grants -> DownloadStages]
    BY DEF ArtifactsInit, Certificates, DownloadStages
  <2>4. made \in 0..MaxMade /\ crashes \in 0..MaxCrashes
    BY ArtifactConstants DEF ArtifactsInit
  <2>5. /\ net \subseteq Requests /\ key \in BOOLEAN
        /\ p12 \in {"none", "sent", "ready", "failed", "closed"}
        /\ expired \subseteq Grants /\ over \in BOOLEAN
    BY DEF ArtifactsInit
  <2> QED
    BY <2>1, <2>2, <2>3, <2>4, <2>5 DEF ArtifactsTypeOK
<1>2. LedgerInv /\ DeliveryInv /\ ExportInv /\ RevocationInv /\ GrantedInv
  BY DEF ArtifactsInit, LedgerInv, DeliveryInv, ExportInv, RevocationInv, GrantedInv,
         Idle, NoPass
<1> QED
  BY <1>1, <1>2 DEF ArtifactsInv

\* Every step preserves the invariant.
LEMMA ArtifactsStep ==
  ASSUME ArtifactsInv, [ArtifactsNext]_artifactVars
  PROVE  ArtifactsInv'
<1>1. CASE certificate_csr
  BY <1>1, certificate_csrInv
<1>2. CASE CreateP12
  BY <1>2, CreateP12Inv
<1>3. CASE BeginP12
  BY <1>3, BeginP12Inv
<1>4. CASE PublishP12
  BY <1>4, PublishP12Inv
<1>5. CASE register_artifact
  BY <1>5, register_artifactInv
<1>6. CASE ArtifactOutcome
  BY <1>6, ArtifactOutcomeInv
<1>7. ASSUME NEW g \in Grants, OpenArtifact(g)
      PROVE  ArtifactsInv'
  BY <1>7, OpenArtifactInv
<1>8. ASSUME NEW g \in Grants, artifact_read(g)
      PROVE  ArtifactsInv'
  BY <1>8, artifact_readInv
<1>9. ASSUME NEW g \in Grants, StartConsumption(g)
      PROVE  ArtifactsInv'
  BY <1>9, StartConsumptionInv
<1>10. ASSUME NEW g \in Grants, GiveUp(g)
       PROVE  ArtifactsInv'
  BY <1>10, GiveUpInv
<1>11. ASSUME NEW g \in Grants, finalizeArtifactConsumption(g)
       PROVE  ArtifactsInv'
  BY <1>11, finalizeArtifactConsumptionInv
<1>12. ASSUME NEW g \in Grants, GrantExpires(g)
       PROVE  ArtifactsInv'
  BY <1>12, GrantExpiresInv
<1>13. ASSUME NEW request \in net, consume_artifact(request)
       PROVE  ArtifactsInv'
  BY <1>13, consume_artifactInv
<1>14. ASSUME NEW request \in net, verify_artifact_fence(request)
       PROVE  ArtifactsInv'
  BY <1>14, verify_artifact_fenceInv
<1>15. CASE RemoveBytes
  BY <1>15, RemoveBytesInv
<1>16. CASE ConfirmConsumed
  BY <1>16, ConfirmConsumedInv
<1>17. CASE ReconcileConsume
  BY <1>17, ReconcileConsumeInv
<1>18. CASE ReconcileGivesUp
  BY <1>18, ReconcileGivesUpInv
<1>19. CASE ReconcileFinalize
  BY <1>19, ReconcileFinalizeInv
<1>20. CASE ResetConsumption
  BY <1>20, ResetConsumptionInv
<1>21. CASE ArtifactExpires
  BY <1>21, ArtifactExpiresInv
<1>22. CASE Maintain
  BY <1>22, MaintainInv
<1>23. CASE CertificateExpiring
  BY <1>23, CertificateExpiringInv
<1>24. CASE cleanup_stale_certificate_artifacts
  BY <1>24, cleanup_stale_certificate_artifactsInv
<1>25. CASE BeginRevocation
  BY <1>25, BeginRevocationInv
<1>26. CASE RevocationUnknown
  BY <1>26, RevocationUnknownInv
<1>27. CASE revoke_certificate_artifacts
  BY <1>27, revoke_certificate_artifactsInv
<1>28. CASE RemoveRevokedFiles
  BY <1>28, RemoveRevokedFilesInv
<1>29. CASE RemoveKey
  BY <1>29, RemoveKeyInv
<1>30. CASE CrashPrivd
  BY <1>30, CrashPrivdInv
<1>31. CASE CrashController
  BY <1>31, CrashControllerInv
<1>32. CASE UNCHANGED artifactVars
  BY <1>32
     DEF ArtifactsInv, ArtifactsTypeOK, LedgerInv, DeliveryInv, ExportInv, RevocationInv,
         GrantedInv, ConsumedBy, artifactVars
<1> QED
  BY <1>1, <1>2, <1>3, <1>4, <1>5, <1>6, <1>7, <1>8, <1>9, <1>10, <1>11, <1>12, <1>13,
     <1>14, <1>15, <1>16, <1>17, <1>18, <1>19, <1>20, <1>21, <1>22, <1>23, <1>24, <1>25,
     <1>26, <1>27, <1>28, <1>29, <1>30, <1>31, <1>32
     DEF ArtifactsNext, Downloads

\* The invariant of the export, the downloads, the reconciler and the revocation.
THEOREM ArtifactsInvariant == ArtifactsSpec => []ArtifactsInv
<1>1. ArtifactsInit => ArtifactsInv
  BY ArtifactsInitial
<1>2. ArtifactsInv /\ [ArtifactsNext]_artifactVars => ArtifactsInv'
  BY ArtifactsStep
<1> QED
  BY <1>1, <1>2, PTL DEF ArtifactsSpec

\* Every variable of the export keeps its type.
THEOREM ArtifactsTypeCorrect == ArtifactsSpec => []ArtifactsTypeOK
<1>1. ArtifactsInv => ArtifactsTypeOK
  BY DEF ArtifactsInv
<1> QED
  BY <1>1, ArtifactsInvariant, PTL

\* Whatever is delayed, lost or dies, for any number of downloads, the private key
\* leaves the Controller at most once, for the grant that the root ledger and the
\* Controller's row both name consumed.
THEOREM ArtifactsDeliveredOnce == ArtifactsSpec => []DeliveredOnce
<1>1. ArtifactsInv => DeliveredOnce
  <2> SUFFICES ASSUME ArtifactsInv
               PROVE  DeliveredOnce
    OBVIOUS
  <2> DEFINE D == {g \in Grants : download[g] = "delivered"}
  <2>1. D \subseteq {db.grant}
    BY DEF ArtifactsInv, DeliveryInv
  <2>2. IsFiniteSet({db.grant}) /\ Cardinality({db.grant}) = 1
    BY FS_Singleton
  <2>3. Cardinality(D) <= 1
    BY <2>1, <2>2, FS_Subset
  <2>4. ASSUME NEW g \in Grants, download[g] = "delivered"
        PROVE  root.state = "consumed" /\ root.grant = g /\ db.grant = g
    BY <2>4 DEF ArtifactsInv, DeliveryInv, LedgerInv, ConsumedBy
  <2> QED
    BY <2>3, <2>4 DEF DeliveredOnce
<1> QED
  BY <1>1, ArtifactsInvariant, PTL

\* A download is completed by the row's consumption or by a replay of it.
LEMMA RevocationStep ==
  ASSUME ArtifactsInv, [ArtifactsNext]_artifactVars
  PROVE  \A h \in Grants : download[h] # "delivered" /\ download'[h] = "delivered"
           => cert.state \in {"issued", "expiring"} \/ db.state = "consumed"
<1>1. CASE certificate_csr
  BY <1>1 DEF certificate_csr
<1>2. CASE CreateP12
  BY <1>2 DEF CreateP12, ctrl
<1>3. CASE BeginP12
  BY <1>3 DEF BeginP12, ctrl
<1>4. CASE PublishP12
  BY <1>4 DEF PublishP12, ctrl
<1>5. CASE register_artifact
  BY <1>5 DEF register_artifact, ctrl
<1>6. CASE ArtifactOutcome
  BY <1>6 DEF ArtifactOutcome
<1>7. ASSUME NEW g \in Grants, OpenArtifact(g)
      PROVE  \A h \in Grants : download[h] # "delivered" /\ download'[h] = "delivered"
           => cert.state \in {"issued", "expiring"} \/ db.state = "consumed"
  BY <1>7 DEF OpenArtifact
<1>8. ASSUME NEW g \in Grants, artifact_read(g)
      PROVE  \A h \in Grants : download[h] # "delivered" /\ download'[h] = "delivered"
           => cert.state \in {"issued", "expiring"} \/ db.state = "consumed"
  BY <1>8 DEF artifact_read
<1>9. ASSUME NEW g \in Grants, StartConsumption(g)
      PROVE  \A h \in Grants : download[h] # "delivered" /\ download'[h] = "delivered"
           => cert.state \in {"issued", "expiring"} \/ db.state = "consumed"
  BY <1>9 DEF ArtifactsInv, ArtifactsTypeOK, StartConsumption
<1>10. ASSUME NEW g \in Grants, GiveUp(g)
       PROVE  \A h \in Grants : download[h] # "delivered" /\ download'[h] = "delivered"
           => cert.state \in {"issued", "expiring"} \/ db.state = "consumed"
  BY <1>10 DEF GiveUp
<1>11. ASSUME NEW g \in Grants, finalizeArtifactConsumption(g)
       PROVE  \A h \in Grants : download[h] # "delivered" /\ download'[h] = "delivered"
           => cert.state \in {"issued", "expiring"} \/ db.state = "consumed"
  BY <1>11 DEF ArtifactsInv, RevocationInv, finalizeArtifactConsumption
<1>12. ASSUME NEW g \in Grants, GrantExpires(g)
       PROVE  \A h \in Grants : download[h] # "delivered" /\ download'[h] = "delivered"
           => cert.state \in {"issued", "expiring"} \/ db.state = "consumed"
  BY <1>12 DEF GrantExpires, ctrl
<1>13. ASSUME NEW request \in net, consume_artifact(request)
       PROVE  \A h \in Grants : download[h] # "delivered" /\ download'[h] = "delivered"
           => cert.state \in {"issued", "expiring"} \/ db.state = "consumed"
  BY <1>13 DEF ArtifactsInv, ArtifactsTypeOK, consume_artifact
<1>14. ASSUME NEW request \in net, verify_artifact_fence(request)
       PROVE  \A h \in Grants : download[h] # "delivered" /\ download'[h] = "delivered"
           => cert.state \in {"issued", "expiring"} \/ db.state = "consumed"
  BY <1>14 DEF verify_artifact_fence
<1>15. CASE RemoveBytes
  BY <1>15 DEF RemoveBytes, finalize_artifact_consumption
<1>16. CASE ConfirmConsumed
  BY <1>16 DEF ConfirmConsumed
<1>17. CASE ReconcileConsume
  BY <1>17 DEF ReconcileConsume
<1>18. CASE ReconcileGivesUp
  BY <1>18 DEF ReconcileGivesUp
<1>19. CASE ReconcileFinalize
  BY <1>19 DEF ReconcileFinalize
<1>20. CASE ResetConsumption
  BY <1>20 DEF ResetConsumption
<1>21. CASE ArtifactExpires
  BY <1>21 DEF ArtifactExpires, ctrl
<1>22. CASE Maintain
  BY <1>22 DEF Maintain
<1>23. CASE CertificateExpiring
  BY <1>23 DEF CertificateExpiring
<1>24. CASE cleanup_stale_certificate_artifacts
  BY <1>24 DEF cleanup_stale_certificate_artifacts, ctrl
<1>25. CASE BeginRevocation
  BY <1>25 DEF BeginRevocation
<1>26. CASE RevocationUnknown
  BY <1>26 DEF RevocationUnknown
<1>27. CASE revoke_certificate_artifacts
  BY <1>27 DEF revoke_certificate_artifacts, ctrl
<1>28. CASE RemoveRevokedFiles
  BY <1>28 DEF RemoveRevokedFiles, ctrl
<1>29. CASE RemoveKey
  BY <1>29 DEF RemoveKey
<1>30. CASE CrashPrivd
  BY <1>30 DEF CrashPrivd
<1>31. CASE CrashController
  BY <1>31 DEF CrashController
<1>32. CASE UNCHANGED artifactVars
  BY <1>32 DEF artifactVars
<1> QED
  BY <1>1, <1>2, <1>3, <1>4, <1>5, <1>6, <1>7, <1>8, <1>9, <1>10, <1>11, <1>12, <1>13,
     <1>14, <1>15, <1>16, <1>17, <1>18, <1>19, <1>20, <1>21, <1>22, <1>23, <1>24, <1>25,
     <1>26, <1>27, <1>28, <1>29, <1>30, <1>31, <1>32
     DEF ArtifactsNext, Downloads

\* Once the certificate is being revoked no download is completed, except one whose
\* row was already consumed.
THEOREM ArtifactsRevocationWins == ArtifactsSpec => RevocationWins
<1>1. ArtifactsInv /\ [ArtifactsNext]_artifactVars
        => [\A g \in Grants : download[g] # "delivered" /\ download'[g] = "delivered"
              => cert.state \in {"issued", "expiring"} \/ db.state = "consumed"]_artifactVars
  BY RevocationStep
<1> QED
  BY <1>1, ArtifactsInvariant, PTL DEF ArtifactsSpec, RevocationWins

=============================================================================
