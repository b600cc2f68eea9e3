------------------------------- MODULE Rebind -------------------------------
(***************************************************************************)
(* The transfer of one node from its Controller to another.  The root tool *)
(* stages the same endpoint key under the new Controller's pin, enrols it, *)
(* and, once approved, stops the services, decides whether the retired     *)
(* binding leaves uncertain work behind, and publishes one record that the *)
(* Agent, privd and the upgrader read when they start.  The tool, a        *)
(* service and the host crash between any two durable writes; the response *)
(* of the Controller may be lost; the operator runs the tool again.        *)
(*                                                                         *)
(* Abstractions: target Controllers and the nodes they create are numbered *)
(* together, 0 the original pair; a binding's endpoint never changes and   *)
(* is left out; a namespace has one command and one upgrade at a time, and *)
(* its artifacts count as effects; a session grant, once recorded, stands  *)
(* for the later ones; bootstrap tokens do not expire.                     *)
(***************************************************************************)
EXTENDS Naturals, FiniteSets

CONSTANTS
    MaxRebinds,  \* bound: transfers begun
    MaxWork,     \* bound: commands and upgrades
    MaxFaults,   \* bound: crashes and lost responses
    MaxKeys      \* bound: attestation keys in use at one time

ASSUME RebindConstants == {MaxRebinds, MaxWork, MaxFaults, MaxKeys} \subseteq Nat

Targets == 1..MaxRebinds
Nodes   == 0..MaxRebinds
Makers  == {"privd", "registration"}
Keys    == 1..MaxKeys

VARIABLES
    active,     \* the binding that ACTIVE names, the configured one before the first
    op,         \* the durable operation: phase, source, target, node and record
    tool,       \* the running tool: its step and what it decided
    stage,      \* the operation's staged identity directory
    identity,   \* nodes whose binding directory has the identity
    ctl,        \* ctl[t]: the target Controller's row for this endpoint
    unit,       \* whether systemd keeps the services running
    agent,      \* the node the running Agent loaded
    privd,      \* the binding and the attestation key the running privd loaded
    runner,     \* the node a running upgrader works for
    pinned,     \* nodes whose journal is bound to its authority
    grants,     \* nodes whose journal has a verified session grant
    journal,    \* journal[n]: whether a command is unfinished
    store,      \* store[n]: how much of the root effect store exists
    effect,     \* effect[n]: the root record of that command
    upgrade,    \* upgrade[n]: whether an upgrade operation is not terminal
    keyFile,    \* the attestation key, 0 before it is created
    making,     \* making[w]: the key a process is about to publish
    registered, \* registered[n]: the key the Controller of n trusts
    work, faults

transfer == <<op, tool, stage, identity>>
services == <<unit, agent, privd, runner>>
space    == <<pinned, grants, journal, store, effect, upgrade>>
attest   == <<keyFile, making, registered>>
vars     == <<active, op, tool, stage, identity, ctl, unit, agent, privd, runner, pinned,
              grants, journal, store, effect, upgrade, keyFile, making, registered,
              work, faults>>

None     == MaxRebinds + 1
NoTool   == [step |-> "off", blocked |-> FALSE]
Down     == [node |-> None, blocked |-> FALSE, key |-> 0, opening |-> FALSE]
Binding  == [node : Nodes, blocked : BOOLEAN]

\* The phases in which commit publishes and in which it only verifies.
Open     == {"prepared", "enrolling", "enrolled", "committing"}

RebindTypeOK ==
    /\ active \in Binding
    /\ op \in [phase : Open \cup {"none", "committed", "verified"}, source : Binding,
               target : Nodes, node : Nodes \cup {None}, record : {"none", "clear", "blocked"}]
    /\ stage \in {"none", "partial", "complete"} /\ identity \subseteq Nodes
    /\ ctl \in [Targets -> {"none", "pending", "active"}]
    /\ unit \in BOOLEAN /\ {agent, runner, privd.node} \subseteq Nodes \cup {None}
    /\ pinned \subseteq Nodes /\ grants \subseteq Nodes
    /\ journal \in [Nodes -> BOOLEAN] /\ upgrade \in [Nodes -> BOOLEAN]
    /\ store \in [Nodes -> {"none", "key", "partial", "ready"}]
    /\ effect \in [Nodes -> {"none", "prepared", "applied"}]
    /\ keyFile \in Keys \cup {0} /\ making \in [Makers -> Keys \cup {0}]
    /\ registered \in [Nodes -> Keys \cup {0}]
    /\ work \in 0..MaxWork /\ faults \in 0..MaxFaults

Init ==
    /\ active = [node |-> 0, blocked |-> FALSE]
    /\ op = [phase |-> "none", source |-> active, target |-> 0, node |-> None, record |-> "none"]
    /\ tool = NoTool /\ stage = "none" /\ identity = {0}
    /\ ctl = [t \in Targets |-> "none"]
    /\ unit = TRUE /\ agent = None /\ privd = Down /\ runner = None
    /\ pinned = {} /\ grants = {}
    /\ journal = [n \in Nodes |-> FALSE] /\ upgrade = [n \in Nodes |-> FALSE]
    /\ store = [n \in Nodes |-> "none"] /\ effect = [n \in Nodes |-> "none"]
    /\ keyFile = 0 /\ making = [w \in Makers |-> 0] /\ registered = [n \in Nodes |-> 0]
    /\ work = 0 /\ faults = 0

-----------------------------------------------------------------------------
(* prepare and resume: stage and enrol                                     *)

Goto(step) == tool' = [tool EXCEPT !.step = step]

\* A new operation needs every earlier one verified.
Prepare ==
    /\ tool = NoTool /\ op.phase \in {"none", "verified"} /\ op.target < MaxRebinds
    /\ active.node \in identity
    /\ op' = [phase |-> "prepared", source |-> active, target |-> op.target + 1,
              node |-> None, record |-> "none"]
    /\ stage' = "none" /\ Goto("stage")
    /\ UNCHANGED <<active, identity, ctl, services, space, attest, work, faults>>

Resume ==
    /\ tool = NoTool /\ op.phase \in {"prepared", "enrolling"} /\ active = op.source
    /\ Goto("stage")
    /\ UNCHANGED <<active, op, stage, identity, ctl, services, space, attest, work, faults>>

\* stage_rebind copies the key and the new pin into a directory of its own; one
\* that an earlier attempt left unfinished is refused, never repaired.
StageDirectory ==
    /\ tool.step = "stage"
    /\ stage' = IF stage = "none" THEN "partial" ELSE stage
    /\ tool' = CASE stage = "none"     -> [tool EXCEPT !.step = "rename"]
                 [] stage = "partial"  -> NoTool
                 [] stage = "complete" -> [tool EXCEPT !.step = "enrolling"]
    /\ UNCHANGED <<active, op, identity, ctl, services, space, attest, work, faults>>

stage_rebind ==
    /\ tool.step = "rename"
    /\ stage' = "complete" /\ Goto("enrolling")
    /\ UNCHANGED <<active, op, identity, ctl, services, space, attest, work, faults>>

\* The Agent uses an identity directory only when its key and the wanted pin are
\* both there.
provision == stage = "complete"

\* Saved before the request: a lost response resumes the same token and endpoint.
SaveEnrolling ==
    /\ tool.step = "enrolling" /\ provision
    /\ op' = [op EXCEPT !.phase = "enrolling"] /\ Goto("request")
    /\ UNCHANGED <<active, stage, identity, ctl, services, space, attest, work, faults>>

\* The request for the target, proved with the staged endpoint key.
authorize_enrollment == [target |-> op.target, proved |-> provision]

\* transportd's check of the request, before the Controller sees it.
validate_enrollment(request) == request.proved

\* The Controller's: the token is unused, or its node is still pending.
ValidateEnrollment(request) == request.proved /\ ctl[request.target] # "active"

\* transportd has the credential validated, gives up that permit and takes one
\* for the completion; what it learnt may have changed when it completes.
enroll ==
    LET request == authorize_enrollment IN
    /\ tool.step = "request"
    /\ IF validate_enrollment(request) /\ ValidateEnrollment(request)
       THEN Goto("completion") ELSE tool' = NoTool
    /\ UNCHANGED <<active, op, stage, identity, ctl, services, space, attest, work, faults>>

\* The token creates one pending node; its retry names that node while it is
\* still pending and is refused once it is approved.
enrollBootstrap ==
    /\ tool.step = "completion"
    /\ ctl' = [ctl EXCEPT ![op.target] = IF @ = "none" THEN "pending" ELSE @]
    /\ IF ctl[op.target] = "active" THEN tool' = NoTool ELSE Goto("response")
    /\ UNCHANGED <<active, op, stage, identity, services, space, attest, work, faults>>

\* enroll_agent prints the node; the tool saves it and ends.
SaveEnrolled ==
    /\ tool.step = "response"
    /\ op' = [op EXCEPT !.phase = "enrolled", !.node = op.target] /\ tool' = NoTool
    /\ UNCHANGED <<active, stage, identity, ctl, services, space, attest, work, faults>>

Approve(t) ==
    /\ ctl[t] = "pending"
    /\ ctl' = [ctl EXCEPT ![t] = "active"]
    /\ UNCHANGED <<active, transfer, services, space, attest, work, faults>>

-----------------------------------------------------------------------------
(* commit                                                                  *)

Record == [node |-> op.node, blocked |-> op.record = "blocked"]
AlreadyCommitted == op.record # "none" /\ active = Record

\* Mutant: a commit that was interrupted does not stop the services again.
Commit_ResumeRunning ==
    /\ tool = NoTool
    /\ \/ /\ op.phase \in {"enrolled", "committing"}
          /\ AlreadyCommitted \/ active = op.source
          /\ Goto(IF op.phase = "enrolled" THEN "stop" ELSE "committing")
       \/ op.phase = "committed" /\ AlreadyCommitted /\ Goto("start")
    /\ UNCHANGED <<active, op, stage, identity, ctl, services, space, attest, work, faults>>

\* Each run starts from the saved phase and refuses an authority that changed.
Commit ==
    /\ tool = NoTool
    /\ \/ /\ op.phase \in {"enrolled", "committing"}
          /\ AlreadyCommitted \/ active = op.source
          /\ Goto("stop")
       \/ op.phase = "committed" /\ AlreadyCommitted /\ Goto("start")
    /\ UNCHANGED <<active, op, stage, identity, ctl, services, space, attest, work, faults>>

\* systemctl stop of the services and of every upgrader unit.
StopServices ==
    /\ tool.step = "stop"
    /\ unit' = FALSE /\ agent' = None /\ privd' = Down /\ runner' = None
    /\ Goto("committing")
    /\ UNCHANGED <<active, op, stage, identity, ctl, space, attest, work, faults>>

SaveCommitting ==
    /\ tool.step = "committing"
    /\ op' = [op EXCEPT !.phase = "committing"]
    /\ Goto(IF AlreadyCommitted THEN "committed" ELSE "assess")
    /\ UNCHANGED <<active, stage, identity, ctl, services, space, attest, work, faults>>

\* Work whose outcome the retired namespace does not prove; a database that
\* cannot be read counts, one that was never created does not.
unresolved(source) ==
    \/ source.blocked \/ upgrade[source.node] \/ journal[source.node]
    \/ effect[source.node] = "prepared" \/ store[source.node] = "partial"

\* Mutant: the decision saved by an interrupted commit is used again.
Assess_Saved ==
    /\ tool.step = "assess"
    /\ tool' = [step |-> "move", blocked |-> IF op.record = "none" THEN unresolved(op.source)
                                             ELSE op.record = "blocked"]
    /\ UNCHANGED <<active, op, stage, identity, ctl, services, space, attest, work, faults>>

Assess ==
    /\ tool.step = "assess"
    /\ tool' = [step |-> "move", blocked |-> unresolved(op.source)]
    /\ UNCHANGED <<active, op, stage, identity, ctl, services, space, attest, work, faults>>

\* Mutant: an identity that an earlier run already moved is not recognised.
MoveIdentity_Once ==
    /\ tool.step = "move"
    /\ IF stage = "complete"
       THEN identity' = identity \cup {op.node} /\ stage' = "none" /\ Goto("record")
       ELSE tool' = NoTool /\ UNCHANGED <<identity, stage>>
    /\ UNCHANGED <<active, op, ctl, services, space, attest, work, faults>>

\* The staged directory is renamed into the binding's; a run that finds it
\* moved goes on if the target is whole.
MoveIdentity ==
    /\ tool.step = "move"
    /\ identity' = IF stage = "complete" THEN identity \cup {op.node} ELSE identity
    /\ stage' = IF stage = "complete" THEN "none" ELSE stage
    /\ IF op.node \in identity' THEN Goto("record") ELSE tool' = NoTool
    /\ UNCHANGED <<active, op, ctl, services, space, attest, work, faults>>

SaveRecord ==
    /\ tool.step = "record"
    /\ op' = [op EXCEPT !.record = IF tool.blocked THEN "blocked" ELSE "clear"]
    /\ Goto("publish")
    /\ UNCHANGED <<active, stage, identity, ctl, services, space, attest, work, faults>>

\* The only publication of authority.
Publish ==
    /\ tool.step = "publish"
    /\ active' = Record /\ Goto("committed")
    /\ UNCHANGED <<op, stage, identity, ctl, services, space, attest, work, faults>>

SaveCommitted ==
    /\ tool.step = "committed"
    /\ op' = [op EXCEPT !.phase = "committed"] /\ Goto("start")
    /\ UNCHANGED <<active, stage, identity, ctl, services, space, attest, work, faults>>

StartServices ==
    /\ tool.step = "start"
    /\ unit' = TRUE /\ Goto("poll")
    /\ UNCHANGED <<active, op, stage, identity, ctl, agent, privd, runner, space, attest,
                   work, faults>>

\* The journal's grant, checked by privd against the published binding.
verify_rebind_session == active.node \in grants

Poll ==
    /\ tool.step = "poll"
    /\ \/ verify_rebind_session /\ op' = [op EXCEPT !.phase = "verified"]
       \/ ~verify_rebind_session /\ UNCHANGED op
    /\ tool' = NoTool
    /\ UNCHANGED <<active, stage, identity, ctl, services, space, attest, work, faults>>

-----------------------------------------------------------------------------
(* The attestation key                                                     *)

\* A random key is none of those a process holds, signs with or registered.
Known       == {keyFile, privd.key, making["privd"], making["registration"]}
                   \cup {registered[n] : n \in Nodes}
NewKey(key) == key \notin Known /\ \A other \in Keys \ Known : key <= other

\* A process that finds no key generates one and syncs it to a file of its own.
load_or_create_signing_key(w) ==
    /\ keyFile = 0 /\ making[w] = 0
    /\ w = "privd" => unit /\ privd = Down
    /\ \E key \in Keys : NewKey(key) /\ making' = [making EXCEPT ![w] = key]
    /\ UNCHANGED <<active, transfer, ctl, services, space, keyFile, registered, work, faults>>

\* Mutant: the rename replaces a key that another process published.
PublishKey_Replace(w) ==
    /\ making[w] # 0
    /\ keyFile' = making[w] /\ making' = [making EXCEPT ![w] = 0]
    /\ UNCHANGED <<active, transfer, ctl, services, space, registered, work, faults>>

\* It is published unless another process has published one since.
PublishKey(w) ==
    /\ making[w] # 0
    /\ keyFile' = IF keyFile = 0 THEN making[w] ELSE keyFile
    /\ making' = [making EXCEPT ![w] = 0]
    /\ UNCHANGED <<active, transfer, ctl, services, space, registered, work, faults>>

\* The key in the file, signed with itself for the node it is registered for.
sign_registration(n) == [node |-> n, key |-> keyFile]

\* An operator registers the node's key with its Controller, once.
attestation_registration(n) ==
    LET registration == sign_registration(n) IN
    /\ keyFile # 0 /\ registered[n] = 0 /\ (n # 0 => ctl[n] = "active")
    /\ registered' = [registered EXCEPT ![registration.node] = registration.key]
    /\ UNCHANGED <<active, transfer, ctl, services, space, keyFile, making, work, faults>>

sign_receipt == [node |-> privd.node, key |-> privd.key]

\* The Controller credits a receipt that its node's registered key verifies.
verify_receipt(receipt) == registered[receipt.node] = receipt.key

-----------------------------------------------------------------------------
(* The services                                                            *)

\* The whole record, or the configured authority when there is none.
load_active == active

\* privd reads the published binding and its key as it starts.
StartPrivd ==
    /\ unit /\ privd = Down /\ keyFile # 0 /\ making["privd"] = 0
    /\ privd' = [node |-> load_active.node, blocked |-> load_active.blocked, key |-> keyFile,
                 opening |-> FALSE]
    /\ UNCHANGED <<active, transfer, ctl, unit, agent, runner, space, attest, work, faults>>

\* A fresh journal is pinned to its authority; one with unbound work is refused.
bind_authority(n) == n \in pinned \/ (~journal[n] /\ n \notin grants)

\* The enrolled identity is loaded, never generated.
load_existing(n) == n \in identity

apply_local_binding == load_active.node

\* The Agent starts behind a healthy privd; the original binding pins nothing.
StartAgent ==
    LET n == apply_local_binding IN
    /\ unit /\ agent = None /\ privd # Down
    /\ n # 0 => load_existing(n) /\ bind_authority(n)
    /\ agent' = n /\ pinned' = IF n = 0 THEN pinned ELSE pinned \cup {n}
    /\ UNCHANGED <<active, transfer, ctl, unit, privd, runner, grants, journal, store, effect,
                   upgrade, attest, work, faults>>

Working(n) == agent = n /\ privd.node = n

\* Signed by the Controller of the node, for it and its endpoint.
verify_session_grant(n) == n # 0 => ctl[n] = "active"

\* A session of an approved node leaves its verified grant in the journal.
record_verified_session_grant(n) ==
    /\ Working(n) /\ n \notin grants /\ verify_session_grant(n)
    /\ grants' = grants \cup {n}
    /\ UNCHANGED <<active, transfer, ctl, services, pinned, journal, store, effect, upgrade, attest,
                   work, faults>>

Accept(n) ==
    /\ Working(n) /\ n \in grants /\ ~journal[n] /\ work < MaxWork
    /\ journal' = [journal EXCEPT ![n] = TRUE] /\ effect' = [effect EXCEPT ![n] = "none"]
    /\ work' = work + 1
    /\ UNCHANGED <<active, transfer, ctl, services, pinned, grants, store, upgrade, attest, faults>>

\* The first mutation of a namespace creates its key, its file, then its tables;
\* what a crash left of them is an error to every later open.
load_or_create_effect_key(n) ==
    /\ Working(n) /\ journal[n] /\ ~privd.blocked /\ store[n] = "none"
    /\ store' = [store EXCEPT ![n] = "key"] /\ privd' = [privd EXCEPT !.opening = TRUE]
    /\ UNCHANGED <<active, transfer, ctl, unit, agent, runner, pinned, grants, journal, effect,
                   upgrade, attest, work, faults>>

OpenStore(n) ==
    /\ privd.node = n /\ privd.opening
    /\ store' = [store EXCEPT ![n] = IF @ = "key" THEN "partial" ELSE "ready"]
    /\ privd' = [privd EXCEPT !.opening = store[n] = "key"]
    /\ UNCHANGED <<active, transfer, ctl, unit, agent, runner, pinned, grants, journal, effect,
                   upgrade, attest, work, faults>>

\* A binding published as blocked prepares no mutation.
prepare_authorized_effect(n) ==
    /\ Working(n) /\ journal[n] /\ store[n] = "ready" /\ effect[n] = "none"
    /\ ~privd.blocked
    /\ effect' = [effect EXCEPT ![n] = "prepared"]
    /\ UNCHANGED <<active, transfer, ctl, services, pinned, grants, journal, store, upgrade, attest,
                   work, faults>>

complete_authorized_effect(n) ==
    /\ privd.node = n /\ effect[n] = "prepared"
    /\ effect' = [effect EXCEPT ![n] = "applied"]
    /\ UNCHANGED <<active, transfer, ctl, services, pinned, grants, journal, store, upgrade, attest,
                   work, faults>>

\* The Agent records the answer, or that privd refused the command.
RecordResult(n) ==
    /\ Working(n) /\ journal[n] /\ effect[n] # "prepared"
    /\ journal' = [journal EXCEPT ![n] = FALSE]
    /\ UNCHANGED <<active, transfer, ctl, services, pinned, grants, store, effect, upgrade, attest,
                   work, faults>>

ScheduleUpgrade(n) ==
    /\ Working(n) /\ n \in grants /\ ~privd.blocked /\ ~upgrade[n] /\ work < MaxWork
    /\ upgrade' = [upgrade EXCEPT ![n] = TRUE] /\ runner' = n /\ work' = work + 1
    /\ UNCHANGED <<active, transfer, ctl, unit, agent, privd, pinned, grants, journal, store, effect,
                   attest, faults>>

RunnerEnds ==
    /\ runner # None
    /\ upgrade' = [upgrade EXCEPT ![runner] = FALSE] /\ runner' = None
    /\ UNCHANGED <<active, transfer, ctl, unit, agent, privd, pinned, grants, journal, store, effect,
                   attest, work, faults>>

-----------------------------------------------------------------------------
(* Faults                                                                  *)

Fault == faults < MaxFaults /\ faults' = faults + 1

\* The tool dies, or its Agent subprocess loses the Controller's response.
ToolCrash ==
    /\ Fault /\ tool # NoTool /\ tool' = NoTool
    /\ UNCHANGED <<active, op, stage, identity, ctl, services, space, attest, work>>

PrivdCrash ==
    /\ Fault /\ privd # Down /\ privd' = Down
    /\ UNCHANGED <<active, transfer, ctl, unit, agent, runner, space, attest, work>>

AgentCrash ==
    /\ Fault /\ agent # None /\ agent' = None
    /\ UNCHANGED <<active, transfer, ctl, unit, privd, runner, space, attest, work>>

\* The services are enabled at boot; an upgrader unit is not.
HostCrash ==
    /\ Fault /\ tool' = NoTool
    /\ unit' = TRUE /\ agent' = None /\ privd' = Down /\ runner' = None
    /\ making' = [w \in Makers |-> 0]
    /\ UNCHANGED <<active, op, stage, identity, ctl, space, keyFile, registered, work>>

ToolStep ==
    \/ StageDirectory \/ stage_rebind \/ SaveEnrolling \/ enroll \/ enrollBootstrap
    \/ SaveEnrolled
    \/ StopServices \/ SaveCommitting \/ Assess \/ MoveIdentity \/ SaveRecord \/ Publish
    \/ SaveCommitted \/ StartServices \/ Poll

Serve(n) ==
    \/ Accept(n) \/ load_or_create_effect_key(n) \/ OpenStore(n)
    \/ prepare_authorized_effect(n) \/ complete_authorized_effect(n)
    \/ RecordResult(n) \/ ScheduleUpgrade(n)

Next ==
    \/ Prepare \/ Resume \/ Commit \/ ToolStep
    \/ \E t \in Targets : Approve(t)
    \/ \E w \in Makers : load_or_create_signing_key(w) \/ PublishKey(w)
    \/ StartPrivd \/ StartAgent \/ RunnerEnds
    \/ \E n \in Nodes : attestation_registration(n) \/ record_verified_session_grant(n) \/ Serve(n)
    \/ ToolCrash \/ PrivdCrash \/ AgentCrash \/ HostCrash

\* The operator runs an enrolled operation's commit again and the Controller's
\* approver acts; systemd starts what is enabled; a connected Agent gets a session.
Fairness ==
    /\ WF_vars(ToolStep) /\ WF_vars(Commit)
    /\ \A t \in Targets : WF_vars(Approve(t))
    /\ \A w \in Makers : WF_vars(load_or_create_signing_key(w)) /\ WF_vars(PublishKey(w))
    /\ WF_vars(StartPrivd) /\ WF_vars(StartAgent)
    /\ \A n \in Nodes : WF_vars(record_verified_session_grant(n))

Spec == Init /\ [][Next]_vars /\ Fairness

-----------------------------------------------------------------------------
(* Properties                                                              *)

\* LocalBinding: privd, the Agent and a running upgrader never work under two
\* authorities, that authority is the published one and its identity is whole,
\* and the source stays in force until the target's record is published.
WholeBinding ==
    /\ privd # Down => [node |-> privd.node, blocked |-> privd.blocked] = active
    /\ agent # None => agent = active.node
    /\ runner # None => runner = active.node
    /\ active.node \in identity
    /\ op.phase \in {"prepared", "enrolling", "enrolled"} => active = op.source

\* commit: while a binding may change the host, no retired binding has a command,
\* an effect or an upgrade whose outcome is not known, although the source ran on
\* between an interrupted commit and the one that published.
UncertainIsQuarantined ==
    ~active.blocked => \A n \in Nodes \ {active.node} :
        ~journal[n] /\ effect[n] # "prepared" /\ ~upgrade[n]

\* load_or_create_signing_key: a running privd signs with the key its Controller
\* registered, through racing creations, restarts and transfers.
ReceiptsCreditable ==
    privd # Down /\ registered[privd.node] # 0 => verify_receipt(sign_receipt)

\* commit: an enrolled transfer that is run again after every interruption ends
\* with a verified session of the target.
RebindCompletes == op.phase \in {"enrolled", "committing", "committed"} ~> op.phase = "verified"
=============================================================================
