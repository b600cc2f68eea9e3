------------------------- MODULE TransportSessions -------------------------
(***************************************************************************)
(* transportd: which Agent connection stands for a node, under which trust *)
(* revision and under which owner term, and what it may carry.             *)
(*                                                                         *)
(* A connection runs through SessionHandler::accept: it is admitted by the *)
(* hook, negotiated with the Controller, given a registration token,       *)
(* rechecked, and then registered under the registry lock.  Trust updates, *)
(* owner terms, close requests and lease polls run beside it.  A lock held *)
(* over several statements makes them one action; an await between two     *)
(* locks separates two.                                                    *)
(***************************************************************************)
EXTENDS Integers, FiniteSets

CONSTANTS
  Nodes, Endpoints, Conns, Commands,
  BoundNode,           \* the node the Controller binds an endpoint to
  Terms,               \* owner terms the Controller signed: [epoch, id]
  MaxRevision,         \* bound: trust revisions of an endpoint
  MaxTasks,            \* bound: operations between two locks at once
  MaxAgentConnections, \* MAX_AGENT_CONNECTIONS
  Concurrency,         \* TrustClassLimit: checks in flight of each trust class
  RequireFencing,      \* --require-fencing
  None

ASSUME TransportAssumption ==
  /\ BoundNode \in [Endpoints -> Nodes]
  /\ \A t \in Terms : t.epoch \in Nat \ {0}
  /\ \A t, u \in Terms : t.epoch = u.epoch /\ t.id = u.id => t = u
  /\ MaxRevision \in Nat /\ MaxTasks \in Nat /\ MaxAgentConnections \in Nat
  /\ Concurrency \in Nat \ {0}
  /\ RequireFencing \in BOOLEAN
  /\ None \notin Nodes \cup Endpoints \cup Conns \cup Terms

VARIABLES
  authority,  \* the Controller's trust in each endpoint
  policy,     \* IdentityState: transportd's copy of it
  conn,       \* accept() of each connection
  registry,   \* connections: node -> registered connection
  fences,     \* fences: node -> registered owner term and its lease
  tasks,      \* handlers between two locks
  command     \* send_command and read_agent_events of each command

transportVars ==
  <<authority, policy, conn, registry, fences, tasks, command>>

Trust == [state : {"pending", "active", "revoked"}, revision : 0..MaxRevision]
Policies == [state : {"unknown", "active", "revoked"}, revision : 0..MaxRevision]
SessionModes == {"read_only", "authorized_v11"}
\* The live checks with the Controller, each with a budget of its own.
TrustClasses == {"authorizing", "rechecking"}
AcceptStages ==
  TrustClasses \cup
    {"idle", "handshaking", "negotiated", "token", "rechecked", "registered"}
AcceptRecords ==
  [stage : AcceptStages, endpoint : Endpoints \cup {None}, mode : SessionModes,
   revision : 0..MaxRevision, term : Terms \cup {None},
   fresh : BOOLEAN, open : BOOLEAN]
Fences == [term : Terms \cup {None}, live : BOOLEAN]
TaskSet ==
  [step : {"trust"}, node : Nodes, revision : 0..MaxRevision]
    \cup [step : {"retire"}, node : Nodes, term : Terms]
    \cup [step : {"untoken", "remove"}, node : Nodes]
CommandStages == {"none", "validated", "written"}
CommandRecords == [stage : CommandStages, conn : Conns \cup {None}]

IdleConn ==
  [stage |-> "idle", endpoint |-> None, mode |-> "read_only", revision |-> 0,
   term |-> None, fresh |-> FALSE, open |-> FALSE]
NoFence == [term |-> None, live |-> FALSE]
NoCommand == [stage |-> "none", conn |-> None]

NodeOf(c) == BoundNode[conn[c].endpoint]
Revoked(e) == policy[e].state = "revoked"
Entry(n) == conn[registry[n]]

\* load_snapshot at the start of the process: the Controller's bindings.
replace_snapshot ==
  [e \in Endpoints |->
     IF authority[e].state \in {"active", "revoked"}
     THEN [state |-> authority[e].state, revision |-> authority[e].revision]
     ELSE [state |-> "unknown", revision |-> 0]]

TransportInit ==
  /\ authority = [e \in Endpoints |-> [state |-> "pending", revision |-> 0]]
  /\ policy = [e \in Endpoints |-> [state |-> "unknown", revision |-> 0]]
  /\ conn = [c \in Conns |-> IdleConn]
  /\ registry = [n \in Nodes |-> None]
  /\ fences = [n \in Nodes |-> NoFence]
  /\ tasks = {}
  /\ command = [x \in Commands |-> NoCommand]

(***************************************************************************)
(* The Controller's trust store.                                           *)
(***************************************************************************)

Approve(e) ==
  /\ authority[e].state = "pending" /\ authority[e].revision < MaxRevision
  /\ \A o \in Endpoints \ {e} :
       ~(authority[o].state = "active" /\ BoundNode[o] = BoundNode[e])
  /\ authority' = [authority EXCEPT
       ![e] = [state |-> "active", revision |-> @.revision + 1]]
  /\ UNCHANGED <<policy, conn, registry, fences, tasks, command>>

Revoke(e) ==
  /\ authority[e].state = "active" /\ authority[e].revision < MaxRevision
  /\ authority' = [authority EXCEPT
       ![e] = [state |-> "revoked", revision |-> @.revision + 1]]
  /\ UNCHANGED <<policy, conn, registry, fences, tasks, command>>

\* A change of capabilities or keys gives the binding a new revision.
ChangeAuthorization(e) ==
  /\ authority[e].state = "active" /\ authority[e].revision < MaxRevision
  /\ authority' = [authority EXCEPT ![e].revision = @ + 1]
  /\ UNCHANGED <<policy, conn, registry, fences, tasks, command>>

(***************************************************************************)
(* Trust updates.  The Controller repeats an update until it is answered,  *)
(* so any revision it ever issued may arrive, in any order.                *)
(***************************************************************************)

IssuedState(e, revision) ==
  IF revision = authority[e].revision THEN authority[e].state ELSE "active"

BindingConflict(e) ==
  \E o \in Endpoints \ {e} : policy[o].state = "active" /\ BoundNode[o] = BoundNode[e]

\* IdentityPolicy::update.  An older revision is stale, the retained one is
\* answered again, and a tombstone is never overwritten.
Updated(e, state, revision) ==
  /\ revision > policy[e].revision
  /\ state = "active" => ~Revoked(e) /\ ~BindingConflict(e)

\* verify_operation_binding: a node with a registered owner takes operations
\* only under that term while its lease lasts.
OperationBound(n, binding) ==
  IF fences[n].term = None
  THEN binding = None /\ ~RequireFencing
  ELSE binding = fences[n].term /\ fences[n].live

\* update_node_trust up to the registry lock.
UpdateNodeTrust(e, revision, binding) ==
  LET state == IssuedState(e, revision) IN
  /\ Cardinality(tasks) < MaxTasks /\ OperationBound(BoundNode[e], binding)
  /\ revision \in 1..authority[e].revision
  /\ Updated(e, state, revision)
  /\ policy' = [policy EXCEPT ![e] = [state |-> state, revision |-> revision]]
  /\ tasks' = tasks \cup
       {[step |-> "trust", node |-> BoundNode[e], revision |-> revision]}
  /\ UNCHANGED <<authority, conn, registry, fences, command>>

\* The registry is read after the policy has changed: a session authorised
\* under an older revision is closed.
TrustClose(t) ==
  /\ t.step = "trust"
  /\ LET stale == registry[t.node] # None /\ Entry(t.node).revision < t.revision IN
     tasks' = (tasks \ {t}) \cup
       (IF stale THEN {[step |-> "untoken", node |-> t.node]} ELSE {})
  /\ UNCHANGED <<authority, policy, conn, registry, fences, command>>

(***************************************************************************)
(* Shared::remove.  It first invalidates the registration tokens of the    *)
(* node, then takes the registry lock.                                     *)
(***************************************************************************)

registration_tokens_remove(t) ==
  /\ t.step = "untoken"
  /\ conn' = [c \in Conns |->
       IF conn[c].stage # "idle" /\ conn[c].endpoint # None /\ NodeOf(c) = t.node
       THEN [conn[c] EXCEPT !.fresh = FALSE] ELSE conn[c]]
  /\ tasks' = (tasks \ {t}) \cup {[step |-> "remove", node |-> t.node]}
  /\ UNCHANGED <<authority, policy, registry, fences, command>>

\* Mutant: the connection is forgotten and left open.
RemoveWithoutClose(t) ==
  /\ t.step = "remove"
  /\ tasks' = tasks \ {t}
  /\ registry' = [registry EXCEPT ![t.node] = None]
  /\ UNCHANGED <<authority, policy, conn, fences, command>>

remove(t) ==
  /\ t.step = "remove"
  /\ tasks' = tasks \ {t}
  /\ IF registry[t.node] = None
     THEN UNCHANGED <<conn, registry>>
     ELSE /\ conn' = [conn EXCEPT ![registry[t.node]].open = FALSE]
          /\ registry' = [registry EXCEPT ![t.node] = None]
  /\ UNCHANGED <<authority, policy, fences, command>>

CloseNode(n, binding) ==
  /\ Cardinality(tasks) < MaxTasks /\ OperationBound(n, binding)
  /\ tasks' = tasks \cup {[step |-> "untoken", node |-> n]}
  /\ UNCHANGED <<authority, policy, conn, registry, fences, command>>

(***************************************************************************)
(* Owner terms.                                                            *)
(***************************************************************************)

\* fence_registration_decision.
FenceRegistration(existing, incoming) ==
  CASE existing = None                                     -> "apply"
    [] existing # None /\ existing.epoch > incoming.epoch  -> "stale"
    [] existing # None /\ existing.epoch = incoming.epoch /\ existing.id # incoming.id
                                                           -> "collision"
    [] existing # None /\ existing.epoch = incoming.epoch /\ existing.id = incoming.id
                                                           -> "refresh"
    [] existing # None /\ existing.epoch < incoming.epoch  -> "apply"

\* register_owner_fence with an unexpired term signed for endpoint e.
RegisterOwnerFence(e, t) ==
  LET n == BoundNode[e]
      decision == FenceRegistration(fences[n].term, t) IN
  /\ Cardinality(tasks) < MaxTasks
  /\ registry[n] # None => Entry(n).endpoint = e
  /\ decision \in {"apply", "refresh"}
  /\ fences' = [fences EXCEPT ![n] = [term |-> t, live |-> TRUE]]
  /\ tasks' = IF decision = "apply"
              THEN tasks \cup {[step |-> "retire", node |-> n, term |-> t]} ELSE tasks
  /\ UNCHANGED <<authority, policy, conn, registry, command>>

\* retire_superseded_owner: a mutation session of another term, or of none.
RetireSupersededOwner(t) ==
  /\ t.step = "retire"
  /\ LET superseded == /\ registry[t.node] # None
                       /\ Entry(t.node).mode = "authorized_v11"
                       /\ Entry(t.node).term # t.term IN
     tasks' = (tasks \ {t}) \cup
       (IF superseded THEN {[step |-> "untoken", node |-> t.node]} ELSE {})
  /\ UNCHANGED <<authority, policy, conn, registry, fences, command>>

LeaseExpires(n) ==
  /\ fences[n].live
  /\ fences' = [fences EXCEPT ![n].live = FALSE]
  /\ UNCHANGED <<authority, policy, conn, registry, tasks, command>>

(***************************************************************************)
(* SessionHandler::accept.                                                 *)
(***************************************************************************)

\* IdentityPolicy::permits.
permits(e) == policy[e].state = "active"

\* The hook after the TLS handshake.  A rate that is exceeded only keeps the
\* connection from being accepted, like a peer that does not connect.
after_handshake(e) == ~Revoked(e) /\ permits(e)

\* The permit of the connection's kind is held until the session ends.
AcceptAgent(c, e) ==
  /\ conn[c].stage = "idle" /\ after_handshake(e)
  /\ Cardinality({d \in Conns : conn[d].stage # "idle"}) < MaxAgentConnections
  /\ conn' = [conn EXCEPT
       ![c] = [IdleConn EXCEPT !.stage = "handshaking", !.endpoint = e, !.open = TRUE]]
  /\ UNCHANGED <<authority, policy, registry, fences, tasks, command>>

\* The permits of a trust class are held by the calls that are under way.
InFlight(class) == {c \in Conns : conn[c].stage = class}

\* TrustBudgetSet::acquire: no waiting, a full class or an exceeded rate refuses.
acquire(class, rateLeft) == Cardinality(InFlight(class)) < Concurrency /\ rateLeft

\* One check starts: the call holds its permit until it is answered.
BeginCheck(c, from, class, rateLeft) ==
  /\ conn[c].stage = from
  /\ conn' = [conn EXCEPT ![c] =
       IF acquire(class, rateLeft) THEN [@ EXCEPT !.stage = class] ELSE IdleConn]
  /\ UNCHANGED <<authority, policy, registry, fences, tasks, command>>

\* The handshake has been read and is presented to the Controller.
AskAuthority(c, rateLeft) == BeginCheck(c, "handshaking", "authorizing", rateLeft)

\* TrustAuthority::authorize: the Controller accepts the endpoints it trusts.
authorize(e) == authority[e].state = "active"

\* validate_negotiated_session: a read-only session has no grant, a mutation
\* session one of the revision the Controller holds now.
GrantRevision(e, mode) == IF mode = "read_only" THEN 0 ELSE authority[e].revision

\* verify_session_fence, and the fencing requirement of negotiate.
SessionFenced(mode, term) ==
  /\ mode = "read_only" => term = None
  /\ mode = "authorized_v11" /\ RequireFencing => term # None

Negotiate(c, mode, term) ==
  LET e == conn[c].endpoint IN
  /\ conn[c].stage = "authorizing" /\ authorize(e) /\ SessionFenced(mode, term)
  /\ conn' = [conn EXCEPT
       ![c].stage = "negotiated", ![c].mode = mode, ![c].term = term,
       ![c].revision = GrantRevision(e, mode)]
  /\ UNCHANGED <<authority, policy, registry, fences, tasks, command>>

\* The Controller rejects the session, a message is invalid, the peer goes
\* away, or the handshake deadline passes.
HandshakeEnds(c) ==
  /\ conn[c].stage \in {"handshaking", "authorizing"}
  /\ conn' = [conn EXCEPT ![c] = IdleConn]
  /\ UNCHANGED <<authority, policy, registry, fences, tasks, command>>

registration_token(c) ==
  /\ conn[c].stage = "negotiated"
  /\ conn' = [conn EXCEPT ![c].stage = "token", ![c].fresh = TRUE]
  /\ UNCHANGED <<authority, policy, registry, fences, tasks, command>>

AskRecheck(c, rateLeft) == BeginCheck(c, "token", "rechecking", rateLeft)

\* recheck_agent: a refusal, an error and a timeout all close the connection.
RecheckAgent(c, answered) ==
  LET permitted == answered /\ authorize(conn[c].endpoint) IN
  /\ conn[c].stage = "rechecking"
  /\ conn' = [conn EXCEPT ![c] = IF permitted THEN [@ EXCEPT !.stage = "rechecked"] ELSE IdleConn]
  /\ UNCHANGED <<authority, policy, registry, fences, tasks, command>>

\* Mutant: only the token is compared.
MayRegisterByToken(c) ==
  /\ conn[c].fresh
  /\ conn[c].term # None =>
       FenceRegistration(fences[NodeOf(c)].term, conn[c].term) \in {"apply", "refresh"}

\* Under the registry lock, a revocation or a close since the token was taken
\* is seen, and so is a higher term.
MayRegister(c) ==
  /\ ~Revoked(conn[c].endpoint) /\ conn[c].fresh
  /\ conn[c].term # None =>
       FenceRegistration(fences[NodeOf(c)].term, conn[c].term) \in {"apply", "refresh"}

RegistrationRefused(c) ==
  /\ conn[c].stage = "rechecked" /\ ~MayRegister(c)
  /\ conn' = [conn EXCEPT ![c] = IdleConn]
  /\ UNCHANGED <<authority, policy, registry, fences, tasks, command>>

\* The replaced connection is closed and announced before the new one is.
Register(c) ==
  LET n == NodeOf(c) IN
  /\ conn[c].stage = "rechecked" /\ MayRegister(c)
  /\ conn' = [d \in Conns |->
       CASE d = c           -> [conn[c] EXCEPT !.stage = "registered", !.fresh = FALSE]
         [] d = registry[n] -> [conn[d] EXCEPT !.open = FALSE]
         [] OTHER           -> conn[d]]
  /\ registry' = [registry EXCEPT ![n] = c]
  /\ fences' = IF conn[c].term = None THEN fences
               ELSE [fences EXCEPT ![n] = [term |-> conn[c].term, live |-> TRUE]]
  /\ UNCHANGED <<authority, policy, tasks, command>>

PeerCloses(c) ==
  /\ conn[c].stage = "registered" /\ conn[c].open
  /\ conn' = [conn EXCEPT ![c].open = FALSE]
  /\ UNCHANGED <<authority, policy, registry, fences, tasks, command>>

\* Mutant: the poll compares the terms and not the lease.
MonitorOwnerTerm(c) ==
  LET n == NodeOf(c) IN
  /\ conn[c].stage = "registered" /\ conn[c].open
  /\ registry[n] = c /\ conn[c].term # None /\ fences[n].term # conn[c].term
  /\ conn' = [conn EXCEPT ![c].open = FALSE]
  /\ UNCHANGED <<authority, policy, registry, fences, tasks, command>>

\* One poll of monitor_owner_lease.
MonitorOwnerLease(c) ==
  LET n == NodeOf(c) IN
  /\ conn[c].stage = "registered" /\ conn[c].open
  /\ registry[n] = c /\ conn[c].term # None
  /\ ~(fences[n].term = conn[c].term /\ fences[n].live)
  /\ conn' = [conn EXCEPT ![c].open = FALSE]
  /\ UNCHANGED <<authority, policy, registry, fences, tasks, command>>

\* The registration is only undone by the connection that made it.
finish_session(c) ==
  LET n == NodeOf(c) IN
  /\ conn[c].stage = "registered" /\ ~conn[c].open
  /\ conn' = [conn EXCEPT ![c] = IdleConn]
  /\ IF registry[n] = c
     THEN registry' = [registry EXCEPT ![n] = None]
     ELSE UNCHANGED registry
  /\ command' = [x \in Commands |->
       IF command[x].conn = c THEN NoCommand ELSE command[x]]
  /\ UNCHANGED <<authority, policy, fences, tasks>>

(***************************************************************************)
(* Commands.                                                               *)
(***************************************************************************)

\* What a command carries of its owner: the fence with its signed lease, and
\* the binding of the command to a fence.
Carriers == [fence : Terms \cup {None}, binding : Terms \cup {None}, leased : BOOLEAN]

verify_command_carriers(carrier) ==
  carrier.fence # None /\ carrier.binding # None /\ carrier.leased

\* verify_command_fence: the command's term is the session's and the
\* registered one; a session without a term carries no term, and nothing once
\* the node has an owner.
CommandFenced(n, carrier) ==
  IF Entry(n).term = None
  THEN /\ carrier.fence = None /\ carrier.binding = None
       /\ ~RequireFencing /\ fences[n].term = None
  ELSE /\ verify_command_carriers(carrier)
       /\ carrier.fence = fences[n].term /\ carrier.fence = Entry(n).term
       /\ carrier.binding = carrier.fence

\* validate_command_dispatch, for a command issued under a trust revision.
\* The fences are read after the registry was unlocked; an entry's term does
\* not change and the registered one only rises, so the reads are one step.
ValidateCommandDispatch(x, n, carrier, revision) ==
  /\ command[x].stage = "none" /\ registry[n] # None
  /\ Entry(n).mode = "authorized_v11"
  /\ Entry(n).revision # 0 => revision = Entry(n).revision
  /\ CommandFenced(n, carrier)
  /\ command' = [command EXCEPT
       ![x] = [stage |-> "validated", conn |-> registry[n]]]
  /\ UNCHANGED <<authority, policy, conn, registry, fences, tasks>>

\* The frame is written to the connection that was validated.
WriteCommand(x) ==
  LET c == command[x].conn IN
  /\ command[x].stage = "validated"
  /\ command' = [command EXCEPT ![x] =
       IF conn[c].open THEN [@ EXCEPT !.stage = "written"] ELSE NoCommand]
  /\ UNCHANGED <<authority, policy, conn, registry, fences, tasks>>

\* read_agent_events: a result, or what publish_command_unknown makes of a
\* missing, late or malformed one, is published by the registered connection
\* only.
ReadAgentEvents(x) ==
  /\ command[x].stage = "written"
  /\ command' = [command EXCEPT ![x] = NoCommand]
  /\ UNCHANGED <<authority, policy, conn, registry, fences, tasks>>

(***************************************************************************)
(* The process.                                                            *)
(***************************************************************************)

\* A new process knows no term and no session, and starts from the
\* Controller's snapshot.
Restart ==
  /\ policy' = replace_snapshot
  /\ conn' = [c \in Conns |-> IdleConn]
  /\ registry' = [n \in Nodes |-> None]
  /\ fences' = [n \in Nodes |-> NoFence]
  /\ tasks' = {}
  /\ command' = [x \in Commands |-> NoCommand]
  /\ UNCHANGED authority

Handlers ==
  \/ \E t \in tasks : \/ TrustClose(t) \/ RetireSupersededOwner(t)
                      \/ registration_tokens_remove(t) \/ remove(t)
  \/ \E c \in Conns : \/ HandshakeEnds(c) \/ registration_token(c)
                      \/ RegistrationRefused(c) \/ Register(c)
                      \/ MonitorOwnerLease(c) \/ finish_session(c)
  \/ \E c \in Conns, rateLeft \in BOOLEAN : AskAuthority(c, rateLeft) \/ AskRecheck(c, rateLeft)
  \/ \E c \in Conns, answered \in BOOLEAN : RecheckAgent(c, answered)
  \/ \E x \in Commands : WriteCommand(x) \/ ReadAgentEvents(x)

TransportNext ==
  \/ Handlers
  \/ \E e \in Endpoints : Approve(e) \/ Revoke(e) \/ ChangeAuthorization(e)
  \/ \E e \in Endpoints, revision \in 1..MaxRevision, binding \in Terms \cup {None} :
       UpdateNodeTrust(e, revision, binding)
  \/ \E n \in Nodes, binding \in Terms \cup {None} : CloseNode(n, binding)
  \/ \E e \in Endpoints, t \in Terms : RegisterOwnerFence(e, t)
  \/ \E n \in Nodes : LeaseExpires(n)
  \/ \E c \in Conns, e \in Endpoints : AcceptAgent(c, e)
  \/ \E c \in Conns, mode \in SessionModes, term \in Terms \cup {None} :
       Negotiate(c, mode, term)
  \/ \E c \in Conns : PeerCloses(c)
  \/ \E x \in Commands, n \in Nodes, carrier \in Carriers, revision \in 1..MaxRevision :
       ValidateCommandDispatch(x, n, carrier, revision)
  \/ Restart

\* The lease is polled every second, and a closed connection ends accept().
TransportSpec ==
  /\ TransportInit /\ [][TransportNext]_transportVars
  /\ \A c \in Conns :
       WF_transportVars(MonitorOwnerLease(c)) /\ WF_transportVars(finish_session(c))

(***************************************************************************)
(* Properties.                                                             *)
(***************************************************************************)

\* A handler that still has to look at node n.
Unfinished(n) == \E t \in tasks : t.node = n

\* Every variable has its type, and a registered connection is one that
\* accept() registered for that node.
TransportTypeOK ==
  /\ authority \in [Endpoints -> Trust] /\ policy \in [Endpoints -> Policies]
  /\ conn \in [Conns -> AcceptRecords]
  /\ registry \in [Nodes -> Conns \cup {None}]
  /\ fences \in [Nodes -> Fences] /\ tasks \subseteq TaskSet
  /\ command \in [Commands -> CommandRecords]
  /\ \A n \in Nodes : registry[n] # None =>
       Entry(n).stage = "registered" /\ BoundNode[Entry(n).endpoint] = n

\* A session that is open can be reached and, when it may not go on, is being
\* closed: it is the one registered for its node, and once its endpoint is
\* revoked or another term is registered, a handler is on its way to close it.
\* This holds whatever accept(), update_node_trust, register_owner_fence and
\* the late end of a replaced connection do in between (finish_session).
RetiredIsClosed ==
  \A c \in Conns :
    conn[c].stage = "registered" /\ conn[c].open =>
      /\ registry[NodeOf(c)] = c
      /\ \/ ~Revoked(conn[c].endpoint) /\ conn[c].term \in {None, fences[NodeOf(c)].term}
         \/ Unfinished(NodeOf(c))

\* A command frame of a superseded owner reaches the Agent only while the
\* registration of the new owner has not finished retiring its session.
StaleOwnerIsFenced ==
  [][\A x \in Commands :
       /\ command[x].stage = "validated" /\ command'[x].stage = "written"
       /\ fences[NodeOf(command[x].conn)].term # conn[command[x].conn].term
       => Unfinished(NodeOf(command[x].conn))]_transportVars

\* A session whose owner stops renewing its lease ends, without a restart of
\* transportd.
LeaseIsEnforced ==
  \A n \in Nodes, c \in Conns :
    registry[n] = c /\ conn[c].term # None /\ ~fences[n].live
      ~> registry[n] # c \/ fences[n].live
=============================================================================
