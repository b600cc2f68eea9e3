-------------------------- MODULE Transport_proof --------------------------
(***************************************************************************)
(* transportd, proved for any nodes, endpoints, connections, commands,     *)
(* owner terms, capacities, budgets and limits: which session stands for a *)
(* node and what it carries, and what the event stream keeps of control    *)
(* events.                                                                 *)
(***************************************************************************)
EXTENDS TransportSessions, TransportEvents, FiniteSetTheorems, WellFoundedInduction,
        SequenceTheorems, TLAPS

(***************************************************************************)
(* TransportSessions                                                       *)
(***************************************************************************)

Serving(c) == conn[c].stage = "registered" /\ conn[c].open

\* A handler that will close the connection if it is registered.
Closing(c) ==
  \E t \in tasks :
    /\ t.node = NodeOf(c)
    /\ \/ t.step \in {"untoken", "remove"}
       \/ t.step = "trust" /\ conn[c].revision < t.revision
       \/ t.step = "retire" /\ conn[c].mode = "authorized_v11" /\ conn[c].term # t.term

\* Every variable has its type.
Typed ==
  /\ authority \in [Endpoints -> Trust] /\ policy \in [Endpoints -> Policies]
  /\ conn \in [Conns -> AcceptRecords]
  /\ registry \in [Nodes -> Conns \cup {None}]
  /\ fences \in [Nodes -> Fences] /\ tasks \subseteq TaskSet
  /\ command \in [Commands -> CommandRecords]

\* The registry names connections of its node.
RegistryInv ==
  \A n \in Nodes : registry[n] # None =>
    Entry(n).stage = "registered" /\ BoundNode[Entry(n).endpoint] = n

\* Revisions count what the Controller decided, and transportd knows of a
\* revocation only from the revision that made it.
TrustInv ==
  \A e \in Endpoints :
    /\ authority[e].state = "pending" <=> authority[e].revision = 0
    /\ Revoked(e) => authority[e].state = "revoked" /\ policy[e].revision = authority[e].revision

\* A connection carries a revision from before the revocation of its endpoint,
\* and a term only in a session for mutations.
Granted(c) ==
  conn[c].stage # "idle" =>
    /\ conn[c].endpoint \in Endpoints
    /\ conn[c].term # None => conn[c].mode = "authorized_v11"
    /\ conn[c].revision <= authority[conn[c].endpoint].revision
    /\ authority[conn[c].endpoint].state = "revoked" =>
         conn[c].revision < authority[conn[c].endpoint].revision

GrantInv == \A c \in Conns : Granted(c)

\* What holds of a session that serves its node, as in RetiredIsClosed but with
\* the handler that ends it.
Served(c) ==
  Serving(c) =>
    /\ registry[NodeOf(c)] = c
    /\ \/ ~Revoked(conn[c].endpoint) /\ conn[c].term \in {None, fences[NodeOf(c)].term}
       \/ Closing(c)

ServingInv == \A c \in Conns : Served(c)

\* What holds of a session that a command was validated for.
Carrying(c) ==
  /\ conn[c].stage = "registered" /\ conn[c].mode = "authorized_v11"
  /\ conn[c].open => conn[c].term = fences[NodeOf(c)].term \/ Closing(c)

CommandInv ==
  \A x \in Commands : command[x].stage = "validated" =>
    command[x].conn \in Conns /\ Carrying(command[x].conn)

SessionsInv ==
  /\ Typed
  /\ RegistryInv
  /\ TrustInv
  /\ GrantInv
  /\ ServingInv
  /\ CommandInv

-----------------------------------------------------------------------------
(* What the steps have in common                                           *)

\* A connection that is registered stays what it is and is not opened again, and
\* one that is not registered does not become so.
Keeps(c) ==
  \/ /\ conn'[c].stage = conn[c].stage /\ conn'[c].endpoint = conn[c].endpoint
     /\ conn'[c].mode = conn[c].mode /\ conn'[c].term = conn[c].term
     /\ conn'[c].revision = conn[c].revision /\ (conn'[c].open => conn[c].open)
  \/ conn[c].stage # "registered" /\ conn'[c].stage # "registered"

\* What a connection that is not idle belongs to.
LEMMA NodeTyped ==
  ASSUME SessionsInv, NEW c \in Conns, conn[c].stage # "idle"
  PROVE  conn[c].endpoint \in Endpoints /\ NodeOf(c) \in Nodes
  BY TransportAssumption DEF SessionsInv, GrantInv, Granted, NodeOf

\* The records of a connection.
LEMMA IdleTyped == IdleConn \in AcceptRecords
  BY TransportAssumption DEF IdleConn, AcceptRecords, AcceptStages, SessionModes

\* A command stays with its session, when the session stays what it is.
LEMMA KeptCommands ==
  ASSUME CommandInv, \A c \in Conns : Carrying(c) => Carrying(c)',
         \A x \in Commands : command'[x].stage = "validated" =>
           command[x].stage = "validated" /\ command'[x].conn = command[x].conn
  PROVE  CommandInv'
  BY DEF CommandInv, Carrying, Closing, NodeOf

\* A step of the connections alone that keeps them leaves the sessions in order.
LEMMA KeptSessions ==
  ASSUME SessionsInv, UNCHANGED <<policy, registry, fences, tasks, command>>,
         \A c \in Conns : Keeps(c)
  PROVE  RegistryInv' /\ ServingInv' /\ CommandInv'
<1>1. RegistryInv'
  BY DEF SessionsInv, RegistryInv, Entry, Keeps, Typed
<1>2. ASSUME NEW c \in Conns
      PROVE  (Served(c) => Served(c)') /\ (Carrying(c) => Carrying(c)')
  <2>1. CASE conn[c].stage # "registered" /\ conn'[c].stage # "registered"
    BY <2>1 DEF Served, Serving, Carrying
  <2>2. CASE conn[c].stage = "registered" \/ conn'[c].stage = "registered"
    <3>1. /\ conn'[c].stage = conn[c].stage /\ conn'[c].endpoint = conn[c].endpoint
          /\ conn'[c].mode = conn[c].mode /\ conn'[c].term = conn[c].term
          /\ conn'[c].revision = conn[c].revision /\ (conn'[c].open => conn[c].open)
      BY <2>2 DEF Keeps
    <3>2. NodeOf(c)' = NodeOf(c) /\ Closing(c)' = Closing(c)
      BY <3>1 DEF NodeOf, Closing
    <3> QED
      BY <3>1, <3>2 DEF Served, Serving, Carrying, Revoked
  <2> QED
    BY <2>1, <2>2
<1>3. ServingInv'
  BY <1>2 DEF SessionsInv, ServingInv
<1>4. CommandInv'
  BY <1>2, KeptCommands DEF SessionsInv
<1> QED
  BY <1>1, <1>3, <1>4

\* A step of one connection that keeps it and leaves it a grant it may have.
LEMMA OneConnection ==
  ASSUME SessionsInv, NEW c \in Conns, NEW r \in AcceptRecords,
         conn' = [conn EXCEPT ![c] = r],
         UNCHANGED <<authority, policy, registry, fences, tasks, command>>,
         Keeps(c), Granted(c)'
  PROVE  SessionsInv'
<1>1. Typed'
  BY DEF SessionsInv, Typed
<1>2. TrustInv'
  BY DEF SessionsInv, TrustInv, Revoked
<1>3. \A d \in Conns \ {c} : conn'[d] = conn[d]
  BY DEF SessionsInv, Typed
<1>4. GrantInv'
  BY <1>3 DEF SessionsInv, GrantInv, Granted
<1>5. \A d \in Conns : Keeps(d)
  BY <1>3 DEF Keeps
<1> QED
  BY <1>1, <1>2, <1>4, <1>5, KeptSessions DEF SessionsInv

\* A connection whose accept() ends without a registration.
LEMMA GivesUp ==
  ASSUME SessionsInv, NEW c \in Conns, conn[c].stage # "registered",
         conn' = [conn EXCEPT ![c] = IdleConn],
         UNCHANGED <<authority, policy, registry, fences, tasks, command>>
  PROVE  SessionsInv'
<1>1. conn'[c] = IdleConn
  BY DEF SessionsInv, Typed
<1>2. Keeps(c) /\ Granted(c)'
  BY <1>1 DEF Keeps, Granted, IdleConn
<1> QED
  BY <1>2, IdleTyped, OneConnection

\* A step of the handlers alone that loses none that a session waits for.
LEMMA KeptHandlers ==
  ASSUME SessionsInv, UNCHANGED <<authority, policy, conn, registry, fences, command>>,
         tasks' \subseteq TaskSet,
         \A c \in Conns : Serving(c) /\ registry[NodeOf(c)] = c /\ Closing(c) => Closing(c)'
  PROVE  SessionsInv'
<1>1. Typed' /\ RegistryInv' /\ TrustInv' /\ GrantInv'
  BY DEF SessionsInv, Typed, RegistryInv, Entry, TrustInv, Revoked, GrantInv, Granted
<1>2. ASSUME NEW c \in Conns
      PROVE  Served(c)' /\ (Carrying(c) => Carrying(c)')
  BY DEF SessionsInv, ServingInv, Served, Serving, Carrying, Revoked, NodeOf
<1>3. ServingInv'
  BY <1>2 DEF ServingInv
<1>4. CommandInv'
  BY <1>2, KeptCommands DEF SessionsInv
<1> QED
  BY <1>1, <1>3, <1>4 DEF SessionsInv

-----------------------------------------------------------------------------
(* The Controller's trust store                                            *)

\* An approval gives the endpoint a revision above every grant of it.
LEMMA ApproveInv ==
  ASSUME SessionsInv, NEW e \in Endpoints, Approve(e)
  PROVE  SessionsInv'
<1>1. Typed' /\ TrustInv'
  BY TransportAssumption DEF SessionsInv, Typed, TrustInv, Revoked, Trust, Approve
<1>2. GrantInv'
  BY TransportAssumption
     DEF SessionsInv, Typed, TrustInv, GrantInv, Granted, Trust, AcceptRecords, Approve
<1>3. \A c \in Conns : Keeps(c)
  BY DEF Keeps, Approve
<1> QED
  BY <1>1, <1>2, <1>3, KeptSessions DEF SessionsInv, Approve

\* A revocation has a revision above every grant of its endpoint.
LEMMA RevokeInv ==
  ASSUME SessionsInv, NEW e \in Endpoints, Revoke(e)
  PROVE  SessionsInv'
<1>1. Typed' /\ TrustInv'
  BY TransportAssumption DEF SessionsInv, Typed, TrustInv, Revoked, Trust, Revoke
<1>2. GrantInv'
  BY TransportAssumption
     DEF SessionsInv, Typed, TrustInv, GrantInv, Granted, Trust, AcceptRecords, Revoke
<1>3. \A c \in Conns : Keeps(c)
  BY DEF Keeps, Revoke
<1> QED
  BY <1>1, <1>2, <1>3, KeptSessions DEF SessionsInv, Revoke

\* A change of an authorisation only raises the revision.
LEMMA ChangeAuthorizationInv ==
  ASSUME SessionsInv, NEW e \in Endpoints, ChangeAuthorization(e)
  PROVE  SessionsInv'
<1>1. Typed' /\ TrustInv'
  BY TransportAssumption DEF SessionsInv, Typed, TrustInv, Revoked, Trust, ChangeAuthorization
<1>2. GrantInv'
  BY TransportAssumption
     DEF SessionsInv, Typed, TrustInv, GrantInv, Granted, Trust, AcceptRecords, ChangeAuthorization
<1>3. \A c \in Conns : Keeps(c)
  BY DEF Keeps, ChangeAuthorization
<1> QED
  BY <1>1, <1>2, <1>3, KeptSessions DEF SessionsInv, ChangeAuthorization

\* An update of the policy that revokes an endpoint leaves a handler of a higher
\* revision than any session of it.
LEMMA UpdateNodeTrustInv ==
  ASSUME SessionsInv, NEW e \in Endpoints, NEW revision \in 1..MaxRevision,
         NEW binding \in Terms \cup {None}, UpdateNodeTrust(e, revision, binding)
  PROVE  SessionsInv'
<1> DEFINE t == [step |-> "trust", node |-> BoundNode[e], revision |-> revision]
<1>1. IssuedState(e, revision) \in {"active", "revoked"}
  BY TransportAssumption
     DEF UpdateNodeTrust, IssuedState, SessionsInv, Typed, TrustInv, Trust
<1>2. policy' = [policy EXCEPT ![e] = [state |-> IssuedState(e, revision), revision |-> revision]]
      /\ tasks' = tasks \cup {t}
      /\ UNCHANGED <<authority, conn, registry, fences, command>>
      /\ revision > policy[e].revision
      /\ (IssuedState(e, revision) = "active" => ~Revoked(e))
      /\ revision <= authority[e].revision
  BY TransportAssumption DEF UpdateNodeTrust, Updated, SessionsInv, Typed, Trust
<1>3. Typed'
  <2>1. policy' \in [Endpoints -> Policies]
    BY <1>1, <1>2, TransportAssumption DEF SessionsInv, Typed, Policies
  <2>2. t \in TaskSet
    BY TransportAssumption DEF TaskSet
  <2> QED
    BY <1>2, <2>1, <2>2 DEF SessionsInv, Typed
<1>4. TrustInv'
  BY <1>2 DEF SessionsInv, Typed, TrustInv, Revoked, IssuedState
<1>5. RegistryInv' /\ GrantInv'
  BY <1>2 DEF SessionsInv, RegistryInv, Entry, GrantInv, Granted
<1>6. ASSUME NEW c \in Conns
      PROVE  Served(c)' /\ (Carrying(c) => Carrying(c)')
  <2>1. Closing(c) => Closing(c)'
    BY <1>2 DEF Closing, NodeOf
  <2>2. Carrying(c) => Carrying(c)'
    BY <1>2, <2>1 DEF Carrying, NodeOf
  <2>3. ASSUME Serving(c), ~Revoked(conn[c].endpoint), Revoked(conn[c].endpoint)'
        PROVE  Closing(c)'
    <3>1. conn[c].endpoint \in Endpoints
      BY <2>3, NodeTyped DEF Serving
    <3>2. conn[c].endpoint = e /\ IssuedState(e, revision) = "revoked"
      BY <1>2, <2>3, <3>1 DEF SessionsInv, Typed, Revoked
    <3>3. authority[e].state = "revoked" /\ revision = authority[e].revision
      BY <3>2 DEF IssuedState
    <3>4. conn[c].revision < revision
      BY <2>3, <3>2, <3>3 DEF SessionsInv, GrantInv, Granted, Serving
    <3>5. /\ t \in tasks' /\ t.node = NodeOf(c)' /\ t.step = "trust"
          /\ conn'[c].revision < t.revision
      BY <1>2, <3>2, <3>4 DEF NodeOf
    <3> QED
      BY <3>5 DEF Closing
  <2>4. Served(c)'
    BY <1>2, <2>1, <2>3 DEF SessionsInv, ServingInv, Served, Serving, NodeOf
  <2> QED
    BY <2>2, <2>4
<1>7. ServingInv'
  BY <1>6 DEF ServingInv
<1>8. CommandInv'
  BY <1>2, <1>6, KeptCommands DEF SessionsInv
<1> QED
  BY <1>3, <1>4, <1>5, <1>7, <1>8 DEF SessionsInv

-----------------------------------------------------------------------------
(* The handlers                                                            *)

\* The handler of an older revision goes on to close what it finds registered.
LEMMA TrustCloseInv ==
  ASSUME SessionsInv, NEW t \in tasks, TrustClose(t)
  PROVE  SessionsInv'
<1>1. t \in TaskSet /\ t.node \in Nodes /\ t.step = "trust"
  BY DEF SessionsInv, Typed, TaskSet, TrustClose
<1>2. tasks' \subseteq TaskSet
  BY <1>1 DEF SessionsInv, Typed, TaskSet, TrustClose
<1>3. ASSUME NEW c \in Conns, registry[NodeOf(c)] = c, Closing(c)
      PROVE  Closing(c)'
  <2>1. PICK u \in tasks : /\ u.node = NodeOf(c)
                           /\ \/ u.step \in {"untoken", "remove"}
                              \/ u.step = "trust" /\ conn[c].revision < u.revision
                              \/ /\ u.step = "retire" /\ conn[c].mode = "authorized_v11"
                                 /\ conn[c].term # u.term
    BY <1>3 DEF Closing
  <2>2. NodeOf(c)' = NodeOf(c) /\ conn' = conn
    BY DEF NodeOf, TrustClose
  <2>3. CASE u # t
    BY <2>1, <2>2, <2>3 DEF Closing, TrustClose
  <2>4. CASE u = t
    <3>1. registry[t.node] # None /\ Entry(t.node).revision < t.revision
      BY <1>1, <1>3, <2>1, <2>4, TransportAssumption DEF Entry
    <3>2. [step |-> "untoken", node |-> t.node] \in tasks'
      BY <3>1 DEF TrustClose
    <3> QED
      BY <2>1, <2>2, <2>4, <3>2 DEF Closing
  <2> QED
    BY <2>3, <2>4
<1> QED
  BY <1>2, <1>3, KeptHandlers DEF TrustClose

\* The handler of a new term goes on to close the session of another.
LEMMA RetireSupersededOwnerInv ==
  ASSUME SessionsInv, NEW t \in tasks, RetireSupersededOwner(t)
  PROVE  SessionsInv'
<1>1. t \in TaskSet /\ t.node \in Nodes /\ t.step = "retire"
  BY DEF SessionsInv, Typed, TaskSet, RetireSupersededOwner
<1>2. tasks' \subseteq TaskSet
  BY <1>1 DEF SessionsInv, Typed, TaskSet, RetireSupersededOwner
<1>3. ASSUME NEW c \in Conns, registry[NodeOf(c)] = c, Closing(c)
      PROVE  Closing(c)'
  <2>1. PICK u \in tasks : /\ u.node = NodeOf(c)
                           /\ \/ u.step \in {"untoken", "remove"}
                              \/ u.step = "trust" /\ conn[c].revision < u.revision
                              \/ /\ u.step = "retire" /\ conn[c].mode = "authorized_v11"
                                 /\ conn[c].term # u.term
    BY <1>3 DEF Closing
  <2>2. NodeOf(c)' = NodeOf(c) /\ conn' = conn
    BY DEF NodeOf, RetireSupersededOwner
  <2>3. CASE u # t
    BY <2>1, <2>2, <2>3 DEF Closing, RetireSupersededOwner
  <2>4. CASE u = t
    <3>1. /\ registry[t.node] # None /\ Entry(t.node).mode = "authorized_v11"
          /\ Entry(t.node).term # t.term
      BY <1>1, <1>3, <2>1, <2>4, TransportAssumption DEF Entry
    <3>2. [step |-> "untoken", node |-> t.node] \in tasks'
      BY <3>1 DEF RetireSupersededOwner
    <3> QED
      BY <2>1, <2>2, <2>4, <3>2 DEF Closing
  <2> QED
    BY <2>3, <2>4
<1> QED
  BY <1>2, <1>3, KeptHandlers DEF RetireSupersededOwner

\* A handler that closes a node is one more.
LEMMA CloseNodeInv ==
  ASSUME SessionsInv, NEW n \in Nodes, NEW binding \in Terms \cup {None},
         CloseNode(n, binding)
  PROVE  SessionsInv'
<1>1. tasks \subseteq tasks' /\ tasks' \subseteq TaskSet
  BY DEF SessionsInv, Typed, TaskSet, CloseNode
<1>2. \A c \in Conns : Closing(c) => Closing(c)'
  BY <1>1 DEF Closing, NodeOf, CloseNode
<1> QED
  BY <1>1, <1>2, KeptHandlers DEF CloseNode

\* The tokens go first and the handler stays.
LEMMA registration_tokens_removeInv ==
  ASSUME SessionsInv, NEW t \in tasks, registration_tokens_remove(t)
  PROVE  SessionsInv'
<1>1. t \in TaskSet /\ t.node \in Nodes /\ t.step = "untoken"
  BY DEF SessionsInv, Typed, TaskSet, registration_tokens_remove
<1>2. tasks' = (tasks \ {t}) \cup {[step |-> "remove", node |-> t.node]}
  BY DEF registration_tokens_remove
<1>3. UNCHANGED <<authority, policy, registry, fences, command>>
  BY DEF registration_tokens_remove
<1>4. ASSUME NEW c \in Conns
      PROVE  /\ conn'[c] \in AcceptRecords
             /\ conn'[c].stage = conn[c].stage /\ conn'[c].endpoint = conn[c].endpoint
             /\ conn'[c].mode = conn[c].mode /\ conn'[c].term = conn[c].term
             /\ conn'[c].revision = conn[c].revision /\ conn'[c].open = conn[c].open
             /\ NodeOf(c)' = NodeOf(c)
  BY DEF SessionsInv, Typed, AcceptRecords, registration_tokens_remove, NodeOf
<1>5. Typed'
  <2>1. conn' = [c \in Conns |-> conn'[c]]
    BY DEF registration_tokens_remove
  <2>2. conn' \in [Conns -> AcceptRecords]
    BY <1>4, <2>1
  <2>3. tasks' \subseteq TaskSet
    BY <1>1, <1>2 DEF SessionsInv, Typed, TaskSet
  <2> QED
    BY <1>3, <2>2, <2>3 DEF SessionsInv, Typed
<1>6. RegistryInv' /\ TrustInv' /\ GrantInv'
  BY <1>3, <1>4 DEF SessionsInv, Typed, RegistryInv, Entry, TrustInv, Revoked, GrantInv, Granted
<1>7. ASSUME NEW c \in Conns
      PROVE  Served(c)' /\ (Carrying(c) => Carrying(c)')
  <2>1. Closing(c) => Closing(c)'
    <3> SUFFICES ASSUME Closing(c) PROVE Closing(c)'
      OBVIOUS
    <3>1. PICK u \in tasks : /\ u.node = NodeOf(c)
                             /\ \/ u.step \in {"untoken", "remove"}
                                \/ u.step = "trust" /\ conn[c].revision < u.revision
                                \/ /\ u.step = "retire" /\ conn[c].mode = "authorized_v11"
                                   /\ conn[c].term # u.term
      BY DEF Closing
    <3>2. CASE u # t
      BY <1>2, <1>4, <3>1, <3>2 DEF Closing
    <3>3. CASE u = t
      <4> DEFINE r == [step |-> "remove", node |-> t.node]
      <4>1. r \in tasks' /\ r.node = NodeOf(c)' /\ r.step = "remove"
        BY <1>2, <1>4, <3>1, <3>3
      <4> QED
        BY <4>1 DEF Closing
    <3> QED
      BY <3>2, <3>3
  <2> QED
    BY <1>3, <1>4, <2>1
       DEF SessionsInv, ServingInv, Served, Serving, Carrying, Revoked
<1>8. ServingInv'
  BY <1>7 DEF ServingInv
<1>9. CommandInv'
  BY <1>3, <1>7, KeptCommands DEF SessionsInv
<1> QED
  BY <1>5, <1>6, <1>8, <1>9 DEF SessionsInv

\* remove closes the connection that is registered, the one its handler stood for.
LEMMA removeInv ==
  ASSUME SessionsInv, NEW t \in tasks, remove(t)
  PROVE  SessionsInv'
<1>1. t \in TaskSet /\ t.node \in Nodes /\ t.step = "remove"
  BY DEF SessionsInv, Typed, TaskSet, remove
<1>2. tasks' = tasks \ {t} /\ UNCHANGED <<authority, policy, fences, command>>
  BY DEF remove
<1>3. CASE registry[t.node] = None
  <2>1. UNCHANGED <<conn, registry>>
    BY <1>3 DEF remove
  <2>2. ASSUME NEW c \in Conns, registry[NodeOf(c)] = c, Closing(c)
        PROVE  Closing(c)'
    <3>1. NodeOf(c) # t.node
      BY <1>3, <2>2, TransportAssumption
    <3> QED
      BY <1>2, <2>1, <2>2, <3>1 DEF Closing, NodeOf
  <2>3. tasks' \subseteq TaskSet
    BY <1>2 DEF SessionsInv, Typed
  <2> QED
    BY <1>2, <2>1, <2>2, <2>3, KeptHandlers
<1>4. CASE registry[t.node] # None
  <2> DEFINE d == registry[t.node]
  <2>1. /\ d \in Conns /\ conn[d].stage = "registered" /\ NodeOf(d) = t.node
        /\ conn' = [conn EXCEPT ![d].open = FALSE]
        /\ registry' = [registry EXCEPT ![t.node] = None]
    BY <1>1, <1>4 DEF SessionsInv, Typed, RegistryInv, Entry, NodeOf, remove
  <2>2. ASSUME NEW c \in Conns
        PROVE  /\ conn'[c].stage = conn[c].stage /\ conn'[c].endpoint = conn[c].endpoint
               /\ conn'[c].mode = conn[c].mode /\ conn'[c].term = conn[c].term
               /\ conn'[c].revision = conn[c].revision /\ NodeOf(c)' = NodeOf(c)
               /\ conn'[c].open = (conn[c].open /\ c # d)
    BY <2>1 DEF SessionsInv, Typed, AcceptRecords, NodeOf
  <2>3. Typed'
    BY <1>2, <2>1 DEF SessionsInv, Typed, AcceptRecords
  <2>4. RegistryInv' /\ TrustInv' /\ GrantInv'
    BY <1>2, <2>1, <2>2
       DEF SessionsInv, Typed, RegistryInv, Entry, TrustInv, Revoked, GrantInv, Granted
  <2>5. ASSUME NEW c \in Conns
        PROVE  Served(c)' /\ (Carrying(c) => Carrying(c)')
    <3>1. CASE ~(Serving(c) /\ c # d)
      BY <2>2, <3>1 DEF Served, Serving, Carrying
    <3>2. CASE Serving(c) /\ c # d
      <4>1. registry[NodeOf(c)] = c /\ NodeOf(c) \in Nodes
        BY <3>2, NodeTyped DEF SessionsInv, ServingInv, Served, Serving
      <4>2. NodeOf(c) # t.node
        BY <3>2, <4>1
      <4>3. Closing(c) => Closing(c)'
        BY <1>2, <2>2, <4>2 DEF Closing
      <4>4. registry'[NodeOf(c)] = c
        BY <2>1, <4>1, <4>2 DEF SessionsInv, Typed
      <4>5. Served(c)'
        BY <1>2, <2>2, <3>2, <4>3, <4>4 DEF SessionsInv, ServingInv, Served, Serving, Revoked
      <4>6. Carrying(c) => Carrying(c)'
        BY <1>2, <2>2, <3>2, <4>3 DEF Carrying
      <4> QED
        BY <4>5, <4>6
    <3> QED
      BY <3>1, <3>2
  <2>6. ServingInv'
    BY <2>5 DEF ServingInv
  <2>7. CommandInv'
    BY <1>2, <2>5, KeptCommands DEF SessionsInv
  <2> QED
    BY <2>3, <2>4, <2>6, <2>7 DEF SessionsInv
<1> QED
  BY <1>3, <1>4

-----------------------------------------------------------------------------
(* Owner terms                                                             *)

\* A term that is registered anew leaves a handler for a session of another, and
\* one that is refreshed is the term that was registered.
LEMMA RegisterOwnerFenceInv ==
  ASSUME SessionsInv, NEW e \in Endpoints, NEW t \in Terms, RegisterOwnerFence(e, t)
  PROVE  SessionsInv'
<1> DEFINE n == BoundNode[e]
           r == [step |-> "retire", node |-> n, term |-> t]
<1>1. /\ n \in Nodes /\ UNCHANGED <<authority, policy, conn, registry, command>>
      /\ fences' = [fences EXCEPT ![n] = [term |-> t, live |-> TRUE]]
      /\ tasks \subseteq tasks' /\ tasks' \subseteq tasks \cup {r}
  BY TransportAssumption DEF RegisterOwnerFence
<1>2. r \in tasks' \/ fences[n].term = t
  <2>1. CASE FenceRegistration(fences[n].term, t) = "apply"
    BY <2>1 DEF RegisterOwnerFence
  <2>2. CASE FenceRegistration(fences[n].term, t) = "refresh"
    <3>1. fences[n].term \in Terms \cup {None}
      BY <1>1 DEF SessionsInv, Typed, Fences
    <3>2. fences[n].term # None /\ fences[n].term.epoch = t.epoch /\ fences[n].term.id = t.id
      BY <2>2, <3>1, TransportAssumption DEF FenceRegistration
    <3> QED
      BY <3>1, <3>2, TransportAssumption
  <2> QED
    BY <2>1, <2>2 DEF RegisterOwnerFence
<1>3. Typed'
  <2>1. r \in TaskSet
    BY <1>1 DEF TaskSet
  <2>2. fences' \in [Nodes -> Fences]
    BY <1>1 DEF SessionsInv, Typed, Fences
  <2> QED
    BY <1>1, <2>1, <2>2 DEF SessionsInv, Typed
<1>4. RegistryInv' /\ TrustInv' /\ GrantInv'
  BY <1>1 DEF SessionsInv, RegistryInv, Entry, TrustInv, Revoked, GrantInv, Granted
<1>5. ASSUME NEW c \in Conns, conn[c].stage = "registered"
      PROVE  /\ NodeOf(c)' = NodeOf(c) /\ (Closing(c) => Closing(c)')
             /\ \/ fences'[NodeOf(c)].term = fences[NodeOf(c)].term
                \/ conn[c].term = fences'[NodeOf(c)].term
                \/ conn[c].mode # "authorized_v11"
                \/ Closing(c)'
  <2>1. NodeOf(c)' = NodeOf(c) /\ NodeOf(c) \in Nodes
    BY <1>1, <1>5, NodeTyped DEF NodeOf
  <2>2. Closing(c) => Closing(c)'
    BY <1>1, <2>1 DEF Closing
  <2>3. CASE NodeOf(c) # n \/ fences[n].term = t
    BY <1>1, <2>1, <2>2, <2>3 DEF SessionsInv, Typed
  <2>4. CASE NodeOf(c) = n /\ r \in tasks'
    <3>1. r.node = NodeOf(c)' /\ r.step = "retire" /\ r.term = t
      BY <2>1, <2>4
    <3>2. fences'[n].term = t
      BY <1>1 DEF SessionsInv, Typed
    <3>3. CASE conn[c].mode = "authorized_v11" /\ conn[c].term # t
      BY <1>1, <2>4, <3>1, <3>3 DEF Closing
    <3> QED
      BY <2>1, <2>2, <2>4, <3>2, <3>3
  <2> QED
    BY <1>2, <2>3, <2>4
<1>6. ASSUME NEW c \in Conns
      PROVE  Served(c)' /\ (Carrying(c) => Carrying(c)')
  <2>1. CASE conn[c].stage # "registered"
    BY <1>1, <2>1 DEF Served, Serving, Carrying
  <2>2. CASE conn[c].stage = "registered"
    <3>1. Carrying(c) => Carrying(c)'
      BY <1>1, <1>5, <2>2 DEF Carrying
    <3>2. conn[c].term # None => conn[c].mode = "authorized_v11"
      BY <2>2 DEF SessionsInv, GrantInv, Granted
    <3>3. Served(c)'
      BY <1>1, <1>5, <2>2, <3>2 DEF SessionsInv, ServingInv, Served, Serving, Revoked
    <3> QED
      BY <3>1, <3>3
  <2> QED
    BY <2>1, <2>2
<1>7. ServingInv'
  BY <1>6 DEF ServingInv
<1>8. CommandInv'
  BY <1>1, <1>6, KeptCommands DEF SessionsInv
<1> QED
  BY <1>3, <1>4, <1>7, <1>8 DEF SessionsInv

\* The end of a lease changes no term.
LEMMA LeaseExpiresInv ==
  ASSUME SessionsInv, NEW n \in Nodes, LeaseExpires(n)
  PROVE  SessionsInv'
<1>1. Typed'
  BY DEF SessionsInv, Typed, Fences, LeaseExpires
<1>2. \A m \in Nodes : fences'[m].term = fences[m].term
  BY DEF SessionsInv, Typed, Fences, LeaseExpires
<1>3. UNCHANGED <<authority, policy, conn, registry, tasks, command>>
  BY DEF LeaseExpires
<1>4. RegistryInv' /\ TrustInv' /\ GrantInv'
  BY <1>3 DEF SessionsInv, RegistryInv, Entry, TrustInv, Revoked, GrantInv, Granted
<1>5. ASSUME NEW c \in Conns
      PROVE  Served(c)' /\ (Carrying(c) => Carrying(c)')
  <2>1. conn[c].stage = "registered" => NodeOf(c) \in Nodes
    BY NodeTyped
  <2> QED
    BY <1>2, <1>3, <2>1
       DEF SessionsInv, ServingInv, Served, Serving, Carrying, Closing, NodeOf, Revoked
<1>6. ServingInv'
  BY <1>5 DEF ServingInv
<1>7. CommandInv'
  BY <1>3, <1>5, KeptCommands DEF SessionsInv
<1> QED
  BY <1>1, <1>4, <1>6, <1>7 DEF SessionsInv

-----------------------------------------------------------------------------
(* SessionHandler::accept                                                  *)

\* A connection is accepted with no grant and no term.
LEMMA AcceptAgentInv ==
  ASSUME SessionsInv, NEW c \in Conns, NEW e \in Endpoints, AcceptAgent(c, e)
  PROVE  SessionsInv'
<1> DEFINE r == [IdleConn EXCEPT !.stage = "handshaking", !.endpoint = e, !.open = TRUE]
<1>1. r \in AcceptRecords
  BY IdleTyped DEF AcceptRecords, AcceptStages
<1>2. conn' = [conn EXCEPT ![c] = r] /\ conn'[c] = r
  BY DEF AcceptAgent, SessionsInv, Typed
<1>3. UNCHANGED <<authority, policy, registry, fences, tasks, command>>
  BY DEF AcceptAgent
<1>4. conn[c].stage # "registered" /\ r.stage # "registered"
  BY DEF AcceptAgent, IdleConn
<1>5. Keeps(c)
  BY <1>2, <1>4 DEF Keeps
<1>6. policy[e].state = "active" /\ authority[e].revision \in Nat
  BY TransportAssumption DEF AcceptAgent, after_handshake, permits, SessionsInv, Typed, Trust
<1>7. Granted(c)'
  <2>1. authority[e].state = "revoked" => authority[e].revision > 0
    BY <1>6 DEF SessionsInv, TrustInv
  <2>2. conn'[c].endpoint = e /\ conn'[c].term = None /\ conn'[c].revision = 0
    <3>1. r.endpoint = e /\ r.term = IdleConn.term /\ r.revision = IdleConn.revision
      BY IdleTyped DEF AcceptRecords
    <3>2. IdleConn.term = None /\ IdleConn.revision = 0
      BY DEF IdleConn
    <3> QED
      BY <1>2, <3>1, <3>2
  <2> QED
    BY <1>3, <1>6, <2>1, <2>2 DEF Granted
<1> QED
  BY <1>1, <1>2, <1>3, <1>5, <1>7, OneConnection

\* A check that starts, or is refused for want of a permit.
LEMMA BeginCheckInv ==
  ASSUME SessionsInv, NEW c \in Conns, NEW rateLeft \in BOOLEAN,
         NEW from \in {"handshaking", "token"}, NEW class \in TrustClasses,
         BeginCheck(c, from, class, rateLeft)
  PROVE  SessionsInv'
<1>1. CASE ~acquire(class, rateLeft)
  <2>1. conn' = [conn EXCEPT ![c] = IdleConn]
    BY <1>1 DEF BeginCheck
  <2> QED
    BY <2>1, GivesUp DEF BeginCheck
<1>2. CASE acquire(class, rateLeft)
  <2> DEFINE r == [conn[c] EXCEPT !.stage = class]
  <2>1. r \in AcceptRecords
    BY DEF SessionsInv, Typed, AcceptRecords, AcceptStages
  <2>2. conn' = [conn EXCEPT ![c] = r] /\ conn'[c] = r
    BY <1>2 DEF BeginCheck, SessionsInv, Typed
  <2>3. /\ r.stage = class /\ r.endpoint = conn[c].endpoint /\ r.mode = conn[c].mode
        /\ r.term = conn[c].term /\ r.revision = conn[c].revision
    BY DEF SessionsInv, Typed, AcceptRecords
  <2>4. Keeps(c) /\ Granted(c)'
    BY <2>2, <2>3 DEF BeginCheck, Keeps, SessionsInv, GrantInv, Granted, TrustClasses
  <2> QED
    BY <2>1, <2>2, <2>4, OneConnection DEF BeginCheck
<1> QED
  BY <1>1, <1>2

\* The handshake is presented to the Controller.
LEMMA AskAuthorityInv ==
  ASSUME SessionsInv, NEW c \in Conns, NEW rateLeft \in BOOLEAN, AskAuthority(c, rateLeft)
  PROVE  SessionsInv'
  BY BeginCheckInv DEF AskAuthority, TrustClasses

\* The recheck is asked of the Controller.
LEMMA AskRecheckInv ==
  ASSUME SessionsInv, NEW c \in Conns, NEW rateLeft \in BOOLEAN, AskRecheck(c, rateLeft)
  PROVE  SessionsInv'
  BY BeginCheckInv DEF AskRecheck, TrustClasses

\* A session is granted by the Controller that trusts the endpoint, so before its
\* revocation.
LEMMA NegotiateInv ==
  ASSUME SessionsInv, NEW c \in Conns, NEW mode \in SessionModes,
         NEW term \in Terms \cup {None}, Negotiate(c, mode, term)
  PROVE  SessionsInv'
<1> DEFINE e == conn[c].endpoint
           r == [conn[c] EXCEPT !.stage = "negotiated", !.mode = mode, !.term = term,
                                !.revision = GrantRevision(e, mode)]
<1>1. e \in Endpoints /\ authority[e].state = "active" /\ conn[c].stage = "authorizing"
  BY DEF SessionsInv, GrantInv, Granted, Negotiate, authorize
<1>2. GrantRevision(e, mode) \in 0..MaxRevision /\ GrantRevision(e, mode) <= authority[e].revision
  BY <1>1, TransportAssumption DEF SessionsInv, Typed, Trust, GrantRevision
<1>3. r \in AcceptRecords
  BY <1>2 DEF SessionsInv, Typed, AcceptRecords, AcceptStages
<1>4. conn' = [conn EXCEPT ![c] = r] /\ conn'[c] = r
  BY DEF Negotiate, SessionsInv, Typed
<1>5. UNCHANGED <<authority, policy, registry, fences, tasks, command>>
  BY DEF Negotiate
<1>6. /\ r.stage = "negotiated" /\ r.endpoint = e /\ r.mode = mode
      /\ r.term = term /\ r.revision = GrantRevision(e, mode)
  BY DEF SessionsInv, Typed, AcceptRecords
<1>7. term # None => mode = "authorized_v11"
  BY DEF Negotiate, SessionFenced, SessionModes
<1>8. Keeps(c) /\ Granted(c)'
  BY <1>1, <1>2, <1>4, <1>5, <1>6, <1>7 DEF Keeps, Granted
<1> QED
  BY <1>3, <1>4, <1>5, <1>8, OneConnection

\* The handshake ends without a session.
LEMMA HandshakeEndsInv ==
  ASSUME SessionsInv, NEW c \in Conns, HandshakeEnds(c)
  PROVE  SessionsInv'
  BY GivesUp DEF HandshakeEnds

\* The registration under the lock is refused.
LEMMA RegistrationRefusedInv ==
  ASSUME SessionsInv, NEW c \in Conns, RegistrationRefused(c)
  PROVE  SessionsInv'
  BY GivesUp DEF RegistrationRefused

\* A token is taken.
LEMMA registration_tokenInv ==
  ASSUME SessionsInv, NEW c \in Conns, registration_token(c)
  PROVE  SessionsInv'
<1> DEFINE r == [conn[c] EXCEPT !.stage = "token", !.fresh = TRUE]
<1>1. r \in AcceptRecords
  BY DEF SessionsInv, Typed, AcceptRecords, AcceptStages
<1>2. conn' = [conn EXCEPT ![c] = r] /\ conn'[c] = r
  BY DEF registration_token, SessionsInv, Typed
<1>3. /\ r.stage = "token" /\ r.endpoint = conn[c].endpoint /\ r.mode = conn[c].mode
      /\ r.term = conn[c].term /\ r.revision = conn[c].revision
  BY DEF SessionsInv, Typed, AcceptRecords
<1>4. Keeps(c) /\ Granted(c)'
  BY <1>2, <1>3 DEF registration_token, Keeps, SessionsInv, GrantInv, Granted
<1> QED
  BY <1>1, <1>2, <1>4, OneConnection DEF registration_token

\* The recheck is answered.
LEMMA RecheckAgentInv ==
  ASSUME SessionsInv, NEW c \in Conns, NEW answered \in BOOLEAN, RecheckAgent(c, answered)
  PROVE  SessionsInv'
<1> DEFINE r == [conn[c] EXCEPT !.stage = "rechecked"]
<1>1. CASE conn' = [conn EXCEPT ![c] = IdleConn]
  BY <1>1, GivesUp DEF RecheckAgent
<1>2. CASE conn' = [conn EXCEPT ![c] = r]
  <2>1. r \in AcceptRecords
    BY DEF SessionsInv, Typed, AcceptRecords, AcceptStages
  <2>2. conn'[c] = r
    BY <1>2 DEF SessionsInv, Typed
  <2>3. /\ r.stage = "rechecked" /\ r.endpoint = conn[c].endpoint /\ r.mode = conn[c].mode
        /\ r.term = conn[c].term /\ r.revision = conn[c].revision
    BY DEF SessionsInv, Typed, AcceptRecords
  <2>4. Keeps(c) /\ Granted(c)'
    BY <2>2, <2>3 DEF RecheckAgent, Keeps, SessionsInv, GrantInv, Granted
  <2> QED
    BY <1>2, <2>1, <2>4, OneConnection DEF RecheckAgent
<1> QED
  BY <1>1, <1>2 DEF RecheckAgent

\* A registered connection closes.
LEMMA Closes ==
  ASSUME SessionsInv, NEW c \in Conns, conn[c].stage = "registered",
         conn' = [conn EXCEPT ![c].open = FALSE],
         UNCHANGED <<authority, policy, registry, fences, tasks, command>>
  PROVE  SessionsInv'
<1> DEFINE r == [conn[c] EXCEPT !.open = FALSE]
<1>1. r \in AcceptRecords
  BY DEF SessionsInv, Typed, AcceptRecords
<1>2. conn' = [conn EXCEPT ![c] = r] /\ conn'[c] = r
  BY DEF SessionsInv, Typed
<1>3. /\ r.stage = conn[c].stage /\ r.endpoint = conn[c].endpoint /\ r.mode = conn[c].mode
      /\ r.term = conn[c].term /\ r.revision = conn[c].revision /\ ~r.open
  BY DEF SessionsInv, Typed, AcceptRecords
<1>4. Keeps(c) /\ Granted(c)'
  BY <1>2, <1>3 DEF Keeps, SessionsInv, GrantInv, Granted
<1> QED
  BY <1>1, <1>2, <1>4, OneConnection

\* The peer goes away.
LEMMA PeerClosesInv ==
  ASSUME SessionsInv, NEW c \in Conns, PeerCloses(c)
  PROVE  SessionsInv'
  BY Closes DEF PeerCloses

\* The poll of the lease closes the session.
LEMMA MonitorOwnerLeaseInv ==
  ASSUME SessionsInv, NEW c \in Conns, MonitorOwnerLease(c)
  PROVE  SessionsInv'
  BY Closes DEF MonitorOwnerLease

\* The session that is registered is not revoked and has the registered term; the
\* one it replaces is closed.
LEMMA RegisterInv ==
  ASSUME SessionsInv, NEW c \in Conns, Register(c)
  PROVE  SessionsInv'
<1> DEFINE n == NodeOf(c)
<1>1. /\ conn[c].stage = "rechecked" /\ n \in Nodes
      /\ conn[c].endpoint \in Endpoints /\ ~Revoked(conn[c].endpoint)
  BY NodeTyped DEF Register, MayRegister
<1>1a. registry[n] # c
  BY <1>1, TransportAssumption DEF SessionsInv, RegistryInv, Entry
<1>2. /\ registry' = [registry EXCEPT ![n] = c]
      /\ fences' = IF conn[c].term = None THEN fences
                   ELSE [fences EXCEPT ![n] = [term |-> conn[c].term, live |-> TRUE]]
      /\ UNCHANGED <<authority, policy, tasks, command>>
  BY DEF Register
<1>3. ASSUME NEW d \in Conns
      PROVE  /\ conn'[d] \in AcceptRecords
             /\ conn'[d].stage = (IF d = c THEN "registered" ELSE conn[d].stage)
             /\ conn'[d].endpoint = conn[d].endpoint
             /\ conn'[d].mode = conn[d].mode /\ conn'[d].term = conn[d].term
             /\ conn'[d].revision = conn[d].revision /\ NodeOf(d)' = NodeOf(d)
             /\ conn'[d].open => conn[d].open
             /\ d # c /\ d = registry[n] => ~conn'[d].open
  <2>1. /\ conn[d] \in AcceptRecords
        /\ conn'[d] = CASE d = c           -> [conn[c] EXCEPT !.stage = "registered", !.fresh = FALSE]
                        [] d = registry[n] -> [conn[d] EXCEPT !.open = FALSE]
                        [] OTHER           -> conn[d]
    BY DEF Register, SessionsInv, Typed
  <2>2. CASE d = c
    <3>1. conn'[d] = [conn[d] EXCEPT !.stage = "registered", !.fresh = FALSE]
      BY <1>1a, <2>1, <2>2
    <3>2. conn'[d].endpoint = conn[d].endpoint /\ conn'[d].open = conn[d].open
      BY <2>1, <3>1 DEF AcceptRecords
    <3> QED
      BY <2>1, <2>2, <3>1, <3>2 DEF AcceptRecords, AcceptStages, NodeOf
  <2>3. CASE d # c /\ d = registry[n]
    <3>1. conn'[d] = [conn[d] EXCEPT !.open = FALSE]
      BY <2>1, <2>3
    <3>2. conn'[d].endpoint = conn[d].endpoint /\ ~conn'[d].open
      BY <2>1, <3>1 DEF AcceptRecords
    <3> QED
      BY <2>1, <2>3, <3>1, <3>2 DEF AcceptRecords, AcceptStages, NodeOf
  <2>4. CASE d # c /\ d # registry[n]
    BY <2>1, <2>4 DEF NodeOf
  <2> QED
    BY <2>2, <2>3, <2>4
<1>4. Typed'
  <2>1. conn' = [d \in Conns |-> conn'[d]]
    BY DEF Register
  <2>2. conn' \in [Conns -> AcceptRecords]
    BY <1>3, <2>1
  <2>3. fences' \in [Nodes -> Fences]
    BY <1>1, <1>2 DEF SessionsInv, Typed, Fences, AcceptRecords
  <2>4. registry' \in [Nodes -> Conns \cup {None}]
    BY <1>1, <1>2 DEF SessionsInv, Typed
  <2> QED
    BY <1>2, <2>2, <2>3, <2>4 DEF SessionsInv, Typed
<1>5. RegistryInv'
  <2> SUFFICES ASSUME NEW m \in Nodes, registry'[m] # None
               PROVE  conn'[registry'[m]].stage = "registered"
                      /\ BoundNode[conn'[registry'[m]].endpoint] = m
    BY DEF RegistryInv, Entry
  <2>1. CASE m = n
    BY <1>1, <1>2, <1>3, <2>1 DEF SessionsInv, Typed, NodeOf
  <2>2. CASE m # n
    <3>1. registry'[m] = registry[m] /\ registry[m] \in Conns
      BY <1>2, <2>2 DEF SessionsInv, Typed
    <3> QED
      BY <1>1, <1>3, <3>1 DEF SessionsInv, RegistryInv, Entry
  <2> QED
    BY <2>1, <2>2
<1>6. TrustInv' /\ GrantInv'
  BY <1>1, <1>2, <1>3 DEF SessionsInv, TrustInv, Revoked, GrantInv, Granted
<1>7. ASSUME NEW d \in Conns, d # c, Served(d), conn[d].stage = "registered"
      PROVE  Served(d)' /\ (Carrying(d) => Carrying(d)')
  <2>1. CASE ~conn'[d].open
    BY <1>3, <1>7, <2>1 DEF Served, Serving, Carrying
  <2>2. CASE conn'[d].open
    <3>1. Serving(d) /\ registry[NodeOf(d)] = d /\ NodeOf(d) \in Nodes
      BY <1>3, <1>7, <2>2, NodeTyped DEF Served, Serving
    <3>2. NodeOf(d) # n
      BY <1>3, <1>7, <2>2, <3>1
    <3>3. registry'[NodeOf(d)] = d /\ fences'[NodeOf(d)] = fences[NodeOf(d)]
      BY <1>2, <3>1, <3>2 DEF SessionsInv, Typed
    <3>4. Closing(d)' <=> Closing(d)
      BY <1>2, <1>3 DEF Closing
    <3>5. Served(d)'
      BY <1>2, <1>3, <1>7, <3>1, <3>3, <3>4 DEF Served, Serving, Revoked
    <3>6. Carrying(d) => Carrying(d)'
      BY <1>3, <1>7, <3>1, <3>3, <3>4 DEF Carrying, Serving
    <3> QED
      BY <3>5, <3>6
  <2> QED
    BY <2>1, <2>2
<1>8. Served(c)'
  <2>1. registry'[n] = c
    BY <1>1, <1>2 DEF SessionsInv, Typed
  <2>2. conn[c].term \in {None, fences'[n].term}
    BY <1>1, <1>2 DEF SessionsInv, Typed
  <2> QED
    BY <1>1, <1>2, <1>3, <2>1, <2>2 DEF Served, Revoked
<1>9. ServingInv'
  BY <1>3, <1>7, <1>8 DEF SessionsInv, ServingInv, Served, Serving
<1>10. \A d \in Conns : Carrying(d) => Carrying(d)'
  BY <1>1, <1>7 DEF Carrying, SessionsInv, ServingInv
<1>11. CommandInv'
  BY <1>2, <1>10, KeptCommands DEF SessionsInv
<1> QED
  BY <1>4, <1>5, <1>6, <1>9, <1>11 DEF SessionsInv

\* A session that ends undoes its own registration and its own commands.
LEMMA finish_sessionInv ==
  ASSUME SessionsInv, NEW c \in Conns, finish_session(c)
  PROVE  SessionsInv'
<1> DEFINE n == NodeOf(c)
<1>1. conn[c].stage = "registered" /\ n \in Nodes
  BY NodeTyped DEF finish_session
<1>2. /\ conn' = [conn EXCEPT ![c] = IdleConn]
      /\ registry' = IF registry[n] = c THEN [registry EXCEPT ![n] = None] ELSE registry
      /\ command' = [x \in Commands |-> IF command[x].conn = c THEN NoCommand ELSE command[x]]
      /\ UNCHANGED <<authority, policy, fences, tasks>>
  BY DEF finish_session
<1>3. conn'[c] = IdleConn /\ \A d \in Conns \ {c} : conn'[d] = conn[d]
  BY <1>2 DEF SessionsInv, Typed
<1>4. Typed'
  <2>1. conn' \in [Conns -> AcceptRecords]
    BY <1>2, IdleTyped DEF SessionsInv, Typed
  <2>2. registry' \in [Nodes -> Conns \cup {None}]
    BY <1>2 DEF SessionsInv, Typed
  <2>3. command' \in [Commands -> CommandRecords]
    BY <1>2 DEF SessionsInv, Typed, NoCommand, CommandRecords, CommandStages
  <2> QED
    BY <1>2, <2>1, <2>2, <2>3 DEF SessionsInv, Typed
<1>5. RegistryInv'
  <2> SUFFICES ASSUME NEW m \in Nodes, registry'[m] # None
               PROVE  conn'[registry'[m]].stage = "registered"
                      /\ BoundNode[conn'[registry'[m]].endpoint] = m
    BY DEF RegistryInv, Entry
  <2>1. registry'[m] = registry[m] /\ registry[m] \in Conns
    BY <1>2 DEF SessionsInv, Typed
  <2>2. registry[m] # c
    BY <1>1, <1>2, <2>1, TransportAssumption DEF SessionsInv, Typed, RegistryInv, Entry, NodeOf
  <2> QED
    BY <1>3, <2>1, <2>2 DEF SessionsInv, RegistryInv, Entry
<1>6. TrustInv' /\ GrantInv'
  BY <1>2, <1>3 DEF SessionsInv, TrustInv, Revoked, GrantInv, Granted, IdleConn
<1>7. ASSUME NEW d \in Conns \ {c}
      PROVE  Served(d)' /\ (Carrying(d) => Carrying(d)')
  <2>1. /\ conn'[d] = conn[d] /\ NodeOf(d)' = NodeOf(d) /\ (Closing(d)' <=> Closing(d))
        /\ (Serving(d)' <=> Serving(d))
    BY <1>2, <1>3 DEF NodeOf, Closing, Serving
  <2>2. ASSUME Serving(d)
        PROVE  registry'[NodeOf(d)] = d
    BY <1>2, <2>2, NodeTyped DEF SessionsInv, Typed, ServingInv, Served, Serving
  <2>3. Served(d)'
    BY <1>2, <2>1, <2>2 DEF SessionsInv, ServingInv, Served, Revoked
  <2>4. Carrying(d) => Carrying(d)'
    BY <1>2, <2>1 DEF Carrying
  <2> QED
    BY <2>3, <2>4
<1>8. ServingInv'
  BY <1>3, <1>7 DEF ServingInv, Served, Serving, IdleConn
<1>9. CommandInv'
  <2> SUFFICES ASSUME NEW x \in Commands, command'[x].stage = "validated"
               PROVE  command'[x].conn \in Conns /\ Carrying(command[x].conn)'
                      /\ command'[x].conn = command[x].conn
    BY DEF CommandInv, Carrying, Closing, NodeOf
  <2>1. command'[x] = command[x] /\ command[x].conn # c
    BY <1>2 DEF NoCommand
  <2> QED
    BY <1>7, <2>1 DEF SessionsInv, CommandInv
<1> QED
  BY <1>4, <1>5, <1>6, <1>8, <1>9 DEF SessionsInv

-----------------------------------------------------------------------------
(* Commands                                                                *)

\* A step of the commands alone, after which every validated command has a session
\* that carries it.
LEMMA CommandStep ==
  ASSUME SessionsInv, UNCHANGED <<authority, policy, conn, registry, fences, tasks>>,
         NEW x \in Commands, NEW r \in CommandRecords, command' = [command EXCEPT ![x] = r],
         r.stage = "validated" => r.conn \in Conns /\ Carrying(r.conn)
  PROVE  SessionsInv'
<1>1. Typed' /\ RegistryInv' /\ TrustInv' /\ GrantInv'
  BY DEF SessionsInv, Typed, RegistryInv, Entry, TrustInv, Revoked, GrantInv, Granted
<1>2. ASSUME NEW c \in Conns
      PROVE  (Served(c)' <=> Served(c)) /\ (Carrying(c)' <=> Carrying(c))
  BY DEF Served, Serving, Carrying, Closing, NodeOf, Revoked
<1>3. ServingInv'
  BY <1>2 DEF SessionsInv, ServingInv
<1>4. \A y \in Commands : command'[y] = IF y = x THEN r ELSE command[y]
  BY DEF SessionsInv, Typed
<1>5. \A y \in Commands : command'[y].stage = "validated" =>
        command'[y].conn \in Conns /\ Carrying(command'[y].conn)
  BY <1>4 DEF SessionsInv, CommandInv
<1>6. CommandInv'
  BY <1>5 DEF CommandInv, Carrying, Closing, NodeOf
<1> QED
  BY <1>1, <1>3, <1>6 DEF SessionsInv

\* A command is validated against the session that is registered and the term.
LEMMA ValidateCommandDispatchInv ==
  ASSUME SessionsInv, NEW x \in Commands, NEW n \in Nodes, NEW carrier \in Carriers,
         NEW revision \in 1..MaxRevision, ValidateCommandDispatch(x, n, carrier, revision)
  PROVE  SessionsInv'
<1> DEFINE c == registry[n]
           r == [stage |-> "validated", conn |-> c]
<1>1. /\ c \in Conns /\ conn[c].stage = "registered" /\ NodeOf(c) = n
      /\ conn[c].mode = "authorized_v11"
  BY DEF ValidateCommandDispatch, SessionsInv, Typed, RegistryInv, Entry, NodeOf
<1>2. conn[c].term = fences[n].term
  BY DEF ValidateCommandDispatch, CommandFenced, Entry
<1>3. Carrying(c)
  BY <1>1, <1>2 DEF Carrying
<1>4. r \in CommandRecords /\ r.conn = c
  BY <1>1 DEF CommandRecords, CommandStages
<1> QED
  BY <1>1, <1>3, <1>4, CommandStep DEF ValidateCommandDispatch

\* A command is written, or its connection was closed.
LEMMA WriteCommandInv ==
  ASSUME SessionsInv, NEW x \in Commands, WriteCommand(x)
  PROVE  SessionsInv'
<1> DEFINE r == IF conn[command[x].conn].open THEN [command[x] EXCEPT !.stage = "written"]
                ELSE NoCommand
<1>1. r \in CommandRecords /\ r.stage # "validated"
  BY DEF SessionsInv, Typed, CommandRecords, CommandStages, NoCommand
<1>2. command' = [command EXCEPT ![x] = r]
  BY DEF WriteCommand
<1> QED
  BY <1>1, <1>2, CommandStep DEF WriteCommand

\* The answer to a command is read.
LEMMA ReadAgentEventsInv ==
  ASSUME SessionsInv, NEW x \in Commands, ReadAgentEvents(x)
  PROVE  SessionsInv'
<1>1. NoCommand \in CommandRecords /\ NoCommand.stage # "validated"
  BY DEF CommandRecords, CommandStages, NoCommand
<1> QED
  BY <1>1, CommandStep DEF ReadAgentEvents

-----------------------------------------------------------------------------
(* The process                                                             *)

\* A process that has no session, whatever it knows of the Controller's trust.
LEMMA EmptyProcess ==
  ASSUME authority \in [Endpoints -> Trust], policy \in [Endpoints -> Policies], TrustInv,
         conn = [c \in Conns |-> IdleConn], registry = [n \in Nodes |-> None],
         fences = [n \in Nodes |-> NoFence], tasks = {},
         command = [x \in Commands |-> NoCommand]
  PROVE  SessionsInv
<1>1. Typed
  BY IdleTyped DEF Typed, Fences, NoFence, CommandRecords, CommandStages, NoCommand
<1>2. RegistryInv /\ GrantInv /\ ServingInv /\ CommandInv
  BY DEF RegistryInv, GrantInv, Granted, ServingInv, Served, Serving, CommandInv,
         IdleConn, NoCommand
<1> QED
  BY <1>1, <1>2 DEF SessionsInv

\* The first process.
LEMMA SessionsInit == TransportInit => SessionsInv
<1> SUFFICES ASSUME TransportInit PROVE SessionsInv
  OBVIOUS
<1>1. authority \in [Endpoints -> Trust] /\ policy \in [Endpoints -> Policies] /\ TrustInv
  BY TransportAssumption DEF TransportInit, Trust, Policies, TrustInv, Revoked
<1> QED
  BY <1>1, EmptyProcess DEF TransportInit

\* A restart forgets the sessions and takes the Controller's snapshot.
LEMMA RestartInv ==
  ASSUME SessionsInv, Restart
  PROVE  SessionsInv'
<1>1. authority' \in [Endpoints -> Trust] /\ policy' \in [Endpoints -> Policies]
  BY TransportAssumption DEF SessionsInv, Typed, Trust, Policies, Restart, replace_snapshot
<1>2. TrustInv'
  BY DEF SessionsInv, TrustInv, Revoked, Restart, replace_snapshot
<1>3. Typed'
  BY <1>1, IdleTyped
     DEF Restart, Typed, Fences, NoFence, CommandRecords, CommandStages, NoCommand
<1>4. RegistryInv' /\ GrantInv' /\ ServingInv' /\ CommandInv'
  BY DEF Restart, RegistryInv, GrantInv, Granted, ServingInv, Served, Serving, CommandInv,
         IdleConn, NoCommand
<1> QED
  BY <1>2, <1>3, <1>4 DEF SessionsInv

\* Every step keeps the invariant.
LEMMA SessionsNextInv ==
  ASSUME SessionsInv, [TransportNext]_transportVars
  PROVE  SessionsInv'
<1>1. ASSUME NEW t \in tasks, TrustClose(t)
      PROVE  SessionsInv'
  BY <1>1, TrustCloseInv
<1>2. ASSUME NEW t \in tasks, RetireSupersededOwner(t)
      PROVE  SessionsInv'
  BY <1>2, RetireSupersededOwnerInv
<1>3. ASSUME NEW t \in tasks, registration_tokens_remove(t)
      PROVE  SessionsInv'
  BY <1>3, registration_tokens_removeInv
<1>4. ASSUME NEW t \in tasks, remove(t)
      PROVE  SessionsInv'
  BY <1>4, removeInv
<1>5. ASSUME NEW c \in Conns, HandshakeEnds(c)
      PROVE  SessionsInv'
  BY <1>5, HandshakeEndsInv
<1>6. ASSUME NEW c \in Conns, registration_token(c)
      PROVE  SessionsInv'
  BY <1>6, registration_tokenInv
<1>7. ASSUME NEW c \in Conns, RegistrationRefused(c)
      PROVE  SessionsInv'
  BY <1>7, RegistrationRefusedInv
<1>8. ASSUME NEW c \in Conns, Register(c)
      PROVE  SessionsInv'
  BY <1>8, RegisterInv
<1>9. ASSUME NEW c \in Conns, MonitorOwnerLease(c)
      PROVE  SessionsInv'
  BY <1>9, MonitorOwnerLeaseInv
<1>10. ASSUME NEW c \in Conns, finish_session(c)
       PROVE  SessionsInv'
  BY <1>10, finish_sessionInv
<1>11. ASSUME NEW c \in Conns, NEW rateLeft \in BOOLEAN, AskAuthority(c, rateLeft)
       PROVE  SessionsInv'
  BY <1>11, AskAuthorityInv
<1>12. ASSUME NEW c \in Conns, NEW rateLeft \in BOOLEAN, AskRecheck(c, rateLeft)
       PROVE  SessionsInv'
  BY <1>12, AskRecheckInv
<1>13. ASSUME NEW c \in Conns, NEW answered \in BOOLEAN, RecheckAgent(c, answered)
       PROVE  SessionsInv'
  BY <1>13, RecheckAgentInv
<1>14. ASSUME NEW x \in Commands, WriteCommand(x)
       PROVE  SessionsInv'
  BY <1>14, WriteCommandInv
<1>15. ASSUME NEW x \in Commands, ReadAgentEvents(x)
       PROVE  SessionsInv'
  BY <1>15, ReadAgentEventsInv
<1>16. ASSUME NEW e \in Endpoints, Approve(e)
       PROVE  SessionsInv'
  BY <1>16, ApproveInv
<1>17. ASSUME NEW e \in Endpoints, Revoke(e)
       PROVE  SessionsInv'
  BY <1>17, RevokeInv
<1>18. ASSUME NEW e \in Endpoints, ChangeAuthorization(e)
       PROVE  SessionsInv'
  BY <1>18, ChangeAuthorizationInv
<1>19. ASSUME NEW e \in Endpoints, NEW revision \in 1..MaxRevision,
            NEW binding \in Terms \cup {None}, UpdateNodeTrust(e, revision, binding)
       PROVE  SessionsInv'
  BY <1>19, UpdateNodeTrustInv
<1>20. ASSUME NEW n \in Nodes, NEW binding \in Terms \cup {None}, CloseNode(n, binding)
       PROVE  SessionsInv'
  BY <1>20, CloseNodeInv
<1>21. ASSUME NEW e \in Endpoints, NEW t \in Terms, RegisterOwnerFence(e, t)
       PROVE  SessionsInv'
  BY <1>21, RegisterOwnerFenceInv
<1>22. ASSUME NEW n \in Nodes, LeaseExpires(n)
       PROVE  SessionsInv'
  BY <1>22, LeaseExpiresInv
<1>23. ASSUME NEW c \in Conns, NEW e \in Endpoints, AcceptAgent(c, e)
       PROVE  SessionsInv'
  BY <1>23, AcceptAgentInv
<1>24. ASSUME NEW c \in Conns, NEW mode \in SessionModes,
            NEW term \in Terms \cup {None}, Negotiate(c, mode, term)
       PROVE  SessionsInv'
  BY <1>24, NegotiateInv
<1>25. ASSUME NEW c \in Conns, PeerCloses(c)
       PROVE  SessionsInv'
  BY <1>25, PeerClosesInv
<1>26. ASSUME NEW x \in Commands, NEW n \in Nodes, NEW carrier \in Carriers,
            NEW revision \in 1..MaxRevision, ValidateCommandDispatch(x, n, carrier, revision)
       PROVE  SessionsInv'
  BY <1>26, ValidateCommandDispatchInv
<1>27. CASE Restart
  BY <1>27, RestartInv
<1>28. CASE UNCHANGED transportVars
  <2>1. UNCHANGED <<authority, policy, conn, registry, fences, tasks, command>>
    BY <1>28 DEF transportVars
  <2>2. \A c \in Conns : Closing(c)' <=> Closing(c)
    BY <2>1 DEF Closing, NodeOf
  <2> QED
    BY <2>1, <2>2, KeptHandlers DEF SessionsInv, Typed
<1> QED
  BY <1>1, <1>2, <1>3, <1>4, <1>5, <1>6, <1>7, <1>8, <1>9, <1>10, <1>11, <1>12,
     <1>13, <1>14, <1>15, <1>16, <1>17, <1>18, <1>19, <1>20, <1>21, <1>22, <1>23,
     <1>24, <1>25, <1>26, <1>27, <1>28
     DEF TransportNext, Handlers

-----------------------------------------------------------------------------
(* The theorems                                                            *)

\* SessionsInv holds of every behaviour of accept(), the handlers and the process.
THEOREM SessionsInvariant == TransportSpec => []SessionsInv
<1>1. TransportInit => SessionsInv
  BY SessionsInit
<1>2. SessionsInv /\ [TransportNext]_transportVars => SessionsInv'
  BY SessionsNextInv
<1> QED
  BY <1>1, <1>2, PTL DEF TransportSpec

\* Every variable has its type, and the registry of transportd names only
\* connections that accept() registered for that node.
THEOREM SessionsTypeCorrect == TransportSpec => []TransportTypeOK
<1>1. SessionsInv => TransportTypeOK
  BY DEF SessionsInv, Typed, RegistryInv, TransportTypeOK
<1> QED
  BY <1>1, SessionsInvariant, PTL

\* A session that is open is the registered one of its node and, once its endpoint
\* is revoked or another owner term is registered, a handler of update_node_trust,
\* register_owner_fence or Shared::remove is on its way to close it.
THEOREM SessionsRetiredIsClosed == TransportSpec => []RetiredIsClosed
<1>1. \A c \in Conns : Closing(c) => Unfinished(NodeOf(c))
  BY DEF Closing, Unfinished
<1>2. SessionsInv => RetiredIsClosed
  BY <1>1 DEF SessionsInv, ServingInv, Served, Serving, RetiredIsClosed
<1> QED
  BY <1>2, SessionsInvariant, PTL

\* send_command writes a frame of a superseded owner only while the registration
\* of the new one has not finished retiring its session.
THEOREM SessionsStaleOwnerIsFenced == TransportSpec => StaleOwnerIsFenced
<1> DEFINE Fenced ==
      \A x \in Commands :
        /\ command[x].stage = "validated" /\ command'[x].stage = "written"
        /\ fences[NodeOf(command[x].conn)].term # conn[command[x].conn].term
        => Unfinished(NodeOf(command[x].conn))
<1>1. SessionsInv /\ [TransportNext]_transportVars => [Fenced]_transportVars
  <2> SUFFICES ASSUME SessionsInv, [TransportNext]_transportVars, NEW x \in Commands,
                      command[x].stage = "validated", command'[x].stage = "written",
                      fences[NodeOf(command[x].conn)].term # conn[command[x].conn].term
               PROVE  Unfinished(NodeOf(command[x].conn))
    OBVIOUS
  <2> DEFINE c == command[x].conn
  <2>1. c \in Conns /\ Carrying(c)
    BY DEF SessionsInv, CommandInv
  <2>2. CASE \E y \in Commands : WriteCommand(y)
    <3>1. PICK y \in Commands : WriteCommand(y)
      BY <2>2
    <3>2. y = x
      BY <3>1 DEF WriteCommand, SessionsInv, Typed
    <3>3. conn[c].open
      BY <3>1, <3>2 DEF WriteCommand, SessionsInv, Typed, NoCommand
    <3> QED
      BY <2>1, <3>3 DEF Carrying, Closing, Unfinished
  <2>3. CASE \/ UNCHANGED command
             \/ \E y \in Commands : ReadAgentEvents(y)
             \/ \E d \in Conns : finish_session(d)
             \/ \E y \in Commands, n \in Nodes, carrier \in Carriers, revision \in 1..MaxRevision :
                  ValidateCommandDispatch(y, n, carrier, revision)
             \/ Restart
    BY <2>3 DEF ReadAgentEvents, finish_session, ValidateCommandDispatch, Restart, NoCommand,
                SessionsInv, Typed
  <2>4. CASE Handlers
    BY <2>2, <2>3, <2>4 DEF Handlers, TrustClose, RetireSupersededOwner,
       registration_tokens_remove, remove, HandshakeEnds, registration_token,
       RegistrationRefused, Register, MonitorOwnerLease, AskAuthority, AskRecheck, BeginCheck,
       RecheckAgent
  <2> QED
    BY <2>3, <2>4 DEF TransportNext, transportVars, Approve, Revoke, ChangeAuthorization,
       UpdateNodeTrust, CloseNode, RegisterOwnerFence, LeaseExpires, AcceptAgent, Negotiate,
       PeerCloses
<1> QED
  BY <1>1, SessionsInvariant, PTL DEF TransportSpec, StaleOwnerIsFenced

-----------------------------------------------------------------------------
(***************************************************************************)
(* TransportEvents                                                         *)
(***************************************************************************)

\* The control events of this process that retention has given up.
Lost == {i \in boot.before + 1..Len(history) : Control(i) /\ i \notin retained}

\* Retention gives up a control event only when it is full of newer ones.
RetentionInv ==
  /\ Len(history) <= MaxEvents /\ boot.before <= Len(history)
  /\ retained \subseteq boot.before + 1..Len(history)
  /\ \/ Lost = {}
     \/ /\ Cardinality(retained) >= Capacity
        /\ \A j \in retained : Control(j) /\ \A i \in Lost : i < j

\* A control event that the Controller still misses.
Missing(i) == Control(i) /\ i \notin watch.seen /\ i > watch.covered /\ i > watch.blind

\* What the stream owes: the events the Controller misses; before the inventory
\* is reconciled, those it may not show.
Owed(i) ==
  CASE watch.stage \in {"watching", "protected"} -> Missing(i)
    [] watch.stage = "subscribed" -> Control(i) /\ i > watch.listed
    [] OTHER -> FALSE

\* An open stream holds every event it owes, but for those after the event that
\* detached it.  A watch without a cursor is unprotected only in a process that
\* has ingested nothing.
StreamInv ==
  /\ watch.cursor <= Len(history) /\ watch.listed <= Len(history)
  /\ watch.stage \in {"idle", "watching"} /\ watch.cursor = 0 => watch.fresh
  /\ watch.fresh => watch.cursor = 0
  /\ \A i \in 1..Len(history) : Owed(i) =>
       i \in queue \/ (~attached /\ \A q \in queue : q < i)

EventsInv ==
  /\ EventsTypeOK
  /\ RetentionInv
  /\ StreamInv
  /\ ControlNotSkipped
-----------------------------------------------------------------------------
(* Finite sets of events                                                   *)

\* The oldest event of a buffer.
LEMMA OldestEvent ==
  ASSUME NEW S \in SUBSET Nat, S # {}
  PROVE  Min(S) \in S /\ \A y \in S : Min(S) <= y
<1>1. \E x \in S : \A y \in S : ~(<<y, x>> \in OpToRel(<, Nat))
  BY NatLessThanWellFounded, WFMin
<1>2. ASSUME NEW x \in S, NEW y \in S, y < x
      PROVE  <<y, x>> \in OpToRel(<, Nat)
  <2>1. <<y, x>> \in Nat \X Nat /\ <<y, x>>[1] < <<y, x>>[2]
    BY <1>2
  <2> QED
    BY <2>1, Zenon DEF OpToRel
<1>3. \E x \in S : \A y \in S : x <= y
  <2>1. PICK x \in S : \A y \in S : ~(<<y, x>> \in OpToRel(<, Nat))
    BY <1>1
  <2>2. \A y \in S : ~(y < x)
    BY <1>2, <2>1
  <2> QED
    BY <2>2
<1> QED
  BY <1>3 DEF Min

\* A buffer is finite, and so is what is taken from it.
LEMMA Finite ==
  ASSUME NEW n \in Nat, NEW S \in SUBSET (1..n)
  PROVE  IsFiniteSet(S) /\ Cardinality(S) \in Nat /\ S \subseteq Nat
<1>1. IsFiniteSet(1..n)
  BY FS_Interval
<1>2. IsFiniteSet(S)
  BY <1>1, FS_Subset
<1>3. Cardinality(S) \in Nat
  BY <1>2, FS_CardinalityType
<1> QED
  BY <1>2, <1>3

\* Telemetry has a slot at least.
LEMMA LimitTyped == TelemetryLimit \in Nat /\ TelemetryLimit >= 1
  BY EventsAssumption DEF TelemetryLimit

\* The events that were published, and the buffers that hold some of them.
LEMMA Published ==
  ASSUME EventsInv
  PROVE  /\ Len(history) \in Nat /\ \A i \in 1..Len(history) : history[i] \in Events
         /\ retained \subseteq 1..Len(history) /\ queue \subseteq 1..Len(history)
  BY DEF EventsInv, EventsTypeOK

-----------------------------------------------------------------------------
(* publish_event                                                           *)

\* The loop makes room for one more frame and evicts no control event.
LEMMA RoomForTelemetry ==
  ASSUME EventsInv, NEW bytes
  PROVE  /\ TelemetryRoom(retained, bytes) \subseteq retained
         /\ \A i \in retained : ~is_telemetry(history[i]) => i \in TelemetryRoom(retained, bytes)
         /\ Cardinality(Telemetry(TelemetryRoom(retained, bytes))) < TelemetryLimit
<1> DEFINE From(first) == {i \in retained : is_telemetry(history[i]) => i >= first}
           Fits(kept) == /\ Cardinality(Telemetry(kept)) < TelemetryLimit
                         /\ TelemetryBytes(kept) + bytes <= MaxBytes
           Stops == {k \in 1..Len(history) + 1 : Fits(From(k)) \/ Telemetry(From(k)) = {}}
<1>1. TelemetryRoom(retained, bytes) = From(Min(Stops))
  BY DEF TelemetryRoom
<1>2. Telemetry(From(Len(history) + 1)) = {}
  BY Published DEF Telemetry
<1>3. Stops \in SUBSET Nat /\ Stops # {}
  <2> HIDE DEF Fits, From
  <2> QED
    BY <1>2
<1>4. Min(Stops) \in Stops
  <2> HIDE DEF Stops
  <2> QED
    BY <1>3, OldestEvent
<1>5. Fits(From(Min(Stops))) \/ Telemetry(From(Min(Stops))) = {}
  <2> HIDE DEF From, Fits
  <2> QED
    BY <1>4
<1>6. Cardinality(Telemetry(From(Min(Stops)))) < TelemetryLimit
  <2> HIDE DEF Stops, From
  <2> QED
    BY <1>5, FS_EmptySet, LimitTyped
<1> QED
  BY <1>1, <1>6

\* What retention makes of an event.  Telemetry is evicted before control events,
\* and a control event only by another one.
LEMMA Retained ==
  ASSUME EventsInv, NEW e \in Events
  PROVE  LET R == Retain(retained, e)
             new == Len(history) + 1 IN
         /\ R \subseteq retained \cup {new} /\ Cardinality(R) <= Capacity
         /\ ~is_telemetry(e) => new \in R
         /\ Cardinality(Telemetry(R \ {new}) \cup (IF is_telemetry(e) THEN R \cap {new} ELSE {}))
              <= TelemetryLimit
         /\ \/ /\ \A i \in retained : ~is_telemetry(history[i]) => i \in R
               /\ Cardinality(retained) >= Capacity /\ Telemetry(retained) = {} => R = retained
            \/ /\ ~is_telemetry(e) /\ Telemetry(retained) = {} /\ retained # {}
               /\ Cardinality(retained) >= Capacity /\ Cardinality(R) >= Capacity
               /\ R = (retained \ {Min(retained)}) \cup {new}
<1> DEFINE R == Retain(retained, e)
           new == Len(history) + 1
           kept == IF is_telemetry(e) THEN TelemetryRoom(retained, e.bytes) ELSE retained
           Frames == Telemetry(R \ {new}) \cup (IF is_telemetry(e) THEN R \cap {new} ELSE {})
<1> SUFFICES /\ R \subseteq retained \cup {new} /\ Cardinality(R) <= Capacity
             /\ ~is_telemetry(e) => new \in R
             /\ Cardinality(Frames) <= TelemetryLimit
             /\ \/ /\ \A i \in retained : ~is_telemetry(history[i]) => i \in R
                   /\ Cardinality(retained) >= Capacity /\ Telemetry(retained) = {} => R = retained
                \/ /\ ~is_telemetry(e) /\ Telemetry(retained) = {} /\ retained # {}
                   /\ Cardinality(retained) >= Capacity /\ Cardinality(R) >= Capacity
                   /\ R = (retained \ {Min(retained)}) \cup {new}
  OBVIOUS
<1>1. /\ kept \subseteq retained
      /\ \A i \in retained : ~is_telemetry(history[i]) => i \in kept
  BY RoomForTelemetry
<1>2. /\ Len(history) \in Nat /\ retained \subseteq 1..Len(history)
      /\ Cardinality(retained) <= Capacity /\ Cardinality(Telemetry(retained)) <= TelemetryLimit
      /\ Capacity \in Nat \ {0}
  BY EventsAssumption DEF EventsInv, EventsTypeOK
<1>3. /\ IsFiniteSet(retained) /\ IsFiniteSet(kept) /\ IsFiniteSet(Telemetry(kept))
      /\ Cardinality(kept) \in Nat /\ Cardinality(retained) \in Nat
      /\ Cardinality(kept) <= Cardinality(retained)
      /\ Cardinality(Telemetry(kept)) \in Nat /\ new \notin kept /\ new \notin retained
      /\ Telemetry(kept) \subseteq kept
  <2>1. IsFiniteSet(retained) /\ Cardinality(retained) \in Nat
    BY <1>2, Finite
  <2>2. Telemetry(kept) \subseteq kept
    BY DEF Telemetry
  <2>3. IsFiniteSet(kept) /\ Cardinality(kept) <= Cardinality(retained)
    <3> HIDE DEF kept
    <3> QED
      BY <1>1, <2>1, FS_Subset
  <2>4. Cardinality(kept) \in Nat
    <3> HIDE DEF kept
    <3> QED
      BY <2>3, FS_CardinalityType
  <2>5. IsFiniteSet(Telemetry(kept)) /\ Cardinality(Telemetry(kept)) \in Nat
    <3> HIDE DEF kept
    <3> QED
      BY <2>2, <2>3, FS_Subset, FS_CardinalityType
  <2> QED
    BY <1>1, <1>2, <2>1, <2>2, <2>3, <2>4, <2>5
<1>4. /\ Cardinality(Telemetry(kept)) <= TelemetryLimit
      /\ is_telemetry(e) => Cardinality(Telemetry(kept)) < TelemetryLimit
  <2>1. is_telemetry(e) => Cardinality(Telemetry(kept)) < TelemetryLimit
    BY RoomForTelemetry
  <2>2. ~is_telemetry(e) => kept = retained
    OBVIOUS
  <2> HIDE DEF kept
  <2> QED
    BY <1>2, <1>3, <2>1, <2>2, LimitTyped
<1>5. R = CASE ~(Cardinality(kept) >= Capacity) -> kept \cup {new}
            [] Cardinality(kept) >= Capacity /\ Telemetry(kept) # {}
                 -> evict_oldest_telemetry(kept) \cup {new}
            [] Cardinality(kept) >= Capacity /\ Telemetry(kept) = {} /\ ~is_telemetry(e)
                 -> (kept \ {Min(kept)}) \cup {new}
            [] Cardinality(kept) >= Capacity /\ Telemetry(kept) = {} /\ is_telemetry(e)
                 -> kept
  BY DEF Retain
<1>6. Cardinality(retained) >= Capacity /\ Telemetry(retained) = {} => kept = retained
  BY <1>1 DEF Telemetry
<1> HIDE DEF kept, R
<1>7. ASSUME NEW k, k \subseteq kept, R = k \cup {new}
      PROVE  Cardinality(Frames) <= TelemetryLimit
  <2>1. Telemetry(R \ {new}) \subseteq Telemetry(kept)
    BY <1>7 DEF Telemetry
  <2>2. /\ IsFiniteSet(Telemetry(R \ {new}))
        /\ Cardinality(Telemetry(R \ {new})) <= Cardinality(Telemetry(kept))
    BY <1>3, <2>1, FS_Subset
  <2>3. Cardinality(Telemetry(R \ {new})) \in Nat
    BY <2>2, FS_CardinalityType
  <2>4. new \notin Telemetry(R \ {new}) /\ R \cap {new} = {new}
    BY <1>7 DEF Telemetry
  <2>5. Cardinality(Telemetry(R \ {new}) \cup {new}) = Cardinality(Telemetry(R \ {new})) + 1
    BY <2>2, <2>4, FS_AddElement
  <2>6. CASE is_telemetry(e)
    <3>1. Frames = Telemetry(R \ {new}) \cup {new}
      BY <2>4, <2>6
    <3> HIDE DEF Frames
    <3> QED
      BY <1>3, <1>4, <2>2, <2>3, <2>5, <2>6, <3>1, LimitTyped
  <2>7. CASE ~is_telemetry(e)
    <3>1. Frames = Telemetry(R \ {new})
      BY <2>7
    <3> HIDE DEF Frames
    <3> QED
      BY <1>3, <1>4, <2>2, <2>3, <3>1, LimitTyped
  <2> QED
    BY <2>6, <2>7
<1> HIDE DEF Frames
<1>8. CASE ~(Cardinality(kept) >= Capacity)
  <2>1. R = kept \cup {new}
    BY <1>5, <1>8
  <2>2. Cardinality(R) = Cardinality(kept) + 1
    BY <1>3, <2>1, FS_AddElement
  <2>3. Cardinality(Frames) <= TelemetryLimit
    BY <1>7, <2>1
  <2>4. ~(Cardinality(retained) >= Capacity /\ Telemetry(retained) = {})
    BY <1>6, <1>8
  <2>5. Cardinality(R) <= Capacity
    BY <1>2, <1>3, <1>8, <2>2
  <2>6. R \subseteq retained \cup {new} /\ new \in R
    BY <1>1, <2>1
  <2>7. \A i \in retained : ~is_telemetry(history[i]) => i \in R
    BY <1>1, <2>1
  <2> QED
    BY <2>3, <2>4, <2>5, <2>6, <2>7
<1>9. CASE Cardinality(kept) >= Capacity /\ Telemetry(kept) # {}
  <2> DEFINE oldest == Min(Telemetry(kept))
  <2>1. R = (kept \ {oldest}) \cup {new}
    BY <1>5, <1>9 DEF evict_oldest_telemetry
  <2>2. Telemetry(kept) \in SUBSET Nat
    <3>1. retained \subseteq Nat
      BY <1>2
    <3> QED
      BY <1>1, <1>3, <3>1
  <2>3. oldest \in Telemetry(kept)
    BY <1>9, <2>2, OldestEvent
  <2>4. oldest \in kept /\ is_telemetry(history[oldest])
    BY <2>3 DEF Telemetry
  <2> HIDE DEF oldest
  <2>5. IsFiniteSet(kept \ {oldest}) /\ Cardinality(kept \ {oldest}) = Cardinality(kept) - 1
    BY <1>3, <2>4, FS_RemoveElement
  <2>6. new \notin kept \ {oldest}
    BY <1>3
  <2>7. Cardinality((kept \ {oldest}) \cup {new}) = (Cardinality(kept) - 1) + 1
    BY <2>5, <2>6, FS_AddElement
  <2>8. Cardinality(R) <= Capacity
    BY <1>2, <1>3, <2>1, <2>7
  <2>9. Telemetry(retained) # {}
    BY <1>1, <2>4 DEF Telemetry
  <2>10. Cardinality(Frames) <= TelemetryLimit
    BY <1>7, <2>1
  <2>11. R \subseteq retained \cup {new} /\ new \in R
    BY <1>1, <2>1
  <2>12. \A i \in retained : ~is_telemetry(history[i]) => i \in R
    BY <1>1, <2>1, <2>4
  <2> QED
    BY <2>8, <2>9, <2>10, <2>11, <2>12
<1>10. CASE Cardinality(kept) >= Capacity /\ Telemetry(kept) = {} /\ ~is_telemetry(e)
  <2> DEFINE oldest == Min(retained)
  <2>1. kept = retained /\ R = (retained \ {oldest}) \cup {new}
    BY <1>5, <1>10 DEF kept
  <2>2. retained # {}
    <3>1. Cardinality(retained) # 0
      BY <1>2, <1>3, <1>10, <2>1
    <3> QED
      BY <3>1, FS_EmptySet
  <2>3. retained \in SUBSET Nat
    BY <1>2
  <2>4. oldest \in retained
    BY <2>2, <2>3, OldestEvent
  <2>5. R = (retained \ {Min(retained)}) \cup {new}
    BY <2>1
  <2> HIDE DEF oldest
  <2>6. /\ IsFiniteSet(retained \ {oldest})
        /\ Cardinality(retained \ {oldest}) = Cardinality(retained) - 1
    BY <1>3, <2>4, FS_RemoveElement
  <2>7. new \notin retained \ {oldest}
    BY <1>3
  <2>8. Cardinality((retained \ {oldest}) \cup {new}) = (Cardinality(retained) - 1) + 1
    BY <2>6, <2>7, FS_AddElement
  <2>9. Cardinality(R) = Cardinality(retained)
    BY <1>3, <2>1, <2>8
  <2>10. Cardinality(Frames) <= TelemetryLimit
    BY <1>7, <2>1
  <2>11. R \subseteq retained \cup {new} /\ new \in R
    BY <2>1
  <2> QED
    BY <1>2, <1>10, <2>1, <2>2, <2>5, <2>9, <2>10, <2>11
<1>11. CASE Cardinality(kept) >= Capacity /\ Telemetry(kept) = {} /\ is_telemetry(e)
  <2>1. R = kept
    BY <1>5, <1>11
  <2>2. Frames = {}
    BY <1>3, <1>11, <2>1 DEF Frames, Telemetry
  <2>3. Cardinality(Frames) <= TelemetryLimit
    BY <2>2, FS_EmptySet, LimitTyped
  <2>4. Cardinality(R) <= Capacity
    BY <1>2, <1>3, <2>1
  <2> QED
    BY <1>1, <1>6, <1>11, <2>1, <2>3, <2>4
<1> QED
  BY <1>8, <1>9, <1>10, <1>11

\* The buffers, and what they may hold.
BuffersOK ==
  /\ history \in Seq(Events) /\ retained \subseteq 1..Len(history)
  /\ queue \subseteq 1..Len(history) /\ attached \in BOOLEAN
  /\ Cardinality(retained) <= Capacity /\ Cardinality(queue) <= Capacity
  /\ Cardinality(Telemetry(retained)) <= TelemetryLimit

\* The rest of the state.
RestOK ==
  /\ watch \in Watches
  /\ budget \in [events : 0..Burst, security : 0..SecurityBurst]
  /\ wire \in Nat /\ clock \in 0..MaxClock
  /\ agent \in [pending : Seq(0..MaxAge), made : Nat, dropped : Nat]
  /\ boot \in [count : 0..MaxBoots, before : 0..MaxEvents, restarts : 0..MaxBoots]

\* The two together are the types.
LEMMA TwoParts == EventsTypeOK <=> BuffersOK /\ RestOK
  BY DEF EventsTypeOK, BuffersOK, RestOK

\* A new event is the last of the history, and the others stay what they were.
LEMMA NewEvent ==
  ASSUME EventsInv, NEW kind \in Kinds, NEW bytes \in 0..MaxBytes, publish_event(kind, bytes)
  PROVE  LET e == [kind |-> kind, bytes |-> bytes] IN
         /\ e \in Events /\ history' \in Seq(Events)
         /\ Len(history') = Len(history) + 1 /\ history'[Len(history) + 1] = e
         /\ \A i \in 1..Len(history) : history'[i] = history[i]
         /\ Len(history) < MaxEvents
         /\ retained' = Retain(retained, e)
         /\ is_telemetry(e) <=> kind # "control"
<1> DEFINE e == [kind |-> kind, bytes |-> bytes]
<1>1. e \in Events /\ (is_telemetry(e) <=> kind # "control")
  BY DEF Events, is_telemetry
<1>2. history \in Seq(Events)
  BY DEF EventsInv, EventsTypeOK
<1>3. history' = Append(history, e) /\ Len(history) < MaxEvents /\ retained' = Retain(retained, e)
  BY DEF publish_event
<1> HIDE DEF e
<1>4. /\ history' \in Seq(Events) /\ Len(history') = Len(history) + 1
      /\ history'[Len(history) + 1] = e
      /\ \A i \in 1..Len(history) : history'[i] = history[i]
  BY <1>1, <1>2, <1>3
<1> QED
  BY <1>1, <1>3, <1>4 DEF e

\* An event that is published leaves the buffers within their bounds.
LEMMA PublishBuffers ==
  ASSUME EventsInv, NEW kind \in Kinds, NEW bytes \in 0..MaxBytes, publish_event(kind, bytes)
  PROVE  BuffersOK'
<1> DEFINE e == [kind |-> kind, bytes |-> bytes]
           R == retained'
<1>0. PICK new : new = Len(history) + 1
  OBVIOUS
<1>1. /\ e \in Events /\ history' \in Seq(Events) /\ Len(history') = new /\ history'[new] = e
      /\ \A i \in 1..Len(history) : history'[i] = history[i]
      /\ R = Retain(retained, e)
  BY <1>0, NewEvent
<1>2. /\ Len(history) \in Nat
      /\ retained \subseteq 1..Len(history) /\ queue \subseteq 1..Len(history)
      /\ Cardinality(queue) <= Capacity /\ attached \in BOOLEAN /\ Capacity \in Nat
  BY Published, EventsAssumption DEF EventsInv, EventsTypeOK
<1>3. Send(e)
  BY DEF publish_event
<1> HIDE DEF e
<1>4. /\ R \subseteq retained \cup {new} /\ Cardinality(R) <= Capacity
      /\ Cardinality(Telemetry(R \ {new}) \cup (IF is_telemetry(e) THEN R \cap {new} ELSE {}))
           <= TelemetryLimit
  BY <1>0, <1>1, Retained
<1>5. retained' \subseteq 1..Len(history')
  <2> SUFFICES ASSUME NEW i \in retained' PROVE i \in 1..Len(history')
    OBVIOUS
  <2> QED
    BY <1>0, <1>1, <1>2, <1>4
<1>6. Telemetry(retained)' =
        Telemetry(R \ {new}) \cup (IF is_telemetry(e) THEN R \cap {new} ELSE {})
  BY <1>0, <1>1, <1>2, <1>4 DEF Telemetry
<1>7. queue' \subseteq 1..Len(history') /\ attached' \in BOOLEAN
  <2>1. queue' \subseteq queue \cup {new} /\ attached' \in BOOLEAN
    BY <1>0, <1>2, <1>3 DEF Send
  <2> SUFFICES ASSUME NEW i \in queue' PROVE i \in 1..Len(history')
    BY <2>1
  <2> QED
    BY <1>0, <1>1, <1>2, <2>1
<1>8. Cardinality(queue') <= Capacity
  <2>1. IsFiniteSet(queue) /\ Cardinality(queue) \in Nat
    BY <1>0, <1>2, Finite
  <2>2. Cardinality(queue \cup {new}) <= Cardinality(queue) + 1
    <3>1. Cardinality(queue \cup {new}) = IF new \in queue THEN Cardinality(queue)
                                         ELSE Cardinality(queue) + 1
      BY <2>1, FS_AddElement
    <3> QED
      BY <2>1, <3>1
  <2>3. Cardinality(queue \cup {new}) \in Nat
    BY <2>1, FS_AddElement
  <2> QED
    BY <1>0, <1>2, <1>3, <2>1, <2>2, <2>3 DEF Send
<1> QED
  BY <1>1, <1>4, <1>5, <1>6, <1>7, <1>8 DEF BuffersOK

\* Retention gives up a control event only for a newer one, when it is full.
LEMMA PublishRetention ==
  ASSUME EventsInv, NEW kind \in Kinds, NEW bytes \in 0..MaxBytes,
         publish_event(kind, bytes), UNCHANGED boot
  PROVE  RetentionInv'
<1> DEFINE e == [kind |-> kind, bytes |-> bytes]
           R == retained'
<1>0. PICK new : new = Len(history) + 1
  OBVIOUS
<1>1. /\ e \in Events /\ Len(history') = new /\ history'[new] = e
      /\ \A i \in 1..Len(history) : history'[i] = history[i]
      /\ R = Retain(retained, e) /\ Len(history) < MaxEvents
  BY <1>0, NewEvent
<1>2. /\ Len(history) \in Nat /\ boot.before \in Nat /\ boot' = boot /\ MaxEvents \in Nat
      /\ retained \subseteq boot.before + 1..Len(history) /\ boot.before <= Len(history)
      /\ retained \subseteq 1..Len(history)
  <2>1. boot.before \in Nat /\ MaxEvents \in Nat
    BY EventsAssumption DEF EventsInv, EventsTypeOK
  <2> QED
    BY <2>1 DEF EventsInv, RetentionInv
<1> HIDE DEF e
<1>3. /\ R \subseteq retained \cup {new}
      /\ ~is_telemetry(e) => new \in R
      /\ \/ /\ \A i \in retained : ~is_telemetry(history[i]) => i \in R
            /\ Cardinality(retained) >= Capacity /\ Telemetry(retained) = {} => R = retained
         \/ /\ ~is_telemetry(e) /\ Telemetry(retained) = {} /\ retained # {}
            /\ Cardinality(retained) >= Capacity /\ Cardinality(R) >= Capacity
            /\ R = (retained \ {Min(retained)}) \cup {new}
  BY <1>0, <1>1, Retained
<1>4. /\ Len(history') <= MaxEvents /\ boot'.before <= Len(history')
      /\ R \subseteq boot'.before + 1..Len(history')
  <2>1. Len(history') <= MaxEvents /\ boot'.before <= Len(history')
    BY <1>0, <1>1, <1>2
  <2> SUFFICES ASSUME NEW i \in R PROVE i \in boot'.before + 1..Len(history')
    BY <2>1
  <2> QED
    BY <1>0, <1>1, <1>2, <1>3
<1>5. /\ \A i \in 1..Len(history) : Control(i)' <=> Control(i)
      /\ Control(new)' <=> ~is_telemetry(e)
  BY <1>0, <1>1, <1>2 DEF Control
<1>6. Lost' = {i \in boot.before + 1..new : Control(i)' /\ i \notin R}
  BY <1>0, <1>1, <1>2 DEF Lost, Control
<1>7. CASE /\ \A i \in retained : ~is_telemetry(history[i]) => i \in R
           /\ Cardinality(retained) >= Capacity /\ Telemetry(retained) = {} => R = retained
  <2>1. Lost' \subseteq Lost
    <3> SUFFICES ASSUME NEW i \in Lost'
                 PROVE  i \in Lost
      OBVIOUS
    <3>1. i \in boot.before + 1..new /\ Control(i)' /\ i \notin R
      BY <1>6
    <3>2. i # new
      BY <1>3, <1>5, <3>1
    <3>3. i \in boot.before + 1..Len(history) /\ Control(i)
      BY <1>0, <1>2, <1>5, <3>1, <3>2
    <3>4. i \notin retained
      BY <1>7, <3>1, <3>3 DEF Control
    <3> QED
      BY <3>3, <3>4 DEF Lost
  <2>2. CASE Lost = {}
    BY <1>4, <2>1, <2>2 DEF RetentionInv
  <2>3. CASE Lost # {}
    <3>1. /\ Cardinality(retained) >= Capacity
          /\ \A j \in retained : Control(j) /\ \A i \in Lost : i < j
      BY <2>3 DEF EventsInv, RetentionInv
    <3>2. R = retained
      BY <1>7, <3>1 DEF Telemetry, Control
    <3>3. \A j \in R : Control(j)' /\ \A i \in Lost' : i < j
      BY <1>0, <1>2, <1>5, <2>1, <3>1, <3>2
    <3> QED
      BY <1>4, <3>1, <3>2, <3>3 DEF RetentionInv
  <2> QED
    BY <2>2, <2>3
<1>8. CASE /\ ~is_telemetry(e) /\ Telemetry(retained) = {} /\ retained # {}
           /\ Cardinality(retained) >= Capacity /\ Cardinality(R) >= Capacity
           /\ R = (retained \ {Min(retained)}) \cup {new}
  <2>1. retained \in SUBSET Nat
    BY <1>0, <1>2
  <2>2. Min(retained) \in retained /\ \A y \in retained : Min(retained) <= y
    BY <1>8, <2>1, OldestEvent
  <2>3. \A i \in retained : Control(i)
    BY <1>0, <1>2, <1>8 DEF Telemetry, Control
  <2>4. Lost' \subseteq Lost \cup {Min(retained)}
    <3> SUFFICES ASSUME NEW i \in Lost', i # Min(retained)
                 PROVE  i \in Lost
      OBVIOUS
    <3>1. i \in boot.before + 1..new /\ Control(i)' /\ i \notin R
      BY <1>6
    <3>2. i # new /\ i \notin retained
      BY <1>8, <3>1
    <3>3. i \in boot.before + 1..Len(history) /\ Control(i)
      BY <1>0, <1>2, <1>5, <3>1, <3>2
    <3> QED
      BY <3>2, <3>3 DEF Lost
  <2>5. \A i \in Lost, j \in retained : i < j
    BY DEF EventsInv, RetentionInv
  <2>6. \A i \in Lost \cup {Min(retained)} : i \in 1..Len(history)
    BY <1>0, <1>2, <2>2 DEF Lost
  <2>7. ASSUME NEW j \in R, NEW i \in Lost'
        PROVE  i < j
    <3>1. CASE j = new
      BY <1>0, <1>2, <2>4, <2>6, <3>1
    <3>2. CASE j # new
      <4>1. j \in retained /\ j # Min(retained)
        BY <1>8, <3>2
      <4> QED
        BY <1>0, <1>2, <2>1, <2>2, <2>4, <2>5, <2>6, <4>1
    <3> QED
      BY <3>1, <3>2
  <2>8. \A j \in R : Control(j)'
    <3> SUFFICES ASSUME NEW j \in R PROVE Control(j)'
      OBVIOUS
    <3> QED
      BY <1>0, <1>2, <1>5, <1>8, <2>3
  <2> QED
    BY <1>4, <1>8, <2>7, <2>8 DEF RetentionInv
<1> QED
  BY <1>3, <1>7, <1>8

\* The fields of the watch.
LEMMA WatchTyped ==
  ASSUME EventsInv
  PROVE  /\ watch \in Watches /\ MaxEvents \in Nat
         /\ watch.cursor \in 0..MaxEvents /\ watch.listed \in 0..MaxEvents
         /\ watch.cursor <= Len(history) /\ watch.listed <= Len(history)
<1>1. watch \in Watches /\ MaxEvents \in Nat
  BY EventsAssumption DEF EventsInv, EventsTypeOK
<1>2. watch.cursor \in 0..MaxEvents /\ watch.listed \in 0..MaxEvents
  BY <1>1 DEF Watches
<1> QED
  BY <1>1, <1>2 DEF EventsInv, StreamInv

\* A control event reaches a stream that is read, or detaches it.
LEMMA PublishStream ==
  ASSUME EventsInv, NEW kind \in Kinds, NEW bytes \in 0..MaxBytes,
         publish_event(kind, bytes), UNCHANGED watch
  PROVE  StreamInv' /\ ControlNotSkipped'
<1> DEFINE e == [kind |-> kind, bytes |-> bytes]
<1>0. PICK new : new = Len(history) + 1
  OBVIOUS
<1>1. /\ Len(history') = new /\ history'[new] = e /\ (is_telemetry(e) <=> kind # "control")
      /\ \A i \in 1..Len(history) : history'[i] = history[i]
  BY <1>0, NewEvent
<1>2. /\ Len(history) \in Nat /\ queue \subseteq 1..Len(history) /\ attached \in BOOLEAN
      /\ watch.cursor <= Len(history) /\ watch.cursor \in Nat /\ watch' = watch
      /\ watch.listed <= Len(history) /\ watch.listed \in Nat
  BY Published, WatchTyped DEF EventsInv, EventsTypeOK
<1>3. /\ queue' = IF attached /\ ~Yields(e) /\ Cardinality(queue) < Capacity
                  THEN queue \cup {new} ELSE queue
      /\ attached' = (attached /\ (Yields(e) \/ Cardinality(queue) < Capacity))
      /\ kind = "control" => ~Yields(e)
  BY <1>0 DEF publish_event, Send, Yields
<1> HIDE DEF e
<1>4. /\ \A i \in 1..Len(history) : Control(i)' <=> Control(i)
      /\ Control(new)' <=> kind = "control"
  BY <1>0, <1>1, <1>2 DEF Control
<1>5. ControlNotSkipped'
  BY <1>0, <1>2, <1>4 DEF EventsInv, ControlNotSkipped, Control
<1>6. watch'.cursor <= Len(history') /\ watch'.listed <= Len(history')
  BY <1>0, <1>1, <1>2
<1>7. ASSUME NEW i \in 1..new, Owed(i)'
      PROVE  i \in queue' \/ (~attached' /\ \A q \in queue' : q < i)
  <2>1. CASE i # new
    <3>1. i \in 1..Len(history) /\ Owed(i)
      BY <1>0, <1>2, <1>4, <1>7, <2>1 DEF Owed, Missing
    <3>2. i \in queue \/ (~attached /\ \A q \in queue : q < i)
      BY <1>7, <3>1 DEF EventsInv, StreamInv
    <3> QED
      BY <1>3, <3>2
  <2>2. CASE i = new
    <3>1. ~Yields(e)
      BY <1>3, <1>4, <1>7, <2>2 DEF Owed, Missing
    <3>2. \A q \in queue : q < new
      BY <1>0, <1>2
    <3> QED
      BY <1>3, <2>2, <3>1, <3>2
  <2> QED
    BY <2>1, <2>2
<1>8. StreamInv'
  BY <1>0, <1>1, <1>2, <1>6, <1>7 DEF EventsInv, StreamInv
<1> QED
  BY <1>5, <1>8

\* Events of the connections and of the commands.
LEMMA PublishControlInv ==
  ASSUME EventsInv, PublishControl
  PROVE  EventsInv'
<1>1. publish_event("control", 0) /\ UNCHANGED <<watch, budget, wire, agent, boot, clock>>
  BY DEF PublishControl
<1>2. "control" \in Kinds /\ 0 \in 0..MaxBytes
  BY EventsAssumption DEF Kinds
<1>3. BuffersOK' /\ RetentionInv' /\ StreamInv' /\ ControlNotSkipped'
  BY <1>1, <1>2, PublishBuffers, PublishRetention, PublishStream
<1>4. RestOK'
  BY <1>1, TwoParts DEF EventsInv, RestOK
<1> QED
  BY <1>3, <1>4, TwoParts DEF EventsInv, EventsTypeOK, BuffersOK, RestOK

-----------------------------------------------------------------------------
(* Telemetry                                                               *)

\* A step that leaves the events and their buffers alone.
LEMMA KeptEvents ==
  ASSUME EventsInv, UNCHANGED <<history, retained, queue, attached, watch, boot>>
  PROVE  BuffersOK' /\ RetentionInv' /\ StreamInv' /\ ControlNotSkipped'
<1>1. BuffersOK'
  BY DEF EventsInv, EventsTypeOK, BuffersOK, Telemetry
<1>2. RetentionInv'
  BY DEF EventsInv, RetentionInv, Lost, Control
<1>3. StreamInv' /\ ControlNotSkipped'
  BY DEF EventsInv, StreamInv, Owed, Missing, ControlNotSkipped, Control
<1> QED
  BY <1>1, <1>2, <1>3

\* What is left of a buffer without its first frames.
LEMMA Suffix ==
  ASSUME NEW S, NEW s \in Seq(S), NEW k \in Nat
  PROVE  SubSeq(s, k + 1, Len(s)) \in Seq(S)
<1>1. Len(s) \in Int /\ k + 1 \in Int
  OBVIOUS
<1>2. \A i \in k + 1..Len(s) : s[i] \in S
  <2> SUFFICES ASSUME NEW i \in k + 1..Len(s) PROVE s[i] \in S
    OBVIOUS
  <2>1. i \in 1..Len(s)
    BY <1>1
  <2> QED
    BY <2>1
<1> QED
  BY <1>1, <1>2

\* A heartbeat stores a batch and writes what is pending.
LEMMA HeartbeatInv ==
  ASSUME EventsInv, NEW sent \in 0..DrainLimit, Heartbeat(sent)
  PROVE  EventsInv'
<1> DEFINE P == agent.pending
           expired == Cardinality(Expired(P))
           kept == prune_expired_telemetry(P)
           p == Append(kept, 0)
           over == IF Len(p) > MaxPending THEN Len(p) - MaxPending ELSE 0
           stored == SubSeq(p, over + 1, Len(p))
<1>1. /\ P \in Seq(0..MaxAge) /\ agent.dropped \in Nat /\ agent.made \in Nat
      /\ MaxPending \in Nat /\ 0 \in 0..MaxAge /\ Len(P) \in Nat
  BY EventsAssumption DEF EventsInv, EventsTypeOK
<1>2. expired \in Nat
  <2>1. Expired(P) \in SUBSET (1..Len(P))
    BY <1>1 DEF Expired
  <2> QED
    BY <1>1, <2>1, Finite
<1>3. kept \in Seq(0..MaxAge)
  <2> HIDE DEF expired
  <2>1. SubSeq(P, expired + 1, Len(P)) \in Seq(0..MaxAge)
    BY <1>1, <1>2, Suffix
  <2> QED
    BY <2>1 DEF prune_expired_telemetry, expired
<1>4. p \in Seq(0..MaxAge) /\ Len(p) \in Nat
  <2> HIDE DEF kept
  <2> QED
    BY <1>1, <1>3
<1>5. over \in Nat
  <2> HIDE DEF p
  <2> QED
    BY <1>1, <1>4
<1>6. stored \in Seq(0..MaxAge)
  <2> HIDE DEF p, over
  <2> QED
    BY <1>4, <1>5, Suffix
<1>7. SubSeq(stored, sent + 1, Len(stored)) \in Seq(0..MaxAge)
  <2> HIDE DEF stored
  <2>1. sent \in Nat
    OBVIOUS
  <2> QED
    BY <1>6, <2>1, Suffix
<1>8. agent' \in [pending : Seq(0..MaxAge), made : Nat, dropped : Nat]
  <2>1. enqueue_telemetry = [agent EXCEPT !.pending = stored, !.made = @ + 1,
                                          !.dropped = @ + expired + over]
    BY DEF enqueue_telemetry
  <2>2. agent' = acknowledge_telemetry(enqueue_telemetry, sent)
    BY DEF Heartbeat
  <2> HIDE DEF stored, over, expired
  <2>3. agent \in [pending : Seq(0..MaxAge), made : Nat, dropped : Nat]
    BY DEF EventsInv, EventsTypeOK
  <2>4. agent.made + 1 \in Nat /\ agent.dropped + expired + over \in Nat
    BY <1>1, <1>2, <1>5
  <2>5. enqueue_telemetry = [pending |-> stored, made |-> agent.made + 1,
                             dropped |-> agent.dropped + expired + over]
    BY <2>1, <2>3
  <2>6. agent' = [pending |-> SubSeq(stored, sent + 1, Len(stored)), made |-> agent.made + 1,
                  dropped |-> agent.dropped + expired + over]
    BY <2>2, <2>5 DEF acknowledge_telemetry
  <2> QED
    BY <1>7, <2>4, <2>6
<1>9. wire' \in Nat
  BY DEF Heartbeat, EventsInv, EventsTypeOK
<1>10. UNCHANGED <<history, retained, queue, attached, watch, budget, boot, clock>>
  BY DEF Heartbeat
<1>11. RestOK'
  BY <1>8, <1>9, <1>10 DEF EventsInv, EventsTypeOK, RestOK
<1>12. BuffersOK' /\ RetentionInv' /\ StreamInv' /\ ControlNotSkipped'
  BY <1>10, KeptEvents
<1> QED
  BY <1>11, <1>12 DEF EventsInv, EventsTypeOK, BuffersOK, RestOK

\* A node over its budget is disconnected.
LEMMA TelemetryRefusedInv ==
  ASSUME EventsInv, TelemetryRefused
  PROVE  EventsInv'
<1>1. RestOK'
  BY DEF EventsInv, EventsTypeOK, RestOK, TelemetryRefused
<1>2. BuffersOK' /\ RetentionInv' /\ StreamInv' /\ ControlNotSkipped'
  BY KeptEvents DEF TelemetryRefused
<1> QED
  BY <1>1, <1>2 DEF EventsInv, EventsTypeOK, BuffersOK, RestOK

\* A frame is charged, and published when it arrives.
LEMMA MonitorTelemetryInv ==
  ASSUME EventsInv, NEW bytes \in Sizes, NEW claimed \in BOOLEAN, NEW arrives \in BOOLEAN,
         MonitorTelemetry(bytes, claimed, arrives)
  PROVE  EventsInv'
<1> DEFINE kind == IF claimed /\ claim_security_priority(budget).granted
                   THEN "security" ELSE "routine"
<1>1. kind \in Kinds /\ bytes \in 0..MaxBytes
  BY EventsAssumption DEF Kinds
<1>2. RestOK'
  <2>1. budget \in [events : 0..Burst, security : 0..SecurityBurst] /\ wire \in Nat
    BY DEF EventsInv, EventsTypeOK
  <2>2. budget.events \in 0..Burst /\ budget.security \in 0..SecurityBurst
        /\ Burst \in Nat /\ SecurityBurst \in Nat
    BY <2>1, EventsAssumption
  <2>3. claim_security_priority(budget).left \in 0..SecurityBurst
    BY <2>2 DEF claim_security_priority
  <2>4. budget.events > 0 /\ budget.events - 1 \in 0..Burst
    BY <2>2 DEF MonitorTelemetry
  <2>5. budget' = [events |-> budget.events - 1,
                   security |-> IF claimed /\ arrives THEN claim_security_priority(budget).left
                                ELSE budget.security]
    BY DEF MonitorTelemetry
  <2>6. budget' \in [events : 0..Burst, security : 0..SecurityBurst]
    BY <2>2, <2>3, <2>4, <2>5
  <2>7. wire' \in Nat
    BY <2>1 DEF MonitorTelemetry
  <2> QED
    BY <2>6, <2>7 DEF EventsInv, EventsTypeOK, RestOK, MonitorTelemetry
<1>3. UNCHANGED <<watch, boot>>
  BY DEF MonitorTelemetry
<1>4. CASE arrives
  <2>1. publish_event(kind, bytes)
    BY <1>4 DEF MonitorTelemetry
  <2> HIDE DEF kind
  <2>2. BuffersOK' /\ RetentionInv' /\ StreamInv' /\ ControlNotSkipped'
    BY <1>1, <1>3, <2>1, PublishBuffers, PublishRetention, PublishStream
  <2> QED
    BY <1>2, <2>2 DEF EventsInv, EventsTypeOK, BuffersOK, RestOK
<1>5. CASE ~arrives
  <2>1. BuffersOK' /\ RetentionInv' /\ StreamInv' /\ ControlNotSkipped'
    BY <1>3, <1>5, KeptEvents DEF MonitorTelemetry
  <2> QED
    BY <1>2, <2>1 DEF EventsInv, EventsTypeOK, BuffersOK, RestOK
<1> QED
  BY <1>4, <1>5

\* Buckets fill and frames age.
LEMMA TickInv ==
  ASSUME EventsInv, Tick
  PROVE  EventsInv'
<1>1. agent' \in [pending : Seq(0..MaxAge), made : Nat, dropped : Nat]
  <2> DEFINE P == agent.pending
             aged == [i \in DOMAIN P |-> IF P[i] < MaxAge THEN P[i] + 1 ELSE MaxAge]
  <2>1. P \in Seq(0..MaxAge) /\ MaxAge \in Nat /\ Len(P) \in Nat
    BY EventsAssumption DEF EventsInv, EventsTypeOK
  <2>2. aged = [i \in 1..Len(P) |-> IF P[i] < MaxAge THEN P[i] + 1 ELSE MaxAge]
    BY <2>1
  <2>3. \A i \in 1..Len(P) : (IF P[i] < MaxAge THEN P[i] + 1 ELSE MaxAge) \in 0..MaxAge
    BY <2>1
  <2>4. aged \in [1..Len(P) -> 0..MaxAge]
    BY <2>2, <2>3
  <2>5. aged \in Seq(0..MaxAge)
    <3> HIDE DEF aged
    <3> QED
      BY <2>1, <2>4
  <2>6. agent' = [agent EXCEPT !.pending = aged]
    BY DEF Tick
  <2> HIDE DEF aged, P
  <2> QED
    BY <2>5, <2>6 DEF EventsInv, EventsTypeOK
<1>2. RestOK'
  <2>1. budget.events \in 0..Burst /\ budget.security \in 0..SecurityBurst
        /\ Burst \in Nat /\ SecurityBurst \in Nat /\ MaxClock \in Nat
    BY EventsAssumption DEF EventsInv, EventsTypeOK
  <2>2. budget' \in [events : 0..Burst, security : 0..SecurityBurst]
    BY <2>1 DEF Tick
  <2>3. clock' \in 0..MaxClock
    <3>1. clock \in 0..MaxClock
      BY DEF EventsInv, EventsTypeOK
    <3>2. clock < MaxClock /\ clock' = clock + 1
      BY DEF Tick
    <3> QED
      BY <2>1, <3>1, <3>2
  <2> QED
    BY <1>1, <2>2, <2>3 DEF EventsInv, EventsTypeOK, RestOK, Tick
<1>3. BuffersOK' /\ RetentionInv' /\ StreamInv' /\ ControlNotSkipped'
  BY KeptEvents DEF Tick
<1> QED
  BY <1>2, <1>3 DEF EventsInv, EventsTypeOK, BuffersOK, RestOK

-----------------------------------------------------------------------------
(* The watch                                                               *)

\* A step of the watch alone leaves what is retained.
LEMMA KeptRetention ==
  ASSUME EventsInv, UNCHANGED <<history, retained, boot>>
  PROVE  /\ RetentionInv' /\ history' \in Seq(Events) /\ retained' \subseteq 1..Len(history')
         /\ Cardinality(retained') <= Capacity
         /\ Cardinality(Telemetry(retained)') <= TelemetryLimit
         /\ \A i : Control(i)' <=> Control(i)
  BY DEF EventsInv, EventsTypeOK, RetentionInv, Lost, Control, Telemetry

\* What was retained first shows what is retained after it: every control event.
LEMMA RetainedAfter ==
  ASSUME EventsInv, NEW j \in retained, NEW i, Control(i), i >= j
  PROVE  i \in retained
<1>1. /\ i \in 1..Len(history) /\ j \in boot.before + 1..Len(history) /\ boot.before \in Nat
      /\ Len(history) \in Nat
  BY DEF Control, EventsInv, EventsTypeOK, RetentionInv
<1>2. ASSUME i \notin retained
      PROVE  FALSE
  <2>1. i \in Lost
    BY <1>1, <1>2 DEF Lost
  <2>2. i < j
    BY <2>1 DEF EventsInv, RetentionInv
  <2> QED
    BY <1>1, <2>2
<1> QED
  BY <1>2

\* A part of what is retained fits the queue of a subscriber.
LEMMA BacklogFits ==
  ASSUME EventsInv, NEW S \in SUBSET retained
  PROVE  S \subseteq 1..Len(history) /\ Cardinality(S) <= Capacity
<1>1. IsFiniteSet(retained) /\ Cardinality(retained) \in Nat /\ Cardinality(retained) <= Capacity
  BY Published, Finite DEF EventsInv, EventsTypeOK
<1>2. IsFiniteSet(S) /\ Cardinality(S) <= Cardinality(retained)
  BY <1>1, FS_Subset
<1>3. Cardinality(S) \in Nat
  BY <1>2, FS_CardinalityType
<1> QED
  BY <1>1, <1>2, <1>3, Published, EventsAssumption

\* The stream is opened after the cursor, or the cursor is gone.
LEMMA WatchOnceInv ==
  ASSUME EventsInv, WatchOnce
  PROVE  EventsInv'
<1>1. UNCHANGED <<history, retained, budget, wire, agent, boot, clock>>
  BY DEF WatchOnce
<1>2. /\ Len(history) \in Nat /\ retained \subseteq 1..Len(history) /\ Len(history) <= MaxEvents
      /\ watch \in Watches
      /\ watch.cursor <= Len(history) /\ watch.cursor \in Nat /\ MaxEvents \in Nat
  <2>1. Len(history) <= MaxEvents /\ watch.cursor <= Len(history)
    BY DEF EventsInv, RetentionInv, StreamInv
  <2>2. watch \in Watches
    BY DEF EventsInv, EventsTypeOK
  <2> QED
    BY <2>1, <2>2, Published, EventsAssumption DEF Watches
<1>3. CASE ~CursorKnown(watch.cursor)
  <2>1. watch' = [watch EXCEPT !.stage = "gap"] /\ UNCHANGED <<queue, attached>>
    BY <1>3 DEF WatchOnce
  <2>2. /\ watch'.stage = "gap" /\ watch'.cursor = watch.cursor /\ watch'.fresh = watch.fresh
        /\ watch'.seen = watch.seen /\ watch'.covered = watch.covered
        /\ watch'.blind = watch.blind /\ watch'.listed = watch.listed
    BY <1>2, <2>1
  <2>3. RestOK'
    BY <1>1, <1>2, <2>1 DEF EventsInv, EventsTypeOK, RestOK, WatchStages, Watches
  <2>4. BuffersOK'
    BY <1>1, <2>1, KeptRetention DEF EventsInv, EventsTypeOK, BuffersOK
  <2>5. StreamInv' /\ ControlNotSkipped'
    BY <1>1, <2>2, KeptRetention DEF EventsInv, StreamInv, Owed, ControlNotSkipped
  <2> QED
    BY <1>1, <2>3, <2>4, <2>5, KeptRetention
       DEF EventsInv, EventsTypeOK, BuffersOK, RestOK
<1>4. CASE CursorKnown(watch.cursor)
  <2> DEFINE blind == IF watch.fresh THEN BeforeRetained ELSE watch.blind
  <2>1. /\ queue' = Backlog(watch.cursor) /\ attached' = TRUE
        /\ watch' = [watch EXCEPT !.stage = "watching", !.blind = blind]
    BY <1>2, <1>4 DEF WatchOnce, Resume
  <2>2. PICK m : m = Min(retained)
    OBVIOUS
  <2>3. retained # {} => m \in retained /\ \A y \in retained : m <= y
    <3>1. retained \in SUBSET Nat
      BY <1>2
    <3> QED
      BY <2>2, <3>1, OldestEvent
  <2>3a. BeforeRetained = IF retained = {} THEN Len(history) ELSE m - 1
    BY <2>2 DEF BeforeRetained
  <2>3b. BeforeRetained \in 0..MaxEvents
    <3>1. CASE retained = {}
      BY <1>2, <2>3a, <3>1
    <3>2. CASE retained # {}
      <4>1. m \in 1..Len(history)
        BY <1>2, <2>3, <3>2
      <4> QED
        BY <1>2, <2>3a, <3>2, <4>1
    <3> QED
      BY <3>1, <3>2
  <2>4. blind \in 0..MaxEvents
    BY <1>2, <2>3b DEF Watches
  <2>5. /\ watch'.stage = "watching" /\ watch'.cursor = watch.cursor
        /\ watch'.seen = watch.seen /\ watch'.covered = watch.covered
        /\ watch'.blind = blind /\ watch'.listed = watch.listed /\ watch'.fresh = watch.fresh
    <3> HIDE DEF blind
    <3> QED
      BY <1>2, <2>1
  <2>6. RestOK'
    <3> HIDE DEF blind
    <3> QED
      BY <1>1, <1>2, <2>1, <2>4 DEF EventsInv, EventsTypeOK, RestOK, WatchStages, Watches
  <2>7. queue' \subseteq 1..Len(history') /\ Cardinality(queue') <= Capacity
    BY <1>1, <2>1, BacklogFits DEF Backlog
  <2>8. BuffersOK'
    BY <1>1, <2>1, <2>7, KeptRetention DEF BuffersOK
  <2>9. ControlNotSkipped'
    BY <1>1, <1>2, <2>5, KeptRetention DEF EventsInv, StreamInv, ControlNotSkipped
  <2>10. ASSUME NEW i \in 1..Len(history), Control(i), i \notin watch.seen,
                i > watch.covered, i > blind
         PROVE  i \in queue'
    <3>1. CASE watch.fresh
      <4>1. blind = BeforeRetained
        BY <3>1
      <4>2. retained # {}
        BY <1>2, <2>3a, <2>10, <4>1
      <4>3. i >= m /\ m \in retained
        <5>1. m \in retained /\ m \in Nat
          <6>1. m \in retained
            BY <2>3, <4>2
          <6>2. m \in 1..Len(history)
            BY <1>2, <6>1
          <6> QED
            BY <1>2, <6>1, <6>2
        <5>2. i > m - 1
          BY <2>3a, <2>10, <4>1, <4>2
        <5> HIDE DEF blind
        <5> QED
          BY <5>1, <5>2
      <4>4. i \in retained
        BY <2>10, <4>3, RetainedAfter
      <4> QED
        BY <1>2, <2>1, <3>1, <4>4 DEF Backlog, EventsInv, StreamInv
    <3>2. CASE ~watch.fresh
      <4>1. watch.cursor \in retained /\ blind = watch.blind
        BY <1>4, <3>2 DEF CursorKnown, EventsInv, StreamInv, WatchOnce
      <4>2. i > watch.cursor
        BY <1>2, <2>10, <4>1 DEF EventsInv, ControlNotSkipped, Watches
      <4>3. i \in retained
        BY <1>2, <2>10, <4>1, <4>2, RetainedAfter
      <4> QED
        BY <2>1, <4>2, <4>3 DEF Backlog
    <3> QED
      BY <3>1, <3>2
  <2>11. StreamInv'
    <3> HIDE DEF blind
    <3> QED
      BY <1>1, <1>2, <2>5, <2>10, KeptRetention
         DEF EventsInv, StreamInv, Owed, Missing, WatchOnce
  <2> QED
    BY <1>1, <2>6, <2>8, <2>9, <2>11, KeptRetention
       DEF EventsInv, EventsTypeOK, BuffersOK, RestOK
<1> QED
  BY <1>3, <1>4

\* A step that changes the stage of the watch and the stream, to one that is not
\* read yet.
LEMMA NotRead ==
  ASSUME EventsInv, NEW stage \in {"idle", "gap"}, watch.stage \in WatchStages,
         stage = "idle" => watch.stage \in {"idle", "watching"},
         watch' = [watch EXCEPT !.stage = stage],
         UNCHANGED <<history, retained, budget, wire, agent, boot, clock>>,
         queue' \in SUBSET retained, attached' \in BOOLEAN
  PROVE  EventsInv'
<1>1. watch \in Watches
  BY DEF EventsInv, EventsTypeOK
<1>2. /\ watch'.stage = stage /\ watch'.cursor = watch.cursor /\ watch'.fresh = watch.fresh
      /\ watch'.seen = watch.seen /\ watch'.covered = watch.covered
      /\ watch'.blind = watch.blind /\ watch'.listed = watch.listed
  BY <1>1
<1>3. RestOK'
  BY <1>1 DEF EventsInv, EventsTypeOK, RestOK, WatchStages, Watches
<1>4. BuffersOK'
  BY BacklogFits, KeptRetention DEF BuffersOK
<1>5. StreamInv' /\ ControlNotSkipped'
  BY <1>2, KeptRetention DEF EventsInv, StreamInv, Owed, ControlNotSkipped
<1> QED
  BY <1>3, <1>4, <1>5, KeptRetention DEF EventsInv, EventsTypeOK, BuffersOK, RestOK

\* A stream without a cursor is opened: it holds what comes after this.
LEMMA SubscribeGapInv ==
  ASSUME EventsInv, SubscribeGap
  PROVE  EventsInv'
<1>1. UNCHANGED <<history, retained, budget, wire, agent, boot, clock>>
      /\ queue' = retained /\ attached' = TRUE
  BY DEF SubscribeGap
<1>2. /\ Len(history) \in Nat /\ Len(history) <= MaxEvents /\ MaxEvents \in Nat
      /\ watch.cursor <= Len(history) /\ watch \in Watches
  BY EventsAssumption DEF EventsInv, EventsTypeOK, RetentionInv, StreamInv
<1>3. watch' = [watch EXCEPT !.stage = "subscribed", !.listed = Len(history)]
  BY DEF SubscribeGap
<1>4. /\ watch'.stage = "subscribed" /\ watch'.cursor = watch.cursor /\ watch'.fresh = watch.fresh
      /\ watch'.seen = watch.seen /\ watch'.covered = watch.covered
      /\ watch'.blind = watch.blind /\ watch'.listed = Len(history)
  BY <1>2, <1>3
<1>5. RestOK'
  <2>1. "subscribed" \in WatchStages /\ Len(history) \in 0..MaxEvents
    BY <1>2 DEF WatchStages
  <2>2. watch' \in Watches
    BY <1>2, <1>3, <2>1 DEF Watches
  <2> QED
    BY <1>1, <2>2 DEF EventsInv, EventsTypeOK, RestOK
<1>6. BuffersOK'
  BY <1>1, KeptRetention DEF BuffersOK
<1>7. StreamInv' /\ ControlNotSkipped'
  BY <1>1, <1>2, <1>4, KeptRetention DEF EventsInv, StreamInv, Owed, ControlNotSkipped
<1> QED
  BY <1>1, <1>5, <1>6, <1>7, KeptRetention DEF EventsInv, EventsTypeOK, RestOK

\* The stream ends.
LEMMA StreamEndsInv ==
  ASSUME EventsInv, StreamEnds
  PROVE  EventsInv'
<1> DEFINE stage == IF watch.stage = "watching" THEN "idle" ELSE "gap"
<1>1. /\ watch' = [watch EXCEPT !.stage = stage] /\ stage \in {"idle", "gap"}
      /\ stage = "idle" => watch.stage \in {"idle", "watching"}
      /\ watch.stage \in WatchStages
  BY DEF StreamEnds, WatchStages
<1>2. queue' \in SUBSET retained /\ attached' \in BOOLEAN
  BY DEF StreamEnds
<1> HIDE DEF stage
<1> QED
  BY <1>1, <1>2, NotRead DEF StreamEnds

\* The inventory covers what was published so far.
LEMMA ReconcileGapInv ==
  ASSUME EventsInv, ReconcileGap
  PROVE  EventsInv'
<1>1. UNCHANGED <<history, retained, queue, attached, budget, wire, agent, boot, clock>>
  BY DEF ReconcileGap
<1>2. /\ Len(history) \in Nat /\ MaxEvents \in Nat /\ watch.listed \in 0..MaxEvents
      /\ watch \in Watches /\ watch.stage = "subscribed"
  BY Published, EventsAssumption DEF EventsInv, EventsTypeOK, ReconcileGap, Watches
<1>3. watch' = [watch EXCEPT !.stage = "protected", !.cursor = 0,
                             !.covered = watch.listed, !.listed = 0]
  BY DEF ReconcileGap
<1>4. /\ watch'.stage = "protected" /\ watch'.cursor = 0 /\ watch'.fresh = watch.fresh
      /\ watch'.seen = watch.seen /\ watch'.covered = watch.listed
      /\ watch'.blind = watch.blind /\ watch'.listed = 0
  BY <1>2, <1>3
<1>5. RestOK'
  <2>1. "protected" \in WatchStages /\ 0 \in 0..MaxEvents
    BY <1>2 DEF WatchStages
  <2>2. watch' \in Watches
    BY <1>2, <1>3, <2>1 DEF Watches
  <2> QED
    BY <1>1, <2>2 DEF EventsInv, EventsTypeOK, RestOK
<1>6. BuffersOK'
  BY <1>1, KeptRetention DEF EventsInv, EventsTypeOK, BuffersOK
<1>7. StreamInv' /\ ControlNotSkipped'
  <2>1. \A i \in 1..Len(history) : Missing(i)' => Owed(i)
    BY <1>1, <1>2, <1>4, KeptRetention DEF Missing, Owed
  <2> QED
    BY <1>1, <1>2, <1>4, <2>1 DEF EventsInv, StreamInv, Owed, ControlNotSkipped
<1> QED
  BY <1>1, <1>5, <1>6, <1>7, KeptRetention DEF EventsInv, EventsTypeOK, RestOK

\* The oldest event of the queue is ingested: nothing the Controller misses is older.
LEMMA IngestInv ==
  ASSUME EventsInv, Ingest
  PROVE  EventsInv'
<1>1. UNCHANGED <<history, retained, attached, budget, wire, agent, boot, clock>>
  BY DEF Ingest
<1>2. /\ Len(history) \in Nat /\ Len(history) <= MaxEvents /\ MaxEvents \in Nat
      /\ queue \subseteq 1..Len(history) /\ queue # {} /\ Cardinality(queue) <= Capacity
      /\ watch \in Watches
      /\ watch.stage \in {"watching", "protected"} /\ attached \in BOOLEAN
  BY Published, EventsAssumption DEF EventsInv, EventsTypeOK, RetentionInv, Ingest
<1>3. PICK m : m = Min(queue)
  OBVIOUS
<1>4. m \in queue /\ \A y \in queue : m <= y
  <2>1. queue \in SUBSET Nat
    BY <1>2
  <2> QED
    BY <1>2, <1>3, <2>1, OldestEvent
<1> DEFINE seen == IF is_telemetry(history[m]) THEN watch.seen ELSE watch.seen \cup {m}
<1>5. queue' = queue \ {m} /\ watch' = [watch EXCEPT !.cursor = m, !.fresh = FALSE, !.seen = seen]
  BY <1>2, <1>3 DEF Ingest
<1>6. seen \in SUBSET (1..MaxEvents) /\ m \in 0..MaxEvents /\ m # 0
  BY <1>2, <1>4 DEF Watches
<1>7. /\ watch'.stage = watch.stage /\ watch'.cursor = m
      /\ watch'.seen = seen /\ watch'.covered = watch.covered /\ watch'.fresh = FALSE
      /\ watch'.blind = watch.blind /\ watch'.listed = watch.listed
  <2> HIDE DEF seen
  <2> QED
    BY <1>2, <1>5
<1>8. RestOK'
  <2> HIDE DEF seen
  <2> QED
    BY <1>1, <1>2, <1>5, <1>6 DEF EventsInv, EventsTypeOK, RestOK, Watches
<1>9. Cardinality(queue') <= Capacity
  <2>1. IsFiniteSet(queue) /\ Cardinality(queue) \in Nat
    BY <1>2, Finite
  <2>2. Cardinality(queue \ {m}) = Cardinality(queue) - 1
    BY <1>4, <2>1, FS_RemoveElement
  <2> QED
    BY <1>2, <1>5, <2>1, <2>2, EventsAssumption
<1>10. BuffersOK'
  BY <1>1, <1>2, <1>5, <1>9, KeptRetention DEF BuffersOK
<1>11. \A i \in 1..Len(history) : Missing(i) => i >= m
  BY <1>2, <1>4 DEF EventsInv, StreamInv, Owed
<1>12. ControlNotSkipped'
  <2> SUFFICES ASSUME NEW i \in 1..m, Control(i), i \notin seen, ~(i <= watch.covered),
                      ~(i <= watch.blind)
               PROVE  FALSE
    BY <1>1, <1>7, KeptRetention DEF ControlNotSkipped
  <2>1. i \in 1..Len(history) /\ i \notin watch.seen /\ i > watch.covered /\ i > watch.blind
    BY <1>2, <1>4 DEF Watches
  <2>2. i = m
    BY <1>2, <1>4, <1>11, <2>1 DEF Missing
  <2> QED
    BY <2>2 DEF Control
<1>13. StreamInv'
  <2>1. watch'.cursor <= Len(history') /\ watch'.listed <= Len(history')
    BY <1>1, <1>2, <1>4, <1>7 DEF EventsInv, StreamInv
  <2>2. ASSUME NEW i \in 1..Len(history), Control(i), i \notin seen, i > watch.covered,
               i > watch.blind
        PROVE  i \in queue' \/ (~attached /\ \A q \in queue' : q < i)
    <3>1. Missing(i)
      BY <2>2 DEF Missing
    <3>2. i \in queue \/ (~attached /\ \A q \in queue : q < i)
      BY <1>2, <3>1 DEF EventsInv, StreamInv, Owed
    <3>3. i # m
      BY <2>2 DEF Control
    <3> QED
      BY <1>5, <3>2, <3>3
  <2> HIDE DEF seen
  <2> QED
    BY <1>1, <1>2, <1>6, <1>7, <2>1, <2>2, KeptRetention DEF StreamInv, Owed, Missing
<1> QED
  BY <1>1, <1>8, <1>10, <1>12, <1>13, KeptRetention
     DEF EventsInv, EventsTypeOK, BuffersOK, RestOK

-----------------------------------------------------------------------------
(* The process                                                             *)

\* An empty buffer is within its bounds.
LEMMA EmptyBuffer == Cardinality({}) <= Capacity /\ Cardinality({}) <= TelemetryLimit
<1>1. Cardinality({}) = 0
  BY FS_EmptySet
<1> QED
  BY <1>1, LimitTyped, EventsAssumption

\* A new process retains nothing, and has given up nothing.
LEMMA RestartTransportdInv ==
  ASSUME EventsInv, RestartTransportd
  PROVE  EventsInv'
<1>1. /\ Len(history) \in Nat /\ Len(history) <= MaxEvents /\ MaxEvents \in Nat
      /\ watch.cursor <= Len(history) /\ watch.listed <= Len(history) /\ history \in Seq(Events)
      /\ watch \in Watches
      /\ Burst \in Nat /\ SecurityBurst \in Nat /\ MaxBoots \in Nat
  BY EventsAssumption DEF EventsInv, EventsTypeOK, RetentionInv, StreamInv
<1> DEFINE stage == CASE watch.stage \in {"idle", "watching"} -> "idle" [] OTHER -> "gap"
<1>2. /\ history' = history /\ retained' = {} /\ queue' = {} /\ attached' = FALSE
      /\ watch' = [watch EXCEPT !.stage = stage]
      /\ boot' = [boot EXCEPT !.count = @ + 1, !.before = Len(history)]
      /\ boot.count + boot.restarts < MaxBoots
      /\ budget' = [events |-> Burst, security |-> SecurityBurst]
      /\ wire' = 0 /\ UNCHANGED <<agent, clock>>
  BY DEF RestartTransportd
<1>3. stage \in {"idle", "gap"} /\ (stage = "idle" => watch.stage \in {"idle", "watching"})
  OBVIOUS
<1> HIDE DEF stage
<1>4. /\ watch'.stage = stage /\ watch'.cursor = watch.cursor /\ watch'.fresh = watch.fresh
      /\ watch'.seen = watch.seen /\ watch'.covered = watch.covered
      /\ watch'.blind = watch.blind /\ watch'.listed = watch.listed
  BY <1>1, <1>2
<1>5. RestOK'
  <2>1. watch' \in Watches
    BY <1>1, <1>2, <1>3 DEF WatchStages, Watches
  <2>2. boot' \in [count : 0..MaxBoots, before : 0..MaxEvents, restarts : 0..MaxBoots]
    <3>1. boot \in [count : 0..MaxBoots, before : 0..MaxEvents, restarts : 0..MaxBoots]
      BY DEF EventsInv, EventsTypeOK
    <3>2. boot.count + 1 \in 0..MaxBoots /\ Len(history) \in 0..MaxEvents
      BY <1>1, <1>2, <3>1
    <3> QED
      BY <1>2, <3>1, <3>2
  <2>3. budget' \in [events : 0..Burst, security : 0..SecurityBurst]
    BY <1>1, <1>2
  <2> QED
    BY <1>2, <2>1, <2>2, <2>3 DEF EventsInv, EventsTypeOK, RestOK
<1>6. BuffersOK'
  <2>1. Telemetry(retained)' = {}
    BY <1>2 DEF Telemetry
  <2> QED
    BY <1>1, <1>2, <2>1, EmptyBuffer DEF BuffersOK
<1>7. RetentionInv'
  <2>1. Lost' = {}
    <3>1. boot'.before = Len(history)
      BY <1>2
    <3> QED
      BY <1>1, <1>2, <3>1 DEF Lost
  <2> QED
    <3>1. boot'.before = Len(history)
      BY <1>2
    <3> QED
      BY <1>1, <1>2, <2>1, <3>1 DEF RetentionInv
<1>8. StreamInv' /\ ControlNotSkipped'
  BY <1>1, <1>2, <1>3, <1>4 DEF EventsInv, StreamInv, ControlNotSkipped, Control
<1> QED
  BY <1>5, <1>6, <1>7, <1>8 DEF EventsInv, EventsTypeOK, BuffersOK, RestOK

\* A new process of the Controller reads no stream yet.
LEMMA RestartControllerInv ==
  ASSUME EventsInv, NEW kept \in {watch.cursor, 0}, RestartController(kept)
  PROVE  EventsInv'
<1>1. /\ UNCHANGED <<history, retained, budget, wire, agent, clock>>
      /\ queue' = {} /\ attached' = FALSE
      /\ watch' = [watch EXCEPT !.stage = "idle", !.cursor = kept, !.fresh = (kept = 0)]
      /\ boot' = [boot EXCEPT !.restarts = @ + 1] /\ boot.count + boot.restarts < MaxBoots
  BY DEF RestartController
<1>2. /\ watch \in Watches /\ kept \in 0..MaxEvents /\ kept <= Len(history)
      /\ Len(history) \in Nat /\ MaxBoots \in Nat
  BY WatchTyped, EventsAssumption
<1>3. /\ watch'.stage = "idle" /\ watch'.cursor = kept /\ (watch'.fresh <=> kept = 0)
      /\ watch'.seen = watch.seen /\ watch'.covered = watch.covered
      /\ watch'.blind = watch.blind /\ watch'.listed = watch.listed
  BY <1>1, <1>2 DEF Watches
<1>4. /\ boot' \in [count : 0..MaxBoots, before : 0..MaxEvents, restarts : 0..MaxBoots]
      /\ boot'.before = boot.before
  <2>1. boot \in [count : 0..MaxBoots, before : 0..MaxEvents, restarts : 0..MaxBoots]
    BY DEF EventsInv, EventsTypeOK
  <2>2. boot.restarts + 1 \in 0..MaxBoots
    BY <1>1, <1>2, <2>1
  <2> QED
    BY <1>1, <2>1, <2>2
<1>5. RestOK'
  <2>1. "idle" \in WatchStages /\ (kept = 0) \in BOOLEAN
    BY DEF WatchStages
  <2>2. watch' \in Watches
    BY <1>1, <1>2, <2>1 DEF Watches
  <2> QED
    BY <1>1, <1>4, <2>2 DEF EventsInv, EventsTypeOK, RestOK
<1>6. RetentionInv' /\ \A i : Control(i)' <=> Control(i)
  BY <1>1, <1>4 DEF EventsInv, RetentionInv, Lost, Control
<1>7. BuffersOK'
  BY <1>1, EmptyBuffer DEF EventsInv, EventsTypeOK, BuffersOK, Telemetry
<1>8. StreamInv' /\ ControlNotSkipped'
  BY <1>1, <1>2, <1>3, <1>6 DEF EventsInv, StreamInv, ControlNotSkipped
<1> QED
  BY <1>5, <1>6, <1>7, <1>8 DEF EventsInv, EventsTypeOK, BuffersOK, RestOK

\* The first process, and a watch that has no cursor.
LEMMA EventsInitInv == EventsInit => EventsInv
<1> SUFFICES ASSUME EventsInit PROVE EventsInv
  OBVIOUS
<1>1. Telemetry(retained) = {} /\ Lost = {} /\ Len(history) = 0
  BY DEF EventsInit, Telemetry, Lost
<1>2. BuffersOK
  <2>1. history \in Seq(Events)
    BY DEF EventsInit
  <2>2. retained = {} /\ queue = {} /\ attached \in BOOLEAN
    BY DEF EventsInit
  <2> QED
    BY <1>1, <2>1, <2>2, EmptyBuffer DEF BuffersOK
<1>3. RestOK
  BY EventsAssumption DEF EventsInit, RestOK, WatchStages, Watches
<1>4. RetentionInv /\ StreamInv /\ ControlNotSkipped
  BY <1>1, EventsAssumption DEF EventsInit, RetentionInv, StreamInv, ControlNotSkipped
<1> QED
  BY <1>2, <1>3, <1>4, TwoParts DEF EventsInv

\* Every step keeps the invariant.
LEMMA EventsNextInv ==
  ASSUME EventsInv, [EventsNext]_eventVars
  PROVE  EventsInv'
<1>1. CASE PublishControl
  BY <1>1, PublishControlInv
<1>2. ASSUME NEW sent \in 0..DrainLimit, Heartbeat(sent)
      PROVE  EventsInv'
  BY <1>2, HeartbeatInv
<1>3. CASE TelemetryRefused
  BY <1>3, TelemetryRefusedInv
<1>4. ASSUME NEW bytes \in Sizes, NEW claimed \in BOOLEAN, NEW arrives \in BOOLEAN,
             MonitorTelemetry(bytes, claimed, arrives)
      PROVE  EventsInv'
  BY <1>4, MonitorTelemetryInv
<1>5. CASE Tick
  BY <1>5, TickInv
<1>6. CASE WatchOnce
  BY <1>6, WatchOnceInv
<1>7. CASE SubscribeGap
  BY <1>7, SubscribeGapInv
<1>8. CASE ReconcileGap
  BY <1>8, ReconcileGapInv
<1>9. CASE Ingest
  BY <1>9, IngestInv
<1>10. CASE StreamEnds
  BY <1>10, StreamEndsInv
<1>11. CASE RestartTransportd
  BY <1>11, RestartTransportdInv
<1>12. ASSUME NEW kept \in {watch.cursor, 0}, RestartController(kept)
       PROVE  EventsInv'
  BY <1>12, RestartControllerInv
<1>13. CASE UNCHANGED eventVars
  <2>1. UNCHANGED <<history, retained, queue, attached, watch, budget, wire, agent, boot, clock>>
    BY <1>13 DEF eventVars
  <2>2. RestOK'
    BY <2>1 DEF EventsInv, EventsTypeOK, RestOK
  <2> QED
    BY <2>1, <2>2, KeptEvents DEF EventsInv, EventsTypeOK, BuffersOK
<1> QED
  BY <1>1, <1>2, <1>3, <1>4, <1>5, <1>6, <1>7, <1>8, <1>9, <1>10, <1>11, <1>12, <1>13
     DEF EventsNext

-----------------------------------------------------------------------------
(* The theorems                                                            *)

\* EventsInv holds of every behaviour of the stream, the watch and the process.
THEOREM EventsInvariant == EventsSpec => []EventsInv
<1>1. EventsInit => EventsInv
  BY EventsInitInv
<1>2. EventsInv /\ [EventsNext]_eventVars => EventsInv'
  BY EventsNextInv
<1> QED
  BY <1>1, <1>2, PTL DEF EventsSpec

\* Every variable has its type; publish_event keeps retention within event_capacity
\* and telemetry within its half, and the backlog of watch_events never overflows
\* the subscriber's queue.
THEOREM EventsTypeCorrect == EventsSpec => []EventsTypeOK
<1>1. EventsInv => EventsTypeOK
  BY DEF EventsInv
<1> QED
  BY <1>1, EventsInvariant, PTL

\* No flood of telemetry displaces a control event: publish_event gives one up only
\* when event_capacity newer control events were published.
THEOREM EventsControlIsRetained == EventsSpec => []ControlIsRetained
<1>1. EventsInv => ControlIsRetained
  <2> SUFFICES ASSUME EventsInv, NEW i \in boot.before + 1..Len(history), Control(i),
                      i \notin retained
               PROVE  Cardinality({j \in i + 1..Len(history) : Control(j)}) >= Capacity
    BY DEF ControlIsRetained
  <2> DEFINE Newer == {j \in i + 1..Len(history) : Control(j)}
  <2>1. i \in Lost
    BY DEF Lost
  <2>2. /\ Cardinality(retained) >= Capacity
        /\ \A j \in retained : Control(j) /\ i < j
    BY <2>1 DEF EventsInv, RetentionInv
  <2>3. i \in 1..Len(history) /\ Len(history) \in Nat /\ retained \subseteq 1..Len(history)
    BY Published DEF Control
  <2>4. retained \subseteq Newer
    BY <2>2, <2>3
  <2>5. Newer \in SUBSET (1..Len(history))
    BY <2>3
  <2>6. IsFiniteSet(Newer) /\ Cardinality(Newer) \in Nat
    BY <2>3, <2>5, Finite
  <2>7. Cardinality(retained) <= Cardinality(Newer) /\ Cardinality(retained) \in Nat
    <3> HIDE DEF Newer
    <3> QED
      BY <2>3, <2>4, <2>6, FS_Subset, Finite
  <2> QED
    BY <2>2, <2>6, <2>7, EventsAssumption
<1> QED
  BY <1>1, EventsInvariant, PTL

\* The Controller's watch passes over a control event only when the event had left
\* retention before a process without a cursor looked; any other event up to its
\* cursor was ingested or is covered by an inventory taken after the stream was
\* opened, although ReconcileEventGap clears the cursor and both sides restart.
THEOREM EventsControlNotSkipped == EventsSpec => []ControlNotSkipped
<1>1. EventsInv => ControlNotSkipped
  BY DEF EventsInv
<1> QED
  BY <1>1, EventsInvariant, PTL

=============================================================================
