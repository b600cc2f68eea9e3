-------------------------- MODULE TransportEvents --------------------------
(***************************************************************************)
(* The event stream from an Agent to the Controller: the Agent's telemetry *)
(* buffer, transportd's admission of telemetry, the bounded retention and  *)
(* the subscriber queue of transportd, and the Controller's watch, which   *)
(* resumes from a cursor or, when the cursor is gone, reconciles.  The     *)
(* Controller runs this watch twice: transportevents.Service keeps its     *)
(* cursor in the database and reconciles the nodes of the simulator        *)
(* workspace, ownersession.Manager keeps it in memory and reconciles the   *)
(* sessions it owns.  One watch is modelled, of either sort.               *)
(*                                                                         *)
(* Control events are connections, path changes and command results.       *)
(*                                                                         *)
(* An event is known by its place in the order of publication, so a buffer *)
(* that is filled in that order is the set of the places it holds.         *)
(***************************************************************************)
EXTENDS Integers, Sequences, FiniteSets, FiniteSetsExt

CONSTANTS
  Capacity,         \* event_capacity: retained events, and one subscriber's queue
  MaxBytes,         \* MAX_RETAINED_TELEMETRY_BYTES
  Sizes,            \* sizes of a telemetry frame
  Burst,            \* TELEMETRY_BURST_EVENTS
  SecurityBurst,    \* SECURITY_TELEMETRY_BURST_MILLIS, in frames
  DrainLimit,       \* frames one heartbeat sends
  MaxPending,       \* frames the Agent's buffer holds
  MaxAge,           \* OFFLINE_RECOVERY_RETENTION_SECONDS, in ticks
  \* bounds: events, batches made, frames unread, ticks, restarts of either side
  MaxEvents, MaxFrames, MaxWire, MaxClock, MaxBoots

ASSUME EventsAssumption ==
  /\ Capacity \in Nat \ {0} /\ Burst \in Nat /\ SecurityBurst \in Nat
  /\ Sizes \subseteq 1..MaxBytes /\ MaxBytes \in Nat
  /\ DrainLimit \in Nat /\ MaxPending \in Nat /\ MaxAge \in Nat \ {0}
  /\ MaxEvents \in Nat /\ MaxClock \in Nat /\ MaxBoots \in Nat /\ MaxFrames \in Nat /\ MaxWire \in Nat

VARIABLES
  history,    \* every event ever published, oldest first
  retained,   \* EventState.retained
  queue,      \* the subscriber's channel
  attached,   \* transportd still has the sender of that channel
  watch,      \* the Controller's watch
  budget,     \* TelemetryBudget of the node
  wire,       \* telemetry frames written and not yet read
  agent,      \* the Agent's telemetry buffer
  boot,       \* restarts of transportd, the events before the last one, and
              \* restarts of the Controller
  clock

eventVars == <<history, retained, queue, attached, watch, budget, wire, agent, boot, clock>>

Kinds == {"control", "routine", "security"}
Events == [kind : Kinds, bytes : 0..MaxBytes]
WatchStages == {"idle", "watching", "gap", "subscribed", "protected"}

\* The watch: its stage; the last event ingested, 0 for none; whether this
\* process started without a cursor and has none yet; the events before its
\* inventory.  And what became of the control events: seen are ingested, those
\* up to covered are in an inventory that was reconciled, those up to blind had
\* left retention when a process without a cursor looked.
Watches == [stage : WatchStages, cursor : 0..MaxEvents, fresh : BOOLEAN, listed : 0..MaxEvents,
            seen : SUBSET (1..MaxEvents), covered : 0..MaxEvents, blind : 0..MaxEvents]

\* The wire and the Agent's buffer hold the age of each frame.
EventsInit ==
  /\ history = <<>> /\ retained = {}
  /\ queue = {} /\ attached = FALSE
  /\ watch = [stage |-> "idle", cursor |-> 0, fresh |-> TRUE, listed |-> 0,
              seen |-> {}, covered |-> 0, blind |-> 0]
  /\ budget = [events |-> Burst, security |-> SecurityBurst]
  /\ wire = 0
  /\ agent = [pending |-> <<>>, made |-> 0, dropped |-> 0]
  /\ boot = [count |-> 0, before |-> 0, restarts |-> 0] /\ clock = 0

(***************************************************************************)
(* publish_event.                                                          *)
(***************************************************************************)

is_telemetry(e) == e.kind # "control"
Telemetry(r) == {i \in r : is_telemetry(history[i])}
TelemetryBytes(r) == MapThenSumSet(LAMBDA i : history[i].bytes, Telemetry(r))
TelemetryLimit == IF Capacity \div 2 > 1 THEN Capacity \div 2 ELSE 1

evict_oldest_telemetry(r) == r \ {Min(Telemetry(r))}

\* The loop evicts the oldest telemetry until the new frame fits, or none is left.
TelemetryRoom(r, bytes) ==
  LET From(first) == {i \in r : is_telemetry(history[i]) => i >= first}
      Fits(kept) == /\ Cardinality(Telemetry(kept)) < TelemetryLimit
                    /\ TelemetryBytes(kept) + bytes <= MaxBytes
      Stops == {k \in 1..Len(history) + 1 : Fits(From(k)) \/ Telemetry(From(k)) = {}} IN
  From(Min(Stops))

\* Mutant: a full buffer gives up its oldest event, whatever it is.
RetainDisplacing(r, e) ==
  LET kept == IF is_telemetry(e) THEN TelemetryRoom(r, e.bytes) ELSE r IN
  (IF Cardinality(kept) < Capacity THEN kept ELSE kept \ {Min(kept)}) \cup {Len(history) + 1}

\* A buffer full of control events is never displaced by telemetry; a control
\* event displaces the oldest telemetry, and another control event last.
Retain(r, e) ==
  LET kept == IF is_telemetry(e) THEN TelemetryRoom(r, e.bytes) ELSE r
      full == Cardinality(kept) >= Capacity
      new == Len(history) + 1 IN
  CASE ~full                               -> kept \cup {new}
    [] full /\ Telemetry(kept) # {}        -> evict_oldest_telemetry(kept) \cup {new}
    [] full /\ Telemetry(kept) = {} /\ ~is_telemetry(e)
                                           -> (kept \ {Min(kept)}) \cup {new}
    [] full /\ Telemetry(kept) = {} /\ is_telemetry(e)
                                           -> kept

Yields(e) == e.kind = "routine" /\ Capacity - Cardinality(queue) <= Capacity \div 2

\* Routine telemetry yields half of a slow subscriber's queue; any other event
\* that does not fit detaches the subscriber.
Send(e) ==
  /\ queue' = IF attached /\ ~Yields(e) /\ Cardinality(queue) < Capacity
              THEN queue \cup {Len(history) + 1} ELSE queue
  /\ attached' = (attached /\ (Yields(e) \/ Cardinality(queue) < Capacity))

publish_event(kind, bytes) ==
  LET e == [kind |-> kind, bytes |-> bytes] IN
  /\ Len(history) < MaxEvents
  /\ history' = Append(history, e)
  /\ retained' = Retain(retained, e)
  /\ Send(e)

\* accept, finish_session, monitor_paths and publish_agent_event.
PublishControl ==
  /\ publish_event("control", 0)
  /\ UNCHANGED <<watch, budget, wire, agent, boot, clock>>

(***************************************************************************)
(* The Agent's telemetry buffer, and monitor_telemetry.                    *)
(***************************************************************************)

\* The oldest frames come first, so the expired ones are the first ones.
Expired(p) == {i \in DOMAIN p : p[i] >= MaxAge}
prune_expired_telemetry(p) == SubSeq(p, Cardinality(Expired(p)) + 1, Len(p))

\* enqueue_telemetry: expired frames are pruned, the new one is inserted, and
\* the oldest are evicted while the buffer is too large.
enqueue_telemetry ==
  LET p == Append(prune_expired_telemetry(agent.pending), 0)
      over == IF Len(p) > MaxPending THEN Len(p) - MaxPending ELSE 0 IN
  [agent EXCEPT !.pending = SubSeq(p, over + 1, Len(p)), !.made = @ + 1,
                !.dropped = @ + Cardinality(Expired(agent.pending)) + over]

\* The frames one heartbeat may send: what has not expired, oldest first.
telemetry_pending(a) == SubSeq(a.pending, 1, IF Len(a.pending) < DrainLimit THEN Len(a.pending) ELSE DrainLimit)

\* A frame is removed once it was written.
acknowledge_telemetry(a, sent) == [a EXCEPT !.pending = SubSeq(@, sent + 1, Len(@))]

\* One heartbeat: the batch is stored first, then the pending frames are
\* written, each removed after its write.  The session may end before any of
\* the writes.  (The prune of telemetry_pending finds what enqueue_telemetry
\* left: both run at one time.)
Heartbeat(sent) ==
  LET stored == enqueue_telemetry IN
  /\ agent.made < MaxFrames
  /\ sent \in 0..Len(telemetry_pending(stored)) /\ wire + sent <= MaxWire
  /\ agent' = acknowledge_telemetry(stored, sent)
  /\ wire' = wire + sent
  /\ UNCHANGED <<history, retained, queue, attached, watch, budget, boot, clock>>

\* admit_telemetry charges the frame before its body is read; a node over its
\* budget is disconnected, which loses what it had written.
TelemetryRefused ==
  /\ wire > 0 /\ budget.events = 0
  /\ wire' = 0
  /\ UNCHANGED <<history, retained, queue, attached, watch, budget, agent, boot, clock>>

\* claim_security_priority: beyond the allowance a claim is routine.
claim_security_priority(b) ==
  [granted |-> b.security > 0, left |-> IF b.security > 0 THEN b.security - 1 ELSE 0]

\* A frame that is admitted and read is published; one whose body does not
\* arrive is only charged.
MonitorTelemetry(bytes, claimed, arrives) ==
  LET claim == claim_security_priority(budget)
      kind == IF claimed /\ claim.granted THEN "security" ELSE "routine" IN
  /\ wire > 0 /\ budget.events > 0
  /\ wire' = wire - 1
  /\ budget' = [events |-> budget.events - 1,
                security |-> IF claimed /\ arrives THEN claim.left ELSE budget.security]
  /\ IF arrives THEN publish_event(kind, bytes)
     ELSE UNCHANGED <<history, retained, queue, attached>>
  /\ UNCHANGED <<watch, agent, boot, clock>>

\* Time passes: buckets refill up to their burst, pending frames age.
Tick ==
  /\ clock < MaxClock /\ clock' = clock + 1
  /\ budget' = [events |-> IF budget.events < Burst THEN budget.events + 1 ELSE Burst,
                security |-> IF budget.security < SecurityBurst
                             THEN budget.security + 1 ELSE SecurityBurst]
  /\ agent' = [agent EXCEPT !.pending =
       [i \in DOMAIN @ |-> IF @[i] < MaxAge THEN @[i] + 1 ELSE MaxAge]]
  /\ UNCHANGED <<history, retained, queue, attached, watch, wire, boot>>

(***************************************************************************)
(* watch_events, and the Controller's RunWatch.                            *)
(***************************************************************************)

\* The retained events after the cursor, all of them without one.
Backlog(cursor) == {i \in retained : i > cursor}

\* Mutant: an unknown cursor starts from what is retained.
CursorAny(cursor) == TRUE

CursorKnown(cursor) == cursor = 0 \/ cursor \in retained

\* A stream without a cursor starts with what is retained.
BeforeRetained == IF retained = {} THEN Len(history) ELSE Min(retained) - 1

\* The stream resumes after the last event that was ingested.  A process that
\* has no cursor yet takes no inventory: it misses what left retention.
Resume ==
  /\ queue' = Backlog(watch.cursor) /\ attached' = TRUE
  /\ watch' = [watch EXCEPT !.stage = "watching",
                             !.blind = IF watch.fresh THEN BeforeRetained ELSE @]

\* Mutant: a lost cursor is retried like any other error.
WatchRetries ==
  /\ watch.stage = "idle" /\ CursorKnown(watch.cursor) /\ Resume
  /\ UNCHANGED <<history, retained, budget, wire, agent, boot, clock>>

\* watchOnce, and RunWatch's answer to OutOfRange.
WatchOnce ==
  /\ watch.stage = "idle"
  /\ \/ CursorKnown(watch.cursor) /\ Resume
     \/ /\ ~CursorKnown(watch.cursor)
        /\ watch' = [watch EXCEPT !.stage = "gap"] /\ UNCHANGED <<queue, attached>>
  /\ UNCHANGED <<history, retained, budget, wire, agent, boot, clock>>

\* watchProtectedEventGapOnce: a stream without a cursor comes first, the
\* inventory of connections second, the stream's events last.  The inventory is
\* read node by node from here on: what it surely shows is what came before.
SubscribeGap ==
  /\ watch.stage = "gap"
  /\ queue' = retained /\ attached' = TRUE
  /\ watch' = [watch EXCEPT !.stage = "subscribed", !.listed = Len(history)]
  /\ UNCHANGED <<history, retained, budget, wire, agent, boot, clock>>

\* reconcileEventGap: after the whole pass the differences are recorded and the
\* stale cursor is cleared (InvalidateCursor, memoryCursor).
ReconcileGap ==
  /\ watch.stage = "subscribed"
  /\ watch' = [watch EXCEPT !.stage = "protected", !.cursor = 0,
                             !.covered = watch.listed, !.listed = 0]
  /\ UNCHANGED <<history, retained, queue, attached, budget, wire, agent, boot, clock>>

\* Ingest stores the event and its cursor.
Ingest ==
  LET i == Min(queue) IN
  /\ watch.stage \in {"watching", "protected"} /\ queue # {}
  /\ queue' = queue \ {i}
  /\ watch' = [watch EXCEPT !.cursor = i, !.fresh = FALSE,
       !.seen = IF is_telemetry(history[i]) THEN @ ELSE @ \cup {i}]
  /\ UNCHANGED <<history, retained, attached, budget, wire, agent, boot, clock>>

\* A detached stream ends once it is drained; the Controller may also end it.
\* A watch that lost its cursor once stays protected.
StreamEnds ==
  /\ watch.stage \in {"watching", "subscribed", "protected"}
  /\ queue' = {} /\ attached' = FALSE
  /\ watch' = [watch EXCEPT !.stage = IF @ = "watching" THEN "idle" ELSE "gap"]
  /\ UNCHANGED <<history, retained, budget, wire, agent, boot, clock>>

\* A new process of transportd retains nothing and has full buckets.
RestartTransportd ==
  /\ boot.count + boot.restarts < MaxBoots
  /\ boot' = [boot EXCEPT !.count = @ + 1, !.before = Len(history)]
  /\ retained' = {} /\ queue' = {} /\ attached' = FALSE /\ wire' = 0
  /\ budget' = [events |-> Burst, security |-> SecurityBurst]
  /\ watch' = [watch EXCEPT !.stage =
       CASE @ \in {"idle", "watching"} -> "idle" [] OTHER -> "gap"]
  /\ UNCHANGED <<history, agent, clock>>

\* A new process of the Controller calls RunWatch again: with the cursor, which
\* the database kept, or with none, when the cursor was in memory.
RestartController(kept) ==
  /\ boot.count + boot.restarts < MaxBoots
  /\ boot' = [boot EXCEPT !.restarts = @ + 1]
  /\ watch' = [watch EXCEPT !.stage = "idle", !.cursor = kept, !.fresh = (kept = 0)]
  /\ queue' = {} /\ attached' = FALSE
  /\ UNCHANGED <<history, retained, budget, wire, agent, clock>>

EventsNext ==
  \/ PublishControl
  \/ \E sent \in 0..DrainLimit : Heartbeat(sent)
  \/ TelemetryRefused
  \/ \E bytes \in Sizes, claimed, arrives \in BOOLEAN :
       MonitorTelemetry(bytes, claimed, arrives)
  \/ Tick
  \/ WatchOnce \/ SubscribeGap \/ ReconcileGap \/ Ingest \/ StreamEnds
  \/ RestartTransportd
  \/ \E kept \in {watch.cursor, 0} : RestartController(kept)

\* The Controller's watch loop retries for ever; a stream that is opened again
\* and again eventually gets an event, or an inventory, through.
EventsSpec ==
  /\ EventsInit /\ [][EventsNext]_eventVars
  /\ WF_eventVars(WatchOnce) /\ WF_eventVars(SubscribeGap)
  /\ SF_eventVars(ReconcileGap) /\ SF_eventVars(Ingest)
  /\ WF_eventVars(StreamEnds /\ ~attached /\ queue = {})

(***************************************************************************)
(* Properties.                                                             *)
(***************************************************************************)

Control(i) == i \in 1..Len(history) /\ ~is_telemetry(history[i])

\* Every variable has its type, and retention and queue keep their bounds:
\* telemetry has at most half of the slots, and the backlog of a new subscriber
\* always fits its queue.
EventsTypeOK ==
  /\ history \in Seq(Events) /\ retained \subseteq 1..Len(history)
  /\ queue \subseteq 1..Len(history) /\ attached \in BOOLEAN
  /\ watch \in Watches
  /\ budget \in [events : 0..Burst, security : 0..SecurityBurst]
  /\ wire \in Nat /\ clock \in 0..MaxClock
  /\ agent \in [pending : Seq(0..MaxAge), made : Nat, dropped : Nat]
  /\ boot \in [count : 0..MaxBoots, before : 0..MaxEvents, restarts : 0..MaxBoots]
  /\ Cardinality(retained) <= Capacity /\ Cardinality(queue) <= Capacity
  /\ Cardinality(Telemetry(retained)) <= TelemetryLimit

\* A control event leaves the retention buffer only when Capacity newer control
\* events were published: no flood of telemetry displaces it (publish_event).
ControlIsRetained ==
  \A i \in boot.before + 1..Len(history) : Control(i) =>
    \/ i \in retained
    \/ Cardinality({j \in i + 1..Len(history) : Control(j)}) >= Capacity

\* The Controller passes over a control event in one case only: the event had
\* left retention when a process that had ingested nothing looked without a
\* cursor (watchOnce takes no inventory then).  Any other event up to its cursor
\* was ingested, or is covered by an inventory taken after the stream was opened,
\* whatever was evicted, detached, invalidated or restarted in between
\* (watch_events, watchOnce, watchProtectedEventGapOnce, InvalidateCursor).
ControlNotSkipped ==
  \A i \in 1..watch.cursor :
    Control(i) => i \in watch.seen \/ i <= watch.covered \/ i <= watch.blind

\* A control event reaches the Controller, or an inventory does that was taken
\* after it, or a process without a cursor came too late for it.
ControlArrives ==
  \A i \in 1..MaxEvents :
    Control(i) ~> i \in watch.seen \/ i <= watch.covered \/ i <= watch.blind
=============================================================================
