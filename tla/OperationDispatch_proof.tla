----------------------- MODULE OperationDispatch_proof -----------------------
(***************************************************************************)
(* What the Controller's command pipeline promises, proved for every set   *)
(* of commands and nodes, every limit and every bound.                     *)
(***************************************************************************)
EXTENDS OperationDispatch, FiniteSetTheorems, TLAPS

\* The rows of one command agree with each other.
Coherent(r) ==
  /\ r.state = "none" => r = NoRow
  /\ r.state \in Mutable => r.mode = r.payload
  /\ r.state \in {"queued", "unknown"} => r.operation = r.state
  /\ r.state = "dispatched" => r.operation \in {"dispatched", "unknown"}

RowsInv == \A c \in Commands : Coherent(row[c])

\* A result on its way that names an outcome names the one privd attested.
AttestedInv ==
  /\ OutcomeIsAttested
  /\ \A m \in inbox : m.result \in Outcomes => agent[m.cmd] = m.result

\* A worker's dispatch is of a claim that was made, and as long as it holds
\* that claim it carries the envelope of the outbox.
JobsInv ==
  \A j \in jobs :
    /\ j.n <= row[j.cmd].attempts
    /\ HoldsClaim(j) => j.mode = row[j.cmd].payload

RetryInv ==
  /\ FixedNeverRetried
  /\ \A j \in jobs : j.mode = "retry" => ~fixedHostEffect(j.cmd)

OrderInv ==
  /\ DispatchedInOrder
  /\ \A c \in Commands : row[c].state # "none" =>
       \A d \in Prior[c] : row[d].state # "none"

DispatchInv ==
  /\ DispatchTypeOK
  /\ RowsInv
  /\ AttestedInv
  /\ JobsInv
  /\ RetryInv
  /\ OrderInv
  /\ ActiveWithinLimit

\* What the rows of a command may become in a step that neither creates,
\* claims nor records it.
Evolves(r, q) ==
  /\ q \in Rows
  /\ Coherent(q)
  /\ q.attempts = r.attempts
  /\ (q.state = "none") <=> (r.state = "none")
  /\ r.state \in Terminal => q.state = r.state /\ q.operation = r.operation
  /\ q.leased => r.leased
  /\ q.state = "dispatched" => r.state = "dispatched"
  /\ DispatchInFlight(q) => DispatchInFlight(r) /\ q.payload = r.payload

\* The same for a step that applies no result.
EvolvesQuietly(r, q) ==
  /\ Evolves(r, q)
  /\ q.state \in Outcomes => q.state = r.state
  /\ q.payload = "retry" => r.payload = "retry"

\* What TerminalIsFinal says of one step.
KeepsTerminal ==
  \A c \in Commands : row[c].state \in Terminal =>
    row'[c].state = row[c].state /\ row'[c].operation = row[c].operation

-----------------------------------------------------------------------------

\* The row of a command that does not exist is a row.
LEMMA NoRowType == NoRow \in Rows /\ Coherent(NoRow)
BY DispatchAssumption
   DEF NoRow, Rows, Coherent, Mutable, Terminal, Outcomes, Modes

\* A row may stay as it is.
LEMMA EvolvesRefl ==
  ASSUME NEW r \in Rows, Coherent(r)
  PROVE  EvolvesQuietly(r, r)
BY DEF EvolvesQuietly, Evolves

\* Two quiet steps are a quiet step.
LEMMA EvolvesTrans ==
  ASSUME NEW r \in Rows, NEW p \in Rows, NEW q \in Rows,
         EvolvesQuietly(r, p), EvolvesQuietly(p, q)
  PROVE  EvolvesQuietly(r, q)
BY DEF EvolvesQuietly, Evolves, Terminal, Outcomes

\* The fields that PrepareRecoveryEnvelope sets.
LEMMA PrepareFields ==
  ASSUME NEW r \in Rows, NEW mode \in Modes
  PROVE  LET q == PrepareRecoveryEnvelope(r, mode) IN
         /\ q \in Rows
         /\ q.state = r.state /\ q.operation = r.operation
         /\ q.attempts = r.attempts /\ q.leased = r.leased
         /\ q.attempt = r.attempt /\ q.timely = r.timely
         /\ q.mode = mode /\ q.payload = mode /\ ~q.locked
         /\ ~q.published /\ q.passed = r.passed
<1>1. (mode = "reconcile") \in BOOLEAN /\ 0 \in 0..MaxTerm
  BY DispatchAssumption
<1> DEFINE w == (mode = "reconcile")
<1>2. w \in BOOLEAN
  BY <1>1
<1>3. PrepareRecoveryEnvelope(r, mode)
        = [r EXCEPT !.mode = mode, !.payload = mode, !.fence = 0, !.window = w,
                    !.published = FALSE, !.locked = FALSE]
  BY DEF PrepareRecoveryEnvelope
<1> HIDE DEF w
<1> QED BY <1>1, <1>2, <1>3 DEF Rows, Modes

\* The fields that Unknown sets.
LEMMA UnknownFields ==
  ASSUME NEW r \in Rows
  PROVE  LET q == Unknown(r) IN
         /\ q \in Rows
         /\ q.state = "unknown" /\ q.operation = "unknown"
         /\ q.attempts = r.attempts /\ q.leased = r.leased
         /\ q.attempt = r.attempt /\ q.timely = r.timely
         /\ q.mode = r.mode /\ q.payload = r.payload /\ q.locked = r.locked
BY DEF Unknown, Rows, Mutable

\* An expired send becomes an observation, or is given up.
LEMMA ExpiredSendingEvolves ==
  ASSUME NEW r \in Rows, Coherent(r), ExpiredSending(r)
  PROVE  EvolvesQuietly(r, reconcileExpiredSending(r))
<1> DEFINE lapsed == [Unknown(r) EXCEPT !.attempt = "unknown"]
<1>1. /\ lapsed \in Rows /\ lapsed.state = "unknown" /\ lapsed.operation = "unknown"
      /\ lapsed.attempts = r.attempts /\ lapsed.leased = r.leased
      /\ lapsed.attempt = "unknown" /\ lapsed.mode = r.mode
      /\ lapsed.payload = r.payload
  BY UnknownFields DEF Rows
<1> DEFINE p == PrepareRecoveryEnvelope(lapsed, "reconcile")
<1>2. /\ p \in Rows /\ p.state = "unknown" /\ p.operation = "unknown"
      /\ p.attempts = r.attempts /\ p.leased = r.leased
      /\ p.attempt = "unknown" /\ p.mode = "reconcile" /\ p.payload = "reconcile"
  BY <1>1, PrepareFields DEF Modes
<1>3. r.state \in {"queued", "unknown"} /\ r.mode = r.payload
  BY DEF ExpiredSending, Coherent, Mutable
<1> DEFINE q == reconcileExpiredSending(r)
<1>4. \/ q = [lapsed EXCEPT !.published = TRUE, !.locked = FALSE]
      \/ q = [p EXCEPT !.window = r.window]
      \/ q = p
  BY DEF reconcileExpiredSending
<1> HIDE DEF lapsed, p, q
<1>5. /\ q \in Rows /\ q.state = "unknown" /\ q.operation = "unknown"
      /\ q.attempts = r.attempts /\ q.leased = r.leased
      /\ q.attempt = "unknown" /\ q.mode = q.payload
      /\ q.payload = r.payload \/ q.payload = "reconcile"
  <2>1. CASE q = [lapsed EXCEPT !.published = TRUE, !.locked = FALSE]
    BY <1>1, <1>3, <2>1 DEF Rows
  <2>2. CASE q = [p EXCEPT !.window = r.window]
    BY <1>2, <2>2 DEF Rows
  <2>3. CASE q = p
    BY <1>2, <2>3
  <2> QED BY <1>4, <2>1, <2>2, <2>3
<1>6. EvolvesQuietly(r, q)
  BY <1>5, <1>3
     DEF EvolvesQuietly, Evolves, Coherent, DispatchInFlight, Terminal, Outcomes, Mutable
<1> QED BY <1>6 DEF q

\* A missing result makes the command unknown, with or without an observation.
LEMMA MissingResultEvolves ==
  ASSUME NEW r \in Rows, Coherent(r), StaleSent(r)
  PROVE  EvolvesQuietly(r, reconcileMissingResults(r))
<1> DEFINE u == Unknown(r)
<1> DEFINE p == PrepareRecoveryEnvelope(u, "reconcile")
<1>1. /\ u \in Rows /\ u.state = "unknown" /\ u.operation = "unknown"
      /\ u.attempts = r.attempts /\ u.leased = r.leased
      /\ u.attempt = r.attempt /\ u.mode = r.mode /\ u.payload = r.payload
  BY UnknownFields
<1>2. /\ p \in Rows /\ p.state = "unknown" /\ p.operation = "unknown"
      /\ p.attempts = r.attempts /\ p.leased = r.leased
      /\ p.attempt = r.attempt /\ p.mode = "reconcile" /\ p.payload = "reconcile"
  BY <1>1, PrepareFields DEF Modes
<1>3. r.state = "dispatched" /\ r.mode = r.payload /\ r.attempt = "sent"
  BY DEF StaleSent, Coherent, Mutable
<1> DEFINE q == reconcileMissingResults(r)
<1>4. q = p \/ q = [u EXCEPT !.window = FALSE]
  BY DEF reconcileMissingResults
<1> HIDE DEF u, p, q
<1>5. /\ q \in Rows /\ q.state = "unknown" /\ q.operation = "unknown"
      /\ q.attempts = r.attempts /\ q.leased = r.leased
      /\ q.attempt = "sent" /\ q.mode = q.payload
      /\ q.payload = r.payload \/ q.payload = "reconcile"
  <2>1. CASE q = p
    BY <1>2, <1>3, <2>1
  <2>2. CASE q = [u EXCEPT !.window = FALSE]
    BY <1>1, <1>3, <2>2 DEF Rows
  <2> QED BY <1>4, <2>1, <2>2
<1>6. EvolvesQuietly(r, q)
  BY <1>5, <1>3
     DEF EvolvesQuietly, Evolves, Coherent, DispatchInFlight, Terminal, Outcomes, Mutable
<1> QED BY <1>6 DEF q

\* An observation that was not answered is sent again.
LEMMA ContinueEvolves ==
  ASSUME NEW r \in Rows, Coherent(r), StaleReconciliation(r)
  PROVE  EvolvesQuietly(r, continueReconciliations(r))
<1> DEFINE p == PrepareRecoveryEnvelope(r, "reconcile")
<1>1. /\ p \in Rows /\ p.state = r.state /\ p.operation = r.operation
      /\ p.attempts = r.attempts /\ p.leased = r.leased
      /\ p.attempt = r.attempt /\ p.mode = "reconcile" /\ p.payload = "reconcile"
  BY PrepareFields DEF Modes
<1> DEFINE q == continueReconciliations(r)
<1>2. q = [p EXCEPT !.window = r.window]
  BY DEF continueReconciliations
<1>3. r.state = "unknown" /\ r.operation = "unknown" /\ r.attempt = "sent"
  BY DEF StaleReconciliation
<1> HIDE DEF p, q
<1>4. /\ q \in Rows /\ q.state = "unknown" /\ q.operation = "unknown"
      /\ q.attempts = r.attempts /\ q.leased = r.leased
      /\ q.attempt = "sent" /\ q.mode = "reconcile" /\ q.payload = "reconcile"
  BY <1>1, <1>2, <1>3 DEF Rows
<1>5. EvolvesQuietly(r, q)
  BY <1>3, <1>4
     DEF EvolvesQuietly, Evolves, Coherent, DispatchInFlight, Terminal, Outcomes, Mutable
<1> QED BY <1>5 DEF q

\* What Reap does to the rows of one command.
LEMMA ReapEvolves ==
  ASSUME NEW r \in Rows, Coherent(r)
  PROVE  /\ EvolvesQuietly(r, DeleteExpiredLeases(r))
         /\ EvolvesQuietly(r, DeleteExpiredLeases(Recovered(r)))
<1>1. ASSUME NEW p \in Rows, Coherent(p)
      PROVE  EvolvesQuietly(p, DeleteExpiredLeases(p))
  <2>1. CASE p.leased /\ ~p.timely /\ p.attempt # "sending"
    <3> DEFINE q == [p EXCEPT !.leased = FALSE]
    <3>1. /\ q \in Rows /\ q.state = p.state /\ q.operation = p.operation
          /\ q.attempts = p.attempts /\ q.leased = FALSE
          /\ q.mode = p.mode /\ q.payload = p.payload
      BY <1>1 DEF Rows
    <3>2. p.state # "none"
      BY <1>1, <2>1 DEF Coherent, NoRow
    <3>3. DeleteExpiredLeases(p) = q
      BY <2>1 DEF DeleteExpiredLeases
    <3> HIDE DEF q
    <3> QED BY <1>1, <3>1, <3>2, <3>3
            DEF EvolvesQuietly, Evolves, Coherent, DispatchInFlight
  <2>2. CASE ~(p.leased /\ ~p.timely /\ p.attempt # "sending")
    BY <2>2, EvolvesRefl, <1>1 DEF DeleteExpiredLeases
  <2> QED BY <2>1, <2>2
<1> DEFINE p == Recovered(r)
<1>2. EvolvesQuietly(r, p)
  <2>1. CASE ExpiredSending(r)
    <3>1. ~StaleSent(r) /\ ~StaleReconciliation(r)
      BY <2>1 DEF ExpiredSending, StaleSent, StaleReconciliation
    <3>2. p = reconcileExpiredSending(r)
      BY <2>1, <3>1 DEF Recovered
    <3> QED BY <2>1, <3>2, ExpiredSendingEvolves
  <2>2. CASE StaleSent(r)
    <3>1. ~ExpiredSending(r) /\ ~StaleReconciliation(r)
      BY <2>2 DEF ExpiredSending, StaleSent, StaleReconciliation
    <3>2. p = reconcileMissingResults(r)
      BY <2>2, <3>1 DEF Recovered
    <3> QED BY <2>2, <3>2, MissingResultEvolves
  <2>3. CASE StaleReconciliation(r)
    <3>1. ~ExpiredSending(r) /\ ~StaleSent(r)
      BY <2>3 DEF ExpiredSending, StaleSent, StaleReconciliation
    <3>2. p = continueReconciliations(r)
      BY <2>3, <3>1 DEF Recovered
    <3> QED BY <2>3, <3>2, ContinueEvolves
  <2>4. CASE ~ExpiredSending(r) /\ ~StaleSent(r) /\ ~StaleReconciliation(r)
    <3>1. p = r
      BY <2>4 DEF Recovered
    <3> QED BY <3>1, EvolvesRefl
  <2> QED BY <2>1, <2>2, <2>3, <2>4
<1> HIDE DEF p
<1>3. p \in Rows /\ Coherent(p)
  BY <1>2 DEF EvolvesQuietly, Evolves
<1>4. EvolvesQuietly(p, DeleteExpiredLeases(p))
  BY <1>1, <1>3
<1>5. DeleteExpiredLeases(p) \in Rows
  BY <1>4 DEF EvolvesQuietly, Evolves
<1>6. EvolvesQuietly(r, DeleteExpiredLeases(p))
  BY <1>2, <1>3, <1>4, <1>5, EvolvesTrans
<1> QED BY <1>1, <1>6 DEF p

\* Queued intent is replaced.
LEMMA SupersededEvolves ==
  ASSUME NEW r \in Rows, Coherent(r)
  PROVE  EvolvesQuietly(r, Superseded(r))
<1>1. CASE r.state = "queued" /\ ~r.locked /\ ~r.leased
  <2> DEFINE q == [r EXCEPT !.state = "superseded", !.operation = "superseded",
                            !.published = TRUE]
  <2>1. /\ q \in Rows /\ q.state = "superseded" /\ q.operation = "superseded"
        /\ q.attempts = r.attempts /\ q.leased = r.leased
        /\ q.payload = r.payload
    BY DEF Rows, Terminal
  <2>2. Superseded(r) = q
    BY <1>1 DEF Superseded
  <2> HIDE DEF q
  <2> QED BY <1>1, <2>1, <2>2
          DEF EvolvesQuietly, Evolves, Coherent, DispatchInFlight, Terminal, Outcomes, Mutable
<1>2. CASE ~(r.state = "queued" /\ ~r.locked /\ ~r.leased)
  BY <1>2, EvolvesRefl DEF Superseded
<1> QED BY <1>1, <1>2

\* A queued command expires.
LEMMA ExpiredEvolves ==
  ASSUME NEW r \in Rows, Coherent(r), r.state = "queued", ~r.leased
  PROVE  EvolvesQuietly(r, [r EXCEPT !.state = "expired", !.operation = "expired",
                                     !.published = TRUE, !.locked = FALSE])
<1> DEFINE q == [r EXCEPT !.state = "expired", !.operation = "expired",
                          !.published = TRUE, !.locked = FALSE]
<1>1. /\ q \in Rows /\ q.state = "expired" /\ q.operation = "expired"
      /\ q.attempts = r.attempts /\ q.leased = r.leased /\ q.payload = r.payload
  BY DEF Rows, Terminal
<1> HIDE DEF q
<1>2. EvolvesQuietly(r, q)
  BY <1>1
     DEF EvolvesQuietly, Evolves, Coherent, DispatchInFlight, Terminal, Outcomes, Mutable
<1> QED BY <1>2 DEF q

\* A dispatch of an earlier owner term becomes an observation.
LEMMA AmbiguousEvolves ==
  ASSUME NEW r \in Rows, Coherent(r), NEW n \in Nodes, Ambiguous(r, n)
  PROVE  EvolvesQuietly(r, PrepareRecoveryEnvelope(Unknown(r), "reconcile"))
<1> DEFINE u == Unknown(r)
<1> DEFINE q == PrepareRecoveryEnvelope(u, "reconcile")
<1>1. /\ u \in Rows /\ u.state = "unknown" /\ u.operation = "unknown"
      /\ u.attempts = r.attempts /\ u.leased = r.leased
  BY UnknownFields
<1>2. /\ q \in Rows /\ q.state = "unknown" /\ q.operation = "unknown"
      /\ q.attempts = r.attempts /\ q.leased = r.leased
      /\ q.mode = "reconcile" /\ q.payload = "reconcile"
  BY <1>1, PrepareFields DEF Modes
<1>3. r.state \in {"dispatched", "unknown"} /\ ~r.leased
  BY DEF Ambiguous
<1> HIDE DEF u, q
<1>4. EvolvesQuietly(r, q)
  BY <1>2, <1>3
     DEF EvolvesQuietly, Evolves, Coherent, DispatchInFlight, Terminal, Outcomes, Mutable
<1> QED BY <1>4 DEF q, u

\* A failed send gives the claim back.
LEMMA FailedEvolves ==
  ASSUME NEW r \in Rows, Coherent(r), r.leased
  PROVE  EvolvesQuietly(r, [r EXCEPT !.locked = FALSE, !.leased = FALSE,
                                     !.attempt = "failed"])
<1> DEFINE q == [r EXCEPT !.locked = FALSE, !.leased = FALSE, !.attempt = "failed"]
<1>1. /\ q \in Rows /\ q.state = r.state /\ q.operation = r.operation
      /\ q.attempts = r.attempts /\ ~q.leased
      /\ q.mode = r.mode /\ q.payload = r.payload
  BY DEF Rows
<1>2. r.state # "none"
  BY DEF Coherent, NoRow
<1> HIDE DEF q
<1>3. EvolvesQuietly(r, q)
  BY <1>1, <1>2 DEF EvolvesQuietly, Evolves, Coherent, DispatchInFlight
<1> QED BY <1>3 DEF q

\* The clock.
LEMMA ClockEvolves ==
  ASSUME NEW r \in Rows, Coherent(r)
  PROVE  /\ r.timely => EvolvesQuietly(r, [r EXCEPT !.timely = FALSE])
         /\ r.state \in Mutable => EvolvesQuietly(r, [r EXCEPT !.passed = TRUE])
         /\ r.window => EvolvesQuietly(r, [r EXCEPT !.window = FALSE])
<1>1. ASSUME NEW q \in Rows, r.state # "none",
             q.state = r.state, q.operation = r.operation,
             q.attempts = r.attempts, q.leased = r.leased,
             q.mode = r.mode, q.payload = r.payload,
             DispatchInFlight(q) => DispatchInFlight(r)
      PROVE  EvolvesQuietly(r, q)
  BY <1>1 DEF EvolvesQuietly, Evolves, Coherent
<1>2. ASSUME r.timely PROVE EvolvesQuietly(r, [r EXCEPT !.timely = FALSE])
  <2> DEFINE q == [r EXCEPT !.timely = FALSE]
  <2>1. /\ q \in Rows /\ q.state = r.state /\ q.operation = r.operation
        /\ q.attempts = r.attempts /\ q.leased = r.leased
        /\ q.mode = r.mode /\ q.payload = r.payload /\ ~q.timely
    BY DEF Rows
  <2>2. r.state # "none"
    BY <1>2 DEF Coherent, NoRow
  <2> HIDE DEF q
  <2>3. EvolvesQuietly(r, q)
    BY <1>1, <2>1, <2>2 DEF DispatchInFlight
  <2> QED BY <2>3 DEF q
<1>3. ASSUME r.state \in Mutable PROVE EvolvesQuietly(r, [r EXCEPT !.passed = TRUE])
  <2> DEFINE q == [r EXCEPT !.passed = TRUE]
  <2>1. /\ q \in Rows /\ q.state = r.state /\ q.operation = r.operation
        /\ q.attempts = r.attempts /\ q.leased = r.leased
        /\ q.mode = r.mode /\ q.payload = r.payload
        /\ q.timely = r.timely /\ q.locked = r.locked /\ q.attempt = r.attempt
    BY DEF Rows
  <2>2. r.state # "none"
    BY <1>3 DEF Mutable
  <2> HIDE DEF q
  <2>3. EvolvesQuietly(r, q)
    BY <1>1, <2>1, <2>2 DEF DispatchInFlight
  <2> QED BY <2>3 DEF q
<1>4. ASSUME r.window PROVE EvolvesQuietly(r, [r EXCEPT !.window = FALSE])
  <2> DEFINE q == [r EXCEPT !.window = FALSE]
  <2>1. /\ q \in Rows /\ q.state = r.state /\ q.operation = r.operation
        /\ q.attempts = r.attempts /\ q.leased = r.leased
        /\ q.mode = r.mode /\ q.payload = r.payload
        /\ q.timely = r.timely /\ q.locked = r.locked /\ q.attempt = r.attempt
    BY DEF Rows
  <2>2. r.state # "none"
    BY <1>4 DEF Coherent, NoRow
  <2> HIDE DEF q
  <2>3. EvolvesQuietly(r, q)
    BY <1>1, <2>1, <2>2 DEF DispatchInFlight
  <2> QED BY <2>3 DEF q
<1> QED BY <1>2, <1>3, <1>4

\* A result settles the command, or makes it unknown and schedules recovery.
LEMMA AppliedEvolves ==
  ASSUME NEW c \in Commands, NEW result \in Results,
         row[c] \in Rows, Coherent(row[c]), ~Ineffective(c, result)
  PROVE  LET q == Applied(c, result) IN
         /\ Evolves(row[c], q)
         /\ q.state \in Outcomes => q.state = result
         /\ q.payload = "retry" => row[c].payload = "retry" \/ ~fixedHostEffect(c)
<1> DEFINE r == row[c]
<1> DEFINE closed == IF DispatchInFlight(r)
                     THEN [r EXCEPT !.leased = FALSE, !.attempt = "sent"] ELSE r
<1> DEFINE u == Unknown(closed)
<1> DEFINE settled == [closed EXCEPT !.state = result, !.operation = result,
                                     !.published = TRUE, !.locked = FALSE]
<1> DEFINE q == Applied(c, result)
<1>1. r \in Rows /\ Coherent(r) /\ r.state \in Mutable
  BY DEF Ineffective
<1>2. /\ closed \in Rows /\ closed.attempts = r.attempts
      /\ closed.mode = r.mode /\ closed.payload = r.payload
      /\ closed.leased => r.leased
      /\ ~DispatchInFlight(closed)
  <2>1. CASE DispatchInFlight(r)
    BY <1>1, <2>1 DEF Rows, DispatchInFlight
  <2>2. CASE ~DispatchInFlight(r)
    BY <1>1, <2>2
  <2> QED BY <2>1, <2>2
<1>3. q = IF result \in Outcomes THEN settled ELSE scheduleCommandRecovery(c, result, u)
  BY DEF Applied
<1> HIDE DEF closed, q, r
<1>4. CASE result \in Outcomes
  <2>1. /\ settled \in Rows /\ settled.state = result /\ settled.operation = result
        /\ settled.attempts = r.attempts /\ settled.leased = closed.leased
        /\ settled.payload = r.payload /\ ~settled.locked
    BY <1>2, <1>4 DEF Rows, Terminal
  <2> HIDE DEF settled
  <2>2. q = settled
    BY <1>3, <1>4
  <2>3. Evolves(r, q)
    BY <1>1, <1>2, <1>4, <2>1, <2>2
       DEF Evolves, Coherent, DispatchInFlight, Terminal, Outcomes, Mutable
  <2> QED BY <2>1, <2>2, <2>3 DEF q, r
<1>5. CASE result \notin Outcomes
  <2>1. /\ u \in Rows /\ u.state = "unknown" /\ u.operation = "unknown"
        /\ u.attempts = r.attempts /\ u.leased = closed.leased
        /\ u.mode = r.mode /\ u.payload = r.payload
        /\ ~DispatchInFlight(u)
    BY <1>2, UnknownFields DEF DispatchInFlight
  <2> HIDE DEF u
  <2> DEFINE o == PrepareRecoveryEnvelope(u, "reconcile")
  <2> DEFINE t == PrepareRecoveryEnvelope(u, "retry")
  <2>2. /\ o \in Rows /\ o.state = "unknown" /\ o.operation = "unknown"
        /\ o.attempts = r.attempts /\ o.leased = closed.leased
        /\ o.mode = "reconcile" /\ o.payload = "reconcile" /\ ~o.locked
    BY <2>1, PrepareFields DEF Modes
  <2>3. /\ t \in Rows /\ t.state = "unknown" /\ t.operation = "unknown"
        /\ t.attempts = r.attempts /\ t.leased = closed.leased
        /\ t.mode = "retry" /\ t.payload = "retry" /\ ~t.locked
    BY <2>1, PrepareFields DEF Modes
  <2>4. \/ q = u
        \/ q = o
        \/ q = t /\ ~fixedHostEffect(c)
    BY <1>3, <1>5 DEF scheduleCommandRecovery
  <2> HIDE DEF o, t
  <2>5. /\ q \in Rows /\ q.state = "unknown" /\ q.operation = "unknown"
        /\ q.attempts = r.attempts /\ q.leased = closed.leased
        /\ q.mode = q.payload /\ ~DispatchInFlight(q)
        /\ q.payload = "retry" => r.payload = "retry" \/ ~fixedHostEffect(c)
    <3>1. CASE q = u
      BY <1>1, <2>1, <3>1 DEF Coherent
    <3>2. CASE q = o
      BY <2>2, <3>2 DEF DispatchInFlight
    <3>3. CASE q = t /\ ~fixedHostEffect(c)
      BY <2>3, <3>3 DEF DispatchInFlight
    <3> QED BY <2>4, <3>1, <3>2, <3>3
  <2>6. Evolves(r, q)
    BY <1>1, <1>2, <2>5 DEF Evolves, Coherent, Terminal, Outcomes, Mutable
  <2> QED BY <2>5, <2>6 DEF q, r, Outcomes
<1> QED BY <1>4, <1>5

\* The commands that hold a slot.
Held == {c \in Commands : row[c].state = "dispatched" \/ row[c].leased}

\* A step that gives no command a slot keeps the limit.
LEMMA HeldShrinks ==
  ASSUME ActiveWithinLimit, DispatchTypeOK, Held' \subseteq Held
  PROVE  ActiveWithinLimit'
<1>1. IsFiniteSet(Held)
  BY DispatchAssumption, FS_Subset DEF Held
<1>2. IsFiniteSet(Held') /\ Cardinality(Held') <= Cardinality(Held)
  BY <1>1, FS_Subset
<1>3. Cardinality(Held) \in Nat /\ Cardinality(Held') \in Nat
  BY <1>1, <1>2, FS_CardinalityType
<1>4. Cardinality(Held) <= CommandLimit
  BY DEF ActiveWithinLimit, Held
<1>5. Cardinality(Held') <= CommandLimit
  BY <1>2, <1>3, <1>4, DispatchAssumption
<1> QED BY <1>5 DEF ActiveWithinLimit, Held

\* Rows that evolve keep every part of the invariant that is about rows and
\* claims.
LEMMA EvolvesInv ==
  ASSUME DispatchInv, row' \in [Commands -> Rows], jobs' \subseteq jobs,
         \A c \in Commands : Evolves(row[c], row'[c])
  PROVE  RowsInv' /\ JobsInv' /\ OrderInv' /\ ActiveWithinLimit'
<1>1. RowsInv'
  BY DEF RowsInv, Evolves
<1>2. JobsInv'
  <2> SUFFICES ASSUME NEW j \in jobs'
               PROVE  /\ j.n <= row'[j.cmd].attempts
                      /\ HoldsClaim(j)' => j.mode = row'[j.cmd].payload
    BY DEF JobsInv
  <2>1. j \in jobs /\ j.cmd \in Commands
    BY DEF DispatchInv, DispatchTypeOK, Jobs
  <2>2. Evolves(row[j.cmd], row'[j.cmd])
    BY <2>1
  <2>3. j.n <= row'[j.cmd].attempts
    BY <2>1, <2>2 DEF DispatchInv, JobsInv, Evolves
  <2>4. ASSUME HoldsClaim(j)' PROVE j.mode = row'[j.cmd].payload
    <3>1. DispatchInFlight(row'[j.cmd]) /\ row'[j.cmd].attempts = j.n
      BY <2>4 DEF HoldsClaim, DispatchInFlight
    <3>2. HoldsClaim(j) /\ row'[j.cmd].payload = row[j.cmd].payload
      BY <2>2, <3>1 DEF HoldsClaim, DispatchInFlight, Evolves
    <3> QED BY <2>1, <3>2 DEF DispatchInv, JobsInv
  <2> QED BY <2>3, <2>4
<1>3. OrderInv'
  <2>1. DispatchedInOrder'
    <3> SUFFICES ASSUME NEW c \in Commands, NEW d \in Commands
                 PROVE  /\ row'[c].leased /\ row'[d].leased /\ Node[c] = Node[d] => c = d
                        /\ d \in Prior[c] /\ (row'[c].leased \/ row'[c].state = "dispatched")
                             => row'[d].state \in Terminal
      BY DEF DispatchedInOrder
    <3>1. Evolves(row[c], row'[c]) /\ Evolves(row[d], row'[d])
      OBVIOUS
    <3>2. /\ row[c].leased /\ row[d].leased /\ Node[c] = Node[d] => c = d
          /\ d \in Prior[c] /\ (row[c].leased \/ row[c].state = "dispatched")
                => row[d].state \in Terminal
      BY DEF DispatchInv, OrderInv, DispatchedInOrder
    <3> QED BY <3>1, <3>2 DEF Evolves
  <2>2. \A c \in Commands : row'[c].state # "none" =>
          \A d \in Prior[c] : row'[d].state # "none"
    BY DispatchAssumption DEF DispatchInv, OrderInv, Evolves
  <2> QED BY <2>1, <2>2 DEF OrderInv
<1>4. Held' \subseteq Held
  BY DEF Held, Evolves
<1>5. ActiveWithinLimit'
  BY <1>4, HeldShrinks DEF DispatchInv
<1> QED BY <1>1, <1>2, <1>3, <1>5

\* A step in which rows evolve and nothing is put under way keeps the invariant.
LEMMA QuietInv ==
  ASSUME DispatchInv, row' \in [Commands -> Rows],
         \A c \in Commands : EvolvesQuietly(row[c], row'[c]),
         jobs' \subseteq jobs, wire' \subseteq wire, inbox' \subseteq inbox,
         agent' = agent, term' \in [Nodes -> 1..MaxTerm], connected' \subseteq Nodes
  PROVE  DispatchInv' /\ KeepsTerminal
<1>1. RowsInv' /\ JobsInv' /\ OrderInv' /\ ActiveWithinLimit'
  BY EvolvesInv DEF EvolvesQuietly
<1>2. DispatchTypeOK'
  BY DEF DispatchInv, DispatchTypeOK
<1>3. AttestedInv'
  BY DEF DispatchInv, AttestedInv, OutcomeIsAttested, EvolvesQuietly
<1>4. RetryInv'
  BY DEF DispatchInv, RetryInv, FixedNeverRetried, EvolvesQuietly, fixedHostEffect
<1>5. KeepsTerminal
  BY DEF KeepsTerminal, EvolvesQuietly, Evolves
<1> QED BY <1>1, <1>2, <1>3, <1>4, <1>5 DEF DispatchInv

\* Rows that do not change evolve.
LEMMA SameRows ==
  ASSUME DispatchInv
  PROVE  /\ row \in [Commands -> Rows]
         /\ \A c \in Commands : row[c] \in Rows /\ Coherent(row[c])
         /\ \A c \in Commands : EvolvesQuietly(row[c], row[c])
BY EvolvesRefl DEF DispatchInv, DispatchTypeOK, RowsInv

\* A step that changes the rows of one command.
LEMMA OneRowInv ==
  ASSUME DispatchInv, NEW c \in Commands, NEW q, EvolvesQuietly(row[c], q),
         row' = [row EXCEPT ![c] = q],
         jobs' \subseteq jobs, wire' \subseteq wire, inbox' \subseteq inbox,
         agent' = agent, term' = term, connected' \subseteq connected
  PROVE  DispatchInv' /\ KeepsTerminal
<1>1. q \in Rows
  BY DEF EvolvesQuietly, Evolves
<1>2. row' \in [Commands -> Rows] /\ \A d \in Commands : EvolvesQuietly(row[d], row'[d])
  BY <1>1, SameRows
<1> QED BY <1>2, QuietInv DEF DispatchInv, DispatchTypeOK

\* ExpireQueued and the clock.
LEMMA ClockInv ==
  ASSUME DispatchInv, NEW c \in Commands,
         ExpireQueued(c) \/ LeaseExpires(c) \/ DeadlinePasses(c) \/ WindowCloses(c)
  PROVE  DispatchInv' /\ KeepsTerminal
<1>1. row[c] \in Rows /\ Coherent(row[c])
  BY SameRows
<1>2. CASE ExpireQueued(c)
  <2> DEFINE q == [row[c] EXCEPT !.state = "expired", !.operation = "expired",
                                 !.published = TRUE, !.locked = FALSE]
  <2>1. EvolvesQuietly(row[c], q)
    BY <1>1, <1>2, ExpiredEvolves DEF ExpireQueued
  <2>2. row' = [row EXCEPT ![c] = q]
    BY <1>2 DEF ExpireQueued
  <2> HIDE DEF q
  <2> QED BY <1>2, <2>1, <2>2, OneRowInv DEF ExpireQueued
<1>3. CASE LeaseExpires(c)
  <2> DEFINE q == [row[c] EXCEPT !.timely = FALSE]
  <2>1. EvolvesQuietly(row[c], q)
    BY <1>1, <1>3, ClockEvolves DEF LeaseExpires
  <2>2. row' = [row EXCEPT ![c] = q]
    BY <1>3 DEF LeaseExpires
  <2> HIDE DEF q
  <2> QED BY <1>3, <2>1, <2>2, OneRowInv DEF LeaseExpires
<1>4. CASE DeadlinePasses(c)
  <2> DEFINE q == [row[c] EXCEPT !.passed = TRUE]
  <2>1. EvolvesQuietly(row[c], q)
    BY <1>1, <1>4, ClockEvolves DEF DeadlinePasses
  <2>2. row' = [row EXCEPT ![c] = q]
    BY <1>4 DEF DeadlinePasses
  <2> HIDE DEF q
  <2> QED BY <1>4, <2>1, <2>2, OneRowInv DEF DeadlinePasses
<1>5. CASE WindowCloses(c)
  <2> DEFINE q == [row[c] EXCEPT !.window = FALSE]
  <2>1. EvolvesQuietly(row[c], q)
    BY <1>1, <1>5, ClockEvolves DEF WindowCloses
  <2>2. row' = [row EXCEPT ![c] = q]
    BY <1>5 DEF WindowCloses
  <2> HIDE DEF q
  <2> QED BY <1>5, <2>1, <2>2, OneRowInv DEF WindowCloses
<1> QED BY <1>2, <1>3, <1>4, <1>5

\* Reap, takeover, reconnection, lost frames and lost dispatches.
LEMMA MaintenanceInv ==
  ASSUME DispatchInv
  PROVE  /\ \A due \in SUBSET Commands : Reap(due) => DispatchInv' /\ KeepsTerminal
         /\ \A n \in Nodes : TakeOver(n) \/ RecoverAmbiguousDispatched(n) => DispatchInv' /\ KeepsTerminal
         /\ FrameLost => DispatchInv' /\ KeepsTerminal
         /\ \A j \in jobs : JobLost(j) \/ MarkFailed(j) => DispatchInv' /\ KeepsTerminal
<1>1. /\ DispatchTypeOK
      /\ row \in [Commands -> Rows]
      /\ \A c \in Commands : row[c] \in Rows /\ Coherent(row[c])
      /\ \A c \in Commands : EvolvesQuietly(row[c], row[c])
  BY SameRows DEF DispatchInv
<1>2. ASSUME NEW due \in SUBSET Commands, Reap(due) PROVE DispatchInv' /\ KeepsTerminal
  <2>1. \A c \in Commands : EvolvesQuietly(row[c],
          DeleteExpiredLeases(IF c \in due THEN Recovered(row[c]) ELSE row[c]))
    BY <1>1, ReapEvolves
  <2>2. \A c \in Commands :
          DeleteExpiredLeases(IF c \in due THEN Recovered(row[c]) ELSE row[c]) \in Rows
    BY <2>1 DEF EvolvesQuietly, Evolves
  <2>3. /\ row' \in [Commands -> Rows]
        /\ \A c \in Commands : EvolvesQuietly(row[c], row'[c])
    BY <1>2, <2>1, <2>2 DEF Reap
  <2> QED BY <1>1, <1>2, <2>3, QuietInv DEF Reap, DispatchTypeOK
<1>3. ASSUME NEW n \in Nodes, TakeOver(n) PROVE DispatchInv' /\ KeepsTerminal
  <2>1. term' \in [Nodes -> 1..MaxTerm]
    BY <1>1, <1>3, DispatchAssumption DEF TakeOver, DispatchTypeOK
  <2> QED BY <1>1, <1>3, <2>1, QuietInv DEF TakeOver, DispatchTypeOK
<1>4. ASSUME NEW n \in Nodes, RecoverAmbiguousDispatched(n) PROVE DispatchInv' /\ KeepsTerminal
  <2> DEFINE q(c) == IF Node[c] = n /\ Ambiguous(row[c], n)
                     THEN PrepareRecoveryEnvelope(Unknown(row[c]), "reconcile")
                     ELSE row[c]
  <2>1. \A c \in Commands : EvolvesQuietly(row[c], q(c))
    BY <1>1, AmbiguousEvolves
  <2>2. \A c \in Commands : q(c) \in Rows
    BY <2>1 DEF EvolvesQuietly, Evolves
  <2>3. row' = [c \in Commands |-> q(c)]
    BY <1>4 DEF RecoverAmbiguousDispatched
  <2> HIDE DEF q
  <2>4. /\ row' \in [Commands -> Rows]
        /\ \A c \in Commands : EvolvesQuietly(row[c], row'[c])
    BY <2>1, <2>2, <2>3
  <2> QED BY <1>1, <1>4, <2>4, QuietInv DEF RecoverAmbiguousDispatched, DispatchTypeOK
<1>5. ASSUME FrameLost PROVE DispatchInv' /\ KeepsTerminal
  <2>1. /\ wire' \subseteq wire /\ inbox' \subseteq inbox
        /\ row' = row /\ jobs' = jobs /\ term' = term /\ connected' = connected
        /\ agent' = agent
    BY <1>5 DEF FrameLost
  <2> QED BY <1>1, <2>1, QuietInv DEF DispatchTypeOK
<1>6. ASSUME NEW j \in jobs, JobLost(j) PROVE DispatchInv' /\ KeepsTerminal
  BY <1>1, <1>6, QuietInv DEF JobLost, DispatchTypeOK
<1>7. ASSUME NEW j \in jobs, MarkFailed(j) PROVE DispatchInv' /\ KeepsTerminal
  <2> DEFINE q == [row[j.cmd] EXCEPT !.locked = FALSE, !.leased = FALSE,
                                     !.attempt = "failed"]
  <2>1. j.cmd \in Commands
    BY <1>1, <1>7 DEF DispatchTypeOK, Jobs
  <2>2. EvolvesQuietly(row[j.cmd], q)
    BY <1>1, <1>7, <2>1, FailedEvolves DEF MarkFailed, HoldsClaim
  <2>3. row' = [row EXCEPT ![j.cmd] = q]
    BY <1>7 DEF MarkFailed
  <2> HIDE DEF q
  <2> QED BY <1>7, <2>1, <2>2, <2>3, OneRowInv DEF MarkFailed
<1> QED BY <1>2, <1>3, <1>4, <1>5, <1>6, <1>7

\* A result is ingested.
LEMMA IngestInv ==
  ASSUME DispatchInv, NEW m \in inbox, IngestCommandResult(m)
  PROVE  DispatchInv' /\ KeepsTerminal
<1>1. m.cmd \in Commands /\ m.result \in Results
  BY DEF DispatchInv, DispatchTypeOK
<1>2. CASE Ineffective(m.cmd, m.result)
  <2>1. row' = row
    BY <1>2 DEF IngestCommandResult
  <2> QED BY <2>1, SameRows, QuietInv
          DEF IngestCommandResult, DispatchInv, DispatchTypeOK
<1>3. CASE ~Ineffective(m.cmd, m.result)
  <2> DEFINE q == Applied(m.cmd, m.result)
  <2>1. /\ Evolves(row[m.cmd], q)
        /\ q.state \in Outcomes => q.state = m.result
        /\ q.payload = "retry" =>
             row[m.cmd].payload = "retry" \/ ~fixedHostEffect(m.cmd)
    BY <1>1, <1>3, SameRows, AppliedEvolves
  <2>2. row' = [row EXCEPT ![m.cmd] = q]
    BY <1>3 DEF IngestCommandResult
  <2> HIDE DEF q
  <2>3. q \in Rows
    BY <2>1 DEF Evolves
  <2>4. /\ row' \in [Commands -> Rows]
        /\ row'[m.cmd] = q
        /\ \A c \in Commands : c # m.cmd => row'[c] = row[c]
    BY <1>1, <2>2, <2>3, SameRows
  <2>5. \A c \in Commands : Evolves(row[c], row'[c])
    BY <2>1, <2>4, SameRows DEF EvolvesQuietly
  <2>6. RowsInv' /\ JobsInv' /\ OrderInv' /\ ActiveWithinLimit'
    BY <2>4, <2>5, EvolvesInv DEF IngestCommandResult
  <2>7. DispatchTypeOK'
    BY <2>4 DEF DispatchInv, DispatchTypeOK, IngestCommandResult
  <2>8. AttestedInv'
    BY <1>1, <2>1, <2>4
       DEF DispatchInv, AttestedInv, OutcomeIsAttested, IngestCommandResult
  <2>9. RetryInv'
    BY <1>1, <2>1, <2>4
       DEF DispatchInv, RetryInv, FixedNeverRetried, IngestCommandResult, fixedHostEffect
  <2>10. KeepsTerminal
    BY <2>5 DEF KeepsTerminal, Evolves
  <2> QED BY <2>6, <2>7, <2>8, <2>9, <2>10 DEF DispatchInv
<1> QED BY <1>2, <1>3

\* A command is created, and queued intent may be replaced by it.
LEMMA CreateInv ==
  ASSUME DispatchInv, NEW c \in Commands, NEW supersede \in BOOLEAN,
         Create(c, supersede)
  PROVE  DispatchInv' /\ KeepsTerminal
<1> DEFINE new == [NoRow EXCEPT !.state = "queued", !.operation = "queued"]
<1>1. /\ new \in Rows /\ new.state = "queued" /\ Coherent(new)
      /\ ~new.leased /\ new.attempts = 0 /\ new.payload = "execute"
  BY NoRowType DEF NoRow, Rows, Coherent, Mutable
<1>2. row' = [d \in Commands |->
        IF d = c THEN new
        ELSE IF supersede /\ Node[d] = Node[c] /\ Kind[d] = Kind[c]
             THEN Superseded(row[d]) ELSE row[d]]
  BY DEF Create
<1> HIDE DEF new
<1>3. \A d \in Commands : EvolvesQuietly(row[d], Superseded(row[d]))
  BY SameRows, SupersededEvolves
<1>4. /\ row'[c] = new
      /\ \A d \in Commands : d # c => EvolvesQuietly(row[d], row'[d])
      /\ row' \in [Commands -> Rows]
  BY <1>1, <1>2, <1>3, SameRows DEF EvolvesQuietly, Evolves
<1>5. /\ jobs' = jobs /\ wire' = wire /\ inbox' = inbox /\ term' = term
      /\ connected' = connected /\ agent' = agent
  BY DEF Create
<1>6. row[c].state = "none" /\ row[c].attempts = 0
  BY SameRows DEF Create, Coherent, NoRow
<1>7. DispatchTypeOK' /\ RowsInv'
  BY <1>1, <1>4, <1>5
     DEF DispatchInv, DispatchTypeOK, RowsInv, EvolvesQuietly, Evolves
<1>8. AttestedInv'
  BY <1>1, <1>4, <1>5
     DEF DispatchInv, AttestedInv, OutcomeIsAttested, EvolvesQuietly, Outcomes
<1>9. JobsInv'
  <2> SUFFICES ASSUME NEW j \in jobs
               PROVE  /\ j.n <= row'[j.cmd].attempts
                      /\ HoldsClaim(j)' => j.mode = row'[j.cmd].payload
    BY <1>5 DEF JobsInv
  <2>1. j.cmd \in Commands /\ j.n \in 1..MaxClaims /\ j.n <= row[j.cmd].attempts
    BY DEF DispatchInv, DispatchTypeOK, JobsInv, Jobs
  <2>2. j.cmd # c
    BY <1>6, <2>1, DispatchAssumption
  <2>3. Evolves(row[j.cmd], row'[j.cmd])
    BY <1>4, <2>1, <2>2 DEF EvolvesQuietly
  <2>4. j.n <= row'[j.cmd].attempts
    BY <2>1, <2>3 DEF Evolves
  <2>5. ASSUME HoldsClaim(j)' PROVE j.mode = row'[j.cmd].payload
    <3>1. DispatchInFlight(row'[j.cmd]) /\ row'[j.cmd].attempts = j.n
      BY <2>5 DEF HoldsClaim, DispatchInFlight
    <3>2. HoldsClaim(j) /\ row'[j.cmd].payload = row[j.cmd].payload
      BY <2>3, <3>1 DEF HoldsClaim, DispatchInFlight, Evolves
    <3> QED BY <3>2 DEF DispatchInv, JobsInv
  <2> QED BY <2>4, <2>5
<1>10. RetryInv'
  BY <1>1, <1>4, <1>5
     DEF DispatchInv, RetryInv, FixedNeverRetried, EvolvesQuietly, fixedHostEffect
<1>11. OrderInv'
  <2>1. DispatchedInOrder'
    <3> SUFFICES ASSUME NEW d \in Commands, NEW e \in Commands
                 PROVE  /\ row'[d].leased /\ row'[e].leased /\ Node[d] = Node[e] => d = e
                        /\ e \in Prior[d] /\ (row'[d].leased \/ row'[d].state = "dispatched")
                             => row'[e].state \in Terminal
      BY DEF DispatchedInOrder
    <3>1. /\ row[d].leased /\ row[e].leased /\ Node[d] = Node[e] => d = e
          /\ e \in Prior[d] /\ (row[d].leased \/ row[d].state = "dispatched")
                => row[e].state \in Terminal
      BY DEF DispatchInv, OrderInv, DispatchedInOrder
    <3>2. row'[d].leased => row[d].leased
      BY <1>1, <1>4 DEF EvolvesQuietly, Evolves
    <3>3. row'[e].leased => row[e].leased
      BY <1>1, <1>4 DEF EvolvesQuietly, Evolves
    <3>4. row'[d].state = "dispatched" => row[d].state = "dispatched"
      BY <1>1, <1>4 DEF EvolvesQuietly, Evolves
    <3>5. row[e].state \in Terminal => row'[e].state \in Terminal
      BY <1>4, <1>6 DEF EvolvesQuietly, Evolves, Terminal, Outcomes
    <3> QED BY <3>1, <3>2, <3>3, <3>4, <3>5
  <2>2. \A d \in Prior[c] : d \in Commands /\ row[d].state # "none"
    BY DispatchAssumption DEF Create
  <2>3. ASSUME NEW d \in Commands, row'[d].state # "none", NEW e \in Prior[d]
        PROVE  row'[e].state # "none"
    <3>1. e \in Commands
      BY <2>3, DispatchAssumption
    <3>2. CASE e = c
      BY <1>1, <1>4, <3>2
    <3>3. CASE e # c /\ d = c
      BY <1>4, <2>2, <2>3, <3>1, <3>3 DEF EvolvesQuietly, Evolves
    <3>4. CASE e # c /\ d # c
      BY <1>4, <2>3, <3>1, <3>4 DEF DispatchInv, OrderInv, EvolvesQuietly, Evolves
    <3> QED BY <3>2, <3>3, <3>4
  <2> QED BY <2>1, <2>3 DEF OrderInv
<1>12. ActiveWithinLimit'
  <2>1. Held' \subseteq Held
    BY <1>1, <1>4 DEF Held, EvolvesQuietly, Evolves
  <2> QED BY <2>1, HeldShrinks DEF DispatchInv
<1>13. KeepsTerminal
  BY <1>4, <1>6 DEF KeepsTerminal, EvolvesQuietly, Evolves, Terminal, Outcomes
<1> QED BY <1>7, <1>8, <1>9, <1>10, <1>11, <1>12, <1>13 DEF DispatchInv

\* A frame is sent, or the send fails.
LEMMA SendInv ==
  ASSUME DispatchInv, NEW j \in jobs, NEW written \in BOOLEAN,
         SendCommand(j) \/ SendFails(j, written)
  PROVE  DispatchInv' /\ KeepsTerminal
<1>1. j \in Jobs /\ j.cmd \in Commands /\ j.mode \in Modes
  BY DEF DispatchInv, DispatchTypeOK, Jobs
<1>2. PICK k \in Jobs : /\ k.cmd = j.cmd /\ k.n = j.n /\ k.mode = j.mode
                        /\ jobs' = (jobs \ {j}) \cup {k}
  <2>1. CASE SendCommand(j)
    <3> DEFINE k == [j EXCEPT !.stage = "sent", !.fence = term[Node[j.cmd]]]
    <3>1. term[Node[j.cmd]] \in 0..MaxTerm
      BY <1>1, DispatchAssumption DEF DispatchInv, DispatchTypeOK
    <3>2. k \in Jobs /\ k.cmd = j.cmd /\ k.n = j.n /\ k.mode = j.mode
      BY <1>1, <3>1 DEF Jobs
    <3>3. jobs' = (jobs \ {j}) \cup {k}
      BY <2>1 DEF SendCommand, Moved
    <3> QED BY <3>2, <3>3
  <2>2. CASE SendFails(j, written)
    <3> DEFINE k == [j EXCEPT !.stage = "error", !.fence = 0]
    <3>1. 0 \in 0..MaxTerm
      BY DispatchAssumption
    <3>2. k \in Jobs /\ k.cmd = j.cmd /\ k.n = j.n /\ k.mode = j.mode
      BY <1>1, <3>1 DEF Jobs
    <3>3. jobs' = (jobs \ {j}) \cup {k}
      BY <2>2 DEF SendFails, Moved
    <3> QED BY <3>2, <3>3
  <2> QED BY <2>1, <2>2
<1>3. /\ wire' \subseteq wire \cup {[cmd |-> j.cmd, mode |-> j.mode]}
      /\ row' = row /\ inbox' = inbox /\ term' = term /\ connected' = connected
      /\ agent' = agent
  BY DEF SendCommand, SendFails
<1>4. DispatchTypeOK'
  BY <1>1, <1>2, <1>3 DEF DispatchInv, DispatchTypeOK
<1>5. RowsInv' /\ AttestedInv' /\ OrderInv' /\ ActiveWithinLimit'
  BY <1>3 DEF DispatchInv, RowsInv, AttestedInv, OutcomeIsAttested, OrderInv,
              DispatchedInOrder, ActiveWithinLimit
<1>6. JobsInv'
  BY <1>2, <1>3 DEF DispatchInv, JobsInv, HoldsClaim
<1>7. RetryInv'
  BY <1>2, <1>3 DEF DispatchInv, RetryInv, FixedNeverRetried, fixedHostEffect
<1> QED BY <1>3, <1>4, <1>5, <1>6, <1>7 DEF DispatchInv, KeepsTerminal

\* The node answers a frame.
LEMMA AgentHandlesInv ==
  ASSUME DispatchInv, NEW e \in wire, NEW outcome \in Outcomes \cup {"none"},
         NEW result \in Results, AgentHandles(e, outcome, result)
  PROVE  DispatchInv' /\ KeepsTerminal
<1> DEFINE after == IF outcome \in Outcomes THEN outcome ELSE agent[e.cmd]
<1>1. e.cmd \in Commands /\ agent[e.cmd] \in Agents
  BY DEF DispatchInv, DispatchTypeOK
<1>2. /\ after \in Outcomes \cup {"none"}
      /\ agent[e.cmd] # "none" => after = agent[e.cmd]
      /\ result \in Outcomes => result = after
  BY <1>1 DEF AgentHandles, MayDecide, Agents
<1>3. agent' = [agent EXCEPT ![e.cmd] = after]
  BY DEF AgentHandles
<1> HIDE DEF after
<1>4. /\ row' = row /\ jobs' = jobs /\ term' = term /\ connected' = connected
      /\ wire' \subseteq wire
      /\ inbox' = inbox \cup {[cmd |-> e.cmd, result |-> result]}
  BY DEF AgentHandles
<1>5. /\ agent' \in [Commands -> Agents]
      /\ agent'[e.cmd] = after
      /\ \A c \in Commands : c # e.cmd => agent'[c] = agent[c]
  BY <1>1, <1>2, <1>3 DEF DispatchInv, DispatchTypeOK, Agents
<1>6. DispatchTypeOK'
  BY <1>1, <1>4, <1>5 DEF DispatchInv, DispatchTypeOK
<1>7. AttestedInv'
  <2>1. \A c \in Commands :
          agent[c] \in Outcomes => agent'[c] = agent[c]
    BY <1>2, <1>5 DEF Outcomes
  <2>2. OutcomeIsAttested'
    BY <1>4, <2>1 DEF DispatchInv, AttestedInv, OutcomeIsAttested
  <2>3. ASSUME NEW m \in inbox', m.result \in Outcomes
        PROVE  agent'[m.cmd] = m.result
    <3>1. CASE m \in inbox
      BY <2>1, <2>3, <3>1 DEF DispatchInv, DispatchTypeOK, AttestedInv
    <3>2. CASE m = [cmd |-> e.cmd, result |-> result]
      BY <1>2, <1>5, <2>3, <3>2
    <3> QED BY <1>4, <3>1, <3>2
  <2> QED BY <2>2, <2>3 DEF AttestedInv
<1>8. RowsInv' /\ OrderInv' /\ ActiveWithinLimit' /\ JobsInv' /\ RetryInv'
  BY <1>4 DEF DispatchInv, RowsInv, OrderInv, DispatchedInOrder, ActiveWithinLimit,
              JobsInv, HoldsClaim, RetryInv, FixedNeverRetried, fixedHostEffect
<1> QED BY <1>4, <1>6, <1>7, <1>8 DEF DispatchInv, KeepsTerminal

\* A command is claimed.
LEMMA ClaimInv ==
  ASSUME DispatchInv, NEW c \in Commands, Claim(c)
  PROVE  DispatchInv' /\ KeepsTerminal
<1> DEFINE r == row[c]
<1> DEFINE q == [r EXCEPT !.leased = TRUE, !.locked = TRUE, !.timely = TRUE,
                          !.attempts = r.attempts + 1, !.attempt = "sending"]
<1> DEFINE k == [cmd |-> c, n |-> r.attempts + 1, mode |-> r.payload,
                 stage |-> "claimed", fence |-> 0]
<1>1. /\ r \in Rows /\ Coherent(r)
      /\ r.state \in {"queued", "unknown"} /\ r.attempts < MaxClaims
  BY SameRows DEF Claim, Candidate
<1>2. /\ r.attempts \in Nat /\ r.attempts + 1 \in 1..MaxClaims
      /\ r.attempts + 1 \in 0..MaxClaims /\ 0 \in 0..MaxTerm
  BY <1>1, DispatchAssumption DEF Rows
<1>3. /\ q \in Rows /\ q.state = r.state /\ q.operation = r.operation
      /\ q.mode = r.mode /\ q.payload = r.payload
      /\ q.leased /\ q.attempts = r.attempts + 1
  BY <1>1, <1>2 DEF Rows
<1>4. k \in Jobs /\ k.cmd = c /\ k.n = r.attempts + 1 /\ k.mode = r.payload
  BY <1>1, <1>2 DEF Jobs, Rows
<1>5. row' = [row EXCEPT ![c] = q] /\ jobs' = jobs \cup {k}
  BY DEF Claim
<1>6. /\ wire' = wire /\ inbox' = inbox /\ term' = term
      /\ connected' = connected /\ agent' = agent
  BY DEF Claim
<1> HIDE DEF q, k
<1>7. /\ row' \in [Commands -> Rows] /\ row'[c] = q
      /\ \A d \in Commands : d # c => row'[d] = row[d]
  BY <1>3, <1>5, SameRows
<1>8. \A d \in Commands :
        /\ row'[d].state = row[d].state /\ row'[d].operation = row[d].operation
        /\ row'[d].mode = row[d].mode /\ row'[d].payload = row[d].payload
  BY <1>3, <1>7
<1>9. DispatchTypeOK'
  BY <1>4, <1>5, <1>6, <1>7 DEF DispatchInv, DispatchTypeOK
<1>10. RowsInv'
  <2>1. Coherent(q)
    BY <1>1, <1>3 DEF Coherent
  <2> QED BY <1>7, <2>1 DEF DispatchInv, RowsInv
<1>11. AttestedInv'
  BY <1>6, <1>8 DEF DispatchInv, AttestedInv, OutcomeIsAttested
<1>12. JobsInv'
  <2> SUFFICES ASSUME NEW j \in jobs'
               PROVE  /\ j.n <= row'[j.cmd].attempts
                      /\ HoldsClaim(j)' => j.mode = row'[j.cmd].payload
    BY DEF JobsInv
  <2>1. CASE j = k
    BY <1>2, <1>3, <1>4, <1>7, <2>1
  <2>2. CASE j \in jobs
    <3>1. j.cmd \in Commands /\ j.n \in Nat /\ j.n <= row[j.cmd].attempts
      BY <2>2, DispatchAssumption DEF DispatchInv, DispatchTypeOK, JobsInv, Jobs
    <3>2. CASE j.cmd = c
      <4>1. j.n < row'[j.cmd].attempts
        BY <1>2, <1>3, <1>7, <3>1, <3>2
      <4>2. row'[j.cmd].attempts \in Nat
        BY <1>2, <1>3, <1>7, <3>2
      <4> QED BY <3>1, <4>1, <4>2 DEF HoldsClaim
    <3>3. CASE j.cmd # c
      BY <1>7, <2>2, <3>1, <3>3 DEF DispatchInv, JobsInv, HoldsClaim
    <3> QED BY <3>2, <3>3
  <2> QED BY <1>5, <2>1, <2>2
<1>13. RetryInv'
  BY <1>4, <1>5, <1>6, <1>8
     DEF DispatchInv, RetryInv, FixedNeverRetried, fixedHostEffect
<1>14. OrderInv'
  <2>1. \A d \in Prior[c] : d \in Commands /\ row[d].state \in Terminal
    <3> SUFFICES ASSUME NEW d \in Prior[c] PROVE d \in Commands /\ row[d].state \in Terminal
      OBVIOUS
    <3>1. d \in Commands
      BY DispatchAssumption
    <3>2. row[d].state # "none"
      BY <1>1, <3>1 DEF DispatchInv, OrderInv
    <3>3. row[d].state \notin Mutable
      BY DEF Claim, Candidate, PriorsDone
    <3>4. row[d] \in Rows
      BY <3>1, SameRows
    <3> QED BY <3>1, <3>2, <3>3, <3>4 DEF Rows
  <2>2. \A d \in Commands : Node[d] = Node[c] => ~row[d].leased
    BY DEF Claim, Candidate, NodeLeased, OnNode
  <2>3. DispatchedInOrder'
    <3> SUFFICES ASSUME NEW d \in Commands, NEW e \in Commands
                 PROVE  /\ row'[d].leased /\ row'[e].leased /\ Node[d] = Node[e] => d = e
                        /\ e \in Prior[d] /\ (row'[d].leased \/ row'[d].state = "dispatched")
                             => row'[e].state \in Terminal
      BY DEF DispatchedInOrder
    <3>1. /\ row[d].leased /\ row[e].leased /\ Node[d] = Node[e] => d = e
          /\ e \in Prior[d] /\ (row[d].leased \/ row[d].state = "dispatched")
                => row[e].state \in Terminal
      BY DEF DispatchInv, OrderInv, DispatchedInOrder
    <3>2. row'[d].leased /\ row'[e].leased /\ Node[d] = Node[e] => d = e
      BY <1>7, <2>2, <3>1
    <3>3. e \in Prior[d] /\ (row'[d].leased \/ row'[d].state = "dispatched")
            => row'[e].state \in Terminal
      BY <1>7, <1>8, <2>1, <3>1
    <3> QED BY <3>2, <3>3
  <2>4. \A d \in Commands : row'[d].state # "none" =>
          \A e \in Prior[d] : row'[e].state # "none"
    BY <1>8, DispatchAssumption DEF DispatchInv, OrderInv
  <2> QED BY <2>3, <2>4 DEF OrderInv
<1>15. ActiveWithinLimit'
  <2>1. Held \subseteq Active
    <3> SUFFICES ASSUME NEW d \in Commands, row[d].state = "dispatched" \/ row[d].leased
                 PROVE  d \in Active
      BY DEF Held
    <3>1. Coherent(row[d])
      BY SameRows
    <3> QED BY <3>1 DEF Active, Coherent
  <2>2. IsFiniteSet(Active)
    BY DispatchAssumption, FS_Subset DEF Active
  <2>3. IsFiniteSet(Held) /\ Cardinality(Held) <= Cardinality(Active)
    BY <2>1, <2>2, FS_Subset
  <2>4. Held' \subseteq Held \cup {c}
    BY <1>7 DEF Held
  <2>5. /\ IsFiniteSet(Held \cup {c})
        /\ Cardinality(Held \cup {c}) <= Cardinality(Held) + 1
    <3>1. /\ IsFiniteSet(Held \cup {c})
          /\ Cardinality(Held \cup {c})
               = IF c \in Held THEN Cardinality(Held) ELSE Cardinality(Held) + 1
      BY <2>3, FS_AddElement
    <3>2. Cardinality(Held) \in Nat
      BY <2>3, FS_CardinalityType
    <3> QED BY <3>1, <3>2
  <2>6. IsFiniteSet(Held') /\ Cardinality(Held') <= Cardinality(Held \cup {c})
    BY <2>4, <2>5, FS_Subset
  <2>7. /\ Cardinality(Held) \in Nat /\ Cardinality(Held') \in Nat
        /\ Cardinality(Held \cup {c}) \in Nat /\ Cardinality(Active) \in Nat
    BY <2>2, <2>3, <2>5, <2>6, FS_CardinalityType
  <2>8. Cardinality(Active) < CommandLimit
    BY DEF Claim
  <2>9. Cardinality(Held') <= CommandLimit
    BY <2>3, <2>5, <2>6, <2>7, <2>8, DispatchAssumption
  <2> QED BY <2>9 DEF ActiveWithinLimit, Held
<1>16. KeepsTerminal
  BY <1>8 DEF KeepsTerminal
<1> QED BY <1>9, <1>10, <1>11, <1>12, <1>13, <1>14, <1>15, <1>16 DEF DispatchInv

\* A dispatch is recorded: the claim becomes the slot of a dispatched command.
LEMMA MarkSentInv ==
  ASSUME DispatchInv, NEW j \in jobs, MarkSent(j)
  PROVE  DispatchInv' /\ KeepsTerminal
<1> DEFINE c == j.cmd
<1> DEFINE r == row[c]
<1> DEFINE closed == [r EXCEPT !.published = TRUE, !.locked = FALSE, !.leased = FALSE,
                               !.attempt = "sent", !.mode = j.mode, !.fence = j.fence]
<1> DEFINE sent == [closed EXCEPT !.state = "dispatched",
                      !.operation = IF closed.operation = "queued" THEN "dispatched"
                                    ELSE closed.operation]
<1>1. /\ j \in Jobs /\ c \in Commands /\ j.mode \in Modes /\ j.fence \in 0..MaxTerm
      /\ r \in Rows /\ Coherent(r)
  BY SameRows DEF DispatchInv, DispatchTypeOK, Jobs
<1>2. /\ r.leased /\ r.state \in {"queued", "unknown"}
      /\ j.mode = r.payload
  BY DEF MarkSent, HoldsClaim, DispatchInv, JobsInv
<1>3. /\ closed \in Rows /\ closed.state = r.state /\ closed.operation = r.state
      /\ closed.attempts = r.attempts /\ ~closed.leased
      /\ closed.mode = r.payload /\ closed.payload = r.payload
  BY <1>1, <1>2 DEF Rows, Coherent
<1>4. PICK q : row' = [row EXCEPT ![c] = q] /\ (q = closed \/ q = sent)
  BY DEF MarkSent
<1> HIDE DEF closed
<1>5. /\ sent \in Rows /\ sent.state = "dispatched"
      /\ sent.operation \in {"dispatched", "unknown"}
      /\ sent.attempts = r.attempts /\ ~sent.leased
      /\ sent.mode = r.payload /\ sent.payload = r.payload
  <2> DEFINE op == IF closed.operation = "queued" THEN "dispatched" ELSE closed.operation
  <2>1. op \in {"dispatched", "unknown"}
    BY <1>2, <1>3
  <2>2. sent = [closed EXCEPT !.state = "dispatched", !.operation = op]
    OBVIOUS
  <2> HIDE DEF op, sent
  <2> QED BY <1>3, <2>1, <2>2 DEF Rows, Mutable
<1> HIDE DEF sent
<1>6. /\ q \in Rows /\ Coherent(q) /\ q.attempts = r.attempts /\ ~q.leased
      /\ q.payload = r.payload /\ q.state \in {"queued", "unknown", "dispatched"}
  BY <1>2, <1>3, <1>4, <1>5 DEF Coherent, Mutable
<1>7. /\ row' \in [Commands -> Rows] /\ row'[c] = q
      /\ \A d \in Commands : d # c => row'[d] = row[d]
  BY <1>1, <1>4, <1>6, SameRows
<1>8. /\ jobs' \subseteq jobs /\ wire' = wire /\ inbox' = inbox /\ term' = term
      /\ connected' = connected /\ agent' = agent
  BY DEF MarkSent
<1> HIDE DEF c, r
<1>9. DispatchTypeOK' /\ RowsInv'
  BY <1>6, <1>7, <1>8 DEF DispatchInv, DispatchTypeOK, RowsInv
<1>10. AttestedInv'
  BY <1>6, <1>7, <1>8 DEF DispatchInv, AttestedInv, OutcomeIsAttested, Outcomes
<1>11. JobsInv'
  <2> SUFFICES ASSUME NEW i \in jobs'
               PROVE  /\ i.n <= row'[i.cmd].attempts
                      /\ HoldsClaim(i)' => i.mode = row'[i.cmd].payload
    BY DEF JobsInv
  <2>1. i \in jobs /\ i.cmd \in Commands
    BY <1>8 DEF DispatchInv, DispatchTypeOK, Jobs
  <2>2. i.n <= row[i.cmd].attempts /\ (HoldsClaim(i) => i.mode = row[i.cmd].payload)
    BY <2>1 DEF DispatchInv, JobsInv
  <2>3. CASE i.cmd = c
    BY <1>6, <1>7, <2>2, <2>3 DEF HoldsClaim, r
  <2>4. CASE i.cmd # c
    BY <1>7, <2>1, <2>2, <2>4 DEF HoldsClaim
  <2> QED BY <2>3, <2>4
<1>12. RetryInv'
  BY <1>6, <1>7, <1>8 DEF DispatchInv, RetryInv, FixedNeverRetried, fixedHostEffect, r
<1>13. OrderInv'
  <2>1. DispatchedInOrder'
    <3> SUFFICES ASSUME NEW d \in Commands, NEW e \in Commands
                 PROVE  /\ row'[d].leased /\ row'[e].leased /\ Node[d] = Node[e] => d = e
                        /\ e \in Prior[d] /\ (row'[d].leased \/ row'[d].state = "dispatched")
                             => row'[e].state \in Terminal
      BY DEF DispatchedInOrder
    <3>1. /\ row[d].leased /\ row[e].leased /\ Node[d] = Node[e] => d = e
          /\ e \in Prior[d] /\ (row[d].leased \/ row[d].state = "dispatched")
                => row[e].state \in Terminal
      BY DEF DispatchInv, OrderInv, DispatchedInOrder
    <3>2. row'[d].leased => row[d].leased
      BY <1>6, <1>7
    <3>3. row'[e].leased => row[e].leased
      BY <1>6, <1>7
    <3>4. row'[d].leased \/ row'[d].state = "dispatched"
            => row[d].leased \/ row[d].state = "dispatched"
      BY <1>2, <1>6, <1>7 DEF r
    <3>5. row[e].state \in Terminal => row'[e].state \in Terminal
      <4>1. CASE e = c
        BY <1>2, <4>1 DEF Terminal, Outcomes, r
      <4>2. CASE e # c
        BY <1>7, <4>2
      <4> QED BY <4>1, <4>2
    <3> QED BY <3>1, <3>2, <3>3, <3>4, <3>5
  <2>2. \A d \in Commands : (row'[d].state = "none") <=> (row[d].state = "none")
    BY <1>2, <1>6, <1>7 DEF r
  <2>3. \A d \in Commands : row'[d].state # "none" =>
          \A e \in Prior[d] : row'[e].state # "none"
    BY <2>2, DispatchAssumption DEF DispatchInv, OrderInv
  <2> QED BY <2>1, <2>3 DEF OrderInv
<1>14. ActiveWithinLimit'
  <2>1. Held' \subseteq Held
    BY <1>1, <1>2, <1>6, <1>7 DEF Held, r
  <2> QED BY <2>1, HeldShrinks DEF DispatchInv
<1>15. KeepsTerminal
  BY <1>2, <1>7 DEF KeepsTerminal, Terminal, Outcomes, r
<1> QED BY <1>9, <1>10, <1>11, <1>12, <1>13, <1>14, <1>15 DEF DispatchInv

\* Every step keeps the invariant and every terminal state.
LEMMA DispatchNextInv ==
  ASSUME DispatchInv, [DispatchNext]_dispatchVars
  PROVE  DispatchInv' /\ KeepsTerminal
<1>1. CASE UNCHANGED dispatchVars
  <2>1. /\ row' = row /\ jobs' = jobs /\ wire' = wire /\ inbox' = inbox
        /\ term' = term /\ connected' = connected /\ agent' = agent
    BY <1>1 DEF dispatchVars
  <2> QED BY <2>1, SameRows, QuietInv DEF DispatchInv, DispatchTypeOK
<1>2. ASSUME NEW c \in Commands, NEW supersede \in BOOLEAN, Create(c, supersede)
      PROVE  DispatchInv' /\ KeepsTerminal
  BY <1>2, CreateInv
<1>3. ASSUME NEW c \in Commands, Claim(c) PROVE DispatchInv' /\ KeepsTerminal
  BY <1>3, ClaimInv
<1>4. ASSUME NEW c \in Commands,
             ExpireQueued(c) \/ LeaseExpires(c) \/ DeadlinePasses(c) \/ WindowCloses(c)
      PROVE  DispatchInv' /\ KeepsTerminal
  BY <1>4, ClockInv
<1>5. ASSUME NEW j \in jobs, NEW written \in BOOLEAN,
             SendCommand(j) \/ SendFails(j, written)
      PROVE  DispatchInv' /\ KeepsTerminal
  BY <1>5, SendInv
<1>6. ASSUME NEW j \in jobs, MarkSent(j) PROVE DispatchInv' /\ KeepsTerminal
  BY <1>6, MarkSentInv
<1>7. ASSUME NEW j \in jobs, MarkFailed(j) \/ JobLost(j)
      PROVE  DispatchInv' /\ KeepsTerminal
  BY <1>7, MaintenanceInv
<1>8. ASSUME NEW due \in SUBSET Commands, Reap(due) PROVE DispatchInv' /\ KeepsTerminal
  BY <1>8, MaintenanceInv
<1>9. ASSUME NEW n \in Nodes, TakeOver(n) \/ RecoverAmbiguousDispatched(n)
      PROVE  DispatchInv' /\ KeepsTerminal
  BY <1>9, MaintenanceInv
<1>10. ASSUME NEW m \in inbox, IngestCommandResult(m) PROVE DispatchInv' /\ KeepsTerminal
  BY <1>10, IngestInv
<1>11. ASSUME NEW e \in wire, NEW outcome \in Outcomes \cup {"none"},
              NEW result \in Results, AgentHandles(e, outcome, result)
       PROVE  DispatchInv' /\ KeepsTerminal
  BY <1>11, AgentHandlesInv
<1>12. CASE FrameLost
  BY <1>12, MaintenanceInv
<1> QED BY <1>1, <1>2, <1>3, <1>4, <1>5, <1>6, <1>7, <1>8, <1>9, <1>10, <1>11, <1>12
        DEF DispatchNext

\* Nothing has happened yet.
LEMMA DispatchInitInv == DispatchInit => DispatchInv
<1> SUFFICES ASSUME DispatchInit PROVE DispatchInv
  OBVIOUS
<1>1. \A c \in Commands : row[c] = NoRow
  BY DEF DispatchInit
<1>2. jobs = {} /\ wire = {} /\ inbox = {}
  BY DEF DispatchInit
<1>3. DispatchTypeOK
  <2>1. 1 \in 1..MaxTerm
    BY DispatchAssumption
  <2>2. "none" \in Agents
    BY DEF Agents
  <2> QED BY <2>1, <2>2, NoRowType DEF DispatchInit, DispatchTypeOK
<1>4. RowsInv
  BY <1>1, NoRowType DEF RowsInv
<1>5. \A c \in Commands :
        /\ row[c].state = "none" /\ ~row[c].leased /\ row[c].payload = "execute"
  BY <1>1 DEF NoRow
<1>6. AttestedInv /\ JobsInv /\ RetryInv /\ OrderInv
  BY <1>2, <1>5 DEF AttestedInv, OutcomeIsAttested, Outcomes, JobsInv, RetryInv,
                    FixedNeverRetried, OrderInv, DispatchedInOrder
<1>7. ActiveWithinLimit
  <2>1. Held = {}
    BY <1>5 DEF Held
  <2>2. Cardinality(Held) = 0
    BY <2>1, FS_EmptySet
  <2>3. Cardinality(Held) <= CommandLimit
    BY <2>2, DispatchAssumption
  <2> QED BY <2>3 DEF ActiveWithinLimit, Held
<1> QED BY <1>3, <1>4, <1>6, <1>7 DEF DispatchInv

\* The inductive invariant holds in every reachable state.
THEOREM DispatchInvariant == DispatchSpec => []DispatchInv
<1>1. DispatchInit => DispatchInv
  BY DispatchInitInv
<1>2. DispatchInv /\ [DispatchNext]_dispatchVars => DispatchInv'
  BY DispatchNextInv
<1> QED BY <1>1, <1>2, PTL DEF DispatchSpec

\* The rows, the dispatches in memory and the frames keep their types.
THEOREM DispatchTypeCorrect == DispatchSpec => []DispatchTypeOK
<1>1. DispatchInv => DispatchTypeOK
  BY DEF DispatchInv
<1> QED BY <1>1, DispatchInvariant, PTL

\* The outcome of a command is the one privd attested, whatever is lost, late
\* or repeated (IngestCommandResult, Reap).
THEOREM DispatchOutcomeIsAttested == DispatchSpec => []OutcomeIsAttested
<1>1. DispatchInv => OutcomeIsAttested
  BY DEF DispatchInv, AttestedInv
<1> QED BY <1>1, DispatchInvariant, PTL

\* A result is judged by the delivery mode of the envelope that caused it
\* (PrepareRecoveryEnvelope, finishDispatch).
THEOREM DispatchEnvelopeMatchesOutbox == DispatchSpec => []EnvelopeMatchesOutbox
<1>1. DispatchInv => EnvelopeMatchesOutbox
  BY DEF DispatchInv, RowsInv, Coherent, EnvelopeMatchesOutbox
<1> QED BY <1>1, DispatchInvariant, PTL

\* The environment-wide command limit is kept by any number of workers
\* (commandlimit.Available).
THEOREM DispatchWithinLimit == DispatchSpec => []ActiveWithinLimit
<1>1. DispatchInv => ActiveWithinLimit
  BY DEF DispatchInv
<1> QED BY <1>1, DispatchInvariant, PTL

\* One lease per node, and no version before the outcome of the one before it
\* (DispatchCandidates).
THEOREM DispatchOrder == DispatchSpec => []DispatchedInOrder
<1>1. DispatchInv => DispatchedInOrder
  BY DEF DispatchInv, OrderInv
<1> QED BY <1>1, DispatchInvariant, PTL

\* An effect that leaves no evidence is never retried
\* (scheduleCommandRecovery).
THEOREM DispatchFixedNeverRetried == DispatchSpec => []FixedNeverRetried
<1>1. DispatchInv => FixedNeverRetried
  BY DEF DispatchInv, RetryInv
<1> QED BY <1>1, DispatchInvariant, PTL

\* A terminal state never changes again (UpdateCommand, Reap, finishDispatch).
THEOREM DispatchTerminalIsFinal == DispatchSpec => TerminalIsFinal
<1>1. DispatchInv /\ [DispatchNext]_dispatchVars =>
        [\A c \in Commands : row[c].state \in Terminal =>
           row'[c].state = row[c].state /\ row'[c].operation = row[c].operation]_dispatchVars
  BY DispatchNextInv DEF KeepsTerminal
<1> QED BY <1>1, DispatchInvariant, PTL DEF DispatchSpec, TerminalIsFinal
=============================================================================
