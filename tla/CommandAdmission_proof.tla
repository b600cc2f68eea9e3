----------------------- MODULE CommandAdmission_proof -----------------------
(***************************************************************************)
(* Who may command a node, proved for any set of Controller incarnations,  *)
(* Agent processes and commands and any number of fences, revisions and    *)
(* crashes.                                                                *)
(***************************************************************************)
EXTENDS CommandAdmission, TLAPS

\* Fences are signed for the row's epoch and owner, and epochs only grow.
FencesInv ==
  /\ row.epoch <= Len(fences)
  /\ Len(fences) > 0 =>
       fences[Len(fences)].epoch = row.epoch /\ fences[Len(fences)].owner = row.owner
  /\ \A n \in 1..Len(fences) : fences[n].epoch <= row.epoch
  /\ given <= row.epoch

\* A fence whose lease lives belongs to the row's owner, unless its term was
\* given up before the lease ran out.
LeasesInv ==
  \A n \in 1..Len(fences) :
    ~lease_expired(n) => fences[n].owner = row.owner \/ fences[n].epoch <= given

\* The journal's floor is the newest term that was ever active: no process
\* remembers a newer one and no active session has one.
FloorInv ==
  /\ \A a \in Agents : floor[a] <= durable
  /\ \A a \in Agents : conn[a].st \in {"reply", "checked", "fenced"} => conn[a].fence \in 1..Len(fences)
  /\ \A a \in Agents : Active(a) => Epoch(a) <= durable

\* A command is authorized for its own payload, with the strict hash.
ProofsInv ==
  \A p \in proofs : p.version = 2 /\ p.hash = Payload(p.cmd)

AdmissionInv ==
  /\ AdmissionTypeOK
  /\ FencesInv
  /\ LeasesInv
  /\ FloorInv
  /\ ProofsInv

\* What was let through in the last step.
DecisionInv == NewestTermOnly /\ ExecutedAsSigned /\ OwnersExclude
-----------------------------------------------------------------------------
\* A fence is signed after the others, which stay what they are.
LEMMA FenceAppended ==
  ASSUME AdmissionTypeOK, NEW f \in FenceClaims, Len(fences) < MaxFences,
         fences' = Append(fences, f)
  PROVE  /\ fences' \in Seq(FenceClaims) /\ Len(fences') = Len(fences) + 1
         /\ Len(fences') <= MaxFences /\ Len(fences) \in Nat
         /\ \A n \in 1..Len(fences) : fences'[n] = fences[n]
         /\ fences'[Len(fences) + 1] = f
  BY AdmissionConstants DEF AdmissionTypeOK

\* The last fence signed has the type of its claims.
LEMMA FenceTyped ==
  ASSUME AdmissionTypeOK, NEW n \in 1..Len(fences)
  PROVE  /\ n \in 1..MaxFences /\ n \in Epochs /\ fences[n] \in FenceClaims
         /\ fences[n].epoch \in Epochs /\ fences[n].owner \in Owners
         /\ fences[n].rev \in 1..MaxRevision
<1>1. fences[n] \in FenceClaims
  BY DEF AdmissionTypeOK
<1>2. Len(fences) \in Nat /\ Len(fences) <= MaxFences
  BY DEF AdmissionTypeOK
<1> QED
  BY <1>1, <1>2, AdmissionConstants DEF FenceClaims, Epochs

\* Sessions keep their place under the floor while fences are added and the
\* floor rises.
LEMMA FloorKept ==
  ASSUME AdmissionInv, AdmissionTypeOK',
         Len(fences) <= Len(fences'), \A n \in 1..Len(fences) : fences'[n] = fences[n],
         durable <= durable', \A a \in Agents : floor'[a] <= durable',
         \A a \in Agents : \/ conn'[a] = conn[a]
                           \/ conn'[a].st \in {"down", "read_only"}
                           \/ /\ conn'[a].st \in {"reply", "checked"}
                              /\ conn'[a].fence \in 1..Len(fences')
                           \/ /\ conn'[a].st = "fenced"
                              /\ conn'[a].fence \in 1..Len(fences')
                              /\ fences'[conn'[a].fence].epoch <= durable'
  PROVE  FloorInv'
<1>1. Len(fences) \in Nat /\ Len(fences') \in Nat
  OBVIOUS
<1>2. \A a \in Agents : conn'[a].st \in {"reply", "checked", "fenced"} =>
        conn'[a].fence \in 1..Len(fences')
  BY <1>1 DEF AdmissionInv, FloorInv
<1>3. ASSUME NEW a \in Agents, conn'[a].st = "fenced"
      PROVE  fences'[conn'[a].fence].epoch <= durable'
  <2>1. CASE conn'[a] = conn[a]
    <3>1. conn[a].fence \in 1..Len(fences) /\ fences[conn[a].fence].epoch <= durable
      BY <1>3, <2>1 DEF AdmissionInv, FloorInv, Active, Epoch
    <3>2. fences[conn[a].fence].epoch \in Nat /\ durable \in Nat /\ durable' \in Nat
      <4>1. fences[conn[a].fence].epoch \in Epochs
        BY <3>1, FenceTyped DEF AdmissionInv
      <4>2. durable \in Epochs /\ durable' \in Epochs
        BY DEF AdmissionInv, AdmissionTypeOK
      <4> QED
        BY <4>1, <4>2 DEF Epochs
    <3> QED
      BY <2>1, <3>1, <3>2
  <2> QED
    BY <1>3, <2>1
<1> QED
  BY <1>2, <1>3 DEF FloorInv, Active, Epoch

\* A new term: the epoch is the row's next one, and what is left of the terms
\* before it was given up, is the same owner's or has expired.
LEMMA AcquireStep ==
  ASSUME AdmissionInv, NEW o \in Owners, NEW released \in BOOLEAN, Acquire(o, released),
         gone' = gone
  PROVE  /\ row' \in [owner : Owners \cup {NoOwner}, epoch : Epochs, released : BOOLEAN]
         /\ row'.epoch = row.epoch + 1 /\ given' \in Epochs
         /\ fences' \in Seq(FenceClaims) /\ Len(fences') = Len(fences) + 1
         /\ Len(fences') <= MaxFences /\ gone' \in 0..Len(fences')
         /\ \A n \in 1..Len(fences) : fences'[n] = fences[n]
         /\ FencesInv' /\ LeasesInv'
<1> DEFINE f == [epoch |-> row.epoch + 1, owner |-> o, rev |-> revision]
<1>1. /\ Len(fences) \in Nat /\ Len(fences) < MaxFences /\ row.epoch \in Nat
      /\ row.epoch <= Len(fences) /\ given \in Nat /\ given <= row.epoch /\ gone \in 0..Len(fences)
  BY DEF AdmissionInv, AdmissionTypeOK, FencesInv, Acquire, Epochs
<1>2. row.epoch + 1 \in Epochs
  BY <1>1, AdmissionConstants DEF Epochs
<1>3. f \in FenceClaims
  BY <1>2 DEF AdmissionInv, AdmissionTypeOK, FenceClaims
<1>4. fences' = Append(fences, f)
  BY DEF Acquire, SignFence
<1>5. /\ fences' \in Seq(FenceClaims) /\ Len(fences') = Len(fences) + 1
      /\ Len(fences') <= MaxFences
      /\ \A n \in 1..Len(fences) : fences'[n] = fences[n]
      /\ fences'[Len(fences) + 1] = f
  BY <1>1, <1>3, <1>4, FenceAppended DEF AdmissionInv
<1>6. /\ row' = [owner |-> o, epoch |-> row.epoch + 1, released |-> released]
      /\ given' = IF row.released THEN row.epoch ELSE given
  BY DEF Acquire
<1>7. \A n \in 1..Len(fences) : fences[n].epoch \in Nat /\ fences[n].epoch <= row.epoch
  BY FenceTyped DEF AdmissionInv, FencesInv, Epochs
<1>8. \A n \in 1..Len(fences') : n \in 1..Len(fences) \/ n = Len(fences) + 1
  BY <1>1, <1>5
<1>9. FencesInv'
  BY <1>1, <1>5, <1>6, <1>7, <1>8 DEF FencesInv
<1>10. LeasesInv'
  <2> SUFFICES ASSUME NEW n \in 1..Len(fences), ~(n <= gone)
               PROVE  fences[n].owner = o \/ fences[n].epoch <= given'
    BY <1>5, <1>6, <1>8 DEF LeasesInv, lease_expired
  <2>1. fences[n].owner = row.owner \/ fences[n].epoch <= given
    BY DEF AdmissionInv, LeasesInv, lease_expired
  <2>2. CASE row.released
    BY <2>2, <1>6, <1>7
  <2>3. CASE ~row.released
    <3>1. row.owner = o
      BY <1>1, <2>3 DEF Acquire, MayAcquire, RowLive
    <3> QED
      BY <2>1, <2>3, <3>1, <1>6
  <2> QED
    BY <2>2, <2>3
<1>11. row' \in [owner : Owners \cup {NoOwner}, epoch : Epochs, released : BOOLEAN]
  BY <1>2, <1>6
<1>12. given' \in Epochs
  BY <1>1, <1>6, AdmissionConstants DEF Epochs
<1> QED
  BY <1>1, <1>5, <1>6, <1>9, <1>10, <1>11, <1>12

\* A closed connection has the type of a connection.
LEMMA DownTyped ==
  0 \in Epochs /\ Down \in [st : SessionStates, fence : Epochs, rev : 0..MaxRevision]
  BY AdmissionConstants DEF Epochs, Down, SessionStates

\* No process remembers a term that the journal does not.
LEMMA RefreshIsDurable ==
  ASSUME AdmissionInv, NEW a \in Agents
  PROVE  refresh_fence_epoch_floor(a) = durable /\ durable \in Epochs /\ durable \in Nat
<1>1. durable \in Epochs /\ floor[a] \in Epochs /\ floor[a] <= durable
  BY DEF AdmissionInv, AdmissionTypeOK, FloorInv
<1> QED
  BY <1>1 DEF refresh_fence_epoch_floor, Epochs

\* The strict hash tells a payload from every other: a configuration plan's
\* state revision is in it, and only an unknown field is not.
LEMMA StrictHash ==
  ASSUME NEW c \in Cmds
  PROVE  /\ Payload(c) \in Payloads
         /\ semantic_payload_hash(Payload(c), 2) = Payload(c)
         /\ \A p \in Payloads : semantic_payload_hash(p, 2) = Payload(c) =>
              decode(p) = Payload(c) /\ (~p.extra => p = Payload(c))
<1>1. \A p \in Payloads : semantic_payload_hash(p, 2) = decode(p)
  BY DEF semantic_payload_hash
<1>2. Payload(c) \in Payloads /\ ~Payload(c).extra
  BY DEF Payload, Payloads
<1>3. \A p \in Payloads : ~p.extra => decode(p) = p
  BY DEF Payloads, decode
<1> QED
  BY <1>1, <1>2, <1>3

\* A renewed lease is a fence of the same term and revision.
LEMMA RenewInv ==
  ASSUME AdmissionInv, NEW o \in Owners, Renew(o), decision' = NoDecision
  PROVE  AdmissionInv'
<1> DEFINE f == fences[Len(fences)]
<1>1. /\ Len(fences) \in Nat /\ Len(fences) < MaxFences /\ gone \in 0..Len(fences)
      /\ gone < Len(fences) /\ Len(fences) \in 1..Len(fences)
  BY DEF AdmissionInv, AdmissionTypeOK, Renew, RowLive
<1>2. f \in FenceClaims /\ f.epoch = row.epoch /\ f.owner = row.owner
  BY <1>1, FenceTyped DEF AdmissionInv, FencesInv
<1>3. /\ fences' \in Seq(FenceClaims) /\ Len(fences') = Len(fences) + 1
      /\ Len(fences') <= MaxFences
      /\ \A n \in 1..Len(fences) : fences'[n] = fences[n]
      /\ fences'[Len(fences) + 1] = f
  BY <1>1, <1>2, FenceAppended DEF AdmissionInv, Renew
<1>4. /\ UNCHANGED <<row, session, gone, revision, proofs, bindings, crashed, given, conn,
                     floor, durable, faults>>
  BY DEF Renew, agent
<1>5. AdmissionTypeOK'
  <2>1. gone' \in 0..Len(fences')
    BY <1>1, <1>3, <1>4
  <2> QED
    BY <1>3, <1>4, <2>1 DEF AdmissionInv, AdmissionTypeOK
<1>6. \A n \in 1..Len(fences') : n \in 1..Len(fences) \/ n = Len(fences) + 1
  BY <1>1, <1>3
<1>7. FencesInv'
  <2>1. row.epoch \in Nat
    BY DEF AdmissionInv, AdmissionTypeOK, Epochs
  <2> QED
    BY <1>1, <1>2, <1>3, <1>4, <1>6, <2>1 DEF AdmissionInv, FencesInv
<1>8. LeasesInv'
  BY <1>2, <1>3, <1>4, <1>6 DEF AdmissionInv, LeasesInv, lease_expired
<1>9. FloorInv'
  <2>1. durable \in Nat /\ Len(fences) <= Len(fences')
    BY <1>1, <1>3 DEF AdmissionInv, AdmissionTypeOK, Epochs
  <2> QED
    BY <1>3, <1>4, <1>5, <2>1, FloorKept DEF AdmissionInv, FloorInv
<1>10. ProofsInv'
  BY <1>4 DEF AdmissionInv, ProofsInv
<1> QED
  BY <1>5, <1>7, <1>8, <1>9, <1>10 DEF AdmissionInv

\* A session that ends releases the row it still holds and signs nothing.
LEMMA endSessionInv ==
  ASSUME AdmissionInv, NEW o \in Owners, endSession(o), decision' = NoDecision
  PROVE  AdmissionInv'
<1>1. AdmissionTypeOK'
  <2>1. session' \in [Owners -> Epochs]
    BY DownTyped DEF AdmissionInv, AdmissionTypeOK, endSession
  <2>2. row' = row \/ row' = [row EXCEPT !.released = TRUE]
    BY DEF endSession
  <2>3. row' \in [owner : Owners \cup {NoOwner}, epoch : Epochs, released : BOOLEAN]
    BY <2>2 DEF AdmissionInv, AdmissionTypeOK
  <2> QED
    BY <2>1, <2>3 DEF AdmissionInv, AdmissionTypeOK, endSession, agent
<1>2. FencesInv'
  BY DEF AdmissionInv, FencesInv, AdmissionTypeOK, endSession, NoDecision
<1>3. LeasesInv'
  BY DEF AdmissionInv, LeasesInv, lease_expired, AdmissionTypeOK, endSession
<1>4. FloorInv' /\ ProofsInv'
  BY DEF AdmissionInv, FloorInv, Active, Epoch, ProofsInv, endSession, agent
<1> QED
  BY <1>1, <1>2, <1>3, <1>4 DEF AdmissionInv

\* A process that crashes leaves its row and its fences.
LEMMA CrashOwnerInv ==
  ASSUME AdmissionInv, NEW o \in Owners, CrashOwner(o), decision' = NoDecision
  PROVE  AdmissionInv'
<1>1. AdmissionTypeOK'
  <2>1. session' \in [Owners -> Epochs] /\ crashed' \subseteq Owners
    BY DownTyped DEF AdmissionInv, AdmissionTypeOK, CrashOwner
  <2>2. faults' \in 0..MaxFaults
    BY AdmissionConstants DEF AdmissionInv, AdmissionTypeOK, CrashOwner, Fault
  <2> QED
    BY <2>1, <2>2 DEF AdmissionInv, AdmissionTypeOK, CrashOwner, agent
<1>2. FencesInv' /\ LeasesInv' /\ FloorInv' /\ ProofsInv'
  BY DEF AdmissionInv, FencesInv, LeasesInv, lease_expired, FloorInv, Active, Epoch,
         ProofsInv, CrashOwner, agent
<1> QED
  BY <1>1, <1>2 DEF AdmissionInv

\* A session opens under an epoch above every one signed before.
LEMMA OpenSessionInv ==
  ASSUME AdmissionInv, NEW o \in Owners, NEW a \in Agents, OpenSession(o, a), decision' = NoDecision
  PROVE  AdmissionInv'
<1>1. /\ row' \in [owner : Owners \cup {NoOwner}, epoch : Epochs, released : BOOLEAN]
      /\ row'.epoch = row.epoch + 1 /\ given' \in Epochs
      /\ fences' \in Seq(FenceClaims) /\ Len(fences') = Len(fences) + 1
      /\ Len(fences') <= MaxFences /\ gone' \in 0..Len(fences')
      /\ \A n \in 1..Len(fences) : fences'[n] = fences[n]
      /\ FencesInv' /\ LeasesInv'
  BY AcquireStep DEF OpenSession
<1>2. Len(fences) \in Nat /\ Len(fences) + 1 \in 1..Len(fences') /\ Len(fences) + 1 \in Epochs
  BY <1>1, AdmissionConstants DEF Epochs
<1>3. session' \in [Owners -> Epochs]
  <2>1. row.epoch + 1 \in Epochs /\ 0 \in Epochs
    BY <1>1, AdmissionConstants DEF Epochs
  <2> QED
    BY <2>1 DEF AdmissionInv, AdmissionTypeOK, OpenSession
<1>4. /\ conn' \in [Agents -> [st : SessionStates, fence : Epochs, rev : 0..MaxRevision]]
      /\ \A x \in Agents : \/ conn'[x] = conn[x]
                           \/ conn'[x].st = "reply" /\ conn'[x].fence = Len(fences) + 1
  <2>1. [st |-> "reply", fence |-> Len(fences) + 1, rev |-> SessionGrant]
          \in [st : SessionStates, fence : Epochs, rev : 0..MaxRevision]
    BY <1>2 DEF AdmissionInv, AdmissionTypeOK, SessionGrant, SessionStates
  <2> QED
    BY <2>1 DEF AdmissionInv, AdmissionTypeOK, OpenSession
<1>5. UNCHANGED <<revision, proofs, bindings, floor, durable, crashed>> /\ faults' \in 0..MaxFaults
  BY DEF AdmissionInv, AdmissionTypeOK, OpenSession
<1>6. AdmissionTypeOK'
  BY <1>1, <1>3, <1>4, <1>5 DEF AdmissionInv, AdmissionTypeOK
<1>7. FloorInv'
  <2>1. durable \in Nat /\ Len(fences) <= Len(fences')
    BY <1>1, <1>2 DEF AdmissionInv, AdmissionTypeOK, Epochs
  <2>2. \A x \in Agents : floor'[x] <= durable'
    BY <1>5 DEF AdmissionInv, FloorInv
  <2> QED
    BY <1>1, <1>2, <1>4, <1>5, <1>6, <2>1, <2>2, FloorKept
<1>8. ProofsInv'
  BY <1>5 DEF AdmissionInv, ProofsInv
<1> QED
  BY <1>1, <1>6, <1>7, <1>8 DEF AdmissionInv

\* A term that could not be registered is released at once.
LEMMA OpenSessionFailsInv ==
  ASSUME AdmissionInv, NEW o \in Owners, NEW a \in Agents, OpenSessionFails(o, a), decision' = NoDecision
  PROVE  AdmissionInv'
<1>1. /\ row' \in [owner : Owners \cup {NoOwner}, epoch : Epochs, released : BOOLEAN]
      /\ row'.epoch = row.epoch + 1 /\ given' \in Epochs
      /\ fences' \in Seq(FenceClaims) /\ Len(fences') = Len(fences) + 1
      /\ Len(fences') <= MaxFences /\ gone' \in 0..Len(fences')
      /\ \A n \in 1..Len(fences) : fences'[n] = fences[n]
      /\ FencesInv' /\ LeasesInv'
  BY AcquireStep DEF OpenSessionFails
<1>2. Len(fences) \in Nat /\ Len(fences) + 1 \in 1..Len(fences') /\ Len(fences) + 1 \in Epochs
  BY <1>1, AdmissionConstants DEF Epochs
<1>3. session' \in [Owners -> Epochs]
  <2>1. row.epoch + 1 \in Epochs /\ 0 \in Epochs
    BY <1>1, AdmissionConstants DEF Epochs
  <2> QED
    BY <2>1 DEF AdmissionInv, AdmissionTypeOK, OpenSessionFails
<1>4. /\ conn' \in [Agents -> [st : SessionStates, fence : Epochs, rev : 0..MaxRevision]]
      /\ \A x \in Agents : \/ conn'[x] = conn[x]
                           \/ conn'[x].st = "reply" /\ conn'[x].fence = Len(fences) + 1
  BY DEF AdmissionInv, AdmissionTypeOK, OpenSessionFails, agent
<1>5. UNCHANGED <<revision, proofs, bindings, floor, durable, crashed>> /\ faults' \in 0..MaxFaults
  BY AdmissionConstants DEF AdmissionInv, AdmissionTypeOK, OpenSessionFails, Fault, agent
<1>6. AdmissionTypeOK'
  BY <1>1, <1>3, <1>4, <1>5 DEF AdmissionInv, AdmissionTypeOK
<1>7. FloorInv'
  <2>1. durable \in Nat /\ Len(fences) <= Len(fences')
    BY <1>1, <1>2 DEF AdmissionInv, AdmissionTypeOK, Epochs
  <2>2. \A x \in Agents : floor'[x] <= durable'
    BY <1>5 DEF AdmissionInv, FloorInv
  <2> QED
    BY <1>1, <1>2, <1>4, <1>5, <1>6, <2>1, <2>2, FloorKept
<1>8. ProofsInv'
  BY <1>5 DEF AdmissionInv, ProofsInv
<1> QED
  BY <1>1, <1>6, <1>7, <1>8 DEF AdmissionInv

\* A process that finds another owner's lease gives its session up.
LEMMA OwnerLeaseHeldInv ==
  ASSUME AdmissionInv, NEW o \in Owners, NEW a \in Agents, OwnerLeaseHeld(o, a), decision' = NoDecision
  PROVE  AdmissionInv'
<1>1. AdmissionTypeOK'
  <2>1. session' \in [Owners -> Epochs]
    BY DownTyped DEF AdmissionInv, AdmissionTypeOK, OwnerLeaseHeld
  <2> QED
    BY <2>1 DEF AdmissionInv, AdmissionTypeOK, OwnerLeaseHeld, agent
<1>2. FencesInv' /\ LeasesInv' /\ FloorInv' /\ ProofsInv'
  BY DEF AdmissionInv, FencesInv, LeasesInv, lease_expired, FloorInv, Active, Epoch,
         ProofsInv, OwnerLeaseHeld, agent
<1> QED
  BY <1>1, <1>2 DEF AdmissionInv

\* A read-only session has no fence.
LEMMA AnswerReadOnlyInv ==
  ASSUME AdmissionInv, NEW o \in Owners, NEW a \in Agents, AnswerReadOnly(o, a), decision' = NoDecision
  PROVE  AdmissionInv'
<1>1. AdmissionTypeOK'
  <2>1. [st |-> "read_only", fence |-> 0, rev |-> SessionGrant]
          \in [st : SessionStates, fence : Epochs, rev : 0..MaxRevision]
    BY DownTyped DEF AdmissionInv, AdmissionTypeOK, SessionGrant, SessionStates
  <2>2. conn' \in [Agents -> [st : SessionStates, fence : Epochs, rev : 0..MaxRevision]]
    BY <2>1 DEF AdmissionInv, AdmissionTypeOK, AnswerReadOnly
  <2> QED
    BY <2>2 DEF AdmissionInv, AdmissionTypeOK, AnswerReadOnly, controller
<1>2. FloorInv'
  BY DEF AdmissionInv, FloorInv, Active, Epoch, AnswerReadOnly, controller
<1>3. FencesInv' /\ LeasesInv' /\ ProofsInv'
  BY DEF AdmissionInv, FencesInv, LeasesInv, lease_expired, ProofsInv, AnswerReadOnly,
         controller
<1> QED
  BY <1>1, <1>2, <1>3 DEF AdmissionInv

\* An expired lease leaves its fence, its epoch and its bindings.
LEMMA LeaseExpiresInv ==
  ASSUME AdmissionInv, LeaseExpires, decision' = NoDecision
  PROVE  AdmissionInv'
<1>1. AdmissionTypeOK'
  BY DEF AdmissionInv, AdmissionTypeOK, LeaseExpires, controller, agent
<1>2. LeasesInv'
  BY DEF AdmissionInv, LeasesInv, lease_expired, AdmissionTypeOK, LeaseExpires, controller
<1>3. FencesInv' /\ FloorInv' /\ ProofsInv'
  BY DEF AdmissionInv, FencesInv, FloorInv, Active, Epoch, ProofsInv, LeaseExpires,
         controller, agent
<1> QED
  BY <1>1, <1>2, <1>3 DEF AdmissionInv

\* A new revision of the node signs nothing.
LEMMA ReviseNodeInv ==
  ASSUME AdmissionInv, ReviseNode, decision' = NoDecision
  PROVE  AdmissionInv'
<1>1. AdmissionTypeOK'
  BY AdmissionConstants DEF AdmissionInv, AdmissionTypeOK, ReviseNode, Fault, agent
<1>2. FencesInv' /\ LeasesInv' /\ FloorInv' /\ ProofsInv'
  BY DEF AdmissionInv, FencesInv, LeasesInv, lease_expired, FloorInv, Active, Epoch,
         ProofsInv, ReviseNode, agent
<1> QED
  BY <1>1, <1>2 DEF AdmissionInv

\* A proof carries the hash of the payload it was signed for.
LEMMA SignCommandInv ==
  ASSUME AdmissionInv, NEW c \in Cmds, SignCommand(c), decision' = NoDecision
  PROVE  AdmissionInv'
<1>1. AdmissionTypeOK'
  <2>1. [cmd |-> c, rev |-> revision, version |-> 2,
         hash |-> semantic_payload_hash(Payload(c), 2)] \in CommandClaims
    BY StrictHash DEF AdmissionInv, AdmissionTypeOK, CommandClaims
  <2>2. proofs' \subseteq CommandClaims
    BY <2>1 DEF AdmissionInv, AdmissionTypeOK, SignCommand
  <2> QED
    BY <2>2 DEF AdmissionInv, AdmissionTypeOK, SignCommand, agent
<1>2. ProofsInv'
  BY StrictHash DEF AdmissionInv, ProofsInv, SignCommand
<1>3. FencesInv' /\ LeasesInv' /\ FloorInv'
  BY DEF AdmissionInv, FencesInv, LeasesInv, lease_expired, FloorInv, Active, Epoch,
         SignCommand, agent
<1> QED
  BY <1>1, <1>2, <1>3 DEF AdmissionInv

\* A proof that expires leaves the others.
LEMMA CommandExpiresInv ==
  ASSUME AdmissionInv, NEW c \in Cmds, CommandExpires(c), decision' = NoDecision
  PROVE  AdmissionInv'
<1>1. AdmissionTypeOK'
  BY DEF AdmissionInv, AdmissionTypeOK, CommandExpires, agent
<1>2. ProofsInv'
  BY DEF AdmissionInv, ProofsInv, CommandExpires
<1>3. FencesInv' /\ LeasesInv' /\ FloorInv'
  BY DEF AdmissionInv, FencesInv, LeasesInv, lease_expired, FloorInv, Active, Epoch,
         CommandExpires, agent
<1> QED
  BY <1>1, <1>2, <1>3 DEF AdmissionInv

\* A binding names the epoch and the revision of a fence that was signed.
LEMMA BindOperationInv ==
  ASSUME AdmissionInv, NEW c \in Cmds, BindOperation(c), decision' = NoDecision
  PROVE  AdmissionInv'
<1>1. AdmissionTypeOK'
  <2>1. \A n \in 1..Len(fences) : BindingFor(c, n) \in BindingClaims
    BY FenceTyped DEF AdmissionInv, BindingFor, BindingClaims
  <2>2. bindings' \subseteq BindingClaims
    BY <2>1 DEF AdmissionInv, AdmissionTypeOK, BindOperation
  <2> QED
    BY <2>2 DEF AdmissionInv, AdmissionTypeOK, BindOperation, agent
<1>2. FencesInv' /\ LeasesInv' /\ FloorInv' /\ ProofsInv'
  BY DEF AdmissionInv, FencesInv, LeasesInv, lease_expired, FloorInv, Active, Epoch,
         ProofsInv, BindOperation, agent
<1> QED
  BY <1>1, <1>2 DEF AdmissionInv

\* The floor of a process follows the journal's, and a checked session has a signed fence.
LEMMA NegotiateInv ==
  ASSUME AdmissionInv, NEW a \in Agents, Negotiate(a), decision' = NoDecision
  PROVE  AdmissionInv'
<1>1. AdmissionTypeOK'
  <2>1. conn' \in [Agents -> [st : SessionStates, fence : Epochs, rev : 0..MaxRevision]]
    <3>1. conn[a] \in [st : SessionStates, fence : Epochs, rev : 0..MaxRevision]
      BY DEF AdmissionInv, AdmissionTypeOK
    <3>2. [conn[a] EXCEPT !.st = "checked"] \in [st : SessionStates, fence : Epochs, rev : 0..MaxRevision]
      BY <3>1 DEF SessionStates
    <3> QED
      BY <3>1, <3>2, DownTyped DEF AdmissionInv, AdmissionTypeOK, Negotiate
  <2>2. floor' \in [Agents -> Epochs]
    BY RefreshIsDurable DEF AdmissionInv, AdmissionTypeOK, Negotiate
  <2> QED
    BY <2>1, <2>2 DEF AdmissionInv, AdmissionTypeOK, Negotiate, controller
<1>2. FloorInv'
  <2>1. /\ floor' = [floor EXCEPT ![a] = durable] /\ UNCHANGED <<fences, durable>>
        /\ conn' = [conn EXCEPT ![a] = IF CheckFence(a) THEN [@ EXCEPT !.st = "checked"] ELSE Down]
    BY RefreshIsDurable DEF Negotiate, controller
  <2>2. durable \in Nat /\ Len(fences) \in Nat /\ conn[a].fence \in 1..Len(fences)
    BY RefreshIsDurable DEF AdmissionInv, FloorInv, Negotiate
  <2>3. \A x \in Agents : floor'[x] <= durable'
    BY <2>1, <2>2 DEF AdmissionInv, FloorInv
  <2>4. \A x \in Agents : \/ conn'[x] = conn[x]
                          \/ conn'[x].st \in {"down", "read_only"}
                          \/ conn'[x].st = "checked" /\ conn'[x].fence \in 1..Len(fences')
    BY <2>1, <2>2 DEF Down
  <2> QED
    BY <1>1, <2>1, <2>2, <2>3, <2>4, FloorKept
<1>3. FencesInv' /\ LeasesInv' /\ ProofsInv'
  BY DEF AdmissionInv, FencesInv, LeasesInv, lease_expired, ProofsInv, Negotiate,
         controller
<1> QED
  BY <1>1, <1>2, <1>3 DEF AdmissionInv

\* The journal's floor never falls, and an active session has the epoch it holds.
LEMMA activate_session_connection_fenceInv ==
  ASSUME AdmissionInv, NEW a \in Agents, activate_session_connection_fence(a), decision' = NoDecision
  PROVE  AdmissionInv'
<1>1. AdmissionTypeOK'
  <2>1. conn[a].fence \in 1..Len(fences)
    BY DEF AdmissionInv, FloorInv, activate_session_connection_fence
  <2>2. fences[conn[a].fence].epoch \in Epochs /\ durable \in Epochs
    BY <2>1, FenceTyped DEF AdmissionInv, AdmissionTypeOK
  <2>3. durable' \in Epochs /\ floor' \in [Agents -> Epochs]
    BY <2>2
       DEF AdmissionInv, AdmissionTypeOK, activate_session_connection_fence,
           raise_owner_fence_epoch_floor
  <2>4. [conn[a] EXCEPT !.st = "fenced"] \in [st : SessionStates, fence : Epochs, rev : 0..MaxRevision]
    BY DEF AdmissionInv, AdmissionTypeOK, SessionStates
  <2>5. conn' \in [Agents -> [st : SessionStates, fence : Epochs, rev : 0..MaxRevision]]
    BY <2>4, DownTyped
       DEF AdmissionInv, AdmissionTypeOK, activate_session_connection_fence
  <2> QED
    BY <2>3, <2>5
       DEF AdmissionInv, AdmissionTypeOK, activate_session_connection_fence, controller
<1>2. FloorInv'
  <2> DEFINE e == fences[conn[a].fence].epoch
  <2>1. conn[a].fence \in 1..Len(fences)
    BY DEF AdmissionInv, FloorInv, activate_session_connection_fence
  <2>2. e \in Nat /\ durable \in Nat /\ Len(fences) \in Nat
    <3>1. e \in Epochs /\ durable \in Epochs
      BY <2>1, FenceTyped DEF AdmissionInv, AdmissionTypeOK
    <3> QED
      BY <3>1 DEF Epochs
  <2>6. durable' \in Nat /\ durable <= durable' /\ e <= durable'
    BY <2>2 DEF activate_session_connection_fence, raise_owner_fence_epoch_floor
  <2>3. /\ floor' = [floor EXCEPT ![a] = durable'] /\ fences' = fences
        /\ \/ conn' = [conn EXCEPT ![a] = Down]
           \/ conn' = [conn EXCEPT ![a] = [@ EXCEPT !.st = "fenced"]]
    BY DEF activate_session_connection_fence, controller
  <2>4. \A x \in Agents : floor'[x] <= durable'
    <3>1. \A x \in Agents : floor[x] \in Nat /\ floor[x] <= durable
      BY DEF AdmissionInv, AdmissionTypeOK, FloorInv, Epochs
    <3> QED
      BY <2>2, <2>3, <2>6, <3>1
  <2>5. \A x \in Agents : \/ conn'[x] = conn[x]
                          \/ conn'[x].st = "down"
                          \/ /\ conn'[x].st = "fenced" /\ conn'[x].fence \in 1..Len(fences')
                             /\ fences'[conn'[x].fence].epoch <= durable'
    <3>1. conn \in [Agents -> [st : SessionStates, fence : Epochs, rev : 0..MaxRevision]]
      BY DEF AdmissionInv, AdmissionTypeOK
    <3>2. CASE conn' = [conn EXCEPT ![a] = Down]
      BY <3>1, <3>2 DEF Down
    <3>3. CASE conn' = [conn EXCEPT ![a] = [@ EXCEPT !.st = "fenced"]]
      <4>1. /\ \A x \in Agents \ {a} : conn'[x] = conn[x]
            /\ conn'[a].st = "fenced" /\ conn'[a].fence = conn[a].fence
        BY <3>1, <3>3
      <4> QED
        BY <2>1, <2>3, <2>6, <4>1
    <3> QED
      BY <2>3, <3>2, <3>3
  <2> QED
    BY <1>1, <2>2, <2>3, <2>4, <2>5, <2>6, FloorKept
<1>3. FencesInv' /\ LeasesInv' /\ ProofsInv'
  BY DEF AdmissionInv, FencesInv, LeasesInv, lease_expired, ProofsInv,
         activate_session_connection_fence, controller
<1> QED
  BY <1>1, <1>2, <1>3 DEF AdmissionInv

\* A session that is closed leaves the floors.
LEMMA LeaseEnforcedInv ==
  ASSUME AdmissionInv, NEW a \in Agents, LeaseEnforced(a), decision' = NoDecision
  PROVE  AdmissionInv'
<1>1. AdmissionTypeOK'
  <2>1. conn' \in [Agents -> [st : SessionStates, fence : Epochs, rev : 0..MaxRevision]]
    BY DownTyped DEF AdmissionInv, AdmissionTypeOK, LeaseEnforced
  <2> QED
    BY <2>1 DEF AdmissionInv, AdmissionTypeOK, LeaseEnforced, controller
<1>2. FloorInv'
  BY DEF AdmissionInv, FloorInv, Active, Epoch, LeaseEnforced, controller, Down
<1>3. FencesInv' /\ LeasesInv' /\ ProofsInv'
  BY DEF AdmissionInv, FencesInv, LeasesInv, lease_expired, ProofsInv, LeaseEnforced,
         controller
<1> QED
  BY <1>1, <1>2, <1>3 DEF AdmissionInv

\* So does one whose connection breaks.
LEMMA DisconnectInv ==
  ASSUME AdmissionInv, NEW a \in Agents, Disconnect(a), decision' = NoDecision
  PROVE  AdmissionInv'
<1>1. AdmissionTypeOK'
  <2>1. conn' \in [Agents -> [st : SessionStates, fence : Epochs, rev : 0..MaxRevision]]
    BY DownTyped DEF AdmissionInv, AdmissionTypeOK, Disconnect
  <2>2. faults' \in 0..MaxFaults
    BY AdmissionConstants DEF AdmissionInv, AdmissionTypeOK, Disconnect, Fault
  <2> QED
    BY <2>1, <2>2 DEF AdmissionInv, AdmissionTypeOK, Disconnect, controller
<1>2. FloorInv'
  BY DEF AdmissionInv, FloorInv, Active, Epoch, Disconnect, controller, Down
<1>3. FencesInv' /\ LeasesInv' /\ ProofsInv'
  BY DEF AdmissionInv, FencesInv, LeasesInv, lease_expired, ProofsInv, Disconnect,
         controller
<1> QED
  BY <1>1, <1>2, <1>3 DEF AdmissionInv

\* A restarted Agent takes the journal's floor.
LEMMA CrashAgentInv ==
  ASSUME AdmissionInv, NEW a \in Agents, CrashAgent(a), decision' = NoDecision
  PROVE  AdmissionInv'
<1>1. AdmissionTypeOK'
  <2>1. conn' \in [Agents -> [st : SessionStates, fence : Epochs, rev : 0..MaxRevision]]
    BY DownTyped DEF AdmissionInv, AdmissionTypeOK, CrashAgent
  <2>2. floor' \in [Agents -> Epochs]
    BY DEF AdmissionInv, AdmissionTypeOK, CrashAgent
  <2>3. faults' \in 0..MaxFaults
    BY AdmissionConstants DEF AdmissionInv, AdmissionTypeOK, CrashAgent, Fault
  <2> QED
    BY <2>1, <2>2, <2>3 DEF AdmissionInv, AdmissionTypeOK, CrashAgent, controller
<1>2. FloorInv'
  <2>1. /\ floor' = [floor EXCEPT ![a] = durable] /\ UNCHANGED <<fences, durable>>
        /\ conn' = conn \/ conn' = [conn EXCEPT ![a] = Down]
    BY DEF CrashAgent, controller
  <2>2. durable \in Nat /\ Len(fences) \in Nat
    BY RefreshIsDurable
  <2>3. \A x \in Agents : floor'[x] <= durable'
    BY <2>1, <2>2 DEF AdmissionInv, FloorInv
  <2>4. \A x \in Agents : conn'[x] = conn[x] \/ conn'[x].st = "down"
    BY <2>1 DEF AdmissionInv, AdmissionTypeOK, Down
  <2> QED
    BY <1>1, <2>1, <2>2, <2>3, <2>4, FloorKept
<1>3. FencesInv' /\ LeasesInv' /\ ProofsInv'
  BY DEF AdmissionInv, FencesInv, LeasesInv, lease_expired, ProofsInv, CrashAgent,
         controller
<1> QED
  BY <1>1, <1>2, <1>3 DEF AdmissionInv

\* A read-only session decides nothing.
LEMMA ReadOnlyCommandInv ==
  ASSUME AdmissionInv, NEW a \in Agents, ReadOnlyCommand(a), decision' = NoDecision
  PROVE  AdmissionInv'
<1>1. AdmissionTypeOK'
  <2>1. conn' = conn \/ conn' = [conn EXCEPT ![a] = Down]
    BY DEF ReadOnlyCommand, AdmissionInv, AdmissionTypeOK
  <2>2. conn' \in [Agents -> [st : SessionStates, fence : Epochs, rev : 0..MaxRevision]]
    BY <2>1, DownTyped DEF AdmissionInv, AdmissionTypeOK
  <2>3. floor' \in [Agents -> Epochs]
    BY RefreshIsDurable DEF AdmissionInv, AdmissionTypeOK, ReadOnlyCommand
  <2> QED
    BY <2>2, <2>3 DEF AdmissionInv, AdmissionTypeOK, ReadOnlyCommand, controller
<1>2. FloorInv'
  <2>1. /\ floor' = [floor EXCEPT ![a] = durable] /\ UNCHANGED <<fences, durable>>
        /\ conn' = conn \/ conn' = [conn EXCEPT ![a] = Down]
    BY RefreshIsDurable DEF ReadOnlyCommand, controller, AdmissionInv, AdmissionTypeOK
  <2>2. durable \in Nat /\ Len(fences) \in Nat
    BY RefreshIsDurable
  <2>3. \A x \in Agents : floor'[x] <= durable'
    BY <2>1, <2>2 DEF AdmissionInv, FloorInv
  <2>4. \A x \in Agents : conn'[x] = conn[x] \/ conn'[x].st = "down"
    BY <2>1 DEF AdmissionInv, AdmissionTypeOK, Down
  <2> QED
    BY <1>1, <2>1, <2>2, <2>3, <2>4, FloorKept
<1>3. FencesInv' /\ LeasesInv' /\ ProofsInv'
  BY DEF AdmissionInv, FencesInv, LeasesInv, lease_expired, ProofsInv, ReadOnlyCommand,
         controller
<1> QED
  BY <1>1, <1>2, <1>3 DEF AdmissionInv

\* What the Agent admits was signed, and bound to the term of the journal's floor.
LEMMA HandleCommandInv ==
  ASSUME AdmissionInv, NEW a \in Agents, NEW c \in Cmds, HandleCommand(a, c)
  PROVE  AdmissionInv'
<1>1. AdmissionTypeOK'
  <2>1. decision' \in [by : {"none", "agent", "privd"}, cmd : Cmds, payload : Payloads,
                       fence : 1..MaxFences]
    <3>1. PICK p \in Payloads, k \in 1..Len(fences) :
            decision' = [by |-> "agent", cmd |-> c, payload |-> p, fence |-> k]
      BY DEF HandleCommand, Decide
    <3>2. k \in 1..MaxFences
      BY FenceTyped DEF AdmissionInv
    <3>3. p \in Payloads
      BY DEF Payloads, decode
    <3> QED
      BY <3>1, <3>2, <3>3
  <2>2. floor' \in [Agents -> Epochs]
    BY RefreshIsDurable DEF AdmissionInv, AdmissionTypeOK, HandleCommand
  <2> QED
    BY <2>1, <2>2 DEF AdmissionInv, AdmissionTypeOK, HandleCommand, controller
<1>2. FloorInv'
  <2>1. floor' = [floor EXCEPT ![a] = durable] /\ UNCHANGED <<fences, durable, conn>>
    BY RefreshIsDurable DEF HandleCommand, controller
  <2>2. durable \in Nat
    BY RefreshIsDurable
  <2> QED
    BY <2>1, <2>2 DEF AdmissionInv, FloorInv, Active, Epoch
<1>3. FencesInv' /\ LeasesInv' /\ ProofsInv'
  BY DEF AdmissionInv, FencesInv, LeasesInv, lease_expired, ProofsInv, HandleCommand,
         controller
<1> QED
  BY <1>1, <1>2, <1>3 DEF AdmissionInv

\* What privd executes was signed, and bound to the term of the fence it came with.
LEMMA PrivdExecuteInv ==
  ASSUME AdmissionInv, NEW c \in Cmds, PrivdExecute(c)
  PROVE  AdmissionInv'
<1>1. AdmissionTypeOK'
  <2>1. decision' \in [by : {"none", "agent", "privd"}, cmd : Cmds, payload : Payloads,
                       fence : 1..MaxFences]
    <3>1. PICK p \in Payloads, k \in 1..Len(fences) :
            decision' = [by |-> "privd", cmd |-> c, payload |-> decode(p), fence |-> k]
      BY DEF PrivdExecute, Decide
    <3>2. k \in 1..MaxFences
      BY FenceTyped DEF AdmissionInv
    <3>3. decode(p) \in Payloads
      BY DEF Payloads, decode
    <3> QED
      BY <3>1, <3>2, <3>3
  <2> QED
    BY <2>1 DEF AdmissionInv, AdmissionTypeOK, PrivdExecute, controller, agent
<1>2. FencesInv' /\ LeasesInv' /\ FloorInv' /\ ProofsInv'
  BY DEF AdmissionInv, FencesInv, LeasesInv, lease_expired, FloorInv, Active, Epoch,
         ProofsInv, PrivdExecute, controller, agent
<1> QED
  BY <1>1, <1>2 DEF AdmissionInv

\* What the Agent lets through is of the newest term and as it was signed.
LEMMA AgentDecides ==
  ASSUME AdmissionInv, AdmissionInv', NEW a \in Agents, NEW c \in Cmds, HandleCommand(a, c)
  PROVE  DecisionInv'
<1>1. PICK claims \in proofs, p \in Payloads, n \in 1..Len(fences), b \in bindings :
        /\ claims.cmd = c /\ decode_strict_command_envelope(p) /\ validate_command(a, claims, p)
        /\ FencedOperation(a, claims, n, b) /\ Decide("agent", c, p, n)
  BY DEF HandleCommand
<1>2. /\ UNCHANGED <<row, fences, given, proofs, bindings, gone, conn, durable>>
      /\ decision' = [by |-> "agent", cmd |-> c, payload |-> p, fence |-> n]
  BY <1>1 DEF HandleCommand, Decide, controller
<1>3. NewestTermOnly'
  <2>1. fences[n].epoch = durable
    BY <1>1, RefreshIsDurable DEF FencedOperation
  <2> QED
    BY <1>2, <2>1 DEF NewestTermOnly, AdmissionInv, FloorInv
<1>4. ExecutedAsSigned'
  <2>1. p = Payload(c)
    BY <1>1, StrictHash
       DEF validate_command, verify_command, AdmissionInv, ProofsInv,
           decode_strict_command_envelope
  <2>2. b = BindingFor(c, n) /\ claims.rev = fences[n].rev
    BY <1>1
       DEF FencedOperation, validate_command, matches_fence, BindingFor, BindingClaims,
           AdmissionInv, AdmissionTypeOK
  <2>3. BindingFor(c, n)' = BindingFor(c, n)
    BY <1>2 DEF BindingFor
  <2> QED
    BY <1>1, <1>2, <2>1, <2>2, <2>3 DEF ExecutedAsSigned
<1>5. OwnersExclude'
  BY <1>2 DEF OwnersExclude
<1> QED
  BY <1>3, <1>4, <1>5 DEF DecisionInv

\* What root performs is as it was signed, for an owner that still owns the
\* node or gave it up.
LEMMA PrivdDecides ==
  ASSUME AdmissionInv, NEW c \in Cmds, PrivdExecute(c)
  PROVE  DecisionInv'
<1>1. PICK claims \in proofs, p \in Payloads, n \in 1..Len(fences), b \in bindings :
        /\ claims.cmd = c /\ verify_command(claims, p)
        /\ verify_execution_fence(claims, n, b) /\ Decide("privd", c, decode(p), n)
  BY DEF PrivdExecute
<1>2. /\ UNCHANGED <<row, fences, given, proofs, bindings, gone, conn, durable>>
      /\ decision' = [by |-> "privd", cmd |-> c, payload |-> decode(p), fence |-> n]
  BY <1>1 DEF PrivdExecute, Decide, controller, agent
<1>3. NewestTermOnly'
  BY <1>2 DEF NewestTermOnly
<1>4. ExecutedAsSigned'
  <2>1. decode(p) = Payload(c)
    BY <1>1, StrictHash DEF verify_command, AdmissionInv, ProofsInv
  <2>2. b = BindingFor(c, n) /\ claims.rev = fences[n].rev
    BY <1>1
       DEF verify_execution_fence, matches_fence, BindingFor, BindingClaims, AdmissionInv,
           AdmissionTypeOK
  <2>3. BindingFor(c, n)' = BindingFor(c, n)
    BY <1>2 DEF BindingFor
  <2> QED
    BY <1>1, <1>2, <2>1, <2>2, <2>3 DEF ExecutedAsSigned
<1>5. OwnersExclude'
  <2>1. ~lease_expired(n)
    BY <1>1 DEF verify_execution_fence, verify_fence_carriers
  <2> QED
    BY <1>2, <2>1 DEF OwnersExclude, AdmissionInv, LeasesInv
<1> QED
  BY <1>3, <1>4, <1>5 DEF DecisionInv

\* Nobody owns the node and nothing is signed yet.
LEMMA AdmissionInitInv == Init => AdmissionInv /\ DecisionInv
<1> SUFFICES ASSUME Init PROVE AdmissionInv /\ DecisionInv
  OBVIOUS
<1>1. fences = <<>> /\ Len(fences) = 0 /\ fences \in Seq(FenceClaims)
  BY DEF Init
<1>2. AdmissionTypeOK
  BY <1>1, DownTyped, AdmissionConstants DEF Init, AdmissionTypeOK
<1>3. FencesInv /\ LeasesInv
  BY <1>1 DEF Init, FencesInv, LeasesInv
<1>4. FloorInv /\ ProofsInv
  BY DEF Init, FloorInv, ProofsInv, Down, Active
<1>5. DecisionInv
  BY DEF Init, DecisionInv, NewestTermOnly, ExecutedAsSigned, OwnersExclude, NoDecision
<1> QED
  BY <1>2, <1>3, <1>4, <1>5 DEF AdmissionInv

\* Every step of the Controllers, the Agent processes and privd keeps the
\* invariant.
LEMMA AdmissionNextInv ==
  ASSUME AdmissionInv, DecisionInv, [Next]_vars
  PROVE  AdmissionInv' /\ DecisionInv'
<1>1. ASSUME decision' = NoDecision PROVE DecisionInv'
  BY <1>1 DEF DecisionInv, NewestTermOnly, ExecutedAsSigned, OwnersExclude, NoDecision
<1>2. ASSUME decision' = NoDecision, ControllerStep \/ SessionStep PROVE AdmissionInv'
  <2>1. ASSUME NEW o \in Owners, Renew(o) PROVE AdmissionInv'
    BY <1>2, <2>1, RenewInv
  <2>2. ASSUME NEW o \in Owners, endSession(o) PROVE AdmissionInv'
    BY <1>2, <2>2, endSessionInv
  <2>3. ASSUME NEW o \in Owners, CrashOwner(o) PROVE AdmissionInv'
    BY <1>2, <2>3, CrashOwnerInv
  <2>4. ASSUME NEW o \in Owners, NEW a \in Agents, OpenSession(o, a) PROVE AdmissionInv'
    BY <1>2, <2>4, OpenSessionInv
  <2>5. ASSUME NEW o \in Owners, NEW a \in Agents, OpenSessionFails(o, a) PROVE AdmissionInv'
    BY <1>2, <2>5, OpenSessionFailsInv
  <2>6. ASSUME NEW o \in Owners, NEW a \in Agents, OwnerLeaseHeld(o, a) PROVE AdmissionInv'
    BY <1>2, <2>6, OwnerLeaseHeldInv
  <2>7. ASSUME NEW o \in Owners, NEW a \in Agents, AnswerReadOnly(o, a) PROVE AdmissionInv'
    BY <1>2, <2>7, AnswerReadOnlyInv
  <2>8. CASE LeaseExpires
    BY <1>2, <2>8, LeaseExpiresInv
  <2>9. CASE ReviseNode
    BY <1>2, <2>9, ReviseNodeInv
  <2>10. ASSUME NEW c \in Cmds, SignCommand(c) PROVE AdmissionInv'
    BY <1>2, <2>10, SignCommandInv
  <2>11. ASSUME NEW c \in Cmds, CommandExpires(c) PROVE AdmissionInv'
    BY <1>2, <2>11, CommandExpiresInv
  <2>12. ASSUME NEW c \in Cmds, BindOperation(c) PROVE AdmissionInv'
    BY <1>2, <2>12, BindOperationInv
  <2>13. ASSUME NEW a \in Agents, Negotiate(a) PROVE AdmissionInv'
    BY <1>2, <2>13, NegotiateInv
  <2>14. ASSUME NEW a \in Agents, activate_session_connection_fence(a) PROVE AdmissionInv'
    BY <1>2, <2>14, activate_session_connection_fenceInv
  <2>15. ASSUME NEW a \in Agents, LeaseEnforced(a) PROVE AdmissionInv'
    BY <1>2, <2>15, LeaseEnforcedInv
  <2>16. ASSUME NEW a \in Agents, Disconnect(a) PROVE AdmissionInv'
    BY <1>2, <2>16, DisconnectInv
  <2>17. ASSUME NEW a \in Agents, CrashAgent(a) PROVE AdmissionInv'
    BY <1>2, <2>17, CrashAgentInv
  <2>18. ASSUME NEW a \in Agents, ReadOnlyCommand(a) PROVE AdmissionInv'
    BY <1>2, <2>18, ReadOnlyCommandInv
  <2> QED
    BY <1>2, <2>1, <2>2, <2>3, <2>4, <2>5, <2>6, <2>7, <2>8, <2>9, <2>10, <2>11, <2>12,
       <2>13, <2>14, <2>15, <2>16, <2>17, <2>18
       DEF ControllerStep, SessionStep
<1>3. ASSUME NEW a \in Agents, NEW c \in Cmds, HandleCommand(a, c)
      PROVE  AdmissionInv' /\ DecisionInv'
  BY <1>3, HandleCommandInv, AgentDecides
<1>4. ASSUME NEW c \in Cmds, PrivdExecute(c) PROVE AdmissionInv' /\ DecisionInv'
  BY <1>4, PrivdExecuteInv, PrivdDecides
<1>5. CASE UNCHANGED vars
  BY <1>5
     DEF vars, AdmissionInv, AdmissionTypeOK, FencesInv, LeasesInv, FloorInv, ProofsInv,
         lease_expired, Active, Epoch, DecisionInv, NewestTermOnly, ExecutedAsSigned,
         OwnersExclude, BindingFor
<1> QED
  BY <1>1, <1>2, <1>3, <1>4, <1>5 DEF Next, Quiet

\* The inductive invariant holds in every reachable state.
THEOREM AdmissionInvariant == Spec => [](AdmissionInv /\ DecisionInv)
<1>1. Init => AdmissionInv /\ DecisionInv
  BY AdmissionInitInv
<1>2. AdmissionInv /\ DecisionInv /\ [Next]_vars => (AdmissionInv /\ DecisionInv)'
  BY AdmissionNextInv
<1> QED
  BY <1>1, <1>2, PTL DEF Spec

\* The row, the fences, the sessions and the floors keep their types.
THEOREM AdmissionTypeCorrect == Spec => []AdmissionTypeOK
<1>1. AdmissionInv /\ DecisionInv => AdmissionTypeOK
  BY DEF AdmissionInv
<1> QED
  BY <1>1, AdmissionInvariant, PTL

\* The Agent admits a command only under the newest term that was ever active
\* on the node, whichever process activated it (verify_fenced_operation).
THEOREM AdmissionNewestTermOnly == Spec => []NewestTermOnly
<1>1. AdmissionInv /\ DecisionInv => NewestTermOnly
  BY DEF DecisionInv
<1> QED
  BY <1>1, AdmissionInvariant, PTL

\* What is admitted and performed is what the Controller signed, for this
\* command and this term (validate_command, verify_execution_fence).
THEOREM AdmissionExecutedAsSigned == Spec => []ExecutedAsSigned
<1>1. AdmissionInv /\ DecisionInv => ExecutedAsSigned
  BY DEF DecisionInv
<1> QED
  BY <1>1, AdmissionInvariant, PTL

\* Root performs nothing for an owner that was replaced, unless the term was
\* given up before its lease ran out (verify_execution_fence).
THEOREM AdmissionOwnersExclude == Spec => []OwnersExclude
<1>1. AdmissionInv /\ DecisionInv => OwnersExclude
  BY DEF DecisionInv
<1> QED
  BY <1>1, AdmissionInvariant, PTL
=============================================================================
