CONSTANTS
  first = first
  second = second
  alice = alice
  Missing = Missing
  Local = Local
  s1 = s1
  s2 = s2
  Commands = {first, second}
  Slots = {s1, s2}
  Users = {alice}
  Kind <- UserMutations
  User <- MCUser
  Revision <- MCRevision
  MaxRecords = 2
SYMMETRY Symmetry
SPECIFICATION AgentSpec
INVARIANTS
  EffectAtMostOnce
  ObservationSound
  JournalIsReal
  FailedNeverPerformed
PROPERTIES
  HostFollowsRevisions
