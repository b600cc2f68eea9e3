CONSTANTS
  alice = alice
  staff = staff
  Users = {alice}
  Groups = {staff}
  Members <- MCMembers
  MaxCommands = 2
  MaxPending = 2
  MaxFaults = 1
SPECIFICATION UserStateSpec
INVARIANTS
  SucceededIsOnHost
  ConvergedIsApplied
PROPERTIES
  ConvergedIsStable
  SucceededConverges
