SPECIFICATION Spec
SYMMETRY OwnersAlike
CONSTANTS
    Owners = {o1, o2}
    NoOwner = NoOwner
    Agents = {a1, a2}
    ReadOnly = {a2}
    plan = plan
    Cmds = {plan}
    Kind <- Kinds
    MaxFences = 3
    MaxRevision = 2
    MaxFaults = 1
INVARIANTS
    NewestTermOnly
    ExecutedAsSigned
    OwnersExclude
CHECK_DEADLOCK FALSE
