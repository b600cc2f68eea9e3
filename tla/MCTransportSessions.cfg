CONSTANTS
  node = node
  e1 = e1
  c1 = c1
  c2 = c2
  None = None
  cmd = cmd
  Nodes = {node}
  Endpoints = {e1}
  Conns = {c1, c2}
  Commands = {cmd}
  BoundNode <- OneNode
  Terms <- TwoTerms
  MaxRevision = 2
  MaxTasks = 1
  MaxAgentConnections = 2
  Concurrency = 1
  RequireFencing = FALSE
SPECIFICATION TransportSpec
INVARIANTS
  RetiredIsClosed
PROPERTIES
  StaleOwnerIsFenced
  LeaseIsEnforced
