CONSTANTS
  command = command
  node1 = node1
  Commands = {command}
  Nodes = {node1}
  Node <- MCNode
  Kind <- MCKind
  Prior <- MCPrior
  CommandLimit = 1
  ReapAttempts = 2
  ReconciliationAttemptLimit = 2
  MaxClaims = 3
  MaxTerm = 2
  MaxJobs = 2
  MaxMessages = 2
SPECIFICATION DispatchSpec
INVARIANTS
  OutcomeIsAttested
  EnvelopeMatchesOutbox
PROPERTIES
  DispatchedIsResolved
