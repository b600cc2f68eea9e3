SPECIFICATION FlowSpec
CONSTANTS
  MaxDeliveries = 4
  MaxFaults = 2
 
INVARIANT ReceiptAccepted
INVARIANT NoBlindRetry
INVARIANT SuccessIsRecorded
\* The flow ends when the command is settled or the frames are used up.
CHECK_DEADLOCK FALSE
