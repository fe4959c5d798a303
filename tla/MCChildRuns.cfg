CONSTANTS
  LaunchRetries = 2
  Pipe = 1
  MaxInput = 2
  MaxOutput = 2
  InPipe = 1
  ExecUnits = 2
  Cap = 3
  MaxMessages = 4
  MaxAudit = 1
  MaxRequests = 2
SPECIFICATION FairSpec
INVARIANTS Honest OutputsWhole NobodyLeft
PROPERTIES RequestEnds
CHECK_DEADLOCK FALSE
