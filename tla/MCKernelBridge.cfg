\* One load or edit, one more act, one fault.
SPECIFICATION FairSpec
CONSTANTS
  Models <- MCModels
  Settings <- MCSettings
  Probs <- MCProbs
  Layouts <- MCLayouts
  Execs <- MCExecs
  Kernels <- MCKernels
  NameOf <- MCUnnamed
  PipeFrom <- MCPipeFrom
  Docs <- MCDocs
  Absent = "absent"
  Bad <- MCBad
  Conditional <- MCConditional
  Rejects <- MCRejects
  MaxActs = 2
  MaxFaults = 1
INVARIANTS NoGhosts PendingIsOwed QuietMeansLatest AnsweredAgainstItsModel
PROPERTY Settles
CHECK_DEADLOCK FALSE
