\* A setting is edited after its model was sent; no fault, no condition.
SPECIFICATION Spec
CONSTANTS
  Models <- MCModels
  Settings <- MCSettings
  Probs <- MCProbs
  Layouts <- MCLayouts
  Execs <- MCExecs
  Kernels <- MCKernels
  NameOf <- MCUnnamed
  PipeFrom <- MCPipeFrom
  Docs <- PlainDocs
  Absent = "absent"
  Bad <- MCBad
  Conditional <- MCConditional
  Rejects <- MCRejects
  MaxActs = 2
  MaxFaults = 0
INVARIANT FreshMeansCurrent
CHECK_DEADLOCK FALSE
