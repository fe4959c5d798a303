CONSTANTS
  Replicas = {a, b}
  Changes <- MCChanges
  MaxRevision = 2
SPECIFICATION FairSyncSpec
INVARIANTS OneSideReports
PROPERTIES Converge
CHECK_DEADLOCK FALSE
