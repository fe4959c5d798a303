SPECIFICATION Spec
CONSTANTS
  Workers = {w1, w2}
  Scopes = {"a", "b"}
  Overlap <- MCOverlap
  NoScope = NoScope
  MsgIds = {m1}
  NudgeKinds = {"wrap_up", "stop_claiming"}
  WrapUp = "wrap_up"
  DueSets <- MCDueSets
  SpawnBudget = 2
  MaxCursor = 2
  MaxLives = 2
  MaxEvents = 2
SYMMETRY MCSymmetry
INVARIANTS ClaimsExclusive ClaimsBacked RecordFaithful
PROPERTIES ResumeOnlyWhatIsHeld NudgedOnce ImplementsLedger
CHECK_DEADLOCK FALSE
