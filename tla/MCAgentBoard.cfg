CONSTANTS
  Workers = {w1, w2}
  Scopes = {s1}
  Overlap <- MCOverlap
  NudgeKinds = {k1}
  NoSubject = NoSubject
  Footprints <- MCFootprints
  Peers = {p1}
  Capacity = 1
  MaxCursor = 4
  MaxRuns = 1
  MaxEdits = 1
  MaxMessages = 1
  MaxRestarts = 1
SPECIFICATION Spec
INVARIANTS AckedSurvives FreshEvidence CursorsAgree
PROPERTIES ImplementsLedger
CHECK_DEADLOCK FALSE
SYMMETRY Symmetry
