SPECIFICATION Spec
CONSTANTS
  Size <- SizeDef
  Near = 1000
  Docs <- DocsDef
  Grows <- GrowsDef
  Probs = {"p"}
  Models = {"m"}
  Marked = {"k"}
  Stylers = {"s"}
  Hidden = {"m", "s"}
  Broken = {"bad"}
  Values = {1, 2}
  Lost = 0
  Fingerprint <- FingerprintDef
  Annotation <- AnnotationDef
  Widths = {600, 800}
  MaxActs = 4
  MaxReplies = 2
INVARIANTS DrawnCurrent CaretInText
CHECK_DEADLOCK FALSE
