CONSTANTS
  Size <- MCSize
  Near = 5
  Docs <- MCDocs
  Widgets = {"w", "v", "x", "b"}
  Blank = {"b"}
  Broken = {"x"}
  Budget = 1
  MaxActs = 3
  MaxInputs = 1
SPECIFICATION EditorFair
INVARIANTS OwnFrames ShowsInstance
PROPERTIES SweepsClean FrameEnds
CHECK_DEADLOCK FALSE
