SPECIFICATION TypingSpec
CONSTANTS
  Ids = {"#1", "#2", "#3"}
  Stmts <- StmtsDef
  Texts <- TextsDef
  Keys = {"w", " ", "nl", "$", "_", "<", "bs"}
  MaxTyped = 2
INVARIANTS CaretStays Closed
CHECK_DEADLOCK FALSE
