\* One runner with restarts, evictions and one power loss; cursors of one and two digits.
SPECIFICATION FairRunnerSpec
CONSTANTS
  Writers = {w1}
  None = None
  Base = 3
  MaxBatch = 2
  MaxCursor = 4
  MaxStarts = 3
  MaxOutages = 1
INVARIANTS NeverSkips NeverTorn
PROPERTIES InOrderFromCheckpoint RunsEnd
CHECK_DEADLOCK FALSE
