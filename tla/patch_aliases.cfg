SPECIFICATION Spec
CONSTANTS
  FunctionCount = 3
  Unit = {"a", "b", "s"}
  SwitchUnit = {"s"}
  Align = 2
  MaxOffset = 100
  MaxSize = 100
  Table = {"t", "u"}
  NoTable = "none"
  Files <- PlainFiles
  Edits <- PlainEdits
  CoEdits = TRUE
  MaxBatches = 1
INVARIANT BatchApplied
CHECK_DEADLOCK FALSE
