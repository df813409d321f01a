SPECIFICATION Spec
CONSTANTS
  FunctionCount = 3
  Unit = {"a", "b", "s"}
  SwitchUnit = {"s"}
  Align = 2
  MaxOffset = 100
  MaxSize = 100
  Table = {"t", "u"}
  NoTable = "none"
  Files <- AllFiles
  Edits <- AllEdits
  CoEdits = FALSE
  MaxBatches = 1
INVARIANT UntouchedTablesResolve
CHECK_DEADLOCK FALSE
