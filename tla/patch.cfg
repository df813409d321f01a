SPECIFICATION Spec
CONSTANTS
  FunctionCount = 3
  Unit = {"a", "b", "s"}
  SwitchUnit = {"s"}
  Align = 2
  MaxOffset = 11
  MaxSize = 3
  Table = {"t", "u"}
  NoTable = "none"
  Files <- AllFiles
  Edits <- AllEdits
  CoEdits = FALSE
  MaxBatches = 2
INVARIANTS TypeOK LayoutKept PlacedTablesResolve
PROPERTIES ImplementsStore AlignedGrowthKeepsHandlers
CHECK_DEADLOCK FALSE
