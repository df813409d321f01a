SPECIFICATION SessionSpec
CONSTANTS
  FunctionCount = 3
  Unit = {"a", "b", "j", "J", "0"}
  SwitchUnit = {}
  Align = 2
  MaxOffset = 20
  MaxSize = 3
  Table = {}
  NoTable = "none"
  Files <- SessionFiles
  Edits <- SessionEdits
  CoEdits = FALSE
  MaxBatches = 1
  Width <- OpcodeWidth
  Zero = "0"
  Replacements <- SessionReplacements
  Jump = {"j"}
  Long <- LongForm
  Written <- SessionWritten
  None = None
  MaxWrites = 1
INVARIANT DirtyTracksMemory
CHECK_DEADLOCK FALSE
