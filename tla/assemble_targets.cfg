SPECIFICATION Spec
CONSTANTS
  Plain = {"a", "b", "c"}
  ShortJump = {"j", "k", "n"}
  LongJump = {"J", "K"}
  Switch = {"s"}
  Conditional = {"j", "J", "n"}
  Leaves = {"a"}
  Silent = {"b"}
  LongOf <- MCLongOf
  Size <- MCSize
  MinRel <- MCMinRel
  MaxRel = 3
  MaxCells = 16
  MaxPasses = 4
  Programs <- MCPrograms
  NewLines <- MCNewLines
  NewAddresses <- MCNewAddresses
  MaxEdits = 1
INVARIANT KeptJumpsKeepTargets
CHECK_DEADLOCK FALSE
