SPECIFICATION LiftSpec
CONSTANTS
  Numbers = {0, 19}
  ArgCount = 1
  Params <- ParamNames
  Symbols = {1}
  Strings = {2}
  Arity <- ArityOfOne
  AddrSpace = 3
  Scratch = {0}
  Immediates = {1}
  Slots = {1}
  MaxCalls = 2
  MaxSteps = 4
  Recover <- LiftFunction
  Functions <- RecoverableFunctions
  Budgets = {3, 300}
  Patience = 24
  SourceSize = 4
  JoinedSize = 3
  JumpLength = 4
  TangleLength = 3
INVARIANTS StraightTypeOK AddressesCurrent PrintedOnce NothingVanishes SameBehaviour NeverInvents JumpsInLoops BlocksPartition SearchesExact SearchesCheap
CHECK_DEADLOCK FALSE
