SPECIFICATION JVMSpec
CONSTANTS
  Locals = {1}
  MaxArgs = 2
  MaxSteps = 5
  Decompile <- DecompileCode
  WorkLimits = {3, 1000}
  SourceSize = 3
INVARIANTS StackTypeOK SameComputation NoEffectLost NoEffectTwice SameStatements NoCallLost
CHECK_DEADLOCK FALSE
