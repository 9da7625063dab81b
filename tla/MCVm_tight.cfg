SPECIFICATION Spec
CONSTANTS
  Sources <- Tight
  Others <- None
  IntMax <- IntLimit
  Programs <- Compiled
  Builtins <- BuiltinNames
  Input <- InputText
  StackLen = 5
  CellLen = 24
INVARIANT
  RightOrReported
CHECK_DEADLOCK FALSE
