SPECIFICATION Spec
CONSTANTS
  Sources <- OutOfRange
  Others <- None
  IntMax <- IntLimit
  Programs <- Compiled
  Builtins <- BuiltinNames
  Input <- InputText
  StackLen = 6
  CellLen = 20
INVARIANT
  ErrorMeansFailure
CHECK_DEADLOCK FALSE
