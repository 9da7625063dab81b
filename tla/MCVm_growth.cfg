SPECIFICATION Spec
CONSTANTS
  Sources <- Growing
  Others <- None
  IntMax <- IntLimit
  Programs <- Compiled
  Builtins <- BuiltinNames
  Input <- InputText
  StackLen = 6
  CellLen = 30
INVARIANT
  ElementsInRange
CHECK_DEADLOCK FALSE
