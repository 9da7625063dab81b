SPECIFICATION Spec
CONSTANTS
  Sources <- LastNewline
  Others <- None
  IntMax <- IntLimit
  Programs <- Compiled
  Builtins <- BuiltinNames
  Input <- InputText
  StackLen = 6
  CellLen = 20
INVARIANT
  ResultRight
CHECK_DEADLOCK FALSE
