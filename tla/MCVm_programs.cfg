SPECIFICATION Spec
CONSTANTS
  Sources <- Working
  Others <- Odd
  IntMax <- IntLimit
  Programs <- Compiled
  Builtins <- BuiltinNames
  Input <- InputText
  StackLen = 36
  CellLen = 72
INVARIANTS
  VmTypeOK
  StackSuffices
  ResultRight
  LabelsOnce
  GeneratorBalanced
  ReturnsOne
  EndsClean
  ArraysApart
PROPERTIES
  StoreImplemented
  Terminates
CHECK_DEADLOCK FALSE
