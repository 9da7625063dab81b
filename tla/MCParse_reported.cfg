SPECIFICATION Spec
CONSTANTS
  Beginnings <- Starts
  Vocabulary <- AllTokens
  MaxTokens = 3
INVARIANTS
  ProblemsReported
CHECK_DEADLOCK FALSE
