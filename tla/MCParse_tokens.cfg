SPECIFICATION Spec
CONSTANTS
  Beginnings <- Starts
  Vocabulary <- AllTokens
  MaxTokens = 3
INVARIANTS
  NothingLost
  WrittenAgain
  ErrorsKept
CHECK_DEADLOCK FALSE
