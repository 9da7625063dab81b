SPECIFICATION ReportSpec
CONSTANTS
  Sources <- AllSources
  MaxErrs = 2
  AnyLen = 3
  QuoteLen = 5
INVARIANTS
  TokensOK
  FrontOK
  ReadsBack
  ReportRight
  OnlyCommentCrashes
PROPERTIES
  LexImplemented
  TokenizerProgress
  TokenizerEnds
CHECK_DEADLOCK FALSE
