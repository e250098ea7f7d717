SPECIFICATION FrontSpec
CONSTANTS
  Modules <- PassingModules
  Texts <- MCTexts
  Externals <- MCExternals
  ByteMax = 8
INVARIANTS
  TokensKept
  ParsesBack
  FunctionsKept
  ComputesMeaning
  OperandsBalanced
PROPERTIES
  LoadsBack
CHECK_DEADLOCK FALSE
