CONSTANTS
  Letters <- MCLetters
  OddLetters <- MCOddLetters
  MaxWeight <- MCMaxWeight
  StringFields <- MCStringFields
  PointerFields <- MCPointerFields
  Graphs <- MCGraphs
  TopType = 1
  FieldNames <- MCFieldNames
SPECIFICATION Spec
INVARIANT NodeIsThePath
INVARIANT QueryIsItsParams
INVARIANT TokensNested
INVARIANT FieldsAsGo
CHECK_DEADLOCK FALSE
