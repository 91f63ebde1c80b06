SPECIFICATION Spec
CONSTANTS
  IntModulus = 16
  Keys <- MCKeys
  Paths <- MCPaths
  Values <- MCValues
  StreamStrings <- MCStreamStrings
  Texts <- MCTexts
  MaxText = 7
  MaxDocument = 12
  MaxEdits = 3
  MaxCalls = 6
INVARIANTS
  ParserMeetsGrammar
  TreeHoldsWhatWasRead
  WrittenIsRead
  KeysApart
CHECK_DEADLOCK FALSE
