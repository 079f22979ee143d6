CONSTANTS
  LONG_MAX = 127
  LongBits = 8
  ShortBits = 4
  USHRT_MAX = 15
  StringArgs <- MCStrings
  CharSets <- MCCharSets
  Numbers <- MCNumbers
  Lines <- MCLines
  Users = {u1, u2}
  Texts <- MCTexts
  Delimiters = {32, 44}
  MaxTokens = 4
  Fields <- MCFields
  Pieces <- MCPieces
  Suites <- MCSuites
  OpenedPaths <- MCOpenedPaths
SPECIFICATION UtilSpec
INVARIANTS
  NumberIsItsValue
  StringsAsDefined
  TokensAreBlocks
  SwitchesAreSeen
  FormatsAsDefined
  MatchesAsDefined
  OpensAreFiltered
CHECK_DEADLOCK FALSE
