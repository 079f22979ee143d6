CONSTANTS
  Suites <- NegatedSuites
  OpenedPaths <- None
SPECIFICATION PathSpec
INVARIANT NegatedSetMatchesOthers
CHECK_DEADLOCK FALSE
