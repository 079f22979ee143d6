CONSTANTS
  Selectors = {s1}
  Other = Other
SPECIFICATION Spec
INVARIANT DsIsFlatAgain
CHECK_DEADLOCK FALSE
