CONSTANTS
  Kinds = {"mwdd32", "basedev", "ses", "device"}
  MaxIrqs = 2
  Selectors = {s1, s2, s3}
  Other = Other
SPECIFICATION FairSpecAll
INVARIANTS
  KeptIsResident
  DroppedIsForgotten
  CallableIsPrepared
  TableNamesMessage
  NothingLeftAllocated
PROPERTIES
  ImplementsContract
CHECK_DEADLOCK FALSE
