CONSTANTS
  Callers = {c1, c2}
  Selectors = {s1, s2}
  MaxCount = 2
SPECIFICATION FairSpec
INVARIANTS
  EveryoneHasTheirOwn
  TransfersOwnBuffer
  SectorsCountedOnSuccess
PROPERTIES
  AllOrNothing
  CallsReturn
  ImplementsPool
