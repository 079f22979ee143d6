CONSTANTS
  Callers = {c1, c2}
  Requests <- AllRequests
  IdcCalls <- AllIdcCalls
  Versions = {2, 8}
  MaxRequests = 2
SPECIFICATION FairSpec
INVARIANTS
  NoSilentLock
  CallbackReady
  TableFitsVersion
  AnswerIsInitResult
  StatusWellFormed
  StackBalanced
  OpenCountIsHandles
PROPERTIES
  BuffersWrittenOnlyWhileLocked
  RequestsAnswered
CHECK_DEADLOCK FALSE
