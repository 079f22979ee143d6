CONSTANTS
  Ifs = {fs1}
  Devices = {dev1}
  Basedevs = {base1}
  Callers = {fs1, dev1, base1}
  Requests <- BootRequests
  IdcCalls <- BootIdcCalls
  Versions = {2, 8}
  MaxRequests = 3
SPECIFICATION FairBootSpec
INVARIANTS
  AcceptedIsComplete
  InitResultReachesKernel
  LeftOpenIsReported
PROPERTIES
  BootCompletes
  ImplementsContract
CHECK_DEADLOCK FALSE
