SPECIFICATION SpecCalls
CONSTANTS
    Entries = {"READ"}
    PagingEntries = {"DOPAGEIO"}
    MaxDepth = 2
    Routines = {"ResetEventSem"}
INVARIANT KernelIsCalledRight
