SPECIFICATION SpecCalls
CONSTANTS
    Entries = {"ALLOCATEPAGESPACE", "CHDIR", "CHGFILEPTR", "CLOSE", "COMMIT", "DELETE",
        "DOPAGEIO", "EXIT", "FILEINFO", "FINDCLOSE", "FINDFIRST", "FINDFROMNAME",
        "FINDNEXT", "FLUSHBUF", "FSCTL", "FSINFO", "IOCTL", "MKDIR", "MOUNT", "MOVE",
        "NEWSIZE", "OPENCREATE", "OPENPAGEFILE", "PATHINFO", "READ", "RMDIR",
        "SHUTDOWN", "WRITE",
        "ATTACH", "CANCELLOCKREQUEST", "COPY", "FILEIO", "FILELOCKS", "FINDNOTIFYCLOSE",
        "FINDNOTIFYFIRST", "FINDNOTIFYNEXT", "NMPIPE", "PROCESSNAME", "SETSWAP"}
    PagingEntries = {"DOPAGEIO", "ALLOCATEPAGESPACE"}
    MaxDepth = 3
    Routines = {"VMAlloc", "VMFree", "VMLock", "VMUnlock", "VirtToLin", "VerifyAccess",
        "LinToPageList", "PageListToLin", "GetDosVar", "GetInfoSegs", "Security",
        "AllocOneGDTSelector", "FreeGDTSelector", "AttachToDD", "setIRQ", "UnSetIRQ",
        "EOI", "ProcBlock", "ProcRun", "Yield", "OpenEventSem", "CloseEventSem",
        "PostEventSem", "addshare", "devioctl", "findduphvpb", "getvolparm", "qsysinfo",
        "segalloc", "ioboost", "removeshare", "forcenoswap", "setvolume",
        "vsprintf", "strtoul", "strtol", "atol", "strupr", "strpbrk", "fnmatch",
        "sec32_attach_ses", "AllocGDTSelector", "AttachDD"}
INVARIANTS CallsAreTransparent ParametersArrive AnswerReachesCaller
