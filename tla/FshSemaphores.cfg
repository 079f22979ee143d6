SPECIFICATION Spec
CONSTANTS
    Threads = {t1, t2, t3}
    Device = device
    Nobody = nobody
    Locks = {lock}
    Events = {event}
INVARIANTS WordTellsHolder NoLostWakeup DisabledOnlyInside
PROPERTY ImplementsSemaphore
