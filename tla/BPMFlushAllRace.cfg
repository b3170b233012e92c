\* t1 calls FlushAllPages while t2 creates, fetches and deletes pages.
CONSTANTS
    Threads = {t1, t2}
    Guards = {g1, g2, g3}
    NoGuard = NoGuard
    FetchAhead = FALSE
    DeleteAbsent = TRUE
    PointerOutlivesFlush = FALSE
    FlushCallers = {t1}
    NumFrames = 2
    NumPages = 3
    K = 2
    Values = {v1, v2}
    Zero = Zero
    NoThread = NoThread
    MaxOps = 4
    EagerReadLimit = 16
SPECIFICATION Spec
INVARIANTS
    TableStableDuringFlushAll
