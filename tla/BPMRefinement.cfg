\* The pool refines PageStore when no one calls FlushPage or deletes a page not in memory.
CONSTANTS
    Threads = {t1, t2}
    Guards = {g1, g2, g3}
    NoGuard = NoGuard
    FetchAhead = FALSE
    DeleteAbsent = FALSE
    PointerOutlivesFlush = FALSE
    FlushCallers = {}
    NumFrames = 2
    NumPages = 3
    K = 2
    Values = {v1, v2}
    Zero = Zero
    NoThread = NoThread
    MaxOps = 6
    EagerReadLimit = 16
SPECIFICATION Spec
SYMMETRY Symmetry
PROPERTIES
    ImplementsPageStore
