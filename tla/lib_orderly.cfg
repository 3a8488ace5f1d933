\* Every thread is instrumented; main creates the threads and leaves each
\* only after it has ended; a slot for every thread that has not been left.
SPECIFICATION Spec
CONSTANTS
    PSEUDO_THREAD_NUM = 3
    PSEUDO_THREAD_SS_SIZE = 3
    MaxTid = 4
    Tid = {1, 2, 3, 4}
    Addr = {1, 2}
    t1 = t1
    t2 = t2
    t3 = t3
    Thread = {t1, t2, t3}
    Main = t1
    NoThread = NoThread
    Instrumented = {t1, t2, t3}
    Creators = {t1}
    MaxDepth = 2
    FAKE_NUM = 3
    Orderly = TRUE
SYMMETRY Symmetry
INVARIANTS
    ShadowMatchesFrames
    SlotsReclaimed
    LookupIsCurrent
    NoDataRace
