\* The program as it is built: only functions of the scan cycle, in main's
\* thread, are instrumented; any thread creates, detaches and joins others
\* when it likes; the table has fewer slots than there are threads.
SPECIFICATION Spec
CONSTANTS
    PSEUDO_THREAD_NUM = 2
    PSEUDO_THREAD_SS_SIZE = 3
    MaxTid = 3
    Tid = {1, 2, 3}
    Addr = {1, 2}
    t1 = t1
    t2 = t2
    t3 = t3
    Thread = {t1, t2, t3}
    Main = t1
    NoThread = NoThread
    Instrumented = {t1}
    Creators = {t1, t2, t3}
    MaxDepth = 2
    FAKE_NUM = 2
    Orderly = FALSE
SYMMETRY Symmetry
INVARIANTS
    TypeOK
    ReturnsToCaller
    KeptUntilLeft
