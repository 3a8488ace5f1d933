\* Liveness: every thread creates, detaches and joins others when it likes,
\* while table and list have fewer places than there are threads.
SPECIFICATION Spec
CONSTANTS
    PSEUDO_THREAD_NUM = 1
    PSEUDO_THREAD_SS_SIZE = 3
    MaxTid = 3
    Tid = {1, 2, 3}
    Addr = {1}
    t1 = t1
    t2 = t2
    t3 = t3
    Thread = {t1, t2, t3}
    Main = t1
    NoThread = NoThread
    Instrumented = {}
    Creators = {t1, t2, t3}
    MaxDepth = 0
    FAKE_NUM = 2
    Orderly = FALSE
PROPERTIES
    Registers
    LeaveReturns
