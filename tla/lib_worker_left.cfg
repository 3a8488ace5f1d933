\* A worker that runs instrumented functions is detached or joined while it
\* runs, as main.cpp does with its interactive thread.  There is a slot for
\* every thread that is ever started.
SPECIFICATION Spec
CONSTANTS
    PSEUDO_THREAD_NUM = 3
    PSEUDO_THREAD_SS_SIZE = 3
    MaxTid = 3
    Tid = {1, 2, 3}
    Addr = {1, 2}
    t1 = t1
    t2 = t2
    t3 = t3
    Thread = {t1, t2, t3}
    Main = t1
    NoThread = NoThread
    Instrumented = {t1, t2, t3}
    Creators = {t1}
    MaxDepth = 2
    FAKE_NUM = 3
    Orderly = FALSE
SYMMETRY Symmetry
INVARIANTS
    ReturnsToCaller
