\* A full table with one thread more than slots, thread ids that may be
\* initialised again while they are in the table.
SPECIFICATION Spec
CONSTANTS
    PSEUDO_THREAD_NUM = 3
    PSEUDO_THREAD_SS_SIZE = 3
    Tid = {1, 2, 3, 4}
    Addr = {1}
    Reinit = TRUE
INVARIANTS
    TypeOK
    UnclaimedIsEmpty
    NoClearedWord
PROPERTIES
    Isolation
