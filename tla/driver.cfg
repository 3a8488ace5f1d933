SPECIFICATION Spec
CONSTANTS
    PSEUDO_THREAD_NUM = 2
    PSEUDO_THREAD_SS_SIZE = 3
    Tid = {1, 2}
    Addr = {1}
    Majors = {1, 2}
    MaxLeaked = 1
    MaxHeld = 0
INVARIANTS
    TypeOK
    NodeLeadsBack
    BuffersAccounted
    HoldsOwnWords
    DeliversOwnWord
PROPERTIES
    ReleasedAsAsked
CHECK_DEADLOCK FALSE
