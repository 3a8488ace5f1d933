SPECIFICATION FairSpec
CONSTANTS
    NSEC_PER_SEC = 3
    NSEC_PER_USEC = 2
    common_ticktime__ = 4
    Cycles = 2
    MaxTime = 9
INVARIANTS
    TypeOK
    OnSchedule
    LatenessCarried
    RecordTrue
    Exclusive
    OutputsOff
PROPERTIES
    Ends
CHECK_DEADLOCK FALSE
