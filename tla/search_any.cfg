SPECIFICATION Spec
CONSTANTS
    N = 5
    Ticktime = 20
    InitTime = 10
    DelayLimit = 3
    Costs = {0, 1}
    Noise = {0, 9, 12, 30}
    MaxBuilds = 2
CHECK_DEADLOCK FALSE
INVARIANTS
    TypeOK
    WalkFindsRun
PROPERTIES
    KnownOnlyFromBefore
    SlackKeepsAll
    LateMovesDown
    EndsUnlessAlternating
