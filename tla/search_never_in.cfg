\* Measurements without noise, one run of the script.
SPECIFICATION Spec
CONSTANTS
    N = 4
    Ticktime = 20
    InitTime = 10
    DelayLimit = 3
    Costs = {1, 15}
    Noise = {0}
    MaxBuilds = 1
CHECK_DEADLOCK FALSE
PROPERTY IndexZeroMeansNeverIn
