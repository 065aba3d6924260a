CONSTANTS
    Swarm = FALSE
    UpdateCap = 1
    MaxChanges = 1
    MaxTaskChanges = 0
    MaxFailures = 1
SPECIFICATION FairSpec
PROPERTIES CatchesUp StopReturns
CHECK_DEADLOCK FALSE
