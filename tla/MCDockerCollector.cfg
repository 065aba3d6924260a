CONSTANTS
    Swarm = TRUE
    UpdateCap = 1
    MaxChanges = 2
    MaxTaskChanges = 1
    MaxFailures = 1
SPECIFICATION Spec
INVARIANTS NothingForgotten
PROPERTY NoRollback
CHECK_DEADLOCK FALSE
