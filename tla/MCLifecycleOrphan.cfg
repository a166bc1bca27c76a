SPECIFICATION Spec
CONSTANTS
    Walks = {"walk"}
    Capacity = 1
    MaxPanics = 1
INVARIANTS
    NoOrphanedSwarm
CHECK_DEADLOCK FALSE
