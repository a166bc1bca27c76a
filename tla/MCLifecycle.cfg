SPECIFICATION Spec
CONSTANTS
    Walks = {"walk"}
    Capacity = 1
    MaxPanics = 1
INVARIANTS
    SwarmOutlivesUsers
    NothingForgotten
    CleanStop
PROPERTY
    StopCompletes
CHECK_DEADLOCK FALSE
