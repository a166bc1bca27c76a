SPECIFICATION IsqrtSpec
CONSTANTS
    Deltas <- MCDeltas
    SmallBound = 1100
    LargeRoots = {1023, 4095, 10000, 16382}
INVARIANT
    ReturnsFloorSqrt
PROPERTY
    Terminates
CHECK_DEADLOCK FALSE
