SPECIFICATION Spec
CONSTANTS
    NumBuffers = 3
    TrimAge = 1
    Kinds = {"drm", "swrast", "kopper"}
    Intervals = {0, 1}
    Sizes = {1, 2}
    MaxFrame = 3
    MaxResize = 1
    MaxBatch = 2
    MaxFailure = 2
INVARIANTS TypeOK HeldIsLocked LockedIsAwaited AgeIsSafe BackFits TablesOwned
PROPERTY CallsReturn
CHECK_DEADLOCK FALSE
