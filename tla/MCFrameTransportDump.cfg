SPECIFICATION Spec
CONSTANTS
    Modes = {"pbo"}
    DumpEvery = 2
    MaxFrame = 4
    MaxEpoch = 1
INVARIANT PreviousFrame
CHECK_DEADLOCK FALSE
