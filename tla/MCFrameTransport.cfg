SPECIFICATION FairSpec
CONSTANTS
    Modes = {"pbo", "blocking", "shared"}
    DumpEvery = 0
    MaxFrame = 4
    MaxEpoch = 2
INVARIANTS TypeOK PreviousFrame ActiveSlotKept
PROPERTIES AcceptsWhole CatchesUp
CHECK_DEADLOCK FALSE
