SPECIFICATION Spec
CONSTANTS
    Bits = 3
    Window = 2
    MaxTime = 11
    MaxFrame = 3
INVARIANTS TypeOK PairsReused ReportedOnce TakenRight PlacedRight
CHECK_DEADLOCK FALSE
