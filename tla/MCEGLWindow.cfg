CONSTANTS
    Options = {"hardware", "software", "zink"}
    Compositors <- MCCompositors
    Programs = {"share", "gl", "provider"}
    Clients = {w1, w2}
    Windows = {w1, w2}
    MaxRealize = 2
    Nobody = Nobody
    w1 = w1
    w2 = w2
SYMMETRY MCSymmetry
SPECIFICATION Spec
INVARIANTS ReadyIsUsable NothingLeft HandedBack UsableUntilClosed VerdictIsRight
CHECK_DEADLOCK FALSE
