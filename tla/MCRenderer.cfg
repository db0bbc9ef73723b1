SPECIFICATION FairSpec
CONSTANTS
    Views = 2
    MaxFrame = 3
    MaxDynamic = 1
    CountMax = 2
    NoView = NoView
INVARIANTS TypeOK SoleOwner NoneLost CompileAlone CompletedOnce
PROPERTIES IsPipe DrawnOrStopped StopSucceeds
