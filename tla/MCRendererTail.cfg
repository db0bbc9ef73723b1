SPECIFICATION Spec
CONSTANTS
    Views = 2
    MaxFrame = 4
    MaxDynamic = 1
    CountMax = 2
    NoView = NoView
INVARIANT DrawAwaitsCull
