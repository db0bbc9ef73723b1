SPECIFICATION FairSpec
CONSTANTS
    Presenters = {p1, p2, p3}
    Backlog = 2
    MaxFence = 3
    NoFd = NoFd
    Payload = Payload
INVARIANTS TypeOK OneOwner LosesAtMostOne FencesForward
PROPERTY Answered
CHECK_DEADLOCK FALSE
