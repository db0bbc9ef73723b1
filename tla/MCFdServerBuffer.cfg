SPECIFICATION Spec
CONSTANTS
    Presenters = {p1, p2}
    Backlog = 2
    MaxFence = 3
    NoFd = NoFd
    Payload = Payload
INVARIANT BufferPerPresenter
CHECK_DEADLOCK FALSE
