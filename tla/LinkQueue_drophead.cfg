\* A byte limit that one large packet fills.
SPECIFICATION Spec
CONSTANTS
    Links <- DropHeadLink
    PACKET_SIZE = 3
    t_update = 2
    dq_threshold = 3
    Epoch = 100
    Width = 1000
    MaxTime = 4
INVARIANT NoAssertionFails
