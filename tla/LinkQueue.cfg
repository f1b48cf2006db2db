\* A link with each of the queues but drophead.
SPECIFICATION Spec
CONSTANTS
    Links <- MCLinks
    PACKET_SIZE = 3
    t_update = 2
    dq_threshold = 3
    Epoch = 100
    Width = 1000
    MaxTime = 6
INVARIANTS TypeOK FirstInFirstOut
PROPERTIES DropsOnlyWhenFull ImplementsEagerLink
