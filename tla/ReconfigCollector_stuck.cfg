\* A second reconfiguration may come while samples of the first are collected.
CONSTANTS
    Rtts <- MCRtts
    LineGap = 1
    Threshold = 2
    TriggerDuration = 3
    RTT_SAMPLE_MAX = 3
    ReconfigsApart = FALSE
    MaxTime = 22
SPECIFICATION Spec
\* The clock is bounded, and ping may end.
CHECK_DEADLOCK FALSE
INVARIANTS
    FlagDownAfterItsDuration
