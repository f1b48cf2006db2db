\* Reconfigurations come one at a time, as every 15 s on Starlink.
CONSTANTS
    Rtts <- MCRtts
    LineGap = 1
    Threshold = 2
    TriggerDuration = 3
    RTT_SAMPLE_MAX = 3
    ReconfigsApart = TRUE
    MaxTime = 22
SPECIFICATION Spec
\* The clock is bounded, and ping may end.
CHECK_DEADLOCK FALSE
INVARIANTS
    TypeOK
    FlagHeldForItsDuration
    FlagDownAfterItsDuration
PROPERTIES
    FluctuationFromAFullBuffer
