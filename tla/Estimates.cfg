\* The Kalman filter in the code's own units; windows of two rounds; and rates of
\* a few packets, with a guessed RTT of 2 us between those that are measured.  The
\* estimated bandwidth explains no packet of a tick, a part of one, or more.
CONSTANTS
    Samples <- MCSamples
    WordMod = 1073741824
    Settled = 11
    Windows = {1, 2, 4}
    BW_UNIT = 2
    Acks = {1, 2}
    AckBandwidths = {0, 1, 3}
    WinRtts = 2
    ResetThresh = 6
    ExtraMod = 8
    MaxEpoch = 4
    PacingBandwidths = {0, 1, 4, 9}
    Rtts = {1, 4, 8}
    Limits = {30, 1000}
    Gains = {3, 4, 5}
    LEOCC_UNIT = 4
    HighGain = 12
    MSS = 2
    UsecRate = 3
    UsecPerMsec = 2
SPECIFICATION AckSpec
INVARIANTS
    VarianceFits
    SettlesOnSteadyMeasurement
    ExtraAckedIsRecent
    PacedAsMeasured
PROPERTIES
    MovesTowardsMeasurement
