\* One flow on a lossy path: PROBE_RTT and loss recovery overlap.
CONSTANTS
    Flows = {f1}
    RateSamples <- WindowSamples
    Bandwidths <- MCBandwidths
    Rtts <- OneRtt
    Fluctuations <- OneFluctuation
    RttMod = 4
    JiffyMod = 3
    MinRttWin = 1
    ProbeRttTime = 1
    DeltaRtt = 0
    DeltaThresh = 0
    CycleLen = 2
    CwndMinTarget = 1
    CwndClamp = 2
    LossyPath = TRUE
SPECIFICATION Spec
INVARIANTS
    PriorCwndCoversEpisode
    WindowWithinClamp
PROPERTIES
    RestartGivesWindowBack
