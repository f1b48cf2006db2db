\* A bulk flow under the fairness of FairSpec.
CONSTANTS
    Flows = {f1}
    RateSamples <- LiveSamples
    Bandwidths <- MCBandwidths
    Rtts <- OneRtt
    Fluctuations <- OneFluctuation
    RttMod = 4
    JiffyMod = 3
    MinRttWin = 1
    ProbeRttTime = 1
    DeltaRtt = 0
    DeltaThresh = 0
    CycleLen = 4
    CwndMinTarget = 1
    CwndClamp = 1
    LossyPath = FALSE
SPECIFICATION FairSpec
PROPERTIES
    ProbeDownFollowsProbeUp
    ReconfigurationHandled
    ProbeRttEnds
