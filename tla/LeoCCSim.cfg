SPECIFICATION Spec
CONSTANTS
    Flows = {f1}
    RateSamples <- SimSamples
    Bandwidths <- MCBandwidths
    Rtts <- OneRtt
    RttMod = 4
    JiffyMod = 12
    MinRttWin = 5
    ProbeRttTime = 2
    DeltaRtt = 0
    DeltaThresh = 0
    CycleLen = 2
    CwndMinTarget = 1
    CwndClamp = 1
    MsPerSecond = 2
    HZ = 2
    PERIOD = 4
    offset = 2
    magic_offset = 1
    MinRttFluctuation = 1
    OtherStarts = {1}
INVARIANT OneProbePerWindow
