\* One flow, the mode machine, time and the trigger.
CONSTANTS
    Flows = {f1}
    RateSamples <- ModeSamples
    Bandwidths <- MCBandwidths
    Rtts <- MCRtts
    Fluctuations <- OneFluctuation
    RttMod = 4
    JiffyMod = 4
    MinRttWin = 1
    ProbeRttTime = 1
    DeltaRtt = 0
    DeltaThresh = 0
    CycleLen = 2
    CwndMinTarget = 1
    CwndClamp = 1
    LossyPath = FALSE
SPECIFICATION Spec
INVARIANTS
    TypeOK
    StartupIffPipeNotFull
PROPERTIES
    ProbeRttHeldLongEnough
    RestartOnlyForReconfiguration
