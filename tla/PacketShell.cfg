\* The four scenes of Container.
SPECIFICATION ShellSpec
CONSTANTS
    Setups <- MCSetups
    Spoken <- MCSpoken
    Amounts <- MCAmounts
    MaxWait = 3
    MaxTime = 4
    LastArrival = 2
    MaxPackets = 2
    MaxSteps = 1
    MaxMishaps = 1
    MayFinish = TRUE
    BUFFER_SIZE = 3
    Room = 1
    BinWidth = 2
    Window = 1
    MaxClock = 4
INVARIANTS
    NoBusyWait
    LeaveOnTime
    LeaveInOrder
    TakenWhileOn
    NoOrphans
    SuccessIsDeserved
    RelayedAsSaid
    CountedInItsBin
PROPERTIES
    TakenLeaves
    TreeEnds
    RelayedInTheEnd
\* Each scene has an end: the ferry was ended, the tree has, the thread returned.
CHECK_DEADLOCK FALSE
