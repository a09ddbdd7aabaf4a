CONSTANTS
    Check = {c1, c2}
    StallTicks = 2
    StallLag = 1
    MaxHead = 3
    MaxFaults = 1
    MaxTakeOvers = 1
SPECIFICATION FairSpec
INVARIANT SupervisorInv
INVARIANT KilledIsStalled
PROPERTY KeepsOwnIndex
PROPERTY CatchesUp
