CONSTANTS
    Claim = {c1, c2, c3}
    Wallet = {w1, w2, w3}
    Ip = {i1, i2, i3}
    Window = 2
    Cap = 2
    PerClaim = 2
    Buffer = 1
    MaxEth = 4
    MaxTime = 4
    MaxFaults = 1
    MaxCrashes = 1
SYMMETRY Symmetry
SPECIFICATION Spec
INVARIANT FaucetInv
INVARIANT Cooldown
INVARIANT DailyCap
INVARIANT RecordedIsPaid
\* every claim has been answered and the clock is at its bound
CHECK_DEADLOCK FALSE
