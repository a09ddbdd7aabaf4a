CONSTANTS
    w1 = w1
    W1 = W1
    w2 = w2
    Ip = {i1}
    Address = {w1, W1, w2}
    Lower <- MCLower
    Rpm <- MCRpm
    Maximum <- MCMaximum
    Window <- MCWindow
    ApiWindow = 2
    MaxKeys = 1
    Tolerance = 0
    MaxIssued = 2
    MaxRestarts = 1
    MaxTime = 3
CONSTRAINT SandboxApart
SPECIFICATION Spec
INVARIANT KeysInv
INVARIANT QuotaPerWallet
INVARIANT IpIsBounded
CHECK_DEADLOCK FALSE
