CONSTANTS
    k1 = k1
    p1 = p1
    Policy = {k1}
    Product = {p1}
    ProductOf <- MCProductOf
    Duration <- MCDuration
    Epoch = {e1}
    Reader = {r1, r2}
    Nothing = Nothing
    DurationTtl = 2
    PolicyTtl = 1
    BondTtl = 1
    MaxTime = 4
    MaxFaults = 1
    Holder = {h1, h2}
    Zero = Zero
    StartBlock = 2
    Window = 1
    MaxLag = 1
    LastTime = 2
    MaxBlocks = 4
    MaxRestarts = 1
CONSTRAINT OneTopic
SYMMETRY Symmetry
SPECIFICATION ReadsSpec
INVARIANT ViewInv
INVARIANT ActiveIsTimely
INVARIANT ExpiredIsExplained
INVARIANT ForwardUnlessOvertaken
INVARIANT BondsAreRecent
INVARIANT LedgerInv
INVARIANT PartsAddUp
INVARIANT HealthIsHonest
CHECK_DEADLOCK FALSE
