CONSTANTS
    Listing = {l1, l2}
    Epoch = {ep}
    Account = {a1, a2}
    Price = {1, 2}
    Post = {r1, r2}
    NoBody = NoBody
    Start = 1
    MaxTxs = 3
SYMMETRY Symmetry
SPECIFICATION Spec
INVARIANT MarketInv
INVARIANT IndexerAgrees
INVARIANT HonestBuyVerifies
