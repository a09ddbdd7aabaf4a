CONSTANTS
    Purchase = {p1, p2}
    Claim = {f1}
    Unread = Unread
    Unreadable = Unreadable
    MaxAdmits = 2
    MaxFaults = 1
    MaxCrashes = 1
SPECIFICATION FairSpec
INVARIANT NonceInv
INVARIANT EthAfterMint
PROPERTY ImplementsRelayService
PROPERTY AnsweredUnlessBurned
\* every request has been answered, or waits behind a burned nonce
CHECK_DEADLOCK FALSE
