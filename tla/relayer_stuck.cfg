CONSTANTS
    Purchase = {p1, p2}
    Claim = {f1}
    Unread = Unread
    Unreadable = Unreadable
    MaxAdmits = 1
    MaxFaults = 0
    MaxCrashes = 0
SPECIFICATION FairSpec
PROPERTY EveryRequestAnswered
CHECK_DEADLOCK FALSE
