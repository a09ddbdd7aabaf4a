CONSTANTS
    Request = {r1, r2, r3, r4}
    Agent = {a1, a2}
    Key = {k1}
    NoKey = NoKey
    MaxCrashes = 1
    MaxDbErrors = 1
SYMMETRY Symmetry
SPECIFICATION Spec
INVARIANT RouteInv
INVARIANT ReplaysAgree
PROPERTY SequentialRetryReplays
\* every request has been answered
CHECK_DEADLOCK FALSE
