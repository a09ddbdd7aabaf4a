CONSTANTS
    Request = {r1, r2}
    Agent = {a1}
    Key = {k1}
    NoKey = NoKey
    MaxCrashes = 0
    MaxDbErrors = 0
SPECIFICATION Spec
INVARIANT ExactlyOncePerKey
CHECK_DEADLOCK FALSE
