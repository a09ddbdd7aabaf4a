CONSTANTS
    Caller = {c1, c2, c3, c4}
    NoPromise = NoPromise
SPECIFICATION FairLockSpec
INVARIANT LockInv
PROPERTY ImplementsMutex
PROPERTY NoOvertaking
PROPERTY EveryWaiterEnters
\* every call has settled: the model has no more calls to make
CHECK_DEADLOCK FALSE
