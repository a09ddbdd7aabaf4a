CONSTANTS
    Event = {e1, e2, e3}
    Tick = {t1, t2}
    Unset = Unset
    MaxFailures = 1
    MaxDrops = 1
SPECIFICATION FairSpec
INVARIANT CursorInv
INVARIANT OnceWithoutOverlap
PROPERTY EveryEventSettles
