CONSTANTS
    e1 = e1
    e2 = e2
    s1 = s1
    WebhookEvent = {e1, e2}
    Sub = {s1}
    Wants <- MCWants
    MAX_ATTEMPTS = 2
    FanoutLimit = 2
    DueLimit = 1
    MaxInFlight = 2
    MaxFaults = 1
SPECIFICATION MCSpec
INVARIANT WorkerInv
INVARIANT NoSubscriberMissed
PROPERTY OutcomeIsFinal
PROPERTY EveryoneIsServed
