\* The reference number is looked up, one request has no key; everything but crashes
\* and a failing dead-letter queue, two faults at most.
SPECIFICATION FairSpec
CONSTANTS
    r1 = r1
    r2 = r2
    p1 = p1
    Worker = {w1, w2}
    Request = {r1, r2}
    Unkeyed = {r2}
    Partition = {p1}
    Route <- OneRoute
    Relisted = {}
    CheckReference = TRUE
    MaxTopic = 3
    FaultKinds = {"rebalance", "redis", "broker", "aftercommit", "timeout", "expiry", "month"}
    MaxFaults = 2
INVARIANTS
    NothingForgotten
PROPERTIES
    RequestsSettle
