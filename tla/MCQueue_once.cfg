\* One client of two is on the consumer's own list; crashes, rebalances, a failing
\* Redis, broker and dead-letter queue, two at most.
SPECIFICATION Spec
CONSTANTS
    r1 = r1
    r2 = r2
    p1 = p1
    Worker = {w1, w2}
    Request = {r1, r2}
    Unkeyed = {}
    Partition = {p1}
    Route <- OneRoute
    Relisted = {r2}
    CheckReference = FALSE
    MaxTopic = 3
    FaultKinds = {"crash", "rebalance", "redis", "broker", "dlq"}
    MaxFaults = 2
SYMMETRY MCSymmetry
INVARIANTS
    TypeOK
    ExecutedOnce
    ReturnedOnce
