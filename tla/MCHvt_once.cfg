\* Crashes, rebalances and failed updates, four at most.
SPECIFICATION Spec
CONSTANTS
    Partition = {1}
    Worker = {w1, w2}
    Trx = {t1, t2}
    Amount = {1}
    Opening <- MCOpening
    MaxTopic = 3
    FaultKinds = {"crash", "rebalance", "db"}
    MaxFaults = 4
SYMMETRY MCSymmetry
INVARIANTS
    TypeOK
    AppliedOnce
    CreditsKept
