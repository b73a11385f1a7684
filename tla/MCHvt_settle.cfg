\* Failed and unanswered updates, rebalances, an unreliable Redis that forgets keys,
\* two of them at most; no crash.
SPECIFICATION FairSpec
CONSTANTS
    Partition = {1}
    Worker = {w1, w2}
    Trx = {t1, t2}
    Amount = {1}
    Opening <- MCOpening
    MaxTopic = 3
    FaultKinds = {"db", "redis", "unanswered", "expiry", "rebalance"}
    MaxFaults = 2
PROPERTIES
    CreditsSettle
