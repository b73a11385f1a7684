\* One reservation, two settling calls racing for it and a transfer the other
\* way; transactions may time out.
SPECIFICATION FairSpec
CONSTANTS
    t1 = t1
    t2 = t2
    t3 = t3
    t4 = t4
    s1 = s1
    s2 = s2
    Trx = {t1, t3}
    Settler = {s1, s2}
    Acct <- TwoAcct
    Registered <- TwoAcct
    Skipped = {}
    Hvt = {}
    Opt <- TwoOpt
    OpeningRow <- TwoOpening
    Flow <- TwoFlow
    Reserved <- TwoReserved
    Children <- TwoChildren
    Ref <- OwnRef
    RefChecked = {}
    OneAtATime = FALSE
    FaultKinds = {"timeout"}
    MaxFaults = 1
INVARIANTS
    PostedOnce
PROPERTIES
    StatusIsFinal
    EveryCallReturns
