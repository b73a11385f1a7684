\* Two reservations and a transfer the other way, two settling calls that may
\* name any of them, one crash or database error.
SPECIFICATION Spec
CONSTANTS
    t1 = t1
    t2 = t2
    t3 = t3
    t4 = t4
    s1 = s1
    s2 = s2
    Trx = {t1, t2, t3}
    Settler = {s1, s2}
    Acct <- TwoAcct
    Registered <- TwoAcct
    Skipped = {}
    Hvt = {}
    Opt <- TwoOpt
    OpeningRow <- TwoOpening
    Flow <- TwoFlow
    Reserved <- TwoReserved
    Children <- TwoChildren
    Ref <- OwnRef
    RefChecked = {}
    OneAtATime = TRUE
    FaultKinds = {"crash", "db"}
    MaxFaults = 1
SYMMETRY SettlerSymmetry
INVARIANTS
    TypeOK
    NoLostUpdate
    LedgerBalanced
    AvailableWithinLimit
    SuccessMeansCommitted
