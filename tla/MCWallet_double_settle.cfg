\* Two reservations of one account, and settling calls that do not wait for
\* each other's answer.
SPECIFICATION Spec
CONSTANTS
    t1 = t1
    t2 = t2
    t3 = t3
    t4 = t4
    s1 = s1
    s2 = s2
    Trx = {t1, t2, t3}
    Settler = {s1, s2}
    Acct <- TwoAcct
    Registered <- TwoAcct
    Skipped = {}
    Hvt = {}
    Opt <- TwoOpt
    OpeningRow <- TwoOpening
    Flow <- TwoFlow
    Reserved <- TwoReserved
    Children <- TwoChildren
    Ref <- OwnRef
    RefChecked = {}
    OneAtATime = FALSE
    FaultKinds = {}
    MaxFaults = 0
SYMMETRY SettlerSymmetry
INVARIANTS
    PostedOnce
