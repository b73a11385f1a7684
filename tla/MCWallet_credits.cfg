\* A reservation, a direct request with the same reference number and a cash-in, paying
\* an HVT account; two faults of the process, the database and the broker, or months
\* that go by, at most.
SPECIFICATION Spec
CONSTANTS
    t1 = t1
    t2 = t2
    t3 = t3
    t4 = t4
    s1 = s1
    s2 = s2
    Trx = {t1, t2, t3, t4}
    Settler = {s1, s2}
    Acct <- PayAcct
    Registered <- PayRegistered
    Skipped = {4}
    Hvt = {3}
    Opt <- PayOpt
    OpeningRow <- PayOpening
    Flow <- PayFlow
    Reserved <- PayReserved
    Children <- PayChildren
    Ref <- PayRef
    RefChecked = {t1, t2, t4}
    OneAtATime = TRUE
    FaultKinds = {"crash", "db", "publish", "month"}
    MaxFaults = 2
SYMMETRY SettlerSymmetry
INVARIANTS
    CreditsPublished
    NoCreditWithoutCommit
    OneTransactionPerReference
