\* Transfers, settling calls and bulk requests in four worlds: commit racing cancel,
\* reservations side by side, repeated references, scarce funds; one fault.
SPECIFICATION Spec
CONSTANTS
    t1 = t1
    t2 = t2
    t3 = t3
    t4 = t4
    t5 = t5
    t6 = t6
    s1 = s1
    s2 = s2
    s3 = s3
    s4 = s4
    b1 = b1
    b2 = b2
    Acct = {1, 2, 3, 4}
    Registered = {1, 2, 3}
    Unchecked = {3}
    Trx = {t1, t2, t3, t4, t5, t6}
    Settler = {s1, s2, s3, s4}
    Bulk = {b1, b2}
    Transfer <- MCTransfers
    OpeningRow <- MCOpening
    RefOf <- MCRef
    TargetOf <- MCTarget
    ActionOf <- MCAction
    ChunksOf <- MCChunks
    BadRef = {7}
    Racing = {t1}
    World <- MCWorld
\* Every call has been made and answered.
CHECK_DEADLOCK FALSE
INVARIANTS
    TypeOK
    Solvent
    AnnouncedFirst
    OnePerReference
PROPERTIES
    ImplementsLedger

