\* Every transformer, alone and in combinations, while the VAT period or the flag may change
\* once; reversals, while a day goes by or one query shows less than there is.  Reversals of
\* one reference number take turns.
SPECIFICATION FairSpec
CONSTANTS
    None = None
    EntityOf <- MCEntityOf
    ConfigKey = {"AMF", "D"}
    MasterType <- MCMaster
    ValidatedPAYMD = {"partner"}
    ValidatedTUPEP = {"partner"}
    Trx = {1, 2, 3, 4}
    Percent = {0, 11}
    SettleKey = {"note"}
    Excluded <- MCExcluded
    OneAtATime = TRUE
    ReversalTimeRangeDays = 1
    World <- MCWorld
CHECK_DEADLOCK FALSE
INVARIANTS
    TypeOK
    PendingIsReserved
    ReversalRestores
    RefundsWithinOriginal
    TaxesAddUp
PROPERTY
    ReservationsSettle
