\* Two workers, redelivery, a failed summary and two days later its successor.
SPECIFICATION Spec
CONSTANTS
    Order = {"a", "b", "c"}
    OrderOf <- MCOrderOf
    PaymentOf <- MCPaymentOf
    Papa = {"p", "q"}
    Call = {"request", "fail", "off", "on"}
    Asked <- MCAsked
    IsInstant = FALSE
    MaxCopies = 2
    MaxClock = 4
    World <- MCWorlds
CHECK_DEADLOCK FALSE
INVARIANTS
    TypeOK
    TotalMatchesDetails
    NothingForgotten
    RelationsPointBack
PROPERTIES
    ListedTotalIsFinal

