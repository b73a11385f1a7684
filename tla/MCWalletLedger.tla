--------------------------- MODULE MCWalletLedger ----------------------------
(***************************************************************************)
(* Instances of WalletLedger for TLC.  Account numbers are integers, since *)
(* the code orders its locks by them; transactions and settling calls are  *)
(* model values.  A scenario gives the transactions t1 to t4 their flows   *)
(* and children.                                                           *)
(***************************************************************************)
EXTENDS WalletLedger, TLC

CONSTANTS t1, t2, t3, t4, s1, s2

MCPlain == [ignore |-> FALSE, negative |-> FALSE, limit |-> 0, negTypes |-> {},
            max |-> 9, limited |-> TRUE]
\* May be overdrawn by transactions of type ADJ.
MCCredit == [MCPlain EXCEPT !.negative = TRUE, !.limit = 2, !.negTypes = {"ADJ"},
                              !.max = 5]

MCChild(f, t, n, ty) == [from |-> f, to |-> t, amount |-> n, type |-> ty]

\* A run may leave out some of the transactions.
Scenario(f) == [t \in Trx |-> f[t]]

-----------------------------------------------------------------------------
\* Two reservations on account 1 and a direct transfer back to it: money in both
\* directions between two accounts, with enough for some of the orders only.
TwoAcct     == {1, 2}
TwoOpt      == [a \in TwoAcct |-> IF a = 1 THEN MCPlain ELSE MCCredit]
TwoOpening  == [a \in TwoAcct |-> [actual |-> IF a = 1 THEN 3 ELSE 2, pending |-> 0]]
TwoFlow     == Scenario((t1 :> "transfer") @@ (t2 :> "cashout") @@ (t3 :> "transfer"))
TwoReserved == Scenario((t1 :> TRUE) @@ (t2 :> TRUE) @@ (t3 :> FALSE))
TwoChildren == Scenario(
    (t1 :> <<MCChild(1, 2, 2, "TRF")>>)
    @@ (t2 :> <<MCChild(1, 2, 1, "TRF"), MCChild(1, 2, 1, "FEE")>>)
    @@ (t3 :> <<MCChild(2, 1, 4, "ADJ")>>))
OwnRef == Scenario((t1 :> 1) @@ (t2 :> 2) @@ (t3 :> 3))

\* Settling calls are interchangeable; transactions are not.
SettlerSymmetry == Permutations(Settler)

-----------------------------------------------------------------------------
\* Account 3 is high-volume, account 4 is skipped, account 5 is unknown.  A
\* reservation pays 3 and 1; a direct request with its reference number pays 3 and
\* 4; a cash-in comes from 5; the last is a reserved cash-in, which validation refuses.
PayAcct       == {1, 2, 3, 4, 5}
PayRegistered == {1, 2, 3, 4}
PayOpt        == [a \in PayAcct |-> MCPlain]
PayOpening    == [a \in PayAcct |-> [actual |-> IF a > 3 THEN 0 ELSE 3, pending |-> 0]]
PayFlow       == (t1 :> "transfer") @@ (t2 :> "cashout") @@ (t3 :> "cashin") @@ (t4 :> "cashin")
PayReserved   == (t1 :> TRUE) @@ (t2 :> FALSE) @@ (t3 :> FALSE) @@ (t4 :> TRUE)
PayRef        == (t1 :> 1) @@ (t2 :> 1) @@ (t3 :> 3) @@ (t4 :> 4)
PayChildren   ==
    (t1 :> <<MCChild(2, 3, 2, "TRF"), MCChild(2, 1, 1, "FEE")>>)
    @@ (t2 :> <<MCChild(1, 3, 1, "TRF"), MCChild(1, 4, 1, "FEE")>>)
    @@ (t3 :> <<MCChild(5, 1, 2, "TOP")>>)
    @@ (t4 :> <<MCChild(4, 1, 2, "TOP")>>)

=============================================================================
