--------------------------- MODULE MCLegacyLedger ----------------------------
(***************************************************************************)
(* Instances of LegacyLedger for TLC.  Account numbers are integers, since *)
(* rows are locked in their order; reference numbers are integers too.     *)
(***************************************************************************)
EXTENDS LegacyLedger, TLC

CONSTANTS t1, t2, t3, t4, t5, t6, s1, s2, s3, s4, b1, b2

MCTransfer(f, t, n, reserved) ==
    [from |-> f, to |-> t, amount |-> n, type |-> "TRF", reserved |-> reserved]

\* Account 3 is not asked for funds when a transfer is stored; account 4 has no row.
MCOpening == [a \in Acct |-> [actual |-> IF a = 1 THEN 3 ELSE 0, pending |-> 0]]
MCTransfers ==
    (t1 :> MCTransfer(1, 2, 2, TRUE))
    @@ (t2 :> MCTransfer(2, 1, 1, FALSE))
    @@ (t3 :> MCTransfer(1, 3, 1, TRUE))
    @@ (t4 :> MCTransfer(3, 1, 2, FALSE))
    @@ (t5 :> MCTransfer(1, 3, 2, FALSE))
    @@ (t6 :> MCTransfer(1, 4, 2, FALSE))
MCRef    == (t1 :> 1) @@ (t2 :> 2) @@ (t3 :> 3) @@ (t4 :> 1) @@ (t5 :> 5) @@ (t6 :> 9)
MCTarget == (s1 :> t1) @@ (s2 :> t1) @@ (s3 :> t3) @@ (s4 :> t3)
MCAction == (s1 :> "commit") @@ (s2 :> "cancel") @@ (s3 :> "commit") @@ (s4 :> "cancel")

\* A bulk request of two chunks, with a number twice in the first, the reference number
\* of t1 in the second and a row whose account is unknown, and the same rows once more
\* in other chunks.
MCChunks == (b1 :> <<<<6, 7, 6>>, <<1, 8>>>>) @@ (b2 :> <<<<6, 1>>, <<7, 8>>>>)

MCWorld == {
    \* commit and cancel of the only reservation on account 1 race, while its money
    \* goes to and fro
    [calls |-> {t1, t2, s1, s2}, faults |-> 2],
    \* two reservations on account 1, one of them settled by a call that is repeated
    [calls |-> {t1, t3, s1, s3, s4}, faults |-> 2],
    \* the reference number of t1 comes again, in a transfer and in bulk requests
    [calls |-> {t1, t4, b1, b2}, faults |-> 2],
    \* more transfers than the funds allow, and one to an unknown account
    [calls |-> {t1, t2, t3, t5, t6}, faults |-> 0] }
=============================================================================
