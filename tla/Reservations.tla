---------------------------- MODULE Reservations -----------------------------
(***************************************************************************)
(* What a ledger of transfers promises, however it is implemented: a       *)
(* transfer is posted at once, or reserved and later committed or          *)
(* cancelled, and each of these happens to all balances it concerns and to *)
(* its status in one step, on the balances of that moment.                 *)
(***************************************************************************)
EXTENDS Transfers

VARIABLES
    balance,  \* account.actualBalance and account.pendingBalance
    status    \* transaction.status, "none" while there is no row

Init ==
    /\ balance = OpeningRow
    /\ status = [t \in Trx |-> "none"]

Step(t, phase) ==
    /\ CanMove(t, phase, balance)
    /\ balance' = Moved(t, phase, balance)
    /\ status' = [status EXCEPT ![t] = StatusAfter(phase)]

Enter(t)         == status[t] = "none" /\ Step(t, EntryPhase(t))
Settle(t, phase) == status[t] = "PENDING" /\ Step(t, phase)

Next ==
    \E t \in Trx :
        \/ Enter(t)
        \/ \E phase \in {"commit", "cancel"} : Settle(t, phase)

Spec == Init /\ [][Next]_<<balance, status>>

\* What is reserved is there: an account whose funds are checked (Balance.Reserve,
\* Balance.Withdraw) never holds less than the reservations on it, and none of them is
\* released that is not held.
Solvent ==
    \A a \in Acct :
        /\ balance[a].pending >= 0
        /\ a \notin Unchecked => Available(balance[a]) >= 0
=============================================================================
