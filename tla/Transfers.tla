------------------------------ MODULE Transfers ------------------------------
(***************************************************************************)
(* The transfers of the transaction service: what each of their phases     *)
(* does to balances and to the status (models/transaction_set.go over      *)
(* models/balance.go, services/common.go).  Reservations says when these   *)
(* may happen, LegacyLedger how the service does them.                     *)
(***************************************************************************)
EXTENDS Balance

CONSTANTS
    Acct,        \* account numbers
    Unchecked,   \* SkipBalanceCheckAccountNumber: storing does not ask for funds
    Trx,         \* transfers
    Transfer,    \* each one's [from, to, amount, type, reserved]
    OpeningRow   \* each account's balance at the start

TransfersAssumption ==
    /\ Unchecked \subseteq Acct
    /\ OpeningRow \in [Acct -> BalanceRow]
    /\ Transfer \in [Trx -> [from : Acct, to : Acct, amount : Int, type : STRING,
                             reserved : BOOLEAN]]
ASSUME TransfersAssumption

Statuses == {"none", "PENDING", "SUCCESS", "CANCEL"}

\* The options GetAccountBalances and StoreTransaction give to a balance: only storing
\* skips the check of funds, and there is no negative limit nor maximum.
OptIn(phase) ==
    [a \in Acct |-> [ignore |-> a \in Unchecked /\ phase \in {"create", "reserve"},
                     negative |-> FALSE, limit |-> 0, negTypes |-> {},
                     max |-> 0, limited |-> TRUE]]

\* TransactionSet.Calculate, CalculateReserve, CalculateCommit and CalculateCancel.
CanMove(t, phase, bals) == CanCalculate("transfer", phase, OptIn(phase), Transfer[t], bals)
Moved(t, phase, bals)   == Calculate("transfer", phase, Transfer[t], bals)

EntryPhase(t) == IF Transfer[t].reserved THEN "reserve" ELSE "create"

StatusAfter(phase) ==
    CASE phase = "reserve"              -> "PENDING"
      [] phase \in {"create", "commit"} -> "SUCCESS"
      [] phase = "cancel"               -> "CANCEL"
=============================================================================
