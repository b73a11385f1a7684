------------------------------- MODULE Balance -------------------------------
(***************************************************************************)
(* The arithmetic of one account balance (internal/models/balance.go) and  *)
(* the calculators that move money between two balances                    *)
(* (internal/models/transaction_wallet.go, internal/services/common.go).   *)
(* Pure operators: the modules that hold account rows apply them.          *)
(*                                                                         *)
(* A balance is [actual, pending].  Its options, which the code keeps in   *)
(* the same struct, never change during a calculation and form a record    *)
(* of their own:                                                           *)
(*   ignore    ignoreBalanceSufficiency                                    *)
(*   negative  negativeBalanceLimit.Valid                                  *)
(*   limit     negativeBalanceLimit.Decimal                                *)
(*   negTypes  allowedNegativeBalanceTransactionTypes                      *)
(*   max       balanceRangeMax (0 and below: no maximum)                   *)
(*   limited   isBalanceLimitEnabled                                       *)
(* Amounts are integers: decimal.Decimal is exact and unbounded.           *)
(***************************************************************************)
EXTENDS Integers

BalanceRow == [actual : Int, pending : Int]

Available(b) == b.actual - b.pending

\* The transaction type may take this account below zero.
MayGoNegative(o, type) == o.negative /\ type \in o.negTypes

\* Mutant: what is reserved counts as available.
SufficientOnActual(o, b, amount, type) ==
    \/ o.ignore
    \/ MayGoNegative(o, type)  /\ b.actual - amount >= -o.limit
    \/ ~MayGoNegative(o, type) /\ b.actual >= amount

\* The sufficiency test shared by Reserve and Withdraw.
Sufficient(o, b, amount, type) ==
    \/ o.ignore
    \/ MayGoNegative(o, type)  /\ Available(b) - amount >= -o.limit
    \/ ~MayGoNegative(o, type) /\ Available(b) >= amount

\* Every operation refuses an amount that is not positive; then:
CanReserve(o, b, amount, type)  == amount > 0 /\ Sufficient(o, b, amount, type)
CanWithdraw(o, b, amount, type) == amount > 0 /\ Sufficient(o, b, amount, type)
\* Mutant: no test of the pending balance.
CanSettleAlways(o, b, amount) == amount > 0
CanCommit(o, b, amount) == amount > 0 /\ (o.ignore \/ b.pending >= amount)
CanCancel(o, b, amount) == amount > 0 /\ (o.ignore \/ b.pending >= amount)
CanAdd(o, b, amount) ==
    /\ amount > 0
    /\ (o.max > 0 /\ o.limited) => b.actual + amount <= o.max

Reserve(b, amount)           == [b EXCEPT !.pending = @ + amount]
CancelReservation(b, amount) == [b EXCEPT !.pending = @ - amount]
\* Mutant: the reservation stays when it is committed.
CommitActualOnly(b, amount) == [b EXCEPT !.actual = @ - amount]
Commit(b, amount)   == [actual |-> b.actual - amount, pending |-> b.pending - amount]
AddFunds(b, amount) == [b EXCEPT !.actual = @ + amount]
Withdraw(b, amount) == [b EXCEPT !.actual = @ - amount]

-----------------------------------------------------------------------------
(***************************************************************************)
(* The calculators.  A phase of a transaction of some flow does one thing  *)
(* to the balance of its source account and then one thing to that of its  *)
(* destination account; "none" leaves the account alone.                   *)
(***************************************************************************)
Flows  == {"cashin", "cashout", "transfer", "refund"}
Phases == {"create", "reserve", "commit", "cancel"}
Ops    == {"none", "withdraw", "reserve", "commit", "cancel", "add"}

FromOp(flow, phase) ==
    CASE flow = "cashin" /\ phase \in {"create", "reserve", "cancel"} -> "withdraw"
      [] flow = "cashin" /\ phase = "commit"  -> "none"
      [] flow # "cashin" /\ phase = "create"  -> "withdraw"
      [] flow # "cashin" /\ phase = "reserve" -> "reserve"
      [] flow # "cashin" /\ phase = "commit"  -> "commit"
      [] flow # "cashin" /\ phase = "cancel"  -> "cancel"

ToOp(flow, phase) ==
    IF \/ phase = "create"
       \/ flow = "cashin" /\ phase = "reserve"
       \/ flow # "cashin" /\ phase = "commit"
    THEN "add" ELSE "none"

CanApply(op, o, b, amount, type) ==
    CASE op = "none"     -> TRUE
      [] op = "withdraw" -> CanWithdraw(o, b, amount, type)
      [] op = "reserve"  -> CanReserve(o, b, amount, type)
      [] op = "commit"   -> CanCommit(o, b, amount)
      [] op = "cancel"   -> CanCancel(o, b, amount)
      [] op = "add"      -> CanAdd(o, b, amount)

Apply(op, b, amount) ==
    CASE op = "none"     -> b
      [] op = "withdraw" -> Withdraw(b, amount)
      [] op = "reserve"  -> Reserve(b, amount)
      [] op = "commit"   -> Commit(b, amount)
      [] op = "cancel"   -> CancelReservation(b, amount)
      [] op = "add"      -> AddFunds(b, amount)

\* The map of balances after the source leg of x == [from, to, amount, type].
AfterFrom(flow, phase, x, bals) ==
    [bals EXCEPT ![x.from] = Apply(FromOp(flow, phase), @, x.amount)]

\* The source leg is written to the map before the destination is read, so a
\* transaction from an account to itself sees its own withdrawal.
CanCalculate(flow, phase, opts, x, bals) ==
    /\ CanApply(FromOp(flow, phase), opts[x.from], bals[x.from], x.amount, x.type)
    /\ CanApply(ToOp(flow, phase), opts[x.to], AfterFrom(flow, phase, x, bals)[x.to],
                x.amount, x.type)

Calculate(flow, phase, x, bals) ==
    [AfterFrom(flow, phase, x, bals) EXCEPT
        ![x.to] = Apply(ToOp(flow, phase), @, x.amount)]
=============================================================================
