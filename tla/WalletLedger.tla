---------------------------- MODULE WalletLedger -----------------------------
(***************************************************************************)
(* The wallet transaction service over its database                        *)
(* (internal/services/wallet_transaction_service.go with the repositories  *)
(* it calls).  Every API call is a goroutine: one creates a wallet         *)
(* transaction (CreateTransaction), another commits or cancels one that    *)
(* was created as reserved (ProcessReservedTransaction).  A call reads     *)
(* outside its database transaction, opens the transaction, takes row      *)
(* locks one at a time, calculates on the balances it read, writes and     *)
(* commits; credits to high-volume (HVT) accounts are not written but      *)
(* published on a Kafka topic partitioned by account, which                *)
(* HvtBalanceUpdate consumes.  Between any two steps other calls run, and  *)
(* a fault may strike.                                                     *)
(*                                                                         *)
(* Statements that only touch rows the call has locked are merged with the *)
(* commit that makes them visible: nobody can see them earlier, and a      *)
(* rollback undoes them all.                                               *)
(***************************************************************************)
EXTENDS Balance, FiniteSets, FiniteSetsExt, Sequences

CONSTANTS
    Acct,        \* account numbers; FOR UPDATE locks them in ascending order
    Registered,  \* those that have a row in the account table
    Skipped,     \* excluded or ignored: never locked, read as zero, not updated
    Hvt,         \* isHvt accounts
    Opt,         \* options of each account's balance
    OpeningRow,  \* each account's row when the model starts
    Trx,         \* wallet transactions, each with the call that creates it
    Flow,        \* transactionFlow of each
    Reserved,    \* isReserved of each
    Children,    \* what the transformers make of each: a sequence of
                 \* [from, to, amount, type]
    Ref,         \* transaction type and refNumber of each
    RefChecked,  \* those of a type whose refNumber is checked for duplicates
    Settler,     \* calls that commit or cancel
    OneAtATime,  \* clients have at most one call in flight per Ref
    FaultKinds,  \* subset of {"crash", "timeout", "db", "publish", "month"}
    MaxFaults    \* bound on the faults of a behaviour

Call   == Trx \union Settler
NoCall == "no call"

AcctAssumption ==
    /\ Acct \subseteq Int
    /\ IsFiniteSet(Acct)
    /\ Registered \subseteq Acct
    /\ Skipped \subseteq Acct
    /\ Hvt \subseteq Acct
    /\ OpeningRow \in [Acct -> BalanceRow]
ASSUME AcctAssumption

ChildRow == [from : Acct, to : Acct, amount : Int, type : STRING]

TrxAssumption ==
    /\ Trx \intersect Settler = {}
    /\ NoCall \notin Call
    /\ Flow \in [Trx -> Flows]
    /\ Reserved \in [Trx -> BOOLEAN]
    /\ Children \in [Trx -> Seq(ChildRow)]
    /\ RefChecked \subseteq Trx
    /\ OneAtATime \in BOOLEAN
    /\ MaxFaults \in Nat
ASSUME TrxAssumption

VARIABLES
    \* The database.
    actual,     \* account.actualBalance
    pending,    \* account.pendingBalance
    status,     \* wallet_transaction.status, "none" while there is no row
    posted,     \* how many times a transaction's children were inserted
    old,        \* transactions recorded more than thirty days ago
    rowLock,    \* who holds the lock of an account row
    trxLock,    \* who holds the lock of a wallet_transaction row
    tx,         \* the database transaction of a call: none, active, aborted
    \* Kafka.
    topic,      \* the HVT partition of each account: published credits
    notified,   \* transactions whose success was published
    \* The calls.
    target,     \* which transaction a settling call names
    action,     \* and what it asks for: commit or cancel
    pc,         \* where a call is
    before,     \* balances a call read (currentBalances)
    after,      \* balances it calculated (updatedBalances)
    child,      \* index of the next child to calculate
    toPublish,  \* HVT accounts it has yet to publish a credit for
    result,     \* what it returned
    faults      \* faults left to strike

database == <<actual, pending, status, posted, rowLock, trxLock, tx>>
kafka    == <<topic, notified>>
local    == <<before, after, child, toPublish>>
visible  == <<database, kafka, target, action, pc, local, result>>
vars     == <<visible, old, faults>>

Zero == [actual |-> 0, pending |-> 0]

\* The balance GetMany returns for an account it leaves out of the query.
SkippedOpt == [ignore |-> TRUE, negative |-> FALSE, limit |-> 0, negTypes |-> {},
               max |-> 0, limited |-> TRUE]
OptOf == [a \in Acct |-> IF a \in Skipped THEN SkippedOpt ELSE Opt[a]]

TrxOf(c)    == IF c \in Trx THEN c ELSE target[c]
ActionOf(c) == IF c \in Trx THEN "create" ELSE action[c]
PhaseOf(c)  == IF c \in Trx /\ Reserved[c] THEN "reserve" ELSE ActionOf(c)

Froms(t)    == {Children[t][i].from : i \in DOMAIN Children[t]}
Tos(t)      == {Children[t][i].to   : i \in DOMAIN Children[t]}
Accounts(t) == Froms(t) \union Tos(t)

\* Rows that a call's SELECT ... FOR UPDATE finds, and locks.
Lockable(t) == (Accounts(t) \intersect Registered) \ Skipped
\* validateAccountExistsInTransactions
AllExist(t) == Accounts(t) \subseteq Registered \union Skipped

\* Accounts credited through Kafka instead of by the call's own UPDATE.
Eligible(c) ==
    IF PhaseOf(c) = "reserve" THEN {}
    ELSE (Lockable(TrxOf(c)) \intersect Hvt) \ Froms(TrxOf(c))

\* Mutant: the difference taken the wrong way round.
CreditReversed(c, a) ==
    [trx |-> TrxOf(c), amount |-> Available(before[c][a]) - Available(after[c][a])]

\* diffAmount: what the calculation did to the account's available balance.
Credit(c, a) ==
    [trx |-> TrxOf(c), amount |-> Available(after[c][a]) - Available(before[c][a])]

\* Mutant: what was asked for is stored as the status.
NewStatusRaw(c) == PhaseOf(c)

NewStatus(c) ==
    CASE PhaseOf(c) = "reserve" -> "PENDING"
      [] PhaseOf(c) \in {"create", "commit"} -> "SUCCESS"
      [] PhaseOf(c) = "cancel"  -> "CANCEL"

Running(c) == pc[c] \notin {"idle", "done"}

\* With OneAtATime a client waits for the answer before it sends another call
\* with the same type and reference number.
MayStart(c) ==
    /\ pc[c] = "idle"
    /\ OneAtATime => \A d \in Call : Running(d) => Ref[TrxOf(d)] # Ref[TrxOf(c)]

\* Mutant: the wallet_transaction row stays locked.
UnlockAccounts(c) ==
    /\ rowLock' = [a \in Acct |-> IF rowLock[a] = c THEN NoCall ELSE rowLock[a]]
    /\ UNCHANGED trxLock

\* The end of a database transaction frees its row locks.
Unlock(c) ==
    /\ rowLock' = [a \in Acct |-> IF rowLock[a] = c THEN NoCall ELSE rowLock[a]]
    /\ trxLock' = [t \in Trx  |-> IF trxLock[t] = c THEN NoCall ELSE trxLock[t]]

Return(c, answer) ==
    /\ pc' = [pc EXCEPT ![c] = "done"]
    /\ result' = [result EXCEPT ![c] = answer]

\* Atomic's deferred Rollback, and the error it hands on.
RollbackAndReturn(c, answer) ==
    /\ Unlock(c)
    /\ tx' = [tx EXCEPT ![c] = "none"]
    /\ Return(c, answer)
    /\ UNCHANGED <<actual, pending, status, posted, kafka, target, action, local>>

Init ==
    /\ actual  = [a \in Acct |-> OpeningRow[a].actual]
    /\ pending = [a \in Acct |-> OpeningRow[a].pending]
    /\ status  = [t \in Trx |-> "none"]
    /\ posted  = [t \in Trx |-> 0]
    /\ old = {}
    /\ rowLock = [a \in Acct |-> NoCall]
    /\ trxLock = [t \in Trx |-> NoCall]
    /\ tx = [c \in Call |-> "none"]
    /\ topic = [a \in Acct |-> <<>>]
    /\ notified = {}
    /\ target \in [Settler -> Trx]
    /\ action \in [Settler -> {"commit", "cancel"}]
    /\ pc = [c \in Call |-> "idle"]
    /\ before = [c \in Call |-> [a \in Acct |-> Zero]]
    /\ after  = [c \in Call |-> [a \in Acct |-> Zero]]
    /\ child  = [c \in Call |-> 1]
    /\ toPublish = [c \in Call |-> {}]
    /\ result = [c \in Call |-> "none"]
    /\ faults = MaxFaults

-----------------------------------------------------------------------------
(***************************************************************************)
(* Before the database transaction.                                        *)
(***************************************************************************)

\* Mutant: only a SUCCESS row counts as a duplicate.
KnownSuccess(t) ==
    t \in RefChecked /\ \E u \in Trx \ old : Ref[u] = Ref[t] /\ status[u] = "SUCCESS"

\* CheckTransactionTypeAndReferenceNumber finds a row, outside any transaction; it
\* asks for those of the last thirty days.
KnownReference(t) ==
    t \in RefChecked /\ \E u \in Trx \ old : Ref[u] = Ref[t] /\ status[u] # "none"

\* A known reference is answered with the transaction it already has.
ReturnExisting(t) ==
    /\ MayStart(t)
    /\ KnownReference(t)
    /\ Return(t, "existing")
    /\ UNCHANGED <<database, kafka, target, action, local, faults>>

\* validateTransactionInput refuses to reserve a cash-in.
RefuseInput(t) ==
    /\ MayStart(t)
    /\ ~KnownReference(t)
    /\ Reserved[t] /\ Flow[t] = "cashin"
    /\ Return(t, "error")
    /\ UNCHANGED <<database, kafka, target, action, local, faults>>

StartCreate(t) ==
    /\ MayStart(t)
    /\ ~KnownReference(t)
    /\ ~(Reserved[t] /\ Flow[t] = "cashin")
    /\ pc' = [pc EXCEPT ![t] = "locking"]
    /\ tx' = [tx EXCEPT ![t] = "active"]
    /\ UNCHANGED <<actual, pending, status, posted, rowLock, trxLock, kafka,
                   target, action, local, result, faults>>

\* Mutant: any settled transaction is answered with success.
SettledAnyhow(s) ==
    /\ MayStart(s)
    /\ status[target[s]] \in {"SUCCESS", "CANCEL"}
    /\ Return(s, "ok")
    /\ UNCHANGED <<database, kafka, target, action, local, faults>>

\* Asking again for what was already done succeeds without doing it again.
AlreadySettled(s) ==
    /\ MayStart(s)
    /\ \/ action[s] = "commit" /\ status[target[s]] = "SUCCESS"
       \/ action[s] = "cancel" /\ status[target[s]] = "CANCEL"
    /\ Return(s, "ok")
    /\ UNCHANGED <<database, kafka, target, action, local, faults>>

\* No such row, or ErrTransactionNotReserved.
RefuseSettle(s) ==
    /\ MayStart(s)
    /\ \/ status[target[s]] = "none"
       \/ action[s] = "commit" /\ status[target[s]] = "CANCEL"
       \/ action[s] = "cancel" /\ status[target[s]] = "SUCCESS"
    /\ Return(s, "error")
    /\ UNCHANGED <<database, kafka, target, action, local, faults>>

\* GetById read PENDING; the row is not locked and may change from here on.
StartSettle(s) ==
    /\ MayStart(s)
    /\ status[target[s]] = "PENDING"
    /\ pc' = [pc EXCEPT ![s] = "updating"]
    /\ tx' = [tx EXCEPT ![s] = "active"]
    /\ UNCHANGED <<actual, pending, status, posted, rowLock, trxLock, kafka,
                   target, action, local, result, faults>>

-----------------------------------------------------------------------------
(***************************************************************************)
(* Inside it.                                                              *)
(***************************************************************************)

\* UPDATE wallet_transaction SET status ... WHERE id: it waits for the row lock
\* and does not look at the status it overwrites.
UpdateStatus(s) ==
    /\ pc[s] = "updating" /\ tx[s] = "active"
    /\ trxLock[target[s]] = NoCall
    /\ trxLock' = [trxLock EXCEPT ![target[s]] = s]
    /\ pc' = [pc EXCEPT ![s] = "locking"]
    /\ UNCHANGED <<actual, pending, status, posted, rowLock, tx, kafka,
                   target, action, local, result, faults>>

Unlocked(c) == {a \in Lockable(TrxOf(c)) : rowLock[a] # c}

\* The row that ORDER BY "accountNumber" FOR UPDATE locks next.
IsNextRow(c, a) == a \in Unlocked(c) /\ \A b \in Unlocked(c) : a <= b

\* Mutant: a SELECT without FOR UPDATE.
LockNothing(c, a) ==
    /\ pc[c] = "locking" /\ tx[c] = "active"
    /\ IsNextRow(c, a)
    /\ rowLock' = [rowLock EXCEPT ![a] = c]
    /\ UNCHANGED <<actual, pending, status, posted, trxLock, tx, kafka,
                   target, action, pc, local, result, faults>>

LockRow(c, a) ==
    /\ pc[c] = "locking" /\ tx[c] = "active"
    /\ IsNextRow(c, a)
    /\ rowLock[a] = NoCall
    /\ rowLock' = [rowLock EXCEPT ![a] = c]
    /\ UNCHANGED <<actual, pending, status, posted, trxLock, tx, kafka,
                   target, action, pc, local, result, faults>>

\* GetMany returns once it has every lock; what it read is current.
ReadBalances(c) ==
    /\ pc[c] = "locking" /\ tx[c] = "active"
    /\ Unlocked(c) = {}
    /\ AllExist(TrxOf(c))
    /\ before' = [before EXCEPT ![c] = [a \in Acct |->
                    IF a \in Lockable(TrxOf(c))
                    THEN [actual |-> actual[a], pending |-> pending[a]]
                    ELSE Zero]]
    /\ after' = [after EXCEPT ![c] = before'[c]]
    /\ pc' = [pc EXCEPT ![c] = "calculating"]
    /\ UNCHANGED <<database, kafka, target, action, child, toPublish, result, faults>>

AccountMissing(c) ==
    /\ pc[c] = "locking" /\ tx[c] = "active"
    /\ Unlocked(c) = {}
    /\ ~AllExist(TrxOf(c))
    /\ RollbackAndReturn(c, "error")
    /\ UNCHANGED faults

NextChild(c) == Children[TrxOf(c)][child[c]]

CanCalculateNext(c) ==
    CanCalculate(Flow[TrxOf(c)], PhaseOf(c), OptOf, NextChild(c), after[c])

\* One turn of the loop over childTransactions.
CalculateChild(c) ==
    /\ pc[c] = "calculating"
    /\ child[c] <= Len(Children[TrxOf(c)])
    /\ CanCalculateNext(c)
    /\ after' = [after EXCEPT ![c] =
                    Calculate(Flow[TrxOf(c)], PhaseOf(c), NextChild(c), @)]
    /\ child' = [child EXCEPT ![c] = @ + 1]
    /\ UNCHANGED <<database, kafka, target, action, pc, before, toPublish, result, faults>>

CalculateFails(c) ==
    /\ pc[c] = "calculating"
    /\ child[c] <= Len(Children[TrxOf(c)])
    /\ ~CanCalculateNext(c)
    /\ RollbackAndReturn(c, "error")
    /\ UNCHANGED faults

\* The loop over updatedBalances.  Creating only collects the HVT credits; the
\* rest of its statements run here, up to the COMMIT.
CreateWrites(t) ==
    /\ pc[t] = "calculating" /\ tx[t] = "active"
    /\ child[t] > Len(Children[t])
    /\ toPublish' = [toPublish EXCEPT ![t] = Eligible(t)]
    /\ pc' = [pc EXCEPT ![t] = "committing"]
    /\ UNCHANGED <<database, kafka, target, action, before, after, child, result, faults>>

\* Settling publishes its HVT credits from inside the loop.
SettleWrites(s) ==
    /\ pc[s] = "calculating" /\ tx[s] = "active"
    /\ child[s] > Len(Children[target[s]])
    /\ toPublish' = [toPublish EXCEPT ![s] = Eligible(s)]
    /\ pc' = [pc EXCEPT ![s] = "publishing"]
    /\ UNCHANGED <<database, kafka, target, action, before, after, child, result, faults>>

Publish(c, a) ==
    /\ a \in toPublish[c]
    /\ topic' = [topic EXCEPT ![a] = Append(@, Credit(c, a))]
    /\ toPublish' = [toPublish EXCEPT ![c] = @ \ {a}]

\* The producer takes no notice of the context: it publishes even when the
\* database transaction has been aborted meanwhile.
PublishInside(s, a) ==
    /\ pc[s] = "publishing"
    /\ Publish(s, a)
    /\ UNCHANGED <<database, notified, target, action, pc, before, after, child,
                   result, faults>>

\* insertChildTransactions, for a commit only; the last statement.
InsertChildren(s) ==
    /\ pc[s] = "publishing"
    /\ toPublish[s] = {}
    /\ action[s] = "commit" => tx[s] = "active"
    /\ pc' = [pc EXCEPT ![s] = "committing"]
    /\ UNCHANGED <<database, kafka, target, action, local, result, faults>>

\* Accounts whose row the call overwrites with the balance it calculated.
Written(c) == Lockable(TrxOf(c)) \ Eligible(c)

ApplyTx(c) ==
    /\ pc[c] = "committing" /\ tx[c] = "active"
    /\ actual'  = [a \in Acct |-> IF a \in Written(c) THEN after[c][a].actual  ELSE actual[a]]
    /\ pending' = [a \in Acct |-> IF a \in Written(c) THEN after[c][a].pending ELSE pending[a]]
    /\ status' = [status EXCEPT ![TrxOf(c)] = NewStatus(c)]
    /\ posted' = [posted EXCEPT ![TrxOf(c)] = IF NewStatus(c) = "SUCCESS" THEN @ + 1 ELSE @]
    /\ Unlock(c)
    /\ tx' = [tx EXCEPT ![c] = "none"]

CommitTx(c) ==
    /\ ApplyTx(c)
    /\ pc' = [pc EXCEPT ![c] = "committed"]
    /\ UNCHANGED <<kafka, target, action, local, result, faults>>

\* tx.Commit returns sql.ErrTxDone: Atomic turns it into success.
CommitTxDone(c) ==
    /\ pc[c] = "committing" /\ tx[c] = "aborted"
    /\ tx' = [tx EXCEPT ![c] = "none"]
    /\ pc' = [pc EXCEPT ![c] = "committed"]
    /\ UNCHANGED <<actual, pending, status, posted, rowLock, trxLock, kafka,
                   target, action, local, result, faults>>

-----------------------------------------------------------------------------
(***************************************************************************)
(* After it.                                                               *)
(***************************************************************************)

\* Mutant: it does not wait for the commit.
PublishEarly(t, a) ==
    /\ pc[t] \in {"committing", "committed"}
    /\ Publish(t, a)
    /\ UNCHANGED <<database, notified, target, action, pc, before, after, child,
                   result, faults>>

\* Creating publishes the credits it collected.
PublishAfter(t, a) ==
    /\ pc[t] = "committed"
    /\ Publish(t, a)
    /\ UNCHANGED <<database, notified, target, action, pc, before, after, child,
                   result, faults>>

\* A success the clients are told of; a reservation and a cancellation are not.
Announced(c) == PhaseOf(c) \in {"create", "commit"}

\* A post-commit error collected on the way is what the call returns.
Notify(c) ==
    /\ pc[c] = "committed"
    /\ toPublish[c] = {}
    /\ notified' = IF Announced(c) THEN notified \union {TrxOf(c)} ELSE notified
    /\ Return(c, IF result[c] = "error" THEN "error" ELSE "ok")
    /\ UNCHANGED <<database, topic, target, action, local, faults>>

-----------------------------------------------------------------------------
(***************************************************************************)
(* Faults.                                                                 *)
(***************************************************************************)
Strike(kind) ==
    /\ kind \in FaultKinds
    /\ faults > 0
    /\ faults' = faults - 1

\* The process dies: the server rolls its transaction back, nobody is answered.
Crash(c) ==
    /\ Strike("crash")
    /\ Running(c)
    /\ RollbackAndReturn(c, "crashed")

\* A statement fails, or COMMIT itself does.
DbError(c) ==
    /\ Strike("db")
    /\ tx[c] = "active"
    /\ RollbackAndReturn(c, "error")

\* COMMIT takes effect but its answer is lost: to Atomic it failed.
CommitUnanswered(c) ==
    /\ Strike("db")
    /\ ApplyTx(c)
    /\ Return(c, "error")
    /\ UNCHANGED <<kafka, target, action, local>>

\* dbCtx expires: database/sql rolls back behind the service's back.
Timeout(c) ==
    /\ Strike("timeout")
    /\ tx[c] = "active"
    /\ Unlock(c)
    /\ tx' = [tx EXCEPT ![c] = "aborted"]
    /\ UNCHANGED <<actual, pending, status, posted, kafka, target, action, pc,
                   local, result>>

\* What the next statement, or a COMMIT that still sees the expiry, answers.
TimedOut(c) ==
    /\ tx[c] = "aborted"
    /\ RollbackAndReturn(c, "error")
    /\ UNCHANGED faults

\* The broker refuses a credit: inside the transaction that fails the call,
\* after it the error is only collected.
PublishInsideFails(s) ==
    /\ Strike("publish")
    /\ pc[s] = "publishing" /\ toPublish[s] # {}
    /\ RollbackAndReturn(s, "error")

PublishAfterFails(t, a) ==
    /\ Strike("publish")
    /\ pc[t] = "committed" /\ a \in toPublish[t]
    /\ toPublish' = [toPublish EXCEPT ![t] = @ \ {a}]
    /\ result' = [result EXCEPT ![t] = "error"]
    /\ UNCHANGED <<database, kafka, target, action, pc, before, after, child>>

NotifyFails(c) ==
    /\ Strike("publish")
    /\ pc[c] = "committed" /\ toPublish[c] = {}
    /\ Announced(c)
    /\ Return(c, "error")
    /\ UNCHANGED <<database, kafka, target, action, local>>

\* A month goes by for a transaction, longer than any call.
Age(t) ==
    /\ Strike("month")
    /\ status[t] # "none" /\ pc[t] = "done" /\ t \notin old
    /\ old' = old \union {t}
    /\ UNCHANGED visible

-----------------------------------------------------------------------------
CreateStep(t) ==
    \/ ReturnExisting(t) \/ RefuseInput(t) \/ StartCreate(t) \/ CreateWrites(t)
    \/ \E a \in Acct : PublishAfter(t, a)

SettleStep(s) ==
    \/ AlreadySettled(s) \/ RefuseSettle(s) \/ StartSettle(s) \/ UpdateStatus(s)
    \/ SettleWrites(s) \/ InsertChildren(s)
    \/ \E a \in Acct : PublishInside(s, a)

CallStep(c) ==
    \/ \E a \in Acct : LockRow(c, a)
    \/ ReadBalances(c) \/ AccountMissing(c)
    \/ CalculateChild(c) \/ CalculateFails(c)
    \/ CommitTx(c) \/ CommitTxDone(c) \/ TimedOut(c)
    \/ Notify(c)

FaultStep(c) ==
    \/ Crash(c) \/ DbError(c) \/ CommitUnanswered(c) \/ Timeout(c) \/ NotifyFails(c)
    \/ c \in Settler /\ PublishInsideFails(c)
    \/ c \in Trx /\ \E a \in Acct : PublishAfterFails(c, a)

\* Every call has returned and all that was waiting has been answered.
Finished == (\A c \in Call : pc[c] = "done") /\ UNCHANGED vars

\* Only Age makes a transaction old.
Next ==
    \/ /\ \/ \E t \in Trx : CreateStep(t)
          \/ \E s \in Settler : SettleStep(s)
          \/ \E c \in Call : CallStep(c) \/ FaultStep(c)
       /\ UNCHANGED old
    \/ \E t \in Trx : Age(t)
    \/ Finished

Spec == Init /\ [][Next]_vars

\* A goroutine that can run does: the Go scheduler and PostgreSQL's lock queue
\* starve nobody.  Clients need not call, and nothing makes a fault happen.
Progress(c) ==
    /\ Running(c)
    /\ \/ c \in Trx /\ CreateStep(c)
       \/ c \in Settler /\ SettleStep(c)
       \/ CallStep(c)
    /\ UNCHANGED old

FairSpec == Spec /\ \A c \in Call : WF_vars(Progress(c))

-----------------------------------------------------------------------------
(***************************************************************************)
(* Properties.                                                             *)
(***************************************************************************)
Statuses == {"none", "PENDING", "SUCCESS", "CANCEL"}
Places   == {"idle", "updating", "locking", "calculating", "publishing",
             "committing", "committed", "done"}
Answers  == {"none", "ok", "existing", "error", "crashed"}
CreditMsg == [trx : Trx, amount : Int]

\* The type of every variable.
TypeOK ==
    /\ actual \in [Acct -> Int]
    /\ pending \in [Acct -> Int]
    /\ status \in [Trx -> Statuses]
    /\ posted \in [Trx -> Nat]
    /\ old \in SUBSET Trx
    /\ rowLock \in [Acct -> Call \union {NoCall}]
    /\ trxLock \in [Trx -> Call \union {NoCall}]
    /\ tx \in [Call -> {"none", "active", "aborted"}]
    /\ topic \in [Acct -> Seq(CreditMsg)]
    /\ notified \in SUBSET Trx
    /\ target \in [Settler -> Trx]
    /\ action \in [Settler -> {"commit", "cancel"}]
    /\ pc \in [Call -> Places]
    /\ before \in [Call -> [Acct -> BalanceRow]]
    /\ after \in [Call -> [Acct -> BalanceRow]]
    /\ child \in [Call -> Nat \ {0}]
    /\ toPublish \in [Call -> SUBSET Acct]
    /\ result \in [Call -> Answers]
    /\ faults \in Nat

\* No lost update: from the moment a call has read its balances until its
\* transaction ends, it holds the lock of every row it will overwrite and the
\* row is still the one it read, so the absolute balance it writes in
\* UpdateAccountBalance undoes nobody's change.
NoLostUpdate ==
    \A c \in Call :
        (tx[c] = "active" /\ pc[c] \in {"calculating", "publishing", "committing"}) =>
            \A a \in Lockable(TrxOf(c)) :
                /\ rowLock[a] = c
                /\ before[c][a] = [actual |-> actual[a], pending |-> pending[a]]

\* What each child of a transaction brings an account, and what it takes from it.
Brought(t, a) ==
    [i \in DOMAIN Children[t] |-> IF Children[t][i].to = a THEN Children[t][i].amount ELSE 0]
Taken(t, a) ==
    [i \in DOMAIN Children[t] |-> IF Children[t][i].from = a THEN Children[t][i].amount ELSE 0]

\* What a settled transaction added to an account, over all its children.
Net(t, a) == SumFunction(Brought(t, a)) - SumFunction(Taken(t, a))

\* What an open reservation holds of an account.
Held(t, a) == SumFunction(Taken(t, a))

\* Its credits to a reach the account through Kafka.
ByTopic(t, a) == a \in Hvt \ Froms(t)

\* The account table agrees with the wallet_transaction table at every moment:
\* an actual balance is the opening balance plus every SUCCESS transaction, once,
\* but for HVT credits; a pending balance is the sum of what the PENDING
\* transactions hold.  Two commits of one reservation, a reservation kept after
\* its end, a half-applied transaction or a lost update breaks it.
LedgerBalanced ==
    \A a \in Registered \ Skipped :
        /\ actual[a] = OpeningRow[a].actual +
             SumFunctionOnSet([t \in Trx |-> Net(t, a)],
                              {t \in Trx : status[t] = "SUCCESS" /\ ~ByTopic(t, a)})
        /\ pending[a] = OpeningRow[a].pending +
             SumFunctionOnSet([t \in Trx |-> Held(t, a)], {t \in Trx : status[t] = "PENDING"})

\* A transaction's children are inserted at most once, whoever commits it and
\* however often: committing what is already committed succeeds without effect.
PostedOnce == \A t \in Trx : posted[t] <= 1

\* A committed or cancelled transaction never changes its status again
\* (ErrTransactionNotReserved).
StatusIsFinal ==
    [][\A t \in Trx : status[t] \in {"SUCCESS", "CANCEL"} => status'[t] = status[t]]_vars

\* No transaction takes an account's available balance below zero, or below the
\* limit its options grant, however calls interleave between the sufficiency
\* check and the write.
AvailableWithinLimit ==
    \A a \in Registered \ Skipped :
        ~Opt[a].ignore =>
            actual[a] - pending[a] >= IF Opt[a].negative THEN -Opt[a].limit ELSE 0

\* Of the transactions whose type is checked for duplicates at most one is
\* recorded for a reference number in thirty days.
OneTransactionPerReference ==
    \A t, u \in RefChecked \ old :
        (Ref[t] = Ref[u] /\ status[t] # "none" /\ status[u] # "none") => t = u

\* A call that answered success, or announced it, has committed.
SuccessMeansCommitted ==
    /\ \A t \in Trx : result[t] = "ok" => status[t] # "none"
    /\ \A s \in Settler : result[s] = "ok" =>
            status[target[s]] = IF action[s] = "commit" THEN "SUCCESS" ELSE "CANCEL"
    /\ \A t \in notified : status[t] = "SUCCESS"

\* Credits in the topic of an account.
Credits(a) == {topic[a][i] : i \in DOMAIN topic[a]}

\* A credit of a transaction that was created without a reservation is on its topic
\* only if the transaction has committed: nobody is paid from a debit that was
\* rolled back.
NoCreditWithoutCommit ==
    \A a \in Acct : \A m \in Credits(a) :
        m.amount # 0 /\ ~Reserved[m.trx] => status[m.trx] = "SUCCESS"

\* Each HVT credit of a committed reservation is on its topic at least once, besides
\* the empty credits of cancellations that were rolled back; each of a direct
\* transaction whose call answered ok is there exactly once.
CreditsPublished ==
    \A t \in Trx : status[t] = "SUCCESS" /\ (Reserved[t] \/ result[t] = "ok") =>
        \A a \in Lockable(t) : ByTopic(t, a) =>
            LET sent    == {i \in DOMAIN topic[a] : topic[a][i].trx = t}
                amounts == {topic[a][i].amount : i \in sent}
            IN  IF Reserved[t] THEN Net(t, a) \in amounts /\ amounts \subseteq {0, Net(t, a)}
                ELSE amounts = {Net(t, a)} /\ Cardinality(sent) = 1

\* A call that has started returns, whatever the others do: lock waits end, and
\* an error path gives up every lock.
EveryCallReturns == \A c \in Call : Running(c) ~> pc[c] = "done"
=============================================================================
