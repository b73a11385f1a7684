-------------------------- MODULE WalletLedgerProofs -------------------------
(***************************************************************************)
(* Proofs about WalletLedger, for any accounts, transactions, children,    *)
(* calls and interleavings:                                                *)
(*                                                                         *)
(*   TypeCorrect            TypeOK                                         *)
(*   UpdatesKept            NoLostUpdate                                   *)
(*   LimitsRespected        AvailableWithinLimit    if it holds at first   *)
(*   CreditsAreSent         CreditsPublished                               *)
(*   ChildrenPostedOnce     PostedOnce              of a client that waits *)
(*   SettledForGood         StatusIsFinal           of a client that waits *)
(*   ReferenceRecordedOnce  OneTransactionPerReference   of one that waits *)
(*   LedgerAgrees           LedgerBalanced          if clients wait        *)
(*   SuccessIsCommitted     SuccessMeansCommitted   the same, no timeouts  *)
(*   CreditsCommitted       NoCreditWithoutCommit   without timeouts       *)
(*                                                                         *)
(* The first half is about locks: what a call has read is what is there    *)
(* (NoLostUpdate), so what it writes is what it calculated from the table. *)
(* The second is about the life of a transaction: Does(c) lists the ways   *)
(* in which a step of call c may change its status, and each invariant is  *)
(* preserved by each of them.  LedgerBalanced adds up over all             *)
(* transactions with the sums of BalanceProofs.  CreditsPublished follows  *)
(* what a call has still to send and what it has sent.                     *)
(***************************************************************************)
EXTENDS WalletLedger, BalanceProofs

-----------------------------------------------------------------------------
(***************************************************************************)
(* Facts about the operators.                                              *)
(***************************************************************************)

\* What a call works on, in states of the right type.
LEMMA CallTypes ==
    ASSUME TypeOK, NEW c \in Call
    PROVE  /\ TrxOf(c) \in Trx
           /\ PhaseOf(c) \in Phases
           /\ NewStatus(c) \in Statuses
<1>1. TrxOf(c) \in Trx
  BY DEF TypeOK, TrxOf, Call
<1>2. PhaseOf(c) \in {"create", "reserve", "commit", "cancel"}
  BY DEF TypeOK, PhaseOf, ActionOf, Call
<1>3. NewStatus(c) \in Statuses
  BY <1>2 DEF NewStatus, Statuses
<1>. QED BY <1>1, <1>2, <1>3 DEF Phases

\* A credit is a message of the topic.
LEMMA CreditType ==
    ASSUME TypeOK, NEW c \in Call, NEW a \in Acct
    PROVE  Credit(c, a) \in CreditMsg
<1>1. after[c][a] \in BalanceRow /\ before[c][a] \in BalanceRow
  BY DEF TypeOK
<1>2. Available(after[c][a]) - Available(before[c][a]) \in Int
  BY <1>1 DEF Available, BalanceRow
<1>. QED BY <1>2, CallTypes DEF Credit, CreditMsg

\* The child a call calculates next is one of its transaction's.
LEMMA NextChildType ==
    ASSUME TypeOK, NEW c \in Call, child[c] <= Len(Children[TrxOf(c)])
    PROVE  NextChild(c) \in ChildRow
<1>1. Children[TrxOf(c)] \in Seq(ChildRow)
  BY CallTypes, TrxAssumption DEF TrxAssumption
<1>2. child[c] \in 1..Len(Children[TrxOf(c)])
  BY <1>1 DEF TypeOK
<1>. QED BY <1>1, <1>2 DEF NextChild

\* Giving up locks keeps the lock tables well typed.
LEMMA UnlockType ==
    ASSUME TypeOK, NEW c \in Call, Unlock(c)
    PROVE  /\ rowLock' \in [Acct -> Call \union {NoCall}]
           /\ trxLock' \in [Trx -> Call \union {NoCall}]
  BY DEF TypeOK, Unlock

\* So does a rollback, for every variable.
LEMMA RollbackType ==
    ASSUME TypeOK, NEW c \in Call, NEW answer \in Answers,
           RollbackAndReturn(c, answer), faults' \in Nat, UNCHANGED old
    PROVE  TypeOK'
<1>1. /\ rowLock' \in [Acct -> Call \union {NoCall}]
      /\ trxLock' \in [Trx -> Call \union {NoCall}]
  BY UnlockType DEF RollbackAndReturn
<1>. QED BY <1>1 DEF RollbackAndReturn, Return, TypeOK, Places, kafka, local

LEMMA FaultsType ==
    ASSUME TypeOK, NEW kind, Strike(kind)
    PROVE  faults' \in Nat
  BY DEF TypeOK, Strike

-----------------------------------------------------------------------------
(***************************************************************************)
(* Type correctness.                                                       *)
(***************************************************************************)
LEMMA InitType == Init => TypeOK
<1>. SUFFICES ASSUME Init PROVE TypeOK
  OBVIOUS
<1>1. actual \in [Acct -> Int] /\ pending \in [Acct -> Int]
  BY AcctAssumption DEF Init, AcctAssumption, BalanceRow
<1>2. topic \in [Acct -> Seq(CreditMsg)]
  BY DEF Init
<1>3. Zero \in BalanceRow
  BY DEF Zero, BalanceRow
<1>4. before \in [Call -> [Acct -> BalanceRow]] /\ after \in [Call -> [Acct -> BalanceRow]]
  BY <1>3 DEF Init
<1>. QED
  BY <1>1, <1>2, <1>4, TrxAssumption
  DEF Init, TypeOK, TrxAssumption, Statuses, Places, Answers

\* The steps before the database transaction.
LEMMA StartType ==
    ASSUME TypeOK, UNCHANGED old, NEW c \in Call,
           \/ c \in Trx /\ (ReturnExisting(c) \/ RefuseInput(c) \/ StartCreate(c))
           \/ c \in Settler /\ (AlreadySettled(c) \/ RefuseSettle(c) \/ StartSettle(c))
    PROVE  TypeOK'
<1>1. CASE ReturnExisting(c)
  BY <1>1 DEF TypeOK, ReturnExisting, Return, database, kafka, local, Places, Answers
<1>2. CASE RefuseInput(c)
  BY <1>2 DEF TypeOK, RefuseInput, Return, database, kafka, local, Places, Answers
<1>3. CASE StartCreate(c)
  BY <1>3 DEF TypeOK, StartCreate, kafka, local, Places
<1>4. CASE AlreadySettled(c)
  BY <1>4 DEF TypeOK, AlreadySettled, Return, database, kafka, local, Places, Answers
<1>5. CASE RefuseSettle(c)
  BY <1>5 DEF TypeOK, RefuseSettle, Return, database, kafka, local, Places, Answers
<1>6. CASE StartSettle(c)
  BY <1>6 DEF TypeOK, StartSettle, kafka, local, Places
<1>. QED BY <1>1, <1>2, <1>3, <1>4, <1>5, <1>6

\* A credit appended to its topic.
LEMMA PublishType ==
    ASSUME TypeOK, NEW c \in Call, NEW a \in Acct, Publish(c, a)
    PROVE  /\ topic' \in [Acct -> Seq(CreditMsg)]
           /\ toPublish' \in [Call -> SUBSET Acct]
<1>1. Credit(c, a) \in CreditMsg
  BY CreditType
<1>2. topic[a] \in Seq(CreditMsg)
  BY DEF TypeOK
<1>3. Append(topic[a], Credit(c, a)) \in Seq(CreditMsg)
  BY <1>1, <1>2
<1>. QED BY <1>3 DEF Publish, TypeOK

\* A commit of the database transaction.
LEMMA ApplyTxType ==
    ASSUME TypeOK, NEW c \in Call, ApplyTx(c)
    PROVE  /\ actual' \in [Acct -> Int]
           /\ pending' \in [Acct -> Int]
           /\ status' \in [Trx -> Statuses]
           /\ posted' \in [Trx -> Nat]
           /\ rowLock' \in [Acct -> Call \union {NoCall}]
           /\ trxLock' \in [Trx -> Call \union {NoCall}]
           /\ tx' \in [Call -> {"none", "active", "aborted"}]
<1>1. \A a \in Acct : after[c][a].actual \in Int /\ after[c][a].pending \in Int
  BY DEF TypeOK, BalanceRow
<1>2. actual' \in [Acct -> Int] /\ pending' \in [Acct -> Int]
  BY <1>1 DEF ApplyTx, TypeOK
<1>3. status' \in [Trx -> Statuses] /\ posted' \in [Trx -> Nat]
  BY CallTypes DEF ApplyTx, TypeOK
<1>. QED BY <1>2, <1>3, UnlockType DEF ApplyTx, TypeOK

\* The steps inside it.
LEMMA InsideType ==
    ASSUME TypeOK, UNCHANGED old, NEW c \in Call,
           \/ \E a \in Acct : LockRow(c, a)
           \/ ReadBalances(c) \/ AccountMissing(c)
           \/ CalculateChild(c) \/ CalculateFails(c)
           \/ CommitTx(c) \/ CommitTxDone(c) \/ TimedOut(c)
           \/ c \in Trx /\ CreateWrites(c)
           \/ c \in Settler /\ (\/ UpdateStatus(c) \/ SettleWrites(c) \/ InsertChildren(c)
                                \/ \E a \in Acct : PublishInside(c, a))
    PROVE  TypeOK'
<1>. USE DEF TypeOK
<1>1. CASE \E a \in Acct : LockRow(c, a)
  BY <1>1 DEF LockRow, kafka, local
<1>2. CASE ReadBalances(c)
  <2>1. before' \in [Call -> [Acct -> BalanceRow]]
    BY <1>2 DEF ReadBalances, BalanceRow, Zero
  <2>2. before'[c] \in [Acct -> BalanceRow]
    BY <2>1
  <2>3. after' \in [Call -> [Acct -> BalanceRow]]
    BY <1>2, <2>2 DEF ReadBalances
  <2>. QED BY <1>2, <2>1, <2>3 DEF ReadBalances, database, kafka, Places
<1>3. CASE AccountMissing(c)
  BY <1>3, RollbackType DEF AccountMissing, Answers
<1>4. CASE CalculateChild(c)
  <2>1. /\ NextChild(c).from \in Acct
        /\ NextChild(c).to \in Acct
        /\ NextChild(c).amount \in Int
    BY <1>4, NextChildType DEF CalculateChild, ChildRow
  <2>2. Flow[TrxOf(c)] \in Flows
    BY CallTypes, TrxAssumption DEF TrxAssumption
  <2>3. Calculate(Flow[TrxOf(c)], PhaseOf(c), NextChild(c), after[c]) \in [Acct -> BalanceRow]
    BY <2>1, <2>2, CallTypes, CalculateType
  <2>4. after' \in [Call -> [Acct -> BalanceRow]]
    BY <1>4, <2>3 DEF CalculateChild
  <2>. QED BY <1>4, <2>4 DEF CalculateChild, database, kafka
<1>5. CASE CalculateFails(c)
  BY <1>5, RollbackType DEF CalculateFails, Answers
<1>6. CASE CommitTx(c)
  BY <1>6, ApplyTxType DEF CommitTx, kafka, local, Places
<1>7. CASE CommitTxDone(c)
  BY <1>7 DEF CommitTxDone, kafka, local, Places
<1>8. CASE TimedOut(c)
  BY <1>8, RollbackType DEF TimedOut, Answers
<1>9. Eligible(c) \subseteq Acct
  BY AcctAssumption DEF Eligible, Lockable, AcctAssumption
<1>10. CASE c \in Trx /\ CreateWrites(c)
  BY <1>9, <1>10 DEF CreateWrites, database, kafka, Places
<1>11. CASE c \in Settler /\ UpdateStatus(c)
  BY <1>11 DEF UpdateStatus, kafka, local, Places
<1>12. CASE c \in Settler /\ SettleWrites(c)
  BY <1>9, <1>12 DEF SettleWrites, database, kafka, Places
<1>13. ASSUME NEW a \in Acct, PublishInside(c, a) PROVE TypeOK'
  BY <1>13, PublishType DEF PublishInside, database
<1>14. CASE c \in Settler /\ InsertChildren(c)
  BY <1>14 DEF InsertChildren, database, kafka, local, Places
<1>. QED BY <1>1, <1>2, <1>3, <1>4, <1>5, <1>6, <1>7, <1>8, <1>10, <1>11, <1>12,
            <1>13, <1>14

\* The steps after it, and the faults.
LEMMA AfterType ==
    ASSUME TypeOK, UNCHANGED old, NEW c \in Call,
           \/ \E a \in Acct : PublishAfter(c, a)
           \/ Notify(c) \/ FaultStep(c)
    PROVE  TypeOK'
<1>1. ASSUME NEW a \in Acct, PublishAfter(c, a) PROVE TypeOK'
  BY <1>1, PublishType DEF PublishAfter, database, TypeOK
<1>2. CASE Notify(c)
  <2>1. notified' \in SUBSET Trx
    BY <1>2, CallTypes DEF Notify, TypeOK
  <2>. QED BY <1>2, <2>1 DEF Notify, Return, database, local, Places, Answers, TypeOK
<1>3. CASE Crash(c)
  BY <1>3, RollbackType, FaultsType DEF Crash, Answers
<1>4. CASE DbError(c)
  BY <1>4, RollbackType, FaultsType DEF DbError, Answers
<1>5. CASE CommitUnanswered(c)
  BY <1>5, ApplyTxType, FaultsType
  DEF CommitUnanswered, Return, kafka, local, Places, Answers, TypeOK
<1>6. CASE Timeout(c)
  BY <1>6, UnlockType, FaultsType DEF Timeout, kafka, local, TypeOK
<1>7. CASE PublishInsideFails(c)
  BY <1>7, RollbackType, FaultsType DEF PublishInsideFails, Answers
<1>8. ASSUME NEW a \in Acct, PublishAfterFails(c, a) PROVE TypeOK'
  BY <1>8, FaultsType DEF PublishAfterFails, database, kafka, Answers, TypeOK
<1>9. CASE NotifyFails(c)
  BY <1>9, FaultsType DEF NotifyFails, Return, database, kafka, local, Places, Answers, TypeOK
<1>. QED BY <1>1, <1>2, <1>3, <1>4, <1>5, <1>6, <1>7, <1>8, <1>9 DEF FaultStep

\* No step breaks the types.
LEMMA NextType == TypeOK /\ [Next]_vars => TypeOK'
<1>. SUFFICES ASSUME TypeOK, [Next]_vars PROVE TypeOK'
  OBVIOUS
<1>1. ASSUME NEW t \in Trx, CreateStep(t), UNCHANGED old PROVE TypeOK'
  BY <1>1, StartType, InsideType, AfterType DEF CreateStep, Call
<1>2. ASSUME NEW s \in Settler, SettleStep(s), UNCHANGED old PROVE TypeOK'
  BY <1>2, StartType, InsideType DEF SettleStep, Call
<1>3. ASSUME NEW c \in Call, CallStep(c), UNCHANGED old PROVE TypeOK'
  BY <1>3, InsideType, AfterType DEF CallStep
<1>4. ASSUME NEW c \in Call, FaultStep(c), UNCHANGED old PROVE TypeOK'
  BY <1>4, AfterType
<1>5. ASSUME NEW t \in Trx, Age(t) PROVE TypeOK'
  BY <1>5, FaultsType DEF Age, visible, database, kafka, local, TypeOK
<1>6. CASE UNCHANGED vars
  BY <1>6 DEF vars, visible, database, kafka, local, TypeOK
<1>. QED BY <1>1, <1>2, <1>3, <1>4, <1>5, <1>6 DEF Next, Finished

\* Every variable keeps its type, for any accounts, transactions and faults.
THEOREM TypeCorrect == Spec => []TypeOK
<1>. QED BY InitType, NextType, PTL DEF Spec

-----------------------------------------------------------------------------
(***************************************************************************)
(* No lost update.  The invariant is inductive once the types are known:   *)
(* a step of one call leaves alone the program counter and the readings of *)
(* the others, the locks they hold and the rows under those locks; and the *)
(* call itself enters the critical section only with every lock.           *)
(***************************************************************************)

\* The call has read its balances and its transaction is open.
Critical(c) == tx[c] = "active" /\ pc[c] \in {"calculating", "publishing", "committing"}

\* What NoLostUpdate says of one call.
Guarded(c) ==
    \A a \in Lockable(TrxOf(c)) :
        /\ rowLock[a] = c
        /\ before[c][a] = [actual |-> actual[a], pending |-> pending[a]]

\* What a step of call c does not touch.
OthersKept(c) ==
    /\ target' = target
    /\ \A d \in Call \ {c} : pc'[d] = pc[d] /\ tx'[d] = tx[d] /\ before'[d] = before[d]
    /\ \A a \in Acct : rowLock[a] \in Call \ {c} =>
            rowLock'[a] = rowLock[a] /\ actual'[a] = actual[a] /\ pending'[a] = pending[a]

LEMMA CriticalGuarded == NoLostUpdate <=> \A c \in Call : Critical(c) => Guarded(c)
BY DEF NoLostUpdate, Critical, Guarded

LEMMA LockableAcct == \A t : Lockable(t) \subseteq Acct
BY AcctAssumption DEF Lockable, AcctAssumption

\* Ending a transaction frees nobody else's rows.
LEMMA UnlockKeeps ==
    ASSUME TypeOK, NEW c \in Call, Unlock(c)
    PROVE  \A a \in Acct : rowLock[a] \in Call \ {c} => rowLock'[a] = rowLock[a]
BY DEF Unlock

\* A rollback touches nothing of the others.
LEMMA RollbackKeeps ==
    ASSUME TypeOK, NEW c \in Call, NEW answer, RollbackAndReturn(c, answer)
    PROVE  OthersKept(c) /\ ~Critical(c)'
<1>1. \A a \in Acct : rowLock[a] \in Call \ {c} => rowLock'[a] = rowLock[a]
  BY UnlockKeeps DEF RollbackAndReturn
<1>. QED BY <1>1 DEF RollbackAndReturn, Return, OthersKept, Critical, TypeOK, local

\* The rows a commit overwrites are locked by the call that commits.
LEMMA ApplyKeeps ==
    ASSUME TypeOK, NoLostUpdate, NEW c \in Call, ApplyTx(c)
    PROVE  /\ ~Critical(c)'
           /\ \A d \in Call \ {c} : tx'[d] = tx[d]
           /\ \A a \in Acct : rowLock[a] \in Call \ {c} =>
                rowLock'[a] = rowLock[a] /\ actual'[a] = actual[a] /\ pending'[a] = pending[a]
<1>1. Guarded(c)
  BY CriticalGuarded DEF ApplyTx, Critical
<1>2. \A a \in Acct : rowLock[a] \in Call \ {c} => a \notin Written(c)
  BY <1>1 DEF Guarded, Written
<1>3. \A a \in Acct : rowLock[a] \in Call \ {c} => rowLock'[a] = rowLock[a]
  BY UnlockKeeps DEF ApplyTx
<1>. QED BY <1>2, <1>3 DEF ApplyTx, Critical, TypeOK

\* A step of one call keeps the invariant for all if it touches nothing of the
\* others and leaves the call itself guarded wherever it is critical.
LEMMA StepKeeps ==
    ASSUME TypeOK, NoLostUpdate, NEW c \in Call, OthersKept(c),
           Critical(c)' => Guarded(c)'
    PROVE  NoLostUpdate'
<1>1. ASSUME NEW d \in Call, d # c, Critical(d)' PROVE Guarded(d)'
  <2>1. Critical(d)
    BY <1>1 DEF OthersKept, Critical
  <2>2. Guarded(d)
    BY <2>1, CriticalGuarded
  <2>3. TrxOf(d)' = TrxOf(d)
    BY DEF OthersKept, TrxOf
  <2>4. Lockable(TrxOf(d))' = Lockable(TrxOf(d))
    BY <2>3 DEF Lockable, Accounts, Froms, Tos
  <2>5. ASSUME NEW a \in Lockable(TrxOf(d))
        PROVE  /\ rowLock'[a] = d
               /\ before'[d][a] = [actual |-> actual'[a], pending |-> pending'[a]]
    <3>1. a \in Acct /\ rowLock[a] = d
      BY <2>2, LockableAcct DEF Guarded
    <3>2. rowLock'[a] = rowLock[a] /\ actual'[a] = actual[a] /\ pending'[a] = pending[a]
      BY <1>1, <3>1 DEF OthersKept
    <3>3. before'[d] = before[d]
      BY <1>1 DEF OthersKept
    <3>. QED BY <2>2, <3>1, <3>2, <3>3 DEF Guarded
  <2>. QED BY <2>4, <2>5 DEF Guarded
<1>2. \A d \in Call : Critical(d)' => Guarded(d)'
  BY <1>1
<1>. QED BY <1>2 DEF NoLostUpdate, Critical, Guarded

\* A step that changes no lock, no row and no reading, and moves at most its own
\* call, from one critical place to another.
LEMMA UnchangedKeeps ==
    ASSUME TypeOK, NoLostUpdate, NEW c \in Call,
           UNCHANGED <<rowLock, actual, pending, before, tx, target>>,
           \A d \in Call \ {c} : pc'[d] = pc[d],
           Critical(c)' => Critical(c)
    PROVE  NoLostUpdate'
<1>1. OthersKept(c)
  BY DEF OthersKept
<1>2. ASSUME Critical(c)' PROVE Guarded(c)'
  <2>1. Guarded(c)
    BY <1>2, CriticalGuarded
  <2>2. Lockable(TrxOf(c))' = Lockable(TrxOf(c))
    BY DEF TrxOf, Lockable, Accounts, Froms, Tos
  <2>. QED BY <2>1, <2>2 DEF Guarded
<1>. QED BY <1>1, <1>2, StepKeeps

\* The steps that lock, read and calculate.
LEMMA InsideKeeps ==
    ASSUME TypeOK, NoLostUpdate, NEW c \in Call,
           \/ \E a \in Acct : LockRow(c, a)
           \/ ReadBalances(c) \/ AccountMissing(c)
           \/ CalculateChild(c) \/ CalculateFails(c)
           \/ CommitTx(c) \/ CommitTxDone(c) \/ TimedOut(c) \/ Notify(c)
    PROVE  NoLostUpdate'
<1>. USE DEF TypeOK, database, kafka, local
<1>1. ASSUME NEW a \in Acct, LockRow(c, a) PROVE NoLostUpdate'
  <2>1. OthersKept(c)
    BY <1>1, TrxAssumption DEF LockRow, OthersKept, TrxAssumption
  <2>2. ~Critical(c)'
    BY <1>1 DEF LockRow, Critical
  <2>. QED BY <2>1, <2>2, StepKeeps
<1>2. CASE ReadBalances(c)
  <2>1. OthersKept(c)
    BY <1>2 DEF ReadBalances, OthersKept
  <2>2. \A a \in Lockable(TrxOf(c)) : rowLock'[a] = c
    BY <1>2 DEF ReadBalances, Unlocked
  <2>3. \A a \in Lockable(TrxOf(c)) :
            before'[c][a] = [actual |-> actual'[a], pending |-> pending'[a]]
    BY <1>2, LockableAcct DEF ReadBalances
  <2>4. Lockable(TrxOf(c))' = Lockable(TrxOf(c))
    BY <1>2 DEF ReadBalances, TrxOf, Lockable, Accounts, Froms, Tos
  <2>5. Guarded(c)'
    BY <2>2, <2>3, <2>4 DEF Guarded
  <2>. QED BY <2>1, <2>5, StepKeeps
<1>3. CASE AccountMissing(c)
  BY <1>3, RollbackKeeps, StepKeeps DEF AccountMissing
<1>4. CASE CalculateChild(c)
  BY <1>4, UnchangedKeeps DEF CalculateChild, Critical
<1>5. CASE CalculateFails(c)
  BY <1>5, RollbackKeeps, StepKeeps DEF CalculateFails
<1>6. CASE CommitTx(c)
  <2>1. OthersKept(c)
    BY <1>6, ApplyKeeps DEF CommitTx, OthersKept
  <2>. QED BY <1>6, <2>1, ApplyKeeps, StepKeeps DEF CommitTx
<1>7. CASE CommitTxDone(c)
  <2>1. OthersKept(c) /\ ~Critical(c)'
    BY <1>7 DEF CommitTxDone, OthersKept, Critical
  <2>. QED BY <2>1, StepKeeps
<1>8. CASE TimedOut(c)
  BY <1>8, RollbackKeeps, StepKeeps DEF TimedOut
<1>9. CASE Notify(c)
  <2>1. OthersKept(c) /\ ~Critical(c)'
    BY <1>9 DEF Notify, Return, OthersKept, Critical
  <2>. QED BY <2>1, StepKeeps
<1>. QED BY <1>1, <1>2, <1>3, <1>4, <1>5, <1>6, <1>7, <1>8, <1>9

\* A step that begins or refuses a transaction, or leads from one critical place
\* to the next, or publishes.
LEMMA CreateKeeps ==
    ASSUME TypeOK, NoLostUpdate, NEW t \in Trx, CreateStep(t)
    PROVE  NoLostUpdate'
<1>. USE DEF TypeOK, database, kafka, local, Critical
<1>0. t \in Call
  BY DEF Call
<1>1. CASE ReturnExisting(t)
  BY <1>0, <1>1, UnchangedKeeps DEF ReturnExisting, Return
<1>2. CASE RefuseInput(t)
  BY <1>0, <1>2, UnchangedKeeps DEF RefuseInput, Return
<1>3. CASE StartCreate(t)
  <2>1. OthersKept(t) /\ ~Critical(t)'
    BY <1>0, <1>3 DEF StartCreate, OthersKept
  <2>. QED BY <1>0, <2>1, StepKeeps
<1>4. CASE CreateWrites(t)
  BY <1>0, <1>4, UnchangedKeeps DEF CreateWrites
<1>5. ASSUME NEW a \in Acct, PublishAfter(t, a) PROVE NoLostUpdate'
  BY <1>0, <1>5, UnchangedKeeps DEF PublishAfter
<1>. QED BY <1>1, <1>2, <1>3, <1>4, <1>5 DEF CreateStep

LEMMA SettleKeeps ==
    ASSUME TypeOK, NoLostUpdate, NEW s \in Settler, SettleStep(s)
    PROVE  NoLostUpdate'
<1>. USE DEF TypeOK, database, kafka, local, Critical
<1>0. s \in Call
  BY DEF Call
<1>1. CASE AlreadySettled(s)
  BY <1>0, <1>1, UnchangedKeeps DEF AlreadySettled, Return
<1>2. CASE RefuseSettle(s)
  BY <1>0, <1>2, UnchangedKeeps DEF RefuseSettle, Return
<1>3. CASE StartSettle(s)
  <2>1. OthersKept(s) /\ ~Critical(s)'
    BY <1>0, <1>3 DEF StartSettle, OthersKept
  <2>. QED BY <1>0, <2>1, StepKeeps
<1>4. CASE UpdateStatus(s)
  <2>1. OthersKept(s) /\ ~Critical(s)'
    BY <1>0, <1>4 DEF UpdateStatus, OthersKept
  <2>. QED BY <1>0, <2>1, StepKeeps
<1>5. CASE SettleWrites(s)
  BY <1>0, <1>5, UnchangedKeeps DEF SettleWrites
<1>6. CASE InsertChildren(s)
  BY <1>0, <1>6, UnchangedKeeps DEF InsertChildren
<1>7. ASSUME NEW a \in Acct, PublishInside(s, a) PROVE NoLostUpdate'
  BY <1>0, <1>7, UnchangedKeeps DEF PublishInside
<1>. QED BY <1>1, <1>2, <1>3, <1>4, <1>5, <1>6, <1>7 DEF SettleStep

\* Faults end a transaction or strike outside the critical section.
LEMMA FaultKeeps ==
    ASSUME TypeOK, NoLostUpdate, NEW c \in Call, FaultStep(c)
    PROVE  NoLostUpdate'
<1>. USE DEF TypeOK, database, kafka, local
<1>1. CASE Crash(c)
  BY <1>1, RollbackKeeps, StepKeeps DEF Crash
<1>2. CASE DbError(c)
  BY <1>2, RollbackKeeps, StepKeeps DEF DbError
<1>3. CASE CommitUnanswered(c)
  <2>1. OthersKept(c)
    BY <1>3, ApplyKeeps DEF CommitUnanswered, Return, OthersKept
  <2>. QED BY <1>3, <2>1, ApplyKeeps, StepKeeps DEF CommitUnanswered
<1>4. CASE Timeout(c)
  <2>1. \A a \in Acct : rowLock[a] \in Call \ {c} => rowLock'[a] = rowLock[a]
    BY <1>4, UnlockKeeps DEF Timeout
  <2>2. OthersKept(c) /\ ~Critical(c)'
    BY <1>4, <2>1 DEF Timeout, OthersKept, Critical
  <2>. QED BY <2>2, StepKeeps
<1>5. CASE PublishInsideFails(c)
  BY <1>5, RollbackKeeps, StepKeeps DEF PublishInsideFails
<1>6. ASSUME NEW a \in Acct, PublishAfterFails(c, a) PROVE NoLostUpdate'
  BY <1>6, UnchangedKeeps DEF PublishAfterFails, Critical
<1>7. CASE NotifyFails(c)
  BY <1>7, UnchangedKeeps DEF NotifyFails, Return, Critical
<1>. QED BY <1>1, <1>2, <1>3, <1>4, <1>5, <1>6, <1>7 DEF FaultStep

LEMMA NextKeeps == TypeOK /\ NoLostUpdate /\ [Next]_vars => NoLostUpdate'
<1>. SUFFICES ASSUME TypeOK, NoLostUpdate, [Next]_vars PROVE NoLostUpdate'
  OBVIOUS
<1>1. ASSUME NEW c \in Call, CallStep(c) PROVE NoLostUpdate'
  BY <1>1, InsideKeeps DEF CallStep
<1>2. CASE UNCHANGED visible
  BY <1>2 DEF visible, database, local, NoLostUpdate, TrxOf, Lockable, Accounts, Froms, Tos
<1>. QED BY <1>1, <1>2, CreateKeeps, SettleKeeps, FaultKeeps DEF Next, Age, Finished, vars

\* No call ever overwrites the balance change of another, for any number of
\* accounts and calls, any transactions, flows and faults: an account row is
\* written with what was calculated from its own current value.
THEOREM UpdatesKept == Spec => []NoLostUpdate
<1>1. Init => NoLostUpdate
  BY DEF Init, NoLostUpdate
<1>. QED BY <1>1, InitType, NextType, NextKeeps, PTL DEF Spec

-----------------------------------------------------------------------------
(***************************************************************************)
(* What a step can do.  The proofs below look at the balances, the status  *)
(* of the transactions and the answers; seen from there a step of a call   *)
(* is one of nine.                                                         *)
(***************************************************************************)
InTx    == {"updating", "locking", "calculating", "publishing", "committing"}
HasRead == {"calculating", "publishing", "committing"}

rows     == <<actual, pending, status, posted>>
readings == <<before, after, child>>

\* The other calls stay where they are.
OthersStay(c) ==
    /\ target' = target /\ action' = action
    /\ \A d \in Call \ {c} : pc'[d] = pc[d] /\ result'[d] = result[d] /\ tx'[d] = tx[d]

\* It answers at once, from what it read outside any transaction.
Declines(c) ==
    /\ MayStart(c) /\ pc'[c] = "done"
    /\ UNCHANGED <<rows, readings, notified>>
    /\ result'[c] = "ok" => /\ c \in Settler
                            /\ \/ action[c] = "commit" /\ status[target[c]] = "SUCCESS"
                               \/ action[c] = "cancel" /\ status[target[c]] = "CANCEL"

\* It opens its transaction.
Begins(c) ==
    /\ MayStart(c) /\ pc'[c] \in {"updating", "locking"}
    /\ UNCHANGED <<rows, readings, notified, result>>
    /\ IF c \in Trx THEN ~KnownReference(c) /\ ~(Reserved[c] /\ Flow[c] = "cashin")
                    ELSE status[target[c]] = "PENDING"

\* It advances inside the transaction without touching a balance, or waits.
Moves(c) ==
    /\ UNCHANGED <<rows, readings, notified, result>>
    /\ \/ pc'[c] = pc[c]
       \/ pc[c] = "updating" /\ pc'[c] = "locking"
       \/ /\ pc[c] = "calculating" /\ pc'[c] \in {"publishing", "committing"}
          /\ child[c] > Len(Children[TrxOf(c)])
       \/ pc[c] = "publishing" /\ pc'[c] = "committing"

\* It gives up.
Aborts(c) ==
    /\ pc'[c] = "done" /\ result'[c] \in {"error", "crashed"}
    /\ UNCHANGED <<rows, readings, notified>>

\* Its transaction commits.
Commits(c) ==
    /\ ApplyTx(c)
    /\ \/ pc'[c] = "committed" /\ result'[c] = result[c]
       \/ pc'[c] = "done" /\ result'[c] = "error"
    /\ UNCHANGED <<readings, notified>>

\* The transaction it takes for committed was rolled back.
SlipsThrough(c) ==
    /\ pc[c] = "committing" /\ tx[c] = "aborted" /\ pc'[c] = "committed"
    /\ UNCHANGED <<rows, readings, notified, result>>

\* It publishes and answers.
Tells(c) ==
    /\ pc[c] = "committed" /\ pc'[c] \in {"committed", "done"}
    /\ UNCHANGED <<rows, readings>>
    /\ \/ notified' = notified
       \/ Announced(c) /\ notified' = notified \union {TrxOf(c)}

Does(c) ==
    \/ Declines(c) \/ Begins(c) \/ ReadBalances(c) \/ CalculateChild(c) \/ Moves(c)
    \/ Aborts(c) \/ Commits(c) \/ SlipsThrough(c) \/ Tells(c)

LEMMA RollbackAborts ==
    ASSUME TypeOK, NEW c \in Call, NEW answer \in {"error", "crashed"},
           RollbackAndReturn(c, answer)
    PROVE  OthersStay(c) /\ Aborts(c)
BY DEF TypeOK, RollbackAndReturn, Return, OthersStay, Aborts, rows, readings, kafka, local

LEMMA CreateDoes ==
    ASSUME TypeOK, NEW c \in Trx, CreateStep(c)
    PROVE  OthersStay(c) /\ Does(c)
<1>. USE DEF TypeOK, OthersStay, rows, readings, database, kafka, local
<1>0. c \in Call
  BY DEF Call
<1>1. CASE ReturnExisting(c)
  <2>1. OthersStay(c) /\ Declines(c)
    BY <1>0, <1>1 DEF ReturnExisting, Return, Declines
  <2>. QED BY <2>1 DEF Does
<1>2. CASE RefuseInput(c)
  <2>1. OthersStay(c) /\ Declines(c)
    BY <1>0, <1>2 DEF RefuseInput, Return, Declines
  <2>. QED BY <2>1 DEF Does
<1>3. CASE StartCreate(c)
  <2>1. OthersStay(c) /\ Begins(c)
    BY <1>0, <1>3 DEF StartCreate, Begins
  <2>. QED BY <2>1 DEF Does
<1>4. CASE CreateWrites(c)
  <2>1. OthersStay(c) /\ Moves(c)
    BY <1>0, <1>4 DEF CreateWrites, Moves, TrxOf
  <2>. QED BY <2>1 DEF Does
<1>5. ASSUME NEW a \in Acct, PublishAfter(c, a) PROVE OthersStay(c) /\ Does(c)
  <2>1. OthersStay(c) /\ Tells(c)
    BY <1>0, <1>5 DEF PublishAfter, Tells
  <2>. QED BY <2>1 DEF Does
<1>. QED BY <1>1, <1>2, <1>3, <1>4, <1>5 DEF CreateStep

LEMMA SettleDoes ==
    ASSUME TypeOK, NEW c \in Settler, SettleStep(c)
    PROVE  OthersStay(c) /\ Does(c)
<1>. USE DEF TypeOK, OthersStay, rows, readings, database, kafka, local
<1>0. c \in Call /\ c \notin Trx
  BY TrxAssumption DEF Call, TrxAssumption
<1>1. CASE AlreadySettled(c)
  <2>1. OthersStay(c) /\ Declines(c)
    BY <1>0, <1>1 DEF AlreadySettled, Return, Declines
  <2>. QED BY <2>1 DEF Does
<1>2. CASE RefuseSettle(c)
  <2>1. OthersStay(c) /\ Declines(c)
    BY <1>0, <1>2 DEF RefuseSettle, Return, Declines
  <2>. QED BY <2>1 DEF Does
<1>3. CASE StartSettle(c)
  <2>1. OthersStay(c) /\ Begins(c)
    BY <1>0, <1>3 DEF StartSettle, Begins
  <2>. QED BY <2>1 DEF Does
<1>4. CASE UpdateStatus(c) \/ SettleWrites(c) \/ InsertChildren(c)
  <2>1. OthersStay(c) /\ Moves(c)
    BY <1>0, <1>4 DEF UpdateStatus, SettleWrites, InsertChildren, Moves, TrxOf
  <2>. QED BY <2>1 DEF Does
<1>5. ASSUME NEW a \in Acct, PublishInside(c, a) PROVE OthersStay(c) /\ Does(c)
  <2>1. OthersStay(c) /\ Moves(c)
    BY <1>0, <1>5 DEF PublishInside, Moves
  <2>. QED BY <2>1 DEF Does
<1>. QED BY <1>1, <1>2, <1>3, <1>4, <1>5 DEF SettleStep

LEMMA CallDoes ==
    ASSUME TypeOK, NEW c \in Call, CallStep(c)
    PROVE  OthersStay(c) /\ Does(c)
<1>. USE DEF TypeOK, OthersStay, rows, readings, database, kafka, local
<1>1. ASSUME NEW a \in Acct, LockRow(c, a) PROVE OthersStay(c) /\ Does(c)
  <2>1. OthersStay(c) /\ Moves(c)
    BY <1>1 DEF LockRow, Moves
  <2>. QED BY <2>1 DEF Does
<1>2. CASE ReadBalances(c) \/ CalculateChild(c)
  <2>1. OthersStay(c)
    BY <1>2 DEF ReadBalances, CalculateChild
  <2>. QED BY <1>2, <2>1 DEF Does
<1>3. CASE AccountMissing(c) \/ CalculateFails(c) \/ TimedOut(c)
  <2>1. OthersStay(c) /\ Aborts(c)
    BY <1>3, RollbackAborts DEF AccountMissing, CalculateFails, TimedOut
  <2>. QED BY <2>1 DEF Does
<1>4. CASE CommitTx(c)
  <2>1. OthersStay(c) /\ Commits(c)
    BY <1>4 DEF CommitTx, ApplyTx, Commits
  <2>. QED BY <2>1 DEF Does
<1>5. CASE CommitTxDone(c)
  <2>1. OthersStay(c) /\ SlipsThrough(c)
    BY <1>5 DEF CommitTxDone, SlipsThrough
  <2>. QED BY <2>1 DEF Does
<1>6. CASE Notify(c)
  <2>1. OthersStay(c) /\ Tells(c)
    BY <1>6 DEF Notify, Return, Tells
  <2>. QED BY <2>1 DEF Does
<1>. QED BY <1>1, <1>2, <1>3, <1>4, <1>5, <1>6 DEF CallStep

LEMMA FaultDoes ==
    ASSUME TypeOK, NEW c \in Call, FaultStep(c)
    PROVE  OthersStay(c) /\ Does(c)
<1>. USE DEF TypeOK, OthersStay, rows, readings, database, kafka, local
<1>1. CASE Crash(c) \/ DbError(c) \/ PublishInsideFails(c)
  <2>1. OthersStay(c) /\ Aborts(c)
    BY <1>1, RollbackAborts DEF Crash, DbError, PublishInsideFails
  <2>. QED BY <2>1 DEF Does
<1>2. CASE CommitUnanswered(c)
  <2>1. OthersStay(c) /\ Commits(c)
    BY <1>2 DEF CommitUnanswered, Return, ApplyTx, Commits
  <2>. QED BY <2>1 DEF Does
<1>3. CASE Timeout(c)
  <2>1. OthersStay(c) /\ Moves(c)
    BY <1>3 DEF Timeout, Moves
  <2>. QED BY <2>1 DEF Does
<1>4. CASE NotifyFails(c)
  <2>1. OthersStay(c) /\ Tells(c)
    BY <1>4 DEF NotifyFails, Return, Tells
  <2>. QED BY <2>1 DEF Does
<1>5. ASSUME NEW a \in Acct, PublishAfterFails(c, a) PROVE OthersStay(c) /\ Does(c)
  <2>1. OthersStay(c) /\ Tells(c)
    BY <1>5 DEF PublishAfterFails, Tells
  <2>. QED BY <2>1 DEF Does
<1>. QED BY <1>1, <1>2, <1>3, <1>4, <1>5 DEF FaultStep

\* Every step is one call doing one of these things, or a transaction growing old.
LEMMA SomeoneDoes ==
    ASSUME TypeOK, [Next]_vars
    PROVE  \/ UNCHANGED visible /\ old \subseteq old'
           \/ UNCHANGED old /\ \E c \in Call : OthersStay(c) /\ Does(c)
<1>1. ASSUME NEW c \in Trx, CreateStep(c) PROVE \E d \in Call : OthersStay(d) /\ Does(d)
  BY <1>1, CreateDoes DEF Call
<1>2. ASSUME NEW c \in Settler, SettleStep(c) PROVE \E d \in Call : OthersStay(d) /\ Does(d)
  BY <1>2, SettleDoes DEF Call
<1>3. ASSUME NEW c \in Call, CallStep(c) \/ FaultStep(c)
      PROVE  \E d \in Call : OthersStay(d) /\ Does(d)
  BY <1>3, CallDoes, FaultDoes
<1>. QED BY <1>1, <1>2, <1>3 DEF Next, Age, Finished, vars
-----------------------------------------------------------------------------
(***************************************************************************)
(* Limits.  The sufficiency check is made on a copy of the balances, long  *)
(* before the write; what makes it count is that the copy was current when *)
(* it was read and that every child keeps each copied balance above the    *)
(* floor.                                                                  *)
(***************************************************************************)
Floor(a) == IF Opt[a].negative THEN -Opt[a].limit ELSE 0

\* A limit says how far below zero an account may go: it is not negative.
LimitsAreNatural == \A a \in Registered \ Skipped : Opt[a].limit \in Nat

OpensWithinLimit ==
    \A a \in Registered \ Skipped :
        ~Opt[a].ignore => Available(OpeningRow[a]) >= Floor(a)

\* The balances of b respect the limits of the accounts in A.
Above(A, b) == \A a \in A : ~Opt[a].ignore => b[a].actual - b[a].pending >= Floor(a)

\* What a call has calculated so far respects them.
CalculatedWithinLimit ==
    \A c \in Call : pc[c] \in HasRead => Above(Lockable(TrxOf(c)), after[c])

\* One operation on one balance never takes it below its floor.
LEMMA ApplyAbove ==
    ASSUME NEW o, o.limit \in Nat, ~o.ignore, NEW op \in Ops, NEW b \in BalanceRow,
           NEW amount \in Int, NEW type, CanApply(op, o, b, amount, type),
           b.actual - b.pending >= IF o.negative THEN -o.limit ELSE 0
    PROVE  LET new == Apply(op, b, amount)
           IN  new.actual - new.pending >= IF o.negative THEN -o.limit ELSE 0
<1>. DEFINE floor == IF o.negative THEN -o.limit ELSE 0
<1>1. floor \in Int /\ floor <= 0 /\ (o.negative => floor = -o.limit)
  OBVIOUS
<1>2. b.actual \in Int /\ b.pending \in Int
  BY DEF BalanceRow
<1>3. Sufficient(o, b, amount, type) => b.actual - b.pending - amount >= floor
  BY <1>1, <1>2 DEF Sufficient, MayGoNegative, Available
<1>. HIDE DEF floor
<1>4. CASE op = "none"
  BY <1>4 DEF Apply, floor
<1>5. CASE op = "withdraw"
  BY <1>2, <1>3, <1>5 DEF Apply, CanApply, CanWithdraw, Withdraw, BalanceRow, floor
<1>6. CASE op = "reserve"
  BY <1>2, <1>3, <1>6 DEF Apply, CanApply, CanReserve, Reserve, BalanceRow, floor
<1>7. CASE op = "commit"
  BY <1>2, <1>7 DEF Apply, Commit
<1>8. CASE op = "cancel"
  BY <1>1, <1>2, <1>8 DEF Apply, CanApply, CanCancel, CancelReservation, BalanceRow, floor
<1>9. CASE op = "add"
  BY <1>1, <1>2, <1>9 DEF Apply, CanApply, CanAdd, AddFunds, BalanceRow, floor
<1>. QED BY <1>4, <1>5, <1>6, <1>7, <1>8, <1>9 DEF Ops

\* One child, both legs.
LEMMA CalculateAbove ==
    ASSUME LimitsAreNatural,
           NEW flow \in Flows, NEW phase \in Phases, NEW x \in ChildRow,
           NEW bals \in [Acct -> BalanceRow], CanCalculate(flow, phase, OptOf, x, bals),
           NEW A \in SUBSET (Registered \ Skipped), Above(A, bals)
    PROVE  Above(A, Calculate(flow, phase, x, bals))
<1>. DEFINE mid == AfterFrom(flow, phase, x, bals)
            new == Calculate(flow, phase, x, bals)
<1>1. x.from \in Acct /\ x.to \in Acct /\ x.amount \in Int
  BY DEF ChildRow
<1>2. A \subseteq Acct /\ \A a \in A : OptOf[a] = Opt[a] /\ Opt[a].limit \in Nat
  BY AcctAssumption DEF AcctAssumption, OptOf, LimitsAreNatural
<1>3. /\ CanApply(FromOp(flow, phase), OptOf[x.from], bals[x.from], x.amount, x.type)
      /\ CanApply(ToOp(flow, phase), OptOf[x.to], mid[x.to], x.amount, x.type)
  BY DEF CanCalculate
<1>4. FromOp(flow, phase) \in Ops /\ ToOp(flow, phase) \in Ops
  BY OpTypes
<1>5. mid \in [Acct -> BalanceRow]
  BY <1>1, <1>4, ApplyType DEF AfterFrom
<1>6. /\ mid[x.from] = Apply(FromOp(flow, phase), bals[x.from], x.amount)
      /\ \A a \in Acct \ {x.from} : mid[a] = bals[a]
  BY <1>1 DEF AfterFrom
<1>7. /\ new[x.to] = Apply(ToOp(flow, phase), mid[x.to], x.amount)
      /\ \A a \in Acct \ {x.to} : new[a] = mid[a]
  BY <1>1, <1>5 DEF Calculate
<1>. HIDE DEF mid, new
<1>8. ASSUME NEW a \in A, ~Opt[a].ignore
      PROVE  mid[a].actual - mid[a].pending >= Floor(a)
  <2>1. bals[a] \in BalanceRow /\ bals[a].actual - bals[a].pending >= Floor(a)
    BY <1>2, <1>8 DEF Above
  <2>2. CASE a = x.from
    BY <1>1, <1>2, <1>3, <1>4, <1>6, <1>8, <2>1, <2>2, ApplyAbove DEF Floor
  <2>. QED BY <1>2, <1>6, <2>1, <2>2
<1>9. ASSUME NEW a \in A, ~Opt[a].ignore
      PROVE  new[a].actual - new[a].pending >= Floor(a)
  <2>1. mid[a] \in BalanceRow /\ mid[a].actual - mid[a].pending >= Floor(a)
    BY <1>2, <1>5, <1>8, <1>9
  <2>2. CASE a = x.to
    BY <1>1, <1>2, <1>3, <1>4, <1>7, <1>9, <2>1, <2>2, ApplyAbove DEF Floor
  <2>. QED BY <1>2, <1>7, <2>1, <2>2
<1>. QED BY <1>9 DEF Above, new

LEMMA LockableRegistered ==
    ASSUME NEW t
    PROVE  Lockable(t) \subseteq Registered \ Skipped /\ Lockable(t) \subseteq Acct
BY AcctAssumption DEF Lockable, AcctAssumption

\* A step of call c changes the transaction of no call.
LEMMA SameTrx ==
    ASSUME target' = target, action' = action, NEW d \in Call
    PROVE  /\ TrxOf(d)' = TrxOf(d)
           /\ Lockable(TrxOf(d))' = Lockable(TrxOf(d))
           /\ PhaseOf(d)' = PhaseOf(d)
           /\ NewStatus(d)' = NewStatus(d)
           /\ Announced(d)' = Announced(d)
<1>1. TrxOf(d)' = TrxOf(d) /\ PhaseOf(d)' = PhaseOf(d)
  BY DEF TrxOf, PhaseOf, ActionOf
<1>. QED BY <1>1 DEF Lockable, Accounts, Froms, Tos, NewStatus, Announced

\* The calls that do not step have calculated what they had.
LEMMA OthersCalculated ==
    ASSUME TypeOK, CalculatedWithinLimit, NEW c \in Call, OthersStay(c),
           \A d \in Call \ {c} : after'[d] = after[d],
           pc'[c] \in HasRead => Above(Lockable(TrxOf(c)), after'[c])
    PROVE  CalculatedWithinLimit'
<1>1. \A d \in Call : Lockable(TrxOf(d))' = Lockable(TrxOf(d))
  BY SameTrx DEF OthersStay
<1>2. ASSUME NEW d \in Call, pc'[d] \in HasRead
      PROVE  Above(Lockable(TrxOf(d)), after'[d])
  <2>1. CASE d = c
    BY <1>2, <2>1
  <2>2. CASE d # c
    BY <1>2, <2>2 DEF OthersStay, CalculatedWithinLimit
  <2>. QED BY <2>1, <2>2
<1>. QED BY <1>1, <1>2 DEF CalculatedWithinLimit, Above, Floor

LEMMA DoesWithinLimit ==
    ASSUME LimitsAreNatural, TypeOK, AvailableWithinLimit, CalculatedWithinLimit,
           NEW c \in Call, OthersStay(c), Does(c)
    PROVE  AvailableWithinLimit' /\ CalculatedWithinLimit'
<1>1. ASSUME UNCHANGED <<actual, pending>>
      PROVE  AvailableWithinLimit'
  BY <1>1 DEF AvailableWithinLimit
<1>2. ASSUME UNCHANGED after, pc'[c] \in HasRead => pc[c] \in HasRead
      PROVE  CalculatedWithinLimit'
  BY <1>2, OthersCalculated DEF CalculatedWithinLimit
<1>3. CASE Declines(c) \/ Begins(c) \/ Moves(c) \/ Aborts(c) \/ SlipsThrough(c) \/ Tells(c)
  <2>1. UNCHANGED <<actual, pending, after>>
    BY <1>3 DEF Declines, Begins, Moves, Aborts, SlipsThrough, Tells, rows, readings
  <2>2. pc'[c] \in HasRead => pc[c] \in HasRead
    BY <1>3 DEF Declines, Begins, Moves, Aborts, SlipsThrough, Tells, HasRead
  <2>. QED BY <1>1, <1>2, <2>1, <2>2
<1>4. CASE ReadBalances(c)
  <2>1. UNCHANGED <<actual, pending>>
    BY <1>4 DEF ReadBalances, database
  <2>2. \A a \in Lockable(TrxOf(c)) : after'[c][a] = [actual |-> actual[a], pending |-> pending[a]]
    BY <1>4, LockableRegistered DEF ReadBalances, TypeOK
  <2>3. Above(Lockable(TrxOf(c)), after'[c])
    <3>1. \A a \in Lockable(TrxOf(c)) :
              ~Opt[a].ignore => actual[a] - pending[a] >= Floor(a)
      BY LockableRegistered DEF AvailableWithinLimit, Floor
    <3>2. ASSUME NEW a \in Lockable(TrxOf(c)), ~Opt[a].ignore
          PROVE  after'[c][a].actual - after'[c][a].pending >= Floor(a)
      <4>1. after'[c][a] = [actual |-> actual[a], pending |-> pending[a]]
        BY <2>2
      <4>2. actual[a] - pending[a] >= Floor(a)
        BY <3>1, <3>2
      <4>. QED BY <4>1, <4>2
    <3>. QED BY <3>2 DEF Above
  <2>4. \A d \in Call \ {c} : after'[d] = after[d]
    BY <1>4 DEF ReadBalances, TypeOK
  <2>. QED BY <1>1, <2>1, <2>3, <2>4, OthersCalculated
<1>5. CASE CalculateChild(c)
  <2>1. UNCHANGED <<actual, pending>>
    BY <1>5 DEF CalculateChild, database
  <2>2. Above(Lockable(TrxOf(c)), after[c])
    BY <1>5 DEF CalculateChild, CalculatedWithinLimit, HasRead
  <2>3. /\ NextChild(c) \in ChildRow /\ after[c] \in [Acct -> BalanceRow]
        /\ Flow[TrxOf(c)] \in Flows /\ PhaseOf(c) \in Phases
    BY <1>5, NextChildType, CallTypes, TrxAssumption DEF CalculateChild, TypeOK, TrxAssumption
  <2>4. Above(Lockable(TrxOf(c)),
              Calculate(Flow[TrxOf(c)], PhaseOf(c), NextChild(c), after[c]))
    BY <1>5, <2>2, <2>3, CalculateAbove, LockableRegistered DEF CalculateChild, CanCalculateNext
  <2>5. /\ after'[c] = Calculate(Flow[TrxOf(c)], PhaseOf(c), NextChild(c), after[c])
        /\ \A d \in Call \ {c} : after'[d] = after[d]
    BY <1>5 DEF CalculateChild, TypeOK
  <2>. QED BY <1>1, <2>1, <2>4, <2>5, OthersCalculated
<1>6. CASE Commits(c)
  <2>1. Above(Lockable(TrxOf(c)), after[c])
    BY <1>6 DEF Commits, ApplyTx, CalculatedWithinLimit, HasRead
  <2>2. ASSUME NEW a \in Registered \ Skipped, ~Opt[a].ignore
        PROVE  actual'[a] - pending'[a] >= Floor(a)
    <3>1. a \in Acct
      BY AcctAssumption DEF AcctAssumption
    <3>2. CASE a \in Written(c)
      BY <1>6, <2>1, <2>2, <3>1, <3>2 DEF Commits, ApplyTx, Written, Above
    <3>3. CASE a \notin Written(c)
      BY <1>6, <2>2, <3>1, <3>3 DEF Commits, ApplyTx, AvailableWithinLimit, Floor
    <3>. QED BY <3>2, <3>3
  <2>3. AvailableWithinLimit'
    BY <2>2 DEF AvailableWithinLimit, Floor
  <2>4. UNCHANGED after /\ pc'[c] \notin HasRead
    BY <1>6 DEF Commits, readings, HasRead
  <2>. QED BY <1>2, <2>3, <2>4
<1>. QED BY <1>3, <1>4, <1>5, <1>6 DEF Does

\* No transaction takes an account below zero or below the limit its options grant,
\* for any accounts, transactions, flows, interleaving of calls and faults: if the
\* balances respect the limits at the start, they always do.
THEOREM LimitsRespected ==
    ASSUME LimitsAreNatural, OpensWithinLimit
    PROVE  Spec => []AvailableWithinLimit
<1>. DEFINE Inv == AvailableWithinLimit /\ CalculatedWithinLimit
<1>1. Init => Inv
  BY AcctAssumption
  DEF Init, AvailableWithinLimit, CalculatedWithinLimit, OpensWithinLimit, AcctAssumption,
      Available, Floor, HasRead
<1>2. TypeOK /\ Inv /\ [Next]_vars => Inv'
  <2>. SUFFICES ASSUME TypeOK, Inv, [Next]_vars PROVE Inv'
    OBVIOUS
  <2>1. CASE UNCHANGED visible
    BY <2>1 DEF visible, database, local, AvailableWithinLimit, CalculatedWithinLimit,
                Above, Floor, TrxOf, Lockable, Accounts, Froms, Tos
  <2>2. CASE \E c \in Call : OthersStay(c) /\ Does(c)
    BY <2>2, DoesWithinLimit
  <2>. QED BY <2>1, <2>2, SomeoneDoes
<1>. QED BY <1>1, <1>2, TypeCorrect, PTL DEF Spec

-----------------------------------------------------------------------------
(***************************************************************************)
(* The life of a transaction.  Two of these invariants hold whatever the   *)
(* clients do; the others need a client that waits for its answer, since   *)
(* ProcessReservedTransaction tests the status before it locks the row.    *)
(***************************************************************************)

\* A transaction has no row before the call that creates it commits.
CreatedOnce == \A t \in Trx : pc[t] \in {"idle"} \union InTx => status[t] = "none"

\* Only what was reserved is settled, and a cash-in is never reserved.
OnlyReservedSettle ==
    /\ \A t \in Trx : pc[t] \in InTx => ~(Reserved[t] /\ Flow[t] = "cashin")
    /\ \A t \in Trx : status[t] \in {"PENDING", "CANCEL"} => Reserved[t] /\ Flow[t] # "cashin"
    /\ \A s \in Settler : pc[s] \in InTx =>
            /\ Reserved[target[s]] /\ Flow[target[s]] # "cashin"
            /\ status[target[s]] # "none"

\* Clients that wait have one call in flight for a reference.
OneInFlight ==
    \A c, d \in Call :
        (Running(c) /\ Running(d) /\ Ref[TrxOf(c)] = Ref[TrxOf(d)]) => c = d

\* So a settling call finds at its commit the status it read at its start.
SettlesPending == \A s \in Settler : pc[s] \in InTx => status[target[s]] = "PENDING"

\* The children of a transaction were inserted once if it succeeded, else never.
PostedExactly == \A t \in Trx : posted[t] = IF status[t] = "SUCCESS" THEN 1 ELSE 0

\* What a commit writes.
LEMMA CommitWrites ==
    ASSUME TypeOK, NEW c \in Call, ApplyTx(c)
    PROVE  /\ pc[c] \in InTx /\ TrxOf(c) \in Trx
           /\ status'[TrxOf(c)] = NewStatus(c)
           /\ posted'[TrxOf(c)] = IF NewStatus(c) = "SUCCESS" THEN posted[TrxOf(c)] + 1
                                                             ELSE posted[TrxOf(c)]
           /\ \A t \in Trx \ {TrxOf(c)} : status'[t] = status[t] /\ posted'[t] = posted[t]
BY CallTypes DEF ApplyTx, TypeOK, InTx

\* What a call makes of its transaction.
LEMMA StatusOfCall ==
    ASSUME TypeOK, NEW c \in Call
    PROVE  /\ NewStatus(c) \in {"PENDING", "SUCCESS", "CANCEL"}
           /\ c \in Trx => /\ TrxOf(c) = c
                           /\ NewStatus(c) = IF Reserved[c] THEN "PENDING" ELSE "SUCCESS"
           /\ c \in Settler =>
                /\ TrxOf(c) = target[c] /\ target[c] \in Trx
                /\ NewStatus(c) = IF action[c] = "commit" THEN "SUCCESS" ELSE "CANCEL"
<1>1. CASE c \in Trx
  BY <1>1, TrxAssumption DEF TrxAssumption, TrxOf, NewStatus, PhaseOf, ActionOf
<1>2. CASE c \in Settler
  BY <1>2, TrxAssumption DEF TrxAssumption, TypeOK, TrxOf, NewStatus, PhaseOf, ActionOf
<1>. QED BY <1>1, <1>2 DEF Call

\* The steps that commit nothing leave every status alone, and only a call that
\* begins gets inside a transaction.
LEMMA QuietDoes ==
    ASSUME TypeOK, NEW c \in Call, OthersStay(c), Does(c), ~Commits(c)
    PROVE  /\ UNCHANGED <<status, posted>>
           /\ Begins(c) \/ (pc'[c] \in {"idle"} \union InTx => pc[c] \in {"idle"} \union InTx)
           /\ Begins(c) \/ (pc'[c] \in InTx => pc[c] \in InTx)
<1>. USE DEF rows, readings, database, InTx
<1>1. CASE Declines(c) \/ Begins(c) \/ Moves(c) \/ Aborts(c) \/ SlipsThrough(c) \/ Tells(c)
  BY <1>1 DEF Declines, Begins, Moves, Aborts, SlipsThrough, Tells
<1>2. CASE ReadBalances(c)
  BY <1>2 DEF ReadBalances, TypeOK
<1>3. CASE CalculateChild(c)
  BY <1>3 DEF CalculateChild, TypeOK
<1>. QED BY <1>1, <1>2, <1>3 DEF Does

LEMMA DoesCreatedOnce ==
    ASSUME TypeOK, CreatedOnce, OnlyReservedSettle, NEW c \in Call, OthersStay(c), Does(c)
    PROVE  CreatedOnce'
<1>1. CASE ~Commits(c)
  <2>1. \A t \in Trx : pc'[t] \in {"idle"} \union InTx => pc[t] \in {"idle"} \union InTx
    BY <1>1, QuietDoes DEF OthersStay, Call, Begins, MayStart
  <2>. QED BY <1>1, <2>1, QuietDoes DEF CreatedOnce
<1>2. CASE Commits(c)
  <2>1. pc'[c] \notin {"idle"} \union InTx
    BY <1>2 DEF Commits, InTx
  <2>2. ASSUME NEW t \in Trx, t # c, pc[t] \in {"idle"} \union InTx
        PROVE  t # TrxOf(c)
    BY <1>2, <2>2, CommitWrites, StatusOfCall
    DEF Commits, CreatedOnce, OnlyReservedSettle, Call
  <2>. QED BY <1>2, <2>1, <2>2, CommitWrites DEF Commits, CreatedOnce, OthersStay, Call
<1>. QED BY <1>1, <1>2

LEMMA DoesOnlyReservedSettle ==
    ASSUME TypeOK, OnlyReservedSettle, NEW c \in Call, OthersStay(c), Does(c)
    PROVE  OnlyReservedSettle'
<1>0. Trx \intersect Settler = {} /\ target' = target /\ \A s \in Settler : target[s] \in Trx
  BY TrxAssumption DEF TrxAssumption, OthersStay, TypeOK
<1>1. CASE ~Commits(c) /\ ~Begins(c)
  BY <1>0, <1>1, QuietDoes DEF OnlyReservedSettle, OthersStay, Call
<1>2. CASE Begins(c)
  <2>1. UNCHANGED status
    BY <1>2 DEF Begins, rows
  <2>. QED BY <1>0, <1>2, <2>1 DEF Begins, OnlyReservedSettle, OthersStay, Call
<1>3. CASE Commits(c)
  <2>1. pc'[c] \notin InTx /\ ApplyTx(c)
    BY <1>3 DEF Commits, InTx
  <2>2. \A d \in Call : pc'[d] \in InTx => pc[d] \in InTx
    BY <2>1 DEF OthersStay
  <2>3. (Reserved[TrxOf(c)] /\ Flow[TrxOf(c)] # "cashin") \/ NewStatus(c) = "SUCCESS"
    BY <2>1, CommitWrites, StatusOfCall DEF OnlyReservedSettle, Call
  <2>. QED BY <1>0, <2>1, <2>2, <2>3, CommitWrites, StatusOfCall DEF OnlyReservedSettle, Call
<1>. QED BY <1>1, <1>2, <1>3

LEMMA LifeInvariant == Spec => [](CreatedOnce /\ OnlyReservedSettle)
<1>1. Init => CreatedOnce /\ OnlyReservedSettle
  BY DEF Init, CreatedOnce, OnlyReservedSettle, Call, InTx
<1>2. TypeOK /\ CreatedOnce /\ OnlyReservedSettle /\ [Next]_vars
        => (CreatedOnce /\ OnlyReservedSettle)'
  <2>1. CASE UNCHANGED visible
    BY <2>1 DEF visible, database, CreatedOnce, OnlyReservedSettle
  <2>. QED
    BY <2>1, SomeoneDoes, DoesCreatedOnce, DoesOnlyReservedSettle
<1>. QED BY <1>1, <1>2, TypeCorrect, PTL DEF Spec

LEMMA DoesOneInFlight ==
    ASSUME OneAtATime, TypeOK, OneInFlight, NEW c \in Call, OthersStay(c), Does(c)
    PROVE  OneInFlight'
<1>1. \A d \in Call : TrxOf(d)' = TrxOf(d)
  BY SameTrx DEF OthersStay
<1>2. \A d \in Call \ {c} : pc'[d] = pc[d]
  BY DEF OthersStay
<1>3. CASE Begins(c)
  BY <1>1, <1>2, <1>3 DEF OneInFlight, Running, Begins, MayStart
<1>4. CASE ~Begins(c)
  <2>1. pc'[c] \notin {"idle", "done"} => pc[c] \notin {"idle", "done"}
    BY <1>4 DEF Does, Declines, Moves, Aborts, Commits, ApplyTx, SlipsThrough, Tells,
                ReadBalances, CalculateChild
  <2>. QED BY <1>1, <1>2, <2>1 DEF OneInFlight, Running
<1>. QED BY <1>3, <1>4

\* A transaction that a call commits is in the hands of no other call.
LEMMA Undisturbed ==
    ASSUME TypeOK, OneInFlight, NEW c \in Call, NEW d \in Call, d # c,
           pc[c] \in InTx, pc[d] \in InTx
    PROVE  Ref[TrxOf(d)] # Ref[TrxOf(c)]
BY DEF OneInFlight, Running, InTx

LEMMA DoesSettlesPending ==
    ASSUME OneAtATime, TypeOK, OneInFlight, SettlesPending,
           NEW c \in Call, OthersStay(c), Does(c)
    PROVE  SettlesPending'
<1>0. Trx \intersect Settler = {} /\ target' = target /\ \A s \in Settler : target[s] \in Trx
  BY TrxAssumption DEF TrxAssumption, OthersStay, TypeOK
<1>1. CASE ~Commits(c)
  <2>1. \A s \in Settler : pc'[s] \in InTx => status[target[s]] = "PENDING"
    BY <1>0, <1>1, QuietDoes DEF SettlesPending, OthersStay, Begins, Call
  <2>. QED BY <1>0, <1>1, <2>1, QuietDoes DEF SettlesPending
<1>2. CASE Commits(c)
  <2>1. pc[c] \in InTx /\ pc'[c] \notin InTx
    BY <1>2 DEF Commits, ApplyTx, InTx
  <2>2. ASSUME NEW s \in Settler, pc'[s] \in InTx
        PROVE  status'[target[s]] = "PENDING"
    <3>1. s # c /\ pc[s] \in InTx /\ s \in Call
      BY <2>1, <2>2 DEF OthersStay, Call
    <3>2. target[s] # TrxOf(c)
      BY <2>1, <3>1, Undisturbed, StatusOfCall
    <3>. QED BY <1>0, <1>2, <3>1, <3>2, CommitWrites DEF Commits, SettlesPending
  <2>. QED BY <1>0, <2>2 DEF SettlesPending
<1>. QED BY <1>1, <1>2

\* What a call commits was not settled yet.
LEMMA CommitsUnsettled ==
    ASSUME TypeOK, CreatedOnce, SettlesPending, NEW c \in Call, ApplyTx(c)
    PROVE  status[TrxOf(c)] \in {"none", "PENDING"}
BY CommitWrites, StatusOfCall DEF CreatedOnce, SettlesPending, Call

LEMMA DoesPostedExactly ==
    ASSUME TypeOK, CreatedOnce, SettlesPending, PostedExactly,
           NEW c \in Call, OthersStay(c), Does(c)
    PROVE  PostedExactly'
<1>1. CASE ~Commits(c)
  BY <1>1, QuietDoes DEF PostedExactly
<1>2. CASE Commits(c)
  BY <1>2, CommitWrites, CommitsUnsettled, StatusOfCall DEF Commits, PostedExactly
<1>. QED BY <1>1, <1>2

WaitingClients == OneInFlight /\ SettlesPending /\ PostedExactly

LEMMA WaitingInvariant ==
    ASSUME OneAtATime
    PROVE  Spec => []WaitingClients
<1>1. Init => WaitingClients
  BY DEF Init, WaitingClients, OneInFlight, SettlesPending, PostedExactly, Running, InTx, Call
<1>2. TypeOK /\ (CreatedOnce /\ OnlyReservedSettle) /\ WaitingClients /\ [Next]_vars
        => WaitingClients'
  <2>. SUFFICES ASSUME TypeOK, CreatedOnce, WaitingClients, [Next]_vars PROVE WaitingClients'
    OBVIOUS
  <2>1. CASE UNCHANGED visible
    BY <2>1 DEF visible, database, WaitingClients, OneInFlight, SettlesPending, PostedExactly,
                Running, TrxOf
  <2>2. ASSUME NEW c \in Call, OthersStay(c), Does(c) PROVE WaitingClients'
    BY <2>2, DoesOneInFlight, DoesSettlesPending, DoesPostedExactly DEF WaitingClients
  <2>. QED BY <2>1, <2>2, SomeoneDoes
<1>. QED BY <1>1, <1>2, TypeCorrect, LifeInvariant, PTL DEF Spec

\* A client that waits for its answer never has a reservation committed twice, nor
\* committed by one call and cancelled by another: the children of a transaction are
\* inserted at most once.
THEOREM ChildrenPostedOnce ==
    ASSUME OneAtATime
    PROVE  Spec => []PostedOnce
<1>1. WaitingClients => PostedOnce
  BY DEF WaitingClients, PostedExactly, PostedOnce
<1>. QED BY <1>1, WaitingInvariant, PTL

\* Nor does a settled transaction change its status again.
THEOREM SettledForGood ==
    ASSUME OneAtATime
    PROVE  Spec => StatusIsFinal
<1>1. TypeOK /\ CreatedOnce /\ SettlesPending /\ [Next]_vars
        => [\A t \in Trx : status[t] \in {"SUCCESS", "CANCEL"} => status'[t] = status[t]]_vars
  <2>. SUFFICES ASSUME TypeOK, CreatedOnce, SettlesPending, Next,
                       NEW t \in Trx, status[t] \in {"SUCCESS", "CANCEL"}
                PROVE  status'[t] = status[t]
    OBVIOUS
  <2>1. CASE UNCHANGED visible
    BY <2>1 DEF visible, database
  <2>2. ASSUME NEW c \in Call, OthersStay(c), Does(c), ~Commits(c)
        PROVE  status'[t] = status[t]
    BY <2>2, QuietDoes
  <2>3. ASSUME NEW c \in Call, Commits(c)
        PROVE  status'[t] = status[t]
    BY <2>3, CommitWrites, CommitsUnsettled DEF Commits
  <2>. QED BY <2>1, <2>2, <2>3, SomeoneDoes
<1>2. WaitingClients => SettlesPending
  BY DEF WaitingClients
<1>. QED BY <1>1, <1>2, TypeCorrect, LifeInvariant, WaitingInvariant, PTL DEF Spec, StatusIsFinal

-----------------------------------------------------------------------------
(***************************************************************************)
(* Reference numbers.  The check for a known one is made outside any       *)
(* transaction; a client that waits makes it hold until the commit.        *)
(***************************************************************************)

\* No row of the last thirty days has the reference of a checked transaction that is
\* under way.
ReferenceFree ==
    \A t \in RefChecked : pc[t] \in InTx =>
        \A u \in Trx \ old : Ref[u] = Ref[t] => status[u] = "none"

LEMMA DoesReferenceFree ==
    ASSUME OneAtATime, TypeOK, OneInFlight, ReferenceFree, UNCHANGED old,
           NEW c \in Call, OthersStay(c), Does(c)
    PROVE  ReferenceFree'
<1>0. RefChecked \subseteq Trx /\ Trx \subseteq Call
  BY TrxAssumption DEF TrxAssumption, Call
<1>1. CASE ~Commits(c)
  <2>1. /\ UNCHANGED status
        /\ \A t \in RefChecked :
              pc'[t] \in InTx => pc[t] \in InTx \/ (t = c /\ Begins(c))
    BY <1>0, <1>1, QuietDoes DEF OthersStay
  <2>. QED BY <1>0, <2>1 DEF ReferenceFree, Begins, KnownReference
<1>2. CASE Commits(c)
  <2>1. ASSUME NEW t \in RefChecked, pc'[t] \in InTx
        PROVE  \A u \in Trx \ old : Ref[u] = Ref[t] => status'[u] = "none"
    <3>1. pc[c] \in InTx /\ pc'[c] \notin InTx
      BY <1>2 DEF Commits, ApplyTx, InTx
    <3>2. t # c /\ t \in Call /\ pc[t] \in InTx /\ TrxOf(t) = t
      BY <1>0, <2>1, <3>1 DEF OthersStay, TrxOf
    <3>3. Ref[t] # Ref[TrxOf(c)]
      BY <3>1, <3>2, Undisturbed
    <3>. QED BY <1>2, <2>1, <3>2, <3>3, CommitWrites DEF Commits, ReferenceFree
  <2>. QED BY <2>1 DEF ReferenceFree
<1>. QED BY <1>1, <1>2

LEMMA DoesOnePerReference ==
    ASSUME TypeOK, SettlesPending, ReferenceFree, OneTransactionPerReference, UNCHANGED old,
           NEW c \in Call, OthersStay(c), Does(c)
    PROVE  OneTransactionPerReference'
<1>0. RefChecked \subseteq Trx
  BY TrxAssumption DEF TrxAssumption
<1>1. CASE ~Commits(c)
  BY <1>1, QuietDoes DEF OneTransactionPerReference
<1>2. CASE Commits(c)
  <2>1. ApplyTx(c)
    BY <1>2 DEF Commits
  <2>2. \A t \in Trx : status'[t] # "none" => status[t] # "none" \/ t = c
    BY <2>1, CommitWrites, StatusOfCall DEF SettlesPending, Call
  <2>3. c \in RefChecked => \A u \in Trx \ old : Ref[u] = Ref[c] => status[u] = "none"
    BY <2>1, CommitWrites DEF ReferenceFree
  <2>. QED BY <1>0, <2>2, <2>3 DEF OneTransactionPerReference
<1>. QED BY <1>1, <1>2

\* A reference number whose type is checked for duplicates is recorded for one
\* transaction at most in the thirty days that the check goes back, when a client
\* that repeats a request waits for the answer to the first.
THEOREM ReferenceRecordedOnce ==
    ASSUME OneAtATime
    PROVE  Spec => []OneTransactionPerReference
<1>. DEFINE Inv == ReferenceFree /\ OneTransactionPerReference
<1>1. Init => Inv
  BY TrxAssumption DEF TrxAssumption, Init, ReferenceFree, OneTransactionPerReference, InTx, Call
<1>2. TypeOK /\ WaitingClients /\ Inv /\ [Next]_vars => Inv'
  <2>. SUFFICES ASSUME TypeOK, OneInFlight, SettlesPending, Inv, [Next]_vars PROVE Inv'
    BY DEF WaitingClients
  <2>1. CASE UNCHANGED visible /\ old \subseteq old'
    BY <2>1 DEF visible, database, ReferenceFree, OneTransactionPerReference
  <2>. QED
    BY <2>1, SomeoneDoes, DoesReferenceFree, DoesOnePerReference
<1>. QED BY <1>1, <1>2, TypeCorrect, WaitingInvariant, PTL DEF Spec

-----------------------------------------------------------------------------
(***************************************************************************)
(* Answers.  Atomic takes a rolled-back transaction for a committed one    *)
(* (sql.ErrTxDone); only an expired context rolls back behind its back.    *)
(***************************************************************************)
NoneAborted == \A c \in Call : tx[c] # "aborted"

LEMMA RollbackNoneAborted ==
    ASSUME TypeOK, NoneAborted, NEW c \in Call, NEW answer, RollbackAndReturn(c, answer)
    PROVE  NoneAborted'
BY DEF RollbackAndReturn, NoneAborted, TypeOK

LEMMA NextNoneAborted ==
    ASSUME "timeout" \notin FaultKinds, TypeOK, NoneAborted, [Next]_vars
    PROVE  NoneAborted'
<1>. USE DEF database, TypeOK, NoneAborted
<1>1. ASSUME NEW t \in Trx, CreateStep(t) PROVE NoneAborted'
  BY <1>1 DEF CreateStep, ReturnExisting, RefuseInput, StartCreate, CreateWrites, PublishAfter
<1>2. ASSUME NEW s \in Settler, SettleStep(s) PROVE NoneAborted'
  BY <1>2 DEF SettleStep, AlreadySettled, RefuseSettle, StartSettle, UpdateStatus,
              SettleWrites, InsertChildren, PublishInside
<1>3. ASSUME NEW c \in Call, CallStep(c) PROVE NoneAborted'
  <2>1. CASE AccountMissing(c) \/ CalculateFails(c) \/ TimedOut(c)
    BY <2>1, RollbackNoneAborted DEF AccountMissing, CalculateFails, TimedOut
  <2>. QED
    BY <1>3, <2>1 DEF CallStep, LockRow, ReadBalances, CalculateChild, CommitTx, ApplyTx,
                      CommitTxDone, Notify
<1>4. ASSUME NEW c \in Call, FaultStep(c) PROVE NoneAborted'
  <2>1. CASE Crash(c) \/ DbError(c) \/ PublishInsideFails(c)
    BY <2>1, RollbackNoneAborted DEF Crash, DbError, PublishInsideFails
  <2>2. ~Timeout(c)
    BY DEF Timeout, Strike
  <2>. QED
    BY <1>4, <2>1, <2>2 DEF FaultStep, CommitUnanswered, ApplyTx, NotifyFails, PublishAfterFails
<1>5. CASE UNCHANGED visible
  BY <1>5 DEF visible
<1>. QED BY <1>1, <1>2, <1>3, <1>4, <1>5 DEF Next, Age, Finished, vars

LEMMA NeverAborted ==
    ASSUME "timeout" \notin FaultKinds
    PROVE  Spec => []NoneAborted
<1>1. Init => NoneAborted
  BY DEF Init, NoneAborted
<1>. QED BY <1>1, NextNoneAborted, TypeCorrect, PTL DEF Spec

\* A call past its commit has left its transaction in the status it wanted.
CommittedAsAsked == \A c \in Call : pc[c] = "committed" => status[TrxOf(c)] = NewStatus(c)

LEMMA DoesCommittedAsAsked ==
    ASSUME OneAtATime, TypeOK, NoneAborted, OneInFlight, CommittedAsAsked,
           NEW c \in Call, OthersStay(c), Does(c)
    PROVE  CommittedAsAsked'
<1>0. \A d \in Call : TrxOf(d)' = TrxOf(d) /\ NewStatus(d)' = NewStatus(d)
  BY SameTrx DEF OthersStay
<1>1. CASE ~Commits(c)
  <2>1. pc'[c] = "committed" => pc[c] = "committed"
    BY <1>1 DEF Does, Declines, Begins, ReadBalances, CalculateChild, Moves, Aborts,
                SlipsThrough, Tells, NoneAborted, TypeOK
  <2>2. UNCHANGED status /\ \A d \in Call : pc'[d] = "committed" => pc[d] = "committed"
    BY <1>1, <2>1, QuietDoes DEF OthersStay
  <2>. QED BY <1>0, <2>2 DEF CommittedAsAsked
<1>2. CASE Commits(c)
  <2>1. ASSUME NEW d \in Call, pc'[d] = "committed"
        PROVE  status'[TrxOf(d)] = NewStatus(d)
    <3>1. CASE d = c
      BY <1>2, <3>1, CommitWrites DEF Commits
    <3>2. CASE d # c
      <4>1. pc[d] = "committed" /\ TrxOf(d) \in Trx
        BY <2>1, <3>2, CallTypes DEF OthersStay
      <4>2. TrxOf(d) # TrxOf(c)
        BY <1>2, <3>2, <4>1 DEF Commits, ApplyTx, OneInFlight, Running
      <4>. QED BY <1>2, <4>1, <4>2, CommitWrites DEF Commits, CommittedAsAsked
    <3>. QED BY <3>1, <3>2
  <2>. QED BY <1>0, <2>1 DEF CommittedAsAsked
<1>. QED BY <1>1, <1>2

\* A status once set is not unset, and once final it stays.
LEMMA StatusKept ==
    ASSUME TypeOK, CreatedOnce, SettlesPending, NEW c \in Call, OthersStay(c), Does(c),
           NEW t \in Trx
    PROVE  /\ status[t] # "none" => status'[t] # "none"
           /\ status[t] \in {"SUCCESS", "CANCEL"} => status'[t] = status[t]
<1>1. CASE ~Commits(c)
  BY <1>1, QuietDoes
<1>2. CASE Commits(c)
  BY <1>2, CommitWrites, CommitsUnsettled, StatusOfCall DEF Commits
<1>. QED BY <1>1, <1>2

\* What a new answer or announcement rests on.
LEMMA NewAnswer ==
    ASSUME TypeOK, CommittedAsAsked, NEW c \in Call, OthersStay(c), Does(c)
    PROVE  /\ (result'[c] = "ok" /\ result[c] # "ok") => status'[TrxOf(c)] = NewStatus(c)
           /\ \A t \in Trx : (t \in notified' /\ t \notin notified) =>
                status'[t] = "SUCCESS"
<1>. USE DEF rows, readings, database, kafka
<1>1. CASE Declines(c)
  BY <1>1, StatusOfCall DEF Declines
<1>2. CASE Tells(c)
  <2>1. status'[TrxOf(c)] = NewStatus(c)
    BY <1>2 DEF Tells, CommittedAsAsked
  <2>2. Announced(c) => NewStatus(c) = "SUCCESS"
    BY DEF Announced, NewStatus
  <2>. QED BY <1>2, <2>1, <2>2 DEF Tells
<1>3. CASE ReadBalances(c) \/ CalculateChild(c)
  BY <1>3 DEF ReadBalances, CalculateChild
<1>4. CASE Begins(c) \/ Moves(c) \/ Aborts(c) \/ Commits(c) \/ SlipsThrough(c)
  BY <1>4 DEF Begins, Moves, Aborts, Commits, SlipsThrough
<1>. QED BY <1>1, <1>2, <1>3, <1>4 DEF Does

LEMMA NotifiedTrx ==
    ASSUME TypeOK, NEW c \in Call, Does(c)
    PROVE  notified' \subseteq Trx
<1>1. CASE Tells(c)
  BY <1>1, CallTypes DEF Tells, TypeOK
<1>2. CASE ReadBalances(c) \/ CalculateChild(c)
  BY <1>2 DEF ReadBalances, CalculateChild, kafka, TypeOK
<1>3. CASE Declines(c) \/ Begins(c) \/ Moves(c) \/ Aborts(c) \/ Commits(c) \/ SlipsThrough(c)
  BY <1>3 DEF Declines, Begins, Moves, Aborts, Commits, SlipsThrough, TypeOK
<1>. QED BY <1>1, <1>2, <1>3 DEF Does

LEMMA DoesSuccessMeansCommitted ==
    ASSUME TypeOK, CreatedOnce, SettlesPending, CommittedAsAsked, SuccessMeansCommitted,
           NEW c \in Call, OthersStay(c), Does(c)
    PROVE  SuccessMeansCommitted'
<1>0. target' = target /\ action' = action /\ \A d \in Call \ {c} : result'[d] = result[d]
  BY DEF OthersStay
<1>1. ASSUME NEW t \in Trx, result'[t] = "ok"
      PROVE  status'[t] # "none"
  <2>1. CASE result[t] = "ok"
    BY <2>1, StatusKept DEF SuccessMeansCommitted
  <2>2. CASE result[t] # "ok"
    BY <1>0, <1>1, <2>2, NewAnswer, StatusOfCall DEF Call
  <2>. QED BY <2>1, <2>2
<1>2. ASSUME NEW s \in Settler, result'[s] = "ok"
      PROVE  status'[target[s]] = IF action[s] = "commit" THEN "SUCCESS" ELSE "CANCEL"
  <2>1. CASE result[s] = "ok"
    BY <2>1, StatusKept, StatusOfCall DEF SuccessMeansCommitted, Call
  <2>2. CASE result[s] # "ok"
    BY <1>0, <1>2, <2>2, NewAnswer, StatusOfCall DEF Call
  <2>. QED BY <2>1, <2>2
<1>3. ASSUME NEW t \in notified'
      PROVE  status'[t] = "SUCCESS"
  <2>1. t \in Trx
    BY <1>3, NotifiedTrx
  <2>. QED BY <1>3, <2>1, NewAnswer, StatusKept DEF SuccessMeansCommitted
<1>. QED BY <1>0, <1>1, <1>2, <1>3 DEF SuccessMeansCommitted

\* An answer of success, and a success announced on Kafka, is the truth: the
\* transaction has committed and stays as it was told.  That takes a client that waits
\* for its answer and a database context that does not expire.
THEOREM SuccessIsCommitted ==
    ASSUME OneAtATime, "timeout" \notin FaultKinds
    PROVE  Spec => []SuccessMeansCommitted
<1>. DEFINE Inv == CommittedAsAsked /\ SuccessMeansCommitted
<1>1. Init => Inv
  BY DEF Init, CommittedAsAsked, SuccessMeansCommitted, Call
<1>2. TypeOK /\ CreatedOnce /\ NoneAborted /\ WaitingClients /\ Inv /\ [Next]_vars => Inv'
  <2>. SUFFICES ASSUME TypeOK, CreatedOnce, NoneAborted, OneInFlight, SettlesPending, Inv,
                       [Next]_vars
                PROVE  Inv'
    BY DEF WaitingClients
  <2>1. CASE UNCHANGED visible
    BY <2>1 DEF visible, database, kafka, CommittedAsAsked, SuccessMeansCommitted, TrxOf,
                NewStatus, PhaseOf, ActionOf
  <2>. QED
    BY <2>1, SomeoneDoes, DoesCommittedAsAsked, DoesSuccessMeansCommitted
<1>3. CreatedOnce /\ OnlyReservedSettle => CreatedOnce
  OBVIOUS
<1>. QED BY <1>1, <1>2, <1>3, TypeCorrect, LifeInvariant, WaitingInvariant, NeverAborted, PTL DEF Spec

-----------------------------------------------------------------------------
(***************************************************************************)
(* Credits of HVT accounts.                                                *)
(***************************************************************************)

\* A direct transaction past its commit has succeeded.
DirectSucceeded ==
    \A t \in Trx : ~Reserved[t] /\ pc[t] = "committed" => status[t] = "SUCCESS"

\* A credit is published inside the transaction of a settling call or after the
\* commit of a creating one.
Publishes(c) ==
    /\ \E a \in Acct : Publish(c, a)
    /\ \/ c \in Settler /\ pc[c] = "publishing"
       \/ c \in Trx /\ pc[c] = "committed"

LEMMA TopicStep ==
    ASSUME TypeOK, [Next]_vars
    PROVE  topic' = topic \/ \E c \in Call : Publishes(c)
<1>. USE DEF kafka
<1>1. ASSUME NEW t \in Trx, CreateStep(t) PROVE topic' = topic \/ Publishes(t)
  BY <1>1 DEF CreateStep, ReturnExisting, RefuseInput, StartCreate, CreateWrites,
              PublishAfter, Publishes
<1>2. ASSUME NEW s \in Settler, SettleStep(s) PROVE topic' = topic \/ Publishes(s)
  BY <1>2 DEF SettleStep, AlreadySettled, RefuseSettle, StartSettle, UpdateStatus,
              SettleWrites, InsertChildren, PublishInside, Publishes
<1>3. ASSUME NEW c \in Call, CallStep(c) PROVE topic' = topic
  BY <1>3 DEF CallStep, LockRow, ReadBalances, AccountMissing, CalculateChild, CalculateFails,
              RollbackAndReturn, CommitTx, CommitTxDone, TimedOut, Notify
<1>4. ASSUME NEW c \in Call, FaultStep(c) PROVE topic' = topic
  BY <1>4 DEF FaultStep, Crash, DbError, CommitUnanswered, Timeout, NotifyFails,
              PublishInsideFails, PublishAfterFails, RollbackAndReturn
<1>5. CASE UNCHANGED visible
  BY <1>5 DEF visible
<1>. QED BY <1>1, <1>2, <1>3, <1>4, <1>5 DEF Next, Age, Finished, vars, Call

\* The credits of a topic grow by those of the call that publishes.
LEMMA CreditsGrow ==
    ASSUME TypeOK, [Next]_vars, NEW b \in Acct, NEW m \in Credits(b)', m \notin Credits(b)
    PROVE  \E c \in Call : Publishes(c) /\ m.trx = TrxOf(c)
<1>1. PICK c \in Call : Publishes(c)
  BY TopicStep DEF Credits
<1>2. PICK a \in Acct : Publish(c, a)
  BY <1>1 DEF Publishes
<1>3. topic \in [Acct -> Seq(CreditMsg)] /\ Credit(c, a) \in CreditMsg
  BY CreditType DEF TypeOK
<1>4. b = a /\ topic'[a] = Append(topic[a], Credit(c, a))
  BY <1>2, <1>3 DEF Publish, Credits
<1>5. m = Credit(c, a)
  BY <1>3, <1>4 DEF Credits
<1>. QED BY <1>1, <1>5 DEF Credit

LEMMA DirectKept ==
    ASSUME TypeOK, CreatedOnce, OnlyReservedSettle, NEW c \in Call, OthersStay(c), Does(c),
           NEW t \in Trx, ~Reserved[t], status[t] = "SUCCESS"
    PROVE  status'[t] = "SUCCESS"
<1>1. CASE ~Commits(c)
  BY <1>1, QuietDoes
<1>2. CASE Commits(c)
  <2>1. TrxOf(c) # t
    BY <1>2, CommitWrites, StatusOfCall DEF Commits, CreatedOnce, OnlyReservedSettle, Call
  <2>. QED BY <1>2, <2>1, CommitWrites DEF Commits
<1>. QED BY <1>1, <1>2

LEMMA DoesDirectSucceeded ==
    ASSUME TypeOK, CreatedOnce, OnlyReservedSettle, NoneAborted, DirectSucceeded,
           NEW c \in Call, OthersStay(c), Does(c)
    PROVE  DirectSucceeded'
<1>1. ASSUME NEW t \in Trx, ~Reserved[t], pc'[t] = "committed"
      PROVE  status'[t] = "SUCCESS"
  <2>1. CASE pc[t] = "committed"
    BY <1>1, <2>1, DirectKept DEF DirectSucceeded
  <2>2. CASE pc[t] # "committed"
    <3>1. t = c
      BY <1>1, <2>2 DEF OthersStay, Call
    <3>2. Commits(c)
      BY <1>1, <2>2, <3>1
      DEF Does, Declines, Begins, ReadBalances, CalculateChild, Moves, Aborts,
          SlipsThrough, Tells, NoneAborted, TypeOK
    <3>. QED BY <1>1, <3>1, <3>2, CommitWrites, StatusOfCall DEF Commits
  <2>. QED BY <2>1, <2>2
<1>. QED BY <1>1 DEF DirectSucceeded

\* Nobody is paid from a debit that was rolled back: a credit on an account's topic
\* that comes from a direct transaction comes from one that has committed, unless the
\* database context expires.
THEOREM CreditsCommitted ==
    ASSUME "timeout" \notin FaultKinds
    PROVE  Spec => []NoCreditWithoutCommit
<1>. DEFINE Inv == DirectSucceeded /\ NoCreditWithoutCommit
<1>1. Init => Inv
  BY DEF Init, DirectSucceeded, NoCreditWithoutCommit, Credits, Call
<1>2. TypeOK /\ NoneAborted /\ (CreatedOnce /\ OnlyReservedSettle) /\ Inv /\ [Next]_vars => Inv'
  <2>. SUFFICES ASSUME TypeOK, NoneAborted, CreatedOnce, OnlyReservedSettle, Inv, [Next]_vars
                PROVE  Inv'
    OBVIOUS
  <2>1. DirectSucceeded'
    <3>1. CASE UNCHANGED visible
      BY <3>1 DEF visible, database, DirectSucceeded
    <3>. QED BY <3>1, SomeoneDoes, DoesDirectSucceeded
  <2>2. ASSUME NEW t \in Trx, ~Reserved[t], status[t] = "SUCCESS"
        PROVE  status'[t] = "SUCCESS"
    <3>1. CASE UNCHANGED visible
      BY <2>2, <3>1 DEF visible, database
    <3>. QED BY <2>2, <3>1, SomeoneDoes, DirectKept
  <2>3. ASSUME NEW b \in Acct, NEW m \in Credits(b)', m.amount # 0, ~Reserved[m.trx]
        PROVE  m.trx \in Trx /\ status[m.trx] = "SUCCESS"
    <3>1. CASE m \in Credits(b)
      <4>1. m.trx \in Trx
        <5>1. PICK i \in DOMAIN topic[b] : m = topic[b][i]
          BY <3>1 DEF Credits
        <5>2. topic[b] \in Seq(CreditMsg)
          BY DEF TypeOK
        <5>3. m \in CreditMsg
          BY <5>1, <5>2
        <5>. QED BY <5>3 DEF CreditMsg
      <4>. QED BY <2>3, <3>1, <4>1 DEF NoCreditWithoutCommit
    <3>2. CASE m \notin Credits(b)
      <4>1. PICK c \in Call : Publishes(c) /\ m.trx = TrxOf(c)
        BY <2>3, <3>2, CreditsGrow
      <4>. QED
        BY <2>3, <4>1, StatusOfCall
        DEF Publishes, OnlyReservedSettle, InTx, DirectSucceeded
    <3>. QED BY <3>1, <3>2
  <2>4. NoCreditWithoutCommit'
    BY <2>2, <2>3 DEF NoCreditWithoutCommit
  <2>. QED BY <2>1, <2>4
<1>. QED BY <1>1, <1>2, TypeCorrect, LifeInvariant, NeverAborted, PTL DEF Spec

-----------------------------------------------------------------------------
(***************************************************************************)
(* The ledger.  While a call calculates, its copy of a balance is what it  *)
(* read changed by the children done so far; at the end that is the whole  *)
(* transaction, which its commit adds to the row that was read.            *)
(***************************************************************************)

\* The children of a transaction are numbered from 1.
LEMMA ChildrenTypes ==
    ASSUME NEW t \in Trx, NEW a \in Acct
    PROVE  /\ Len(Children[t]) \in Nat
           /\ DOMAIN Brought(t, a) = 1..Len(Children[t])
           /\ DOMAIN Taken(t, a) = 1..Len(Children[t])
           /\ \A i \in 1..Len(Children[t]) :
                /\ Children[t][i] \in ChildRow
                /\ Brought(t, a)[i] =
                        IF Children[t][i].to = a THEN Children[t][i].amount ELSE 0
                /\ Taken(t, a)[i] =
                        IF Children[t][i].from = a THEN Children[t][i].amount ELSE 0
                /\ Brought(t, a)[i] \in Int /\ Taken(t, a)[i] \in Int
<1>1. Children[t] \in Seq(ChildRow)
  BY TrxAssumption DEF TrxAssumption
<1>2. Len(Children[t]) \in Nat /\ DOMAIN Children[t] = 1..Len(Children[t])
  BY <1>1
<1>3. ASSUME NEW i \in 1..Len(Children[t])
      PROVE  Children[t][i] \in ChildRow /\ Children[t][i].amount \in Int
  <2>1. Children[t][i] \in ChildRow
    BY <1>1
  <2>. QED BY <2>1 DEF ChildRow
<1>. QED BY <1>2, <1>3 DEF Brought, Taken

\* The first k values sum to the last of them and the ones before it.

LEMMA SumFirst ==
    ASSUME NEW f, NEW k \in Nat, k > 0, \A i \in 1..k : f[i] \in Int
    PROVE  SumFunctionOnSet(f, 1..k) = f[k] + SumFunctionOnSet(f, 1..(k - 1))
<1>. DEFINE S    == 1..k
            last == k
<1>1. IsFiniteSet(S)
  BY FS_Interval
<1>2. \A e \in S : f[e] \in Int
  OBVIOUS
<1>3. last \in S
  OBVIOUS
<1>4. S \ {last} = 1..(k - 1)
  OBVIOUS
<1>. HIDE DEF S, last
<1>5. SumFunctionOnSet(f, S) = f[last] + SumFunctionOnSet(f, S \ {last})
  BY <1>1, <1>2, <1>3, SumRemove
<1>. QED BY <1>4, <1>5 DEF S, last

\* What the first k children bring and take.
BroughtBy(t, a, k) == SumFunctionOnSet(Brought(t, a), 1..k)
TakenBy(t, a, k)   == SumFunctionOnSet(Taken(t, a), 1..k)

LEMMA ChildSums ==
    ASSUME NEW t \in Trx, NEW a \in Acct, NEW k \in Nat, k <= Len(Children[t])
    PROVE  /\ BroughtBy(t, a, k) \in Int /\ TakenBy(t, a, k) \in Int
           /\ k = 0 => BroughtBy(t, a, k) = 0 /\ TakenBy(t, a, k) = 0
           /\ k > 0 => /\ BroughtBy(t, a, k) = BroughtBy(t, a, k - 1) + Brought(t, a)[k]
                       /\ TakenBy(t, a, k) = TakenBy(t, a, k - 1) + Taken(t, a)[k]
<1>1. IsFiniteSet(1..k) /\ IsFiniteSet(1..(k - 1)) /\ 1..k \subseteq 1..Len(Children[t])
  <2>1. k - 1 \in Int /\ Len(Children[t]) \in Nat
    BY ChildrenTypes
  <2>2. 1..k \subseteq 1..Len(Children[t])
    BY <2>1
  <2>3. IsFiniteSet(1..k) /\ IsFiniteSet(1..(k - 1))
    BY <2>1, FS_Interval
  <2>. QED BY <2>2, <2>3
<1>2. \A i \in 1..k : Brought(t, a)[i] \in Int /\ Taken(t, a)[i] \in Int
  BY <1>1, ChildrenTypes
<1>3. BroughtBy(t, a, k) \in Int /\ TakenBy(t, a, k) \in Int
  BY <1>1, <1>2, SumInt DEF BroughtBy, TakenBy
<1>4. k = 0 => 1..k = {}
  OBVIOUS
<1>5. k = 0 => BroughtBy(t, a, k) = 0 /\ TakenBy(t, a, k) = 0
  BY <1>4, SumEmpty DEF BroughtBy, TakenBy
<1>6. ASSUME k > 0
      PROVE  /\ BroughtBy(t, a, k) = BroughtBy(t, a, k - 1) + Brought(t, a)[k]
             /\ TakenBy(t, a, k) = TakenBy(t, a, k - 1) + Taken(t, a)[k]
  <2>1. k \in 1..k /\ (1..k) \ {k} = 1..(k - 1) /\ \A i \in 1..(k - 1) : i \in 1..k
    BY <1>6
  <2>2. /\ BroughtBy(t, a, k) = Brought(t, a)[k] + BroughtBy(t, a, k - 1)
        /\ TakenBy(t, a, k) = Taken(t, a)[k] + TakenBy(t, a, k - 1)
    <3>1. \A i \in 1..k : Brought(t, a)[i] \in Int
      BY <1>2
    <3>2. \A i \in 1..k : Taken(t, a)[i] \in Int
      BY <1>2
    <3>3. BroughtBy(t, a, k) = Brought(t, a)[k] + BroughtBy(t, a, k - 1)
      BY <1>6, <3>1, SumFirst DEF BroughtBy
    <3>4. TakenBy(t, a, k) = Taken(t, a)[k] + TakenBy(t, a, k - 1)
      BY <1>6, <3>2, SumFirst DEF TakenBy
    <3>. QED BY <3>3, <3>4
  <2>3. BroughtBy(t, a, k - 1) \in Int /\ TakenBy(t, a, k - 1) \in Int
    BY <1>1, <1>2, <2>1, SumInt DEF BroughtBy, TakenBy
  <2>. QED BY <1>2, <2>1, <2>2, <2>3
<1>. QED BY <1>3, <1>5, <1>6

\* Together the children bring and take what Net and Held say.
LEMMA WholeSums ==
    ASSUME NEW t \in Trx, NEW a \in Acct
    PROVE  LET n == Len(Children[t])
           IN  /\ n \in Nat
               /\ BroughtBy(t, a, n) \in Int /\ TakenBy(t, a, n) \in Int
               /\ Net(t, a) = BroughtBy(t, a, n) - TakenBy(t, a, n)
               /\ Held(t, a) = TakenBy(t, a, n)
BY ChildrenTypes, ChildSums DEF Net, Held, SumFunction, BroughtBy, TakenBy

\* An account no child names gains and loses nothing.
LEMMA NotNamed ==
    ASSUME NEW t \in Trx, NEW a \in Acct
    PROVE  LET n == Len(Children[t])
           IN  /\ a \notin Froms(t) => TakenBy(t, a, n) = 0
               /\ a \notin Tos(t) => BroughtBy(t, a, n) = 0
<1>. DEFINE n == Len(Children[t])
<1>1. IsFiniteSet(1..n) /\ DOMAIN Children[t] = 1..n
  BY FS_Interval, ChildrenTypes, TrxAssumption DEF TrxAssumption
<1>2. a \notin Froms(t) => \A i \in 1..n : Taken(t, a)[i] = 0
  BY <1>1, ChildrenTypes DEF Froms
<1>3. a \notin Tos(t) => \A i \in 1..n : Brought(t, a)[i] = 0
  BY <1>1, ChildrenTypes DEF Tos
<1>. QED BY <1>1, <1>2, <1>3, SumZero DEF TakenBy, BroughtBy

-----------------------------------------------------------------------------
\* Where the loop over the children stands.
ChildInRange ==
    \A c \in Call :
        /\ child[c] <= Len(Children[TrxOf(c)]) + 1
        /\ pc[c] \in {"idle", "updating", "locking"} => child[c] = 1
        /\ pc[c] \in {"publishing", "committing"} => child[c] = Len(Children[TrxOf(c)]) + 1

\* What it has made of the balances it read.
CalculatedSoFar ==
    \A c \in Call : pc[c] \in HasRead =>
        \A a \in Lockable(TrxOf(c)) :
            Changes(PhaseOf(c), before[c][a], after[c][a],
                    BroughtBy(TrxOf(c), a, child[c] - 1), TakenBy(TrxOf(c), a, child[c] - 1))

\* The calls that do not step have read and calculated what they had.
LEMMA DoesReadings ==
    ASSUME TypeOK, NEW c \in Call, Does(c)
    PROVE  \A d \in Call \ {c} :
                before'[d] = before[d] /\ after'[d] = after[d] /\ child'[d] = child[d]
<1>. USE DEF readings
<1>1. CASE ReadBalances(c) \/ CalculateChild(c)
  BY <1>1 DEF ReadBalances, CalculateChild, TypeOK
<1>2. CASE \/ Declines(c) \/ Begins(c) \/ Moves(c) \/ Aborts(c) \/ Commits(c)
           \/ SlipsThrough(c) \/ Tells(c)
  BY <1>2 DEF Declines, Begins, Moves, Aborts, Commits, SlipsThrough, Tells
<1>. QED BY <1>1, <1>2 DEF Does

LEMMA DoesChildInRange ==
    ASSUME TypeOK, ChildInRange, NEW c \in Call, OthersStay(c), Does(c)
    PROVE  ChildInRange'
<1>. DEFINE n == Len(Children[TrxOf(c)])
<1>0. \A d \in Call : TrxOf(d)' = TrxOf(d)
  BY SameTrx DEF OthersStay
<1>1. child[c] \in Nat /\ child[c] > 0 /\ n \in Nat
  BY CallTypes, TrxAssumption DEF TypeOK, TrxAssumption
<1>2. /\ child[c] <= n + 1
      /\ pc[c] \in {"idle", "updating", "locking"} => child[c] = 1
      /\ pc[c] \in {"publishing", "committing"} => child[c] = n + 1
  BY DEF ChildInRange
<1>3. /\ child'[c] <= n + 1
      /\ pc'[c] \in {"idle", "updating", "locking"} => child'[c] = 1
      /\ pc'[c] \in {"publishing", "committing"} => child'[c] = n + 1
  <2>. HIDE DEF n
  <2>. USE DEF readings
  <2>1. CASE Declines(c) \/ Begins(c) \/ Aborts(c) \/ SlipsThrough(c) \/ Tells(c) \/ Commits(c)
    BY <1>1, <1>2, <2>1
    DEF Declines, Begins, Aborts, SlipsThrough, Tells, Commits, MayStart
  <2>2. CASE Moves(c)
    BY <1>1, <1>2, <2>2 DEF Moves, n
  <2>3. CASE ReadBalances(c)
    BY <1>1, <1>2, <2>3 DEF ReadBalances, TypeOK
  <2>4. CASE CalculateChild(c)
    BY <1>1, <1>2, <2>4 DEF CalculateChild, TypeOK, n
  <2>. QED BY <2>1, <2>2, <2>3, <2>4 DEF Does
<1>4. \A d \in Call \ {c} : pc'[d] = pc[d] /\ child'[d] = child[d]
  BY DoesReadings DEF OthersStay
<1>. QED BY <1>0, <1>3, <1>4 DEF ChildInRange

\* Only a direct transaction is a cash-in, for a call inside its transaction.
LEMMA CashinIsDirect ==
    ASSUME TypeOK, OnlyReservedSettle, NEW c \in Call, pc[c] \in InTx,
           Flow[TrxOf(c)] = "cashin"
    PROVE  PhaseOf(c) = "create"
BY StatusOfCall DEF OnlyReservedSettle, PhaseOf, ActionOf, Call, TrxOf

LEMMA CalculatesSoFar ==
    ASSUME TypeOK, OnlyReservedSettle, ChildInRange, CalculatedSoFar,
           NEW c \in Call, CalculateChild(c), NEW a \in Lockable(TrxOf(c))
    PROVE  Changes(PhaseOf(c), before[c][a], after'[c][a],
                   BroughtBy(TrxOf(c), a, child[c]), TakenBy(TrxOf(c), a, child[c]))
<1>. DEFINE t == TrxOf(c)
            k == child[c]
            x == NextChild(c)
            new == Calculate(Flow[t], PhaseOf(c), x, after[c])
            brought == IF x.to = a THEN x.amount ELSE 0
            taken == IF x.from = a THEN x.amount ELSE 0
<1>1. t \in Trx /\ PhaseOf(c) \in Phases /\ a \in Acct /\ Flow[t] \in Flows
  BY CallTypes, LockableRegistered, TrxAssumption DEF TrxAssumption
<1>2. k \in Nat /\ k > 0 /\ k <= Len(Children[t]) /\ k - 1 \in Nat /\ k - 1 <= Len(Children[t])
  BY <1>1, ChildrenTypes DEF CalculateChild, TypeOK
<1>3. x \in ChildRow /\ x.from \in Acct /\ x.to \in Acct /\ x.amount \in Int
  BY NextChildType DEF CalculateChild, ChildRow
<1>4. /\ before[c] \in [Acct -> BalanceRow] /\ after[c] \in [Acct -> BalanceRow]
      /\ after'[c] = new
  BY DEF TypeOK, CalculateChild
<1>5. Changes(PhaseOf(c), before[c][a], after[c][a], BroughtBy(t, a, k - 1), TakenBy(t, a, k - 1))
  BY DEF CalculateChild, CalculatedSoFar, HasRead
<1>6. Flow[t] = "cashin" => PhaseOf(c) = "create"
  BY CashinIsDirect DEF CalculateChild, InTx
<1>7. new \in [Acct -> BalanceRow]
  BY <1>1, <1>3, <1>4, CalculateType
<1>8. brought = Brought(t, a)[k] /\ taken = Taken(t, a)[k]
  BY <1>1, <1>2, ChildrenTypes DEF NextChild
<1>9. Changes(PhaseOf(c), after[c][a], new[a], brought, taken)
  BY <1>1, <1>3, <1>4, <1>6, CalculateChanges
<1>10. /\ BroughtBy(t, a, k) = BroughtBy(t, a, k - 1) + Brought(t, a)[k]
       /\ TakenBy(t, a, k) = TakenBy(t, a, k - 1) + Taken(t, a)[k]
       /\ BroughtBy(t, a, k - 1) \in Int /\ TakenBy(t, a, k - 1) \in Int
  BY <1>1, <1>2, ChildSums
<1>11. brought \in Int /\ taken \in Int
  BY <1>3
<1>12. before[c][a] \in BalanceRow /\ after[c][a] \in BalanceRow /\ new[a] \in BalanceRow
  BY <1>1, <1>4, <1>7
<1>. HIDE DEF t, k, x, new, brought, taken
<1>13. Changes(PhaseOf(c), before[c][a], new[a],
               BroughtBy(t, a, k - 1) + brought, TakenBy(t, a, k - 1) + taken)
  BY <1>5, <1>9, <1>10, <1>11, <1>12, ChangesAdd
<1>. QED BY <1>4, <1>8, <1>10, <1>13 DEF t, k, new

LEMMA DoesCalculatedSoFar ==
    ASSUME TypeOK, OnlyReservedSettle, ChildInRange, CalculatedSoFar,
           NEW c \in Call, OthersStay(c), Does(c)
    PROVE  CalculatedSoFar'
<1>1. \A d \in Call : /\ TrxOf(d)' = TrxOf(d) /\ PhaseOf(d)' = PhaseOf(d)
                      /\ Lockable(TrxOf(d))' = Lockable(TrxOf(d))
  BY SameTrx DEF OthersStay
<1>2. ASSUME NEW d \in Call, pc'[d] \in HasRead, NEW a \in Lockable(TrxOf(d))
      PROVE  Changes(PhaseOf(d), before'[d][a], after'[d][a],
                     BroughtBy(TrxOf(d), a, child'[d] - 1), TakenBy(TrxOf(d), a, child'[d] - 1))
  <2>1. CASE /\ pc[d] \in HasRead
             /\ before'[d] = before[d] /\ after'[d] = after[d] /\ child'[d] = child[d]
    BY <1>2, <2>1 DEF CalculatedSoFar
  <2>2. CASE d # c
    BY <1>2, <2>1, <2>2, DoesReadings DEF OthersStay
  <2>3. CASE d = c /\ ReadBalances(c)
    <3>1. child'[d] = 1 /\ TrxOf(d) \in Trx /\ a \in Acct /\ before'[d][a] = after'[d][a]
      BY <2>3, CallTypes, LockableRegistered DEF ReadBalances, ChildInRange, TypeOK
    <3>2. BroughtBy(TrxOf(d), a, 0) = 0 /\ TakenBy(TrxOf(d), a, 0) = 0
      BY <3>1, ChildSums, ChildrenTypes
    <3>3. before'[d][a] = [actual |-> actual[a], pending |-> pending[a]]
      BY <2>3, <3>1 DEF ReadBalances, TypeOK
    <3>4. actual[a] \in Int /\ pending[a] \in Int
      BY <3>1 DEF TypeOK
    <3>. QED BY <3>1, <3>2, <3>3, <3>4 DEF Changes
  <2>4. CASE d = c /\ CalculateChild(c)
    <3>1. before' = before /\ child'[c] = child[c] + 1 /\ child[c] \in Nat
      BY <2>4 DEF CalculateChild, TypeOK
    <3>. QED BY <1>2, <2>4, <3>1, CalculatesSoFar
  <2>5. CASE d = c /\ (Declines(c) \/ Begins(c) \/ Moves(c) \/ Aborts(c) \/ Commits(c)
                       \/ SlipsThrough(c) \/ Tells(c))
    <3>1. pc[c] \in HasRead /\ UNCHANGED readings
      BY <1>2, <2>5 DEF Declines, Begins, Moves, Aborts, Commits, SlipsThrough, Tells, HasRead
    <3>. QED BY <2>1, <2>5, <3>1 DEF readings
  <2>. QED BY <2>2, <2>3, <2>4, <2>5 DEF Does

<1>. QED BY <1>1, <1>2 DEF CalculatedSoFar

LEMMA CalculationInvariant == Spec => [](ChildInRange /\ CalculatedSoFar)
<1>1. Init => ChildInRange /\ CalculatedSoFar
  <2>. SUFFICES ASSUME Init PROVE ChildInRange /\ CalculatedSoFar
    OBVIOUS
  <2>1. \A c \in Call : Len(Children[TrxOf(c)]) \in Nat
    BY InitType, CallTypes, TrxAssumption DEF TrxAssumption
  <2>. QED BY <2>1 DEF Init, ChildInRange, CalculatedSoFar, HasRead
<1>2. TypeOK /\ (CreatedOnce /\ OnlyReservedSettle) /\ ChildInRange /\ CalculatedSoFar
        /\ [Next]_vars => (ChildInRange /\ CalculatedSoFar)'
  <2>. SUFFICES ASSUME TypeOK, OnlyReservedSettle, ChildInRange, CalculatedSoFar, [Next]_vars
                PROVE  ChildInRange' /\ CalculatedSoFar'
    OBVIOUS
  <2>1. CASE UNCHANGED visible
    BY <2>1 DEF visible, local, ChildInRange, CalculatedSoFar, Lockable, Accounts, Froms, Tos,
                TrxOf, PhaseOf, ActionOf, BroughtBy, TakenBy, Brought, Taken
  <2>. QED BY <2>1, SomeoneDoes, DoesChildInRange, DoesCalculatedSoFar
<1>. QED BY <1>1, <1>2, TypeCorrect, LifeInvariant, PTL DEF Spec

\* What a commit does to the row of an account: nothing but what its transaction says,
\* and for an HVT account that is only credited nothing at all.
LEMMA CommitChanges ==
    ASSUME TypeOK, NoLostUpdate, ChildInRange, CalculatedSoFar,
           NEW c \in Call, ApplyTx(c), NEW a \in Registered \ Skipped
    PROVE  /\ actual'[a] = IF PhaseOf(c) \in {"create", "commit"} /\ ~ByTopic(TrxOf(c), a)
                           THEN actual[a] + Net(TrxOf(c), a) ELSE actual[a]
           /\ pending'[a] = IF PhaseOf(c) = "create"  THEN pending[a]
                       ELSE IF PhaseOf(c) = "reserve" THEN pending[a] + Held(TrxOf(c), a)
                                                      ELSE pending[a] - Held(TrxOf(c), a)
<1>. DEFINE n == Len(Children[TrxOf(c)])
<1>1. TrxOf(c) \in Trx /\ PhaseOf(c) \in Phases /\ a \in Acct
  BY CallTypes, AcctAssumption DEF AcctAssumption
<1>2. actual[a] \in Int /\ pending[a] \in Int
  BY <1>1 DEF TypeOK
<1>3. /\ BroughtBy(TrxOf(c), a, n) \in Int /\ TakenBy(TrxOf(c), a, n) \in Int
      /\ Net(TrxOf(c), a) = BroughtBy(TrxOf(c), a, n) - TakenBy(TrxOf(c), a, n) /\ Held(TrxOf(c), a) = TakenBy(TrxOf(c), a, n)
  BY <1>1, WholeSums
<1>4. CASE a \in Written(c)
  <2>1. a \in Lockable(TrxOf(c)) /\ (PhaseOf(c) # "reserve" => ~ByTopic(TrxOf(c), a))
    BY <1>4 DEF Written, Eligible, ByTopic
  <2>2. before[c][a] = [actual |-> actual[a], pending |-> pending[a]]
    BY <2>1, CriticalGuarded DEF ApplyTx, Critical, Guarded
  <2>3. child[c] - 1 = n
    BY <1>1, ChildrenTypes DEF ChildInRange, ApplyTx
  <2>4. Changes(PhaseOf(c), before[c][a], after[c][a], BroughtBy(TrxOf(c), a, n), TakenBy(TrxOf(c), a, n))
    BY <2>1, <2>3 DEF CalculatedSoFar, ApplyTx, HasRead
  <2>5. actual'[a] = after[c][a].actual /\ pending'[a] = after[c][a].pending
    BY <1>1, <1>4 DEF ApplyTx
  <2>. HIDE DEF n
  <2>. QED BY <1>1, <1>2, <1>3, <2>1, <2>2, <2>4, <2>5 DEF Changes, Phases
<1>5. CASE a \notin Written(c)
  <2>1. actual'[a] = actual[a] /\ pending'[a] = pending[a]
    BY <1>1, <1>5 DEF ApplyTx
  <2>2. CASE a \in Eligible(c)
    <3>1. PhaseOf(c) # "reserve" /\ ByTopic(TrxOf(c), a) /\ a \notin Froms(TrxOf(c))
      BY <2>2 DEF Eligible, ByTopic
    <3>2. Held(TrxOf(c), a) = 0
      BY <1>1, <1>3, <3>1, NotNamed
    <3>. QED BY <1>2, <2>1, <3>1, <3>2
  <2>3. CASE a \notin Eligible(c)
    <3>1. a \notin Froms(TrxOf(c)) /\ a \notin Tos(TrxOf(c))
      BY <1>5, <2>3 DEF Written, Lockable, Accounts
    <3>2. Net(TrxOf(c), a) = 0 /\ Held(TrxOf(c), a) = 0
      BY <1>1, <1>3, <3>1, NotNamed
    <3>. QED BY <1>2, <2>1, <3>2
  <2>. QED BY <2>2, <2>3
<1>. QED BY <1>4, <1>5

-----------------------------------------------------------------------------
\* Transactions that have a row; those that reached the actual balance of an account;
\* open reservations.
Recorded     == {t \in Trx : status[t] # "none"}
Succeeded(a) == {t \in Trx : status[t] = "SUCCESS" /\ ~ByTopic(t, a)}
Open         == {t \in Trx : status[t] = "PENDING"}

NetOf(a)  == [t \in Trx |-> Net(t, a)]
HeldOf(a) == [t \in Trx |-> Held(t, a)]

FiniteRecorded == IsFiniteSet(Recorded)

LEMMA LedgerOf ==
    LedgerBalanced <=>
        \A a \in Registered \ Skipped :
            /\ actual[a] = OpeningRow[a].actual + SumFunctionOnSet(NetOf(a), Succeeded(a))
            /\ pending[a] = OpeningRow[a].pending + SumFunctionOnSet(HeldOf(a), Open)
BY DEF LedgerBalanced, NetOf, HeldOf, Succeeded, Open

\* The sums of the ledger are over finitely many integers.
LEMMA LedgerTypes ==
    ASSUME FiniteRecorded, NEW a \in Acct
    PROVE  /\ IsFiniteSet(Succeeded(a)) /\ Succeeded(a) \subseteq Trx
           /\ IsFiniteSet(Open) /\ Open \subseteq Trx
           /\ \A t \in Trx : /\ NetOf(a)[t] = Net(t, a) /\ Net(t, a) \in Int
                             /\ HeldOf(a)[t] = Held(t, a) /\ Held(t, a) \in Int
           /\ SumFunctionOnSet(NetOf(a), Succeeded(a)) \in Int
           /\ SumFunctionOnSet(HeldOf(a), Open) \in Int
<1>1. Succeeded(a) \subseteq Recorded /\ Open \subseteq Recorded /\ Recorded \subseteq Trx
  BY DEF Succeeded, Open, Recorded
<1>2. IsFiniteSet(Succeeded(a)) /\ IsFiniteSet(Open)
  BY <1>1, FS_Subset DEF FiniteRecorded
<1>3. \A t \in Trx : /\ NetOf(a)[t] = Net(t, a) /\ Net(t, a) \in Int
                     /\ HeldOf(a)[t] = Held(t, a) /\ Held(t, a) \in Int
  <2>1. ASSUME NEW t \in Trx PROVE Net(t, a) \in Int /\ Held(t, a) \in Int
    BY WholeSums
  <2>. QED BY <2>1 DEF NetOf, HeldOf
<1>4. \A t \in Succeeded(a) : NetOf(a)[t] \in Int
  BY <1>1, <1>3
<1>5. \A t \in Open : HeldOf(a)[t] \in Int
  BY <1>1, <1>3
<1>6. SumFunctionOnSet(NetOf(a), Succeeded(a)) \in Int
  BY <1>2, <1>4, SumInt
<1>7. SumFunctionOnSet(HeldOf(a), Open) \in Int
  BY <1>2, <1>5, SumInt
<1>. QED BY <1>1, <1>2, <1>3, <1>6, <1>7

\* How a commit moves its transaction between these sets.
LEMMA CommitMoves ==
    ASSUME TypeOK, CreatedOnce, SettlesPending, NEW c \in Call, ApplyTx(c), NEW a
    PROVE  /\ TrxOf(c) \in Trx /\ Recorded' = Recorded \union {TrxOf(c)}
           /\ TrxOf(c) \notin Succeeded(a)
           /\ Succeeded(a)' = IF PhaseOf(c) \in {"create", "commit"} /\ ~ByTopic(TrxOf(c), a)
                              THEN Succeeded(a) \union {TrxOf(c)} ELSE Succeeded(a)
           /\ PhaseOf(c) = "create" => Open' = Open
           /\ PhaseOf(c) = "reserve" => /\ TrxOf(c) \notin Open
                                        /\ Open' = Open \union {TrxOf(c)}
           /\ PhaseOf(c) \in {"commit", "cancel"} => /\ TrxOf(c) \in Open
                                                     /\ Open' = Open \ {TrxOf(c)}
<1>1. PhaseOf(c) \in Phases /\ TrxOf(c) \in Trx
  BY CallTypes
<1>2. /\ NewStatus(c) = IF PhaseOf(c) = "reserve" THEN "PENDING"
                        ELSE IF PhaseOf(c) = "cancel" THEN "CANCEL" ELSE "SUCCESS"
      /\ PhaseOf(c) \in {"create", "reserve"} => status[TrxOf(c)] = "none"
      /\ PhaseOf(c) \in {"commit", "cancel"} => status[TrxOf(c)] = "PENDING"
  <2>1. CASE c \in Trx
    BY <2>1, CommitWrites, TrxAssumption
    DEF TrxAssumption, CreatedOnce, TrxOf, NewStatus, PhaseOf, ActionOf
  <2>2. CASE c \in Settler
    BY <2>2, CommitWrites, TrxAssumption
    DEF TrxAssumption, TypeOK, SettlesPending, TrxOf, NewStatus, PhaseOf, ActionOf
  <2>. QED BY <2>1, <2>2 DEF Call
<1>3. /\ status'[TrxOf(c)] = NewStatus(c)
      /\ \A t \in Trx \ {TrxOf(c)} : status'[t] = status[t]
  BY CommitWrites
<1>4. Recorded' = Recorded \union {TrxOf(c)}
  BY <1>1, <1>2, <1>3 DEF Recorded, Phases
<1>5. /\ TrxOf(c) \notin Succeeded(a)
      /\ Succeeded(a)' = IF PhaseOf(c) \in {"create", "commit"} /\ ~ByTopic(TrxOf(c), a)
                         THEN Succeeded(a) \union {TrxOf(c)} ELSE Succeeded(a)
  <2>1. Succeeded(a)' = {t \in Trx : status'[t] = "SUCCESS" /\ ~ByTopic(t, a)}
    BY DEF Succeeded, ByTopic, Froms
  <2>. QED BY <1>1, <1>2, <1>3, <2>1 DEF Succeeded, Phases
<1>6. PhaseOf(c) = "create" => Open' = Open
  BY <1>1, <1>2, <1>3 DEF Open
<1>7. PhaseOf(c) = "reserve" => TrxOf(c) \notin Open /\ Open' = Open \union {TrxOf(c)}
  BY <1>1, <1>2, <1>3 DEF Open
<1>8. PhaseOf(c) \in {"commit", "cancel"} => TrxOf(c) \in Open /\ Open' = Open \ {TrxOf(c)}
  BY <1>1, <1>2, <1>3 DEF Open
<1>. QED BY <1>1, <1>4, <1>5, <1>6, <1>7, <1>8

\* So the sums follow the rows.
LEMMA CommitBalances ==
    ASSUME TypeOK, NoLostUpdate, CreatedOnce, SettlesPending, ChildInRange, CalculatedSoFar,
           FiniteRecorded, LedgerBalanced, NEW c \in Call, ApplyTx(c)
    PROVE  LedgerBalanced'
<1>. DEFINE t == TrxOf(c)
<1>1. ASSUME NEW a \in Registered \ Skipped
      PROVE  /\ actual'[a] = OpeningRow[a].actual + SumFunctionOnSet(NetOf(a), Succeeded(a)')
             /\ pending'[a] = OpeningRow[a].pending + SumFunctionOnSet(HeldOf(a), Open')
  <2>. DEFINE net == SumFunctionOnSet(NetOf(a), Succeeded(a))
              held == SumFunctionOnSet(HeldOf(a), Open)
  <2>1. a \in Acct /\ OpeningRow[a].actual \in Int /\ OpeningRow[a].pending \in Int
    BY AcctAssumption DEF AcctAssumption, BalanceRow
  <2>2. t \in Trx /\ PhaseOf(c) \in Phases
    BY CallTypes
  <2>3. /\ net \in Int /\ held \in Int /\ Net(t, a) \in Int /\ Held(t, a) \in Int
        /\ NetOf(a)[t] = Net(t, a) /\ HeldOf(a)[t] = Held(t, a)
    BY <2>1, <2>2, LedgerTypes
  <2>4. actual[a] = OpeningRow[a].actual + net /\ pending[a] = OpeningRow[a].pending + held
    BY LedgerOf
  <2>5. SumFunctionOnSet(NetOf(a), Succeeded(a) \union {t}) = Net(t, a) + net
    <3>1. \A u \in Succeeded(a) : NetOf(a)[u] \in Int
      BY <2>1, LedgerTypes
    <3>2. t \notin Succeeded(a) /\ IsFiniteSet(Succeeded(a))
      BY <2>1, CommitMoves, LedgerTypes
    <3>. QED BY <2>3, <3>1, <3>2, SumAdd
  <2>6. t \notin Open => SumFunctionOnSet(HeldOf(a), Open \union {t}) = Held(t, a) + held
    <3>1. (\A u \in Open : HeldOf(a)[u] \in Int) /\ IsFiniteSet(Open)
      BY <2>1, LedgerTypes
    <3>. QED BY <2>3, <3>1, SumAdd
  <2>7. t \in Open => held = Held(t, a) + SumFunctionOnSet(HeldOf(a), Open \ {t})
    <3>1. (\A u \in Open : HeldOf(a)[u] \in Int) /\ IsFiniteSet(Open)
      BY <2>1, LedgerTypes
    <3>. QED BY <2>3, <3>1, SumRemove
  <2>8. SumFunctionOnSet(HeldOf(a), Open \ {t}) \in Int
    <3>1. (\A u \in Open \ {t} : HeldOf(a)[u] \in Int) /\ IsFiniteSet(Open \ {t})
      BY <2>1, LedgerTypes, FS_Subset
    <3>. QED BY <3>1, SumInt
  <2>. HIDE DEF t, net, held
  <2>9. actual'[a] = OpeningRow[a].actual + SumFunctionOnSet(NetOf(a), Succeeded(a)')
    <3>1. CASE PhaseOf(c) \in {"create", "commit"} /\ ~ByTopic(t, a)
      <4>1. Succeeded(a)' = Succeeded(a) \union {t} /\ actual'[a] = actual[a] + Net(t, a)
        BY <3>1, CommitChanges, CommitMoves DEF t
      <4>. QED BY <2>1, <2>3, <2>4, <2>5, <4>1
    <3>2. CASE ~(PhaseOf(c) \in {"create", "commit"} /\ ~ByTopic(t, a))
      <4>1. Succeeded(a)' = Succeeded(a) /\ actual'[a] = actual[a]
        BY <3>2, CommitChanges, CommitMoves DEF t
      <4>. QED BY <2>4, <4>1 DEF net
    <3>. QED BY <3>1, <3>2
  <2>10. pending'[a] = OpeningRow[a].pending + SumFunctionOnSet(HeldOf(a), Open')
    <3>1. pending'[a] = IF PhaseOf(c) = "create"  THEN pending[a]
                   ELSE IF PhaseOf(c) = "reserve" THEN pending[a] + Held(t, a)
                                                  ELSE pending[a] - Held(t, a)
      BY CommitChanges DEF t
    <3>2. CASE PhaseOf(c) = "create"
      BY <2>4, <3>1, <3>2, CommitMoves DEF held
    <3>3. CASE PhaseOf(c) = "reserve"
      <4>1. Open' = Open \union {t} /\ t \notin Open
        BY <3>3, CommitMoves DEF t
      <4>. QED BY <2>1, <2>3, <2>4, <2>6, <3>1, <3>3, <4>1
    <3>4. CASE PhaseOf(c) \in {"commit", "cancel"}
      <4>1. Open' = Open \ {t} /\ t \in Open
        BY <3>4, CommitMoves DEF t
      <4>. QED BY <2>1, <2>3, <2>4, <2>7, <2>8, <3>1, <3>4, <4>1
    <3>. QED BY <2>2, <3>2, <3>3, <3>4 DEF Phases
  <2>. QED BY <2>9, <2>10
<1>2. LedgerBalanced' <=>
        \A a \in Registered \ Skipped :
            /\ actual'[a] = OpeningRow[a].actual + SumFunctionOnSet(NetOf(a), Succeeded(a)')
            /\ pending'[a] = OpeningRow[a].pending + SumFunctionOnSet(HeldOf(a), Open')
  BY DEF LedgerBalanced, NetOf, HeldOf, Succeeded, Open
<1>. QED BY <1>1, <1>2

LEMMA DoesBalanced ==
    ASSUME TypeOK, NoLostUpdate, CreatedOnce, SettlesPending, ChildInRange, CalculatedSoFar,
           FiniteRecorded, LedgerBalanced, NEW c \in Call, OthersStay(c), Does(c)
    PROVE  FiniteRecorded' /\ LedgerBalanced'
<1>1. CASE Commits(c)
  <2>1. ApplyTx(c)
    BY <1>1 DEF Commits
  <2>2. FiniteRecorded'
    <3>1. Recorded' = Recorded \union {TrxOf(c)}
      BY <2>1, CommitMoves
    <3>. QED BY <3>1, FS_AddElement DEF FiniteRecorded
  <2>. QED BY <2>1, <2>2, CommitBalances
<1>2. CASE ~Commits(c)
  <2>1. UNCHANGED <<actual, pending>>
    BY <1>2 DEF Does, Declines, Begins, ReadBalances, CalculateChild, Moves, Aborts,
                SlipsThrough, Tells, rows, database
  <2>. QED
    BY <1>2, <2>1, QuietDoes DEF FiniteRecorded, Recorded, LedgerBalanced
<1>. QED BY <1>1, <1>2

\* The account table agrees with the transactions at every moment, for any accounts,
\* children, flows and faults, when clients wait for their answers: each actual balance
\* is what it was at the start plus every successful transaction, once, but for HVT
\* credits, and each pending balance is what the open reservations hold.
THEOREM LedgerAgrees ==
    ASSUME OneAtATime
    PROVE  Spec => []LedgerBalanced
<1>. DEFINE Inv == FiniteRecorded /\ LedgerBalanced
<1>1. Init => Inv
  <2>. SUFFICES ASSUME Init PROVE Inv
    OBVIOUS
  <2>1. Recorded = {} /\ Open = {} /\ \A a : Succeeded(a) = {}
    BY DEF Init, Recorded, Open, Succeeded
  <2>2. LedgerBalanced
    <3>1. ASSUME NEW a \in Registered \ Skipped
          PROVE  /\ actual[a] = OpeningRow[a].actual + SumFunctionOnSet(NetOf(a), Succeeded(a))
                 /\ pending[a] = OpeningRow[a].pending + SumFunctionOnSet(HeldOf(a), Open)
      <4>1. a \in Acct /\ OpeningRow[a].actual \in Int /\ OpeningRow[a].pending \in Int
        BY AcctAssumption DEF AcctAssumption, BalanceRow
      <4>2. actual[a] = OpeningRow[a].actual /\ pending[a] = OpeningRow[a].pending
        BY <4>1 DEF Init
      <4>3. SumFunctionOnSet(NetOf(a), {}) = 0 /\ SumFunctionOnSet(HeldOf(a), {}) = 0
        BY SumEmpty
      <4>4. Succeeded(a) = {} /\ Open = {}
        BY <2>1
      <4>. QED BY <4>1, <4>2, <4>3, <4>4
    <3>. QED BY <3>1, LedgerOf
  <2>. QED BY <2>1, <2>2, FS_EmptySet DEF FiniteRecorded
<1>2. TypeOK /\ NoLostUpdate /\ (CreatedOnce /\ OnlyReservedSettle)
        /\ (ChildInRange /\ CalculatedSoFar) /\ WaitingClients /\ Inv /\ [Next]_vars => Inv'
  <2>. SUFFICES ASSUME TypeOK, NoLostUpdate, CreatedOnce, SettlesPending, ChildInRange,
                       CalculatedSoFar, Inv, [Next]_vars
                PROVE  Inv'
    BY DEF WaitingClients
  <2>1. CASE UNCHANGED visible
    BY <2>1 DEF visible, database, FiniteRecorded, Recorded, LedgerBalanced
  <2>2. ASSUME NEW c \in Call, OthersStay(c), Does(c) PROVE Inv'
    BY <2>2, DoesBalanced
  <2>. QED BY <2>1, <2>2, SomeoneDoes
<1>. QED
  BY <1>1, <1>2, TypeCorrect, UpdatesKept, LifeInvariant, CalculationInvariant,
     WaitingInvariant, PTL DEF Spec

-----------------------------------------------------------------------------
(***************************************************************************)
(* What is published.  Seen from the topics a step collects the credits of *)
(* a call, publishes one, loses one to the broker, or leaves them alone.   *)
(***************************************************************************)
Sending == {"publishing", "committing", "committed"}

\* The loop over updatedBalances collects what there is to credit.
Collects(c) ==
    /\ pc[c] = "calculating" /\ child[c] > Len(Children[TrxOf(c)])
    /\ pc'[c] = IF c \in Trx THEN "committing" ELSE "publishing"
    /\ toPublish' = [toPublish EXCEPT ![c] = Eligible(c)]
    /\ UNCHANGED <<topic, before, after, status, result>>

Delivers(c, a) ==
    /\ Publish(c, a)
    /\ \/ c \in Settler /\ pc[c] = "publishing"
       \/ c \in Trx /\ pc[c] = "committed"
    /\ UNCHANGED <<pc, before, after, status, result>>

\* The broker refuses a credit of a committed transaction: it is given up.
GivesUp(c) ==
    /\ c \in Trx /\ pc[c] = "committed"
    /\ \E a \in Acct : toPublish' = [toPublish EXCEPT ![c] = @ \ {a}]
    /\ result'[c] = "error"
    /\ UNCHANGED <<pc, topic, before, after, status>>

\* It moves on: past the publication, or past the commit.
MovesOn(c) ==
    \/ pc'[c] = pc[c]
    \/ pc[c] = "publishing" /\ pc'[c] = "committing" /\ c \in Settler /\ toPublish[c] = {}
    \/ pc[c] = "committing" /\ pc'[c] = "committed"

LeavesAlone(c) ==
    /\ UNCHANGED <<topic, toPublish>>
    /\ pc[c] \in Sending => UNCHANGED <<before, after>>
    /\ pc'[c] \in Sending => MovesOn(c)
    /\ pc'[c] \in {"idle"} \union InTx => pc[c] \in {"idle"} \union InTx
    /\ result'[c] = result[c] \/ pc'[c] = "done"
    /\ pc[c] = "done" => pc'[c] = "done"
    /\ (c \in Trx /\ result'[c] = "ok") =>
            \/ result[c] = "ok"
            \/ pc[c] = "committed" /\ toPublish[c] = {} /\ result[c] # "error"
    /\ status' = status \/ Commits(c)

Sends(c) == Collects(c) \/ (\E a \in Acct : Delivers(c, a)) \/ GivesUp(c) \/ LeavesAlone(c)

LEMMA RollbackLeavesAlone ==
    ASSUME TypeOK, NEW c \in Call, NEW answer \in {"error", "crashed"},
           RollbackAndReturn(c, answer)
    PROVE  LeavesAlone(c)
BY DEF TypeOK, RollbackAndReturn, Return, LeavesAlone, Sending, InTx, kafka, local

LEMMA CreateSends ==
    ASSUME TypeOK, NEW c \in Trx, CreateStep(c)
    PROVE  Sends(c)
<1>. USE DEF database, kafka, local
<1>0. c \in Call /\ c \notin Settler
  BY TrxAssumption DEF Call, TrxAssumption
<1>1. CASE ReturnExisting(c) \/ RefuseInput(c)
  <2>1. LeavesAlone(c)
    BY <1>0, <1>1
    DEF TypeOK, ReturnExisting, RefuseInput, Return, LeavesAlone, Sending, InTx
  <2>. QED BY <2>1 DEF Sends
<1>2. CASE StartCreate(c)
  <2>1. LeavesAlone(c)
    BY <1>0, <1>2 DEF TypeOK, StartCreate, MayStart, LeavesAlone, Sending, InTx
  <2>. QED BY <2>1 DEF Sends
<1>3. CASE CreateWrites(c)
  <2>1. Collects(c)
    BY <1>0, <1>3 DEF TypeOK, CreateWrites, Collects, TrxOf
  <2>. QED BY <2>1 DEF Sends
<1>4. ASSUME NEW a \in Acct, PublishAfter(c, a) PROVE Sends(c)
  <2>1. Delivers(c, a)
    BY <1>0, <1>4 DEF PublishAfter, Delivers
  <2>. QED BY <2>1 DEF Sends
<1>. QED BY <1>1, <1>2, <1>3, <1>4 DEF CreateStep

LEMMA SettleSends ==
    ASSUME TypeOK, NEW c \in Settler, SettleStep(c)
    PROVE  Sends(c)
<1>. USE DEF database, kafka, local
<1>0. c \in Call /\ c \notin Trx
  BY TrxAssumption DEF Call, TrxAssumption
<1>1. CASE AlreadySettled(c) \/ RefuseSettle(c)
  <2>1. LeavesAlone(c)
    BY <1>0, <1>1
    DEF TypeOK, AlreadySettled, RefuseSettle, Return, LeavesAlone, Sending, InTx
  <2>. QED BY <2>1 DEF Sends
<1>2. CASE StartSettle(c) \/ UpdateStatus(c)
  <2>1. LeavesAlone(c)
    BY <1>0, <1>2 DEF TypeOK, StartSettle, UpdateStatus, MayStart, LeavesAlone, Sending, InTx
  <2>. QED BY <2>1 DEF Sends
<1>3. CASE InsertChildren(c)
  <2>1. LeavesAlone(c)
    BY <1>0, <1>3 DEF TypeOK, InsertChildren, LeavesAlone, MovesOn, Sending, InTx
  <2>. QED BY <2>1 DEF Sends
<1>4. CASE SettleWrites(c)
  <2>1. Collects(c)
    BY <1>0, <1>4 DEF TypeOK, SettleWrites, Collects, TrxOf
  <2>. QED BY <2>1 DEF Sends
<1>5. ASSUME NEW a \in Acct, PublishInside(c, a) PROVE Sends(c)
  <2>1. Delivers(c, a)
    BY <1>0, <1>5 DEF PublishInside, Delivers
  <2>. QED BY <2>1 DEF Sends
<1>. QED BY <1>1, <1>2, <1>3, <1>4, <1>5 DEF SettleStep

LEMMA CallSends ==
    ASSUME TypeOK, NEW c \in Call, CallStep(c)
    PROVE  Sends(c)
<1>. USE DEF database, kafka, local
<1>1. ASSUME NEW a \in Acct, LockRow(c, a) PROVE LeavesAlone(c)
  BY <1>1 DEF TypeOK, LockRow, LeavesAlone, Sending
<1>2. ASSUME ReadBalances(c) \/ CalculateChild(c) PROVE LeavesAlone(c)
  BY <1>2 DEF TypeOK, ReadBalances, CalculateChild, LeavesAlone, Sending, InTx
<1>3. ASSUME AccountMissing(c) \/ CalculateFails(c) \/ TimedOut(c) PROVE LeavesAlone(c)
  BY <1>3, RollbackLeavesAlone DEF AccountMissing, CalculateFails, TimedOut
<1>4. ASSUME CommitTx(c) PROVE LeavesAlone(c)
  <2>1. Commits(c)
    BY <1>4 DEF CommitTx, ApplyTx, Commits, TypeOK, readings
  <2>. QED
    BY <1>4, <2>1 DEF TypeOK, CommitTx, ApplyTx, LeavesAlone, MovesOn, Sending, InTx
<1>5. ASSUME CommitTxDone(c) PROVE LeavesAlone(c)
  BY <1>5 DEF TypeOK, CommitTxDone, LeavesAlone, MovesOn, Sending, InTx
<1>6. ASSUME Notify(c) PROVE LeavesAlone(c)
  BY <1>6 DEF TypeOK, Notify, Return, LeavesAlone, Sending, InTx
<1>. QED BY <1>1, <1>2, <1>3, <1>4, <1>5, <1>6 DEF CallStep, Sends

LEMMA FaultSends ==
    ASSUME TypeOK, NEW c \in Call, FaultStep(c)
    PROVE  Sends(c)
<1>. USE DEF database, kafka, local
<1>1. CASE Crash(c) \/ DbError(c) \/ PublishInsideFails(c)
  BY <1>1, RollbackLeavesAlone DEF Crash, DbError, PublishInsideFails, Sends
<1>2. CASE CommitUnanswered(c)
  <2>1. Commits(c)
    BY <1>2 DEF CommitUnanswered, Return, ApplyTx, Commits, TypeOK, readings
  <2>2. LeavesAlone(c)
    BY <1>2, <2>1
    DEF TypeOK, CommitUnanswered, Return, ApplyTx, LeavesAlone, Sending, InTx
  <2>. QED BY <2>2 DEF Sends
<1>3. ASSUME Timeout(c) PROVE LeavesAlone(c)
  BY <1>3 DEF TypeOK, Timeout, LeavesAlone, MovesOn
<1>4. ASSUME NotifyFails(c) PROVE LeavesAlone(c)
  BY <1>4 DEF TypeOK, NotifyFails, Return, LeavesAlone, Sending, InTx
<1>5. ASSUME NEW a \in Acct, c \in Trx, PublishAfterFails(c, a) PROVE Sends(c)
  <2>1. GivesUp(c)
    BY <1>5 DEF TypeOK, PublishAfterFails, GivesUp
  <2>. QED BY <2>1 DEF Sends
<1>. QED BY <1>1, <1>2, <1>3, <1>4, <1>5 DEF FaultStep, Sends

\* Every step is one call doing one of the nine things above, and one of these four.
LEMMA SomeoneSends ==
    ASSUME TypeOK, [Next]_vars
    PROVE  UNCHANGED visible \/ \E c \in Call : OthersStay(c) /\ Does(c) /\ Sends(c)
<1>1. ASSUME NEW c \in Trx, CreateStep(c)
      PROVE  \E d \in Call : OthersStay(d) /\ Does(d) /\ Sends(d)
  BY <1>1, CreateDoes, CreateSends DEF Call
<1>2. ASSUME NEW c \in Settler, SettleStep(c)
      PROVE  \E d \in Call : OthersStay(d) /\ Does(d) /\ Sends(d)
  BY <1>2, SettleDoes, SettleSends DEF Call
<1>3. ASSUME NEW c \in Call, CallStep(c) \/ FaultStep(c)
      PROVE  \E d \in Call : OthersStay(d) /\ Does(d) /\ Sends(d)
  BY <1>3, CallDoes, FaultDoes, CallSends, FaultSends
<1>. QED BY <1>1, <1>2, <1>3 DEF Next, Age, Finished, vars

-----------------------------------------------------------------------------
\* What a credit to an account should be: all that the transaction brings it, or
\* nothing when the reservation is cancelled.
Due(c, a) == IF PhaseOf(c) = "cancel" THEN 0 ELSE Net(TrxOf(c), a)

\* A call has yet to publish only credits that are due, each of the right amount;
\* when its transaction is about to commit a settling call has none left and a
\* creating call has them all.
SendingDue ==
    \A c \in Call : pc[c] \in Sending =>
        /\ toPublish[c] \subseteq Eligible(c)
        /\ \A a \in toPublish[c] : Credit(c, a).amount = Due(c, a)
        /\ pc[c] = "committing" => toPublish[c] = IF c \in Trx THEN Eligible(c) ELSE {}

\* What a call has to publish, and what it should, is fixed when it starts.
LEMMA SameCredits ==
    ASSUME TypeOK, NEW c \in Call, OthersStay(c), NEW d \in Call
    PROVE  /\ TrxOf(d)' = TrxOf(d) /\ PhaseOf(d)' = PhaseOf(d)
           /\ Eligible(d)' = Eligible(d)
           /\ \A a : Due(d, a)' = Due(d, a)
           /\ \A a : (before'[d] = before[d] /\ after'[d] = after[d]) =>
                        Credit(d, a)' = Credit(d, a)
<1>1. TrxOf(d)' = TrxOf(d) /\ PhaseOf(d)' = PhaseOf(d) /\ Lockable(TrxOf(d))' = Lockable(TrxOf(d))
  BY SameTrx DEF OthersStay
<1>2. Eligible(d)' = Eligible(d)
  BY <1>1 DEF Eligible, Froms
<1>3. \A a : Due(d, a)' = Due(d, a)
  BY <1>1 DEF Due, Net, Brought, Taken
<1>4. \A a : (before'[d] = before[d] /\ after'[d] = after[d]) => Credit(d, a)' = Credit(d, a)
  BY <1>1 DEF Credit, Available
<1>. QED BY <1>1, <1>2, <1>3, <1>4

\* A call publishes for itself only.
LEMMA OthersSend ==
    ASSUME TypeOK, NEW c \in Call, Sends(c), NEW d \in Call, d # c
    PROVE  toPublish'[d] = toPublish[d]
BY DEF TypeOK, Sends, Collects, Delivers, Publish, GivesUp, LeavesAlone

\* An account it only credits is brought what the transaction makes of it.
LEMMA EligibleAccounts ==
    ASSUME TypeOK, NEW c \in Call, NEW a \in Eligible(c)
    PROVE  /\ PhaseOf(c) # "reserve" /\ a \in Lockable(TrxOf(c)) /\ a \in Acct
           /\ ByTopic(TrxOf(c), a) /\ Held(TrxOf(c), a) = 0
<1>1. PhaseOf(c) # "reserve" /\ a \in Lockable(TrxOf(c)) /\ ByTopic(TrxOf(c), a)
  BY DEF Eligible, ByTopic
<1>2. a \in Acct /\ a \notin Froms(TrxOf(c)) /\ TrxOf(c) \in Trx
  BY <1>1, CallTypes, LockableRegistered DEF ByTopic
<1>. QED BY <1>1, <1>2, WholeSums, NotNamed

LEMMA CollectsDue ==
    ASSUME TypeOK, ChildInRange, CalculatedSoFar, NEW c \in Call, Collects(c),
           NEW a \in Eligible(c)
    PROVE  Credit(c, a).amount = Due(c, a)
<1>. DEFINE t == TrxOf(c)
            n == Len(Children[TrxOf(c)])
<1>1. /\ t \in Trx /\ PhaseOf(c) \in Phases /\ PhaseOf(c) # "reserve"
      /\ a \in Acct /\ a \in Lockable(t) /\ Held(t, a) = 0
  BY CallTypes, EligibleAccounts
<1>2. /\ n \in Nat /\ BroughtBy(t, a, n) \in Int /\ TakenBy(t, a, n) \in Int
      /\ Net(t, a) = BroughtBy(t, a, n) - TakenBy(t, a, n) /\ TakenBy(t, a, n) = 0
  BY <1>1, WholeSums
<1>3. child[c] - 1 = n
  BY <1>2 DEF Collects, ChildInRange, TypeOK
<1>4. Changes(PhaseOf(c), before[c][a], after[c][a], BroughtBy(t, a, n), TakenBy(t, a, n))
  BY <1>1, <1>3 DEF Collects, CalculatedSoFar, HasRead
<1>5. before[c][a] \in BalanceRow /\ after[c][a] \in BalanceRow
  BY <1>1 DEF TypeOK
<1>6. Credit(c, a).amount = Available(after[c][a]) - Available(before[c][a])
  BY DEF Credit
<1>. HIDE DEF t, n
<1>. QED
  BY <1>1, <1>2, <1>4, <1>5, <1>6 DEF Changes, Available, BalanceRow, Phases, Due, t

LEMMA DoesSendingDue ==
    ASSUME TypeOK, ChildInRange, CalculatedSoFar, SendingDue,
           NEW c \in Call, OthersStay(c), Does(c), Sends(c)
    PROVE  SendingDue'
<1>. DEFINE Good(d) ==
        /\ toPublish'[d] \subseteq Eligible(d)
        /\ \A a \in toPublish'[d] : Credit(d, a)'.amount = Due(d, a)
        /\ pc'[d] = "committing" => toPublish'[d] = IF d \in Trx THEN Eligible(d) ELSE {}
<1>0. Trx \intersect Settler = {}
  BY TrxAssumption DEF TrxAssumption
<1>1. ASSUME NEW d \in Call, d # c, pc'[d] \in Sending PROVE Good(d)
  <2>1. toPublish'[d] = toPublish[d] /\ pc'[d] = pc[d] /\ \A a : Credit(d, a)' = Credit(d, a)
    BY <1>1, OthersSend, DoesReadings, SameCredits DEF OthersStay
  <2>. QED BY <1>1, <2>1 DEF SendingDue
<1>2. ASSUME pc'[c] \in Sending PROVE Good(c)
  <2>1. CASE Collects(c)
    <3>1. toPublish'[c] = Eligible(c) /\ \A a : Credit(c, a)' = Credit(c, a)
      BY <2>1, SameCredits DEF Collects, TypeOK
    <3>. QED BY <1>0, <2>1, <3>1, CollectsDue DEF Collects
  <2>2. ASSUME NEW a \in Acct, Delivers(c, a) PROVE Good(c)
    <3>1. /\ toPublish'[c] \subseteq toPublish[c] /\ pc'[c] = pc[c] /\ pc[c] # "committing"
          /\ \A b : Credit(c, b)' = Credit(c, b)
      BY <2>2, SameCredits DEF Delivers, Publish, TypeOK
    <3>. QED BY <1>2, <3>1 DEF SendingDue
  <2>3. CASE GivesUp(c)
    <3>1. toPublish'[c] \subseteq toPublish[c] /\ pc'[c] = pc[c] /\ pc[c] # "committing"
      BY <2>3 DEF GivesUp, TypeOK
    <3>2. \A b : Credit(c, b)' = Credit(c, b)
      BY <2>3, SameCredits DEF GivesUp
    <3>. QED BY <1>2, <3>1, <3>2 DEF SendingDue
  <2>4. CASE LeavesAlone(c)
    <3>1. pc[c] \in Sending /\ MovesOn(c) /\ toPublish' = toPublish
      BY <1>2, <2>4 DEF LeavesAlone, MovesOn, Sending
    <3>2. \A b : Credit(c, b)' = Credit(c, b)
      BY <2>4, <3>1, SameCredits DEF LeavesAlone
    <3>. QED BY <1>0, <1>2, <3>1, <3>2 DEF SendingDue, MovesOn
  <2>. QED BY <2>1, <2>2, <2>3, <2>4 DEF Sends
<1>3. \A d \in Call : pc'[d] \in Sending => Good(d)
  BY <1>1, <1>2
<1>4. \A d \in Call : Eligible(d)' = Eligible(d) /\ \A a : Due(d, a)' = Due(d, a)
  BY SameCredits
<1>. QED BY <1>3, <1>4 DEF SendingDue

-----------------------------------------------------------------------------
\* Credits of a transaction on the topic of an account: one of an amount, none at all,
\* exactly one and that for all it brings.
Has(t, a, n) == \E i \in DOMAIN topic[a] : topic[a][i].trx = t /\ topic[a][i].amount = n
NotSent(t, a) == \A i \in DOMAIN topic[a] : topic[a][i].trx # t
SentOnce(t, a) ==
    \E i \in DOMAIN topic[a] :
        /\ topic[a][i].trx = t /\ topic[a][i].amount = Net(t, a)
        /\ \A j \in DOMAIN topic[a] : topic[a][j].trx = t => j = i

\* A topic stays, or has one more credit at its end.
LEMMA TopicGrows ==
    ASSUME TypeOK, NEW c \in Call, Sends(c), NEW b \in Acct
    PROVE  \/ topic'[b] = topic[b]
           \/ /\ Delivers(c, b) /\ b \in toPublish[c] /\ Len(topic[b]) \in Nat
              /\ DOMAIN topic[b] = 1..Len(topic[b])
              /\ DOMAIN topic'[b] = 1..(Len(topic[b]) + 1)
              /\ \A i \in DOMAIN topic[b] : topic'[b][i] = topic[b][i]
              /\ topic'[b][Len(topic[b]) + 1] = Credit(c, b)
<1>1. CASE Collects(c) \/ GivesUp(c) \/ LeavesAlone(c)
  BY <1>1 DEF Collects, GivesUp, LeavesAlone
<1>2. ASSUME NEW a \in Acct, Delivers(c, a), a # b PROVE topic'[b] = topic[b]
  BY <1>2 DEF TypeOK, Delivers, Publish
<1>3. ASSUME Delivers(c, b)
      PROVE  /\ b \in toPublish[c] /\ Len(topic[b]) \in Nat
             /\ DOMAIN topic[b] = 1..Len(topic[b])
             /\ DOMAIN topic'[b] = 1..(Len(topic[b]) + 1)
             /\ \A i \in DOMAIN topic[b] : topic'[b][i] = topic[b][i]
             /\ topic'[b][Len(topic[b]) + 1] = Credit(c, b)
  <2>1. topic[b] \in Seq(CreditMsg) /\ Credit(c, b) \in CreditMsg
    BY CreditType DEF TypeOK
  <2>2. topic'[b] = Append(topic[b], Credit(c, b)) /\ b \in toPublish[c]
    BY <1>3 DEF TypeOK, Delivers, Publish
  <2>. HIDE DEF CreditMsg
  <2>3. /\ Len(topic[b]) \in Nat /\ DOMAIN topic[b] = 1..Len(topic[b])
        /\ DOMAIN topic'[b] = 1..(Len(topic[b]) + 1)
        /\ \A i \in 1..Len(topic[b]) : topic'[b][i] = topic[b][i]
        /\ topic'[b][Len(topic[b]) + 1] = Credit(c, b)
    BY <2>1, <2>2
  <2>. QED BY <2>2, <2>3
<1>. QED BY <1>1, <1>2, <1>3 DEF Sends

\* A credit stays on its topic, and one is added by the call that publishes it.
LEMMA HasKept ==
    ASSUME TypeOK, NEW c \in Call, Sends(c), NEW b \in Acct, NEW t, NEW n
    PROVE  Has(t, b, n) => Has(t, b, n)'
<1>1. DOMAIN topic[b] \subseteq DOMAIN topic'[b]
  BY TopicGrows
<1>2. \A i \in DOMAIN topic[b] : topic'[b][i] = topic[b][i]
  BY TopicGrows
<1>. QED BY <1>1, <1>2 DEF Has

LEMMA HasDelivered ==
    ASSUME TypeOK, NEW c \in Call, NEW b \in Acct, Delivers(c, b),
           NEW t, t = TrxOf(c), NEW n, n = Credit(c, b).amount
    PROVE  Has(t, b, n)'
<1>1. topic[b] \in Seq(CreditMsg) /\ Credit(c, b) \in CreditMsg
  BY CreditType DEF TypeOK
<1>2. topic'[b] = Append(topic[b], Credit(c, b))
  BY DEF TypeOK, Delivers, Publish
<1>3. Len(topic[b]) + 1 \in DOMAIN topic'[b] /\ topic'[b][Len(topic[b]) + 1] = Credit(c, b)
  BY <1>1, <1>2
<1>4. Credit(c, b).trx = t
  BY DEF Credit
<1>. QED BY <1>3, <1>4 DEF Has

-----------------------------------------------------------------------------
\* The credits of a reservation, whoever settles it and however often: each is for all
\* it brings or, when it comes of a cancellation, for nothing.
WholeOrNothing ==
    \A t \in Trx : Reserved[t] =>
        \A a \in Acct : \A i \in DOMAIN topic[a] :
            topic[a][i].trx = t => topic[a][i].amount \in {0, Net(t, a)}

\* A call that commits a reservation has published what it has no longer to publish.
SettlerSent ==
    \A s \in Settler : (pc[s] \in {"publishing", "committing"} /\ action[s] = "commit") =>
        \A a \in Eligible(s) :
            a \in toPublish[s] \/ Has(target[s], a, Net(target[s], a))

\* So a reservation that succeeded has its credits on the topics.
SuccessSent ==
    \A t \in Trx : (Reserved[t] /\ status[t] = "SUCCESS") =>
        \A a \in Lockable(t) : ByTopic(t, a) => Has(t, a, Net(t, a))

LEMMA DoesWholeOrNothing ==
    ASSUME TypeOK, OnlyReservedSettle, SendingDue, WholeOrNothing,
           NEW c \in Call, OthersStay(c), Does(c), Sends(c)
    PROVE  WholeOrNothing'
<1>1. ASSUME NEW t \in Trx, Reserved[t], NEW a \in Acct, NEW i \in DOMAIN topic'[a],
             topic'[a][i].trx = t
      PROVE  topic'[a][i].amount \in {0, Net(t, a)}
  <2>1. CASE topic'[a] = topic[a]
    BY <1>1, <2>1 DEF WholeOrNothing
  <2>2. CASE topic'[a] # topic[a]
    <3>1. /\ Delivers(c, a) /\ a \in toPublish[c] /\ Len(topic[a]) \in Nat
          /\ DOMAIN topic[a] = 1..Len(topic[a])
          /\ DOMAIN topic'[a] = 1..(Len(topic[a]) + 1)
          /\ \A j \in DOMAIN topic[a] : topic'[a][j] = topic[a][j]
          /\ topic'[a][Len(topic[a]) + 1] = Credit(c, a)
      BY <2>2, TopicGrows
    <3>2. CASE i \in DOMAIN topic[a]
      BY <1>1, <3>1, <3>2 DEF WholeOrNothing
    <3>3. CASE i = Len(topic[a]) + 1
      <4>1. topic'[a][i] = Credit(c, a) /\ Credit(c, a).trx = TrxOf(c)
        BY <3>1, <3>3 DEF Credit
      <4>2. TrxOf(c) = t /\ Credit(c, a).amount = Due(c, a)
        BY <1>1, <3>1, <4>1 DEF Delivers, SendingDue, Sending
      <4>. QED BY <4>1, <4>2 DEF Due
    <3>. QED BY <3>1, <3>2, <3>3
  <2>. QED BY <2>1, <2>2
<1>. QED BY <1>1 DEF WholeOrNothing, Net, Brought, Taken

LEMMA DoesSettlerSent ==
    ASSUME TypeOK, SendingDue, SettlerSent,
           NEW c \in Call, OthersStay(c), Does(c), Sends(c)
    PROVE  SettlerSent'
<1>0. Trx \intersect Settler = {} /\ Settler \subseteq Call
  BY TrxAssumption DEF TrxAssumption, Call
<1>1. ASSUME NEW s \in Settler, pc'[s] \in {"publishing", "committing"}, action[s] = "commit",
             NEW a \in Eligible(s), a \notin toPublish'[s], NEW t \in Trx, t = target[s],
             NEW n, n = Net(t, a)
      PROVE  Has(t, a, n)'
  <2>1. s \in Call /\ a \in Acct /\ TrxOf(s) = t /\ PhaseOf(s) = "commit"
    BY <1>0, <1>1, EligibleAccounts, StatusOfCall DEF PhaseOf, ActionOf
  <2>2. CASE Has(t, a, n)
    BY <2>1, <2>2, HasKept
  <2>3. CASE ~Has(t, a, n)
    <3>1. pc[s] \in {"publishing", "committing"} => a \in toPublish[s]
      BY <1>1, <2>3 DEF SettlerSent
    <3>2. CASE s # c
      <4>1. toPublish'[s] = toPublish[s] /\ pc'[s] = pc[s]
        BY <2>1, <3>2, OthersSend DEF OthersStay
      <4>. QED BY <1>1, <3>1, <4>1
    <3>3. CASE s = c /\ Collects(c)
      BY <1>1, <3>3 DEF Collects, TypeOK
    <3>4. ASSUME s = c, NEW b \in Acct, Delivers(c, b) PROVE Has(t, a, n)'
      <4>1. a \in toPublish[s] /\ toPublish'[s] = toPublish[s] \ {b}
        BY <1>1, <3>1, <3>4 DEF Delivers, Publish, TypeOK
      <4>2. b = a
        BY <1>1, <4>1
      <4>3. Credit(s, a).amount = n
        BY <1>1, <2>1, <3>4, <4>1 DEF SendingDue, Sending, Delivers, Due
      <4>. QED BY <2>1, <3>4, <4>2, <4>3, HasDelivered
    <3>5. CASE s = c /\ LeavesAlone(c)
      BY <1>1, <3>1, <3>5 DEF LeavesAlone, MovesOn, Sending
    <3>. QED BY <1>0, <1>1, <3>2, <3>3, <3>4, <3>5 DEF Sends, GivesUp
  <2>. QED BY <2>2, <2>3
<1>2. \A s \in Settler : Eligible(s)' = Eligible(s) /\ target[s] \in Trx
  BY <1>0, SameCredits DEF TypeOK
<1>3. target' = target /\ action' = action
  BY DEF OthersStay
<1>4. ASSUME NEW s \in Settler, pc'[s] \in {"publishing", "committing"}, action[s] = "commit",
             NEW a \in Eligible(s), a \notin toPublish'[s]
      PROVE  Has(target[s], a, Net(target[s], a))'
  <2>1. PICK t \in Trx : t = target[s]
    BY <1>2
  <2>2. Net(t, a)' = Net(t, a)
    BY DEF Net, Brought, Taken
  <2>3. target'[s] = t
    BY <1>3, <2>1
  <2>. QED BY <1>1, <1>4, <2>1, <2>2, <2>3 DEF Has
<1>. QED BY <1>2, <1>3, <1>4 DEF SettlerSent

LEMMA DoesSuccessSent ==
    ASSUME TypeOK, SendingDue, SettlerSent, SuccessSent,
           NEW c \in Call, OthersStay(c), Does(c), Sends(c)
    PROVE  SuccessSent'
<1>0. Trx \intersect Settler = {}
  BY TrxAssumption DEF TrxAssumption
<1>1. ASSUME NEW t \in Trx, Reserved[t], status'[t] = "SUCCESS", NEW a \in Lockable(t),
             ByTopic(t, a)
      PROVE  Has(t, a, Net(t, a))
  <2>1. CASE status[t] = "SUCCESS"
    BY <1>1, <2>1 DEF SuccessSent
  <2>2. CASE status[t] # "SUCCESS"
    <3>1. Commits(c)
      BY <1>1, <2>2 DEF Sends, Collects, Delivers, GivesUp, LeavesAlone
    <3>2. TrxOf(c) = t /\ NewStatus(c) = "SUCCESS" /\ pc[c] = "committing"
      BY <1>1, <2>2, <3>1, CommitWrites DEF Commits, ApplyTx
    <3>3. c \in Settler /\ action[c] = "commit" /\ target[c] = t
      BY <1>1, <3>2, StatusOfCall DEF Call
    <3>4. toPublish[c] = {}
      BY <1>0, <3>2, <3>3 DEF SendingDue, Sending
    <3>5. PhaseOf(c) = "commit"
      BY <1>0, <3>3 DEF PhaseOf, ActionOf
    <3>6. a \in Eligible(c)
      BY <1>1, <3>2, <3>5 DEF Eligible, ByTopic
    <3>. QED BY <3>2, <3>3, <3>4, <3>6 DEF SettlerSent
  <2>. QED BY <2>1, <2>2
<1>2. ASSUME NEW t \in Trx, Reserved[t], status'[t] = "SUCCESS", NEW a \in Lockable(t),
             ByTopic(t, a)
      PROVE  Has(t, a, Net(t, a))'
  <2>1. a \in Acct
    BY LockableRegistered
  <2>2. Has(t, a, Net(t, a))
    BY <1>1, <1>2
  <2>. QED BY <2>1, <2>2, HasKept
<1>. QED BY <1>2 DEF SuccessSent, Lockable, Accounts, Froms, Tos, ByTopic

-----------------------------------------------------------------------------
\* The credits of a direct transaction, which only its creator publishes: none before
\* its commit, then each at most once, and all of them when the call answers ok.
DirectSent ==
    \A t \in Trx : ~Reserved[t] =>
        /\ pc[t] # "done" => result[t] # "ok"
        /\ \A a \in Lockable(t) : ByTopic(t, a) =>
            /\ pc[t] \in {"idle"} \union InTx => NotSent(t, a)
            /\ (pc[t] = "committed" /\ a \in toPublish[t]) => NotSent(t, a)
            /\ (pc[t] = "committed" /\ a \notin toPublish[t] /\ result[t] # "error")
                    => SentOnce(t, a)
            /\ result[t] = "ok" => SentOnce(t, a)

\* The calls for other transactions, and those that publish to other accounts, change
\* neither.
LEMMA DirectTopicKept ==
    ASSUME TypeOK, OnlyReservedSettle, NEW c \in Call, OthersStay(c), Does(c), Sends(c),
           NEW t \in Trx, ~Reserved[t], NEW a \in Acct, ~(c = t /\ Delivers(c, a))
    PROVE  /\ NotSent(t, a) => NotSent(t, a)'
           /\ SentOnce(t, a) => SentOnce(t, a)'
<1>1. CASE topic'[a] = topic[a]
  BY <1>1 DEF NotSent, SentOnce, Net, Brought, Taken
<1>2. CASE topic'[a] # topic[a]
  <2>1. /\ Delivers(c, a) /\ Len(topic[a]) \in Nat
        /\ DOMAIN topic[a] = 1..Len(topic[a])
        /\ DOMAIN topic'[a] = 1..(Len(topic[a]) + 1)
        /\ \A j \in DOMAIN topic[a] : topic'[a][j] = topic[a][j]
        /\ topic'[a][Len(topic[a]) + 1] = Credit(c, a)
    BY <1>2, TopicGrows
  <2>2. TrxOf(c) # t
    <3>1. CASE c \in Trx
      BY <2>1, <3>1 DEF TrxOf
    <3>2. CASE c \in Settler
      <4>1. c \notin Trx
        BY <3>2, TrxAssumption DEF TrxAssumption
      <4>. QED BY <2>1, <3>2, <4>1 DEF Delivers, OnlyReservedSettle, InTx, TrxOf
    <3>. QED BY <3>1, <3>2 DEF Call
  <2>3. topic'[a][Len(topic[a]) + 1].trx # t
    BY <2>1, <2>2 DEF Credit
  <2>4. DOMAIN topic'[a] = DOMAIN topic[a] \union {Len(topic[a]) + 1}
    BY <2>1
  <2>5. NotSent(t, a) => NotSent(t, a)'
    BY <2>1, <2>3, <2>4 DEF NotSent
  <2>6. ASSUME SentOnce(t, a) PROVE SentOnce(t, a)'
    <3>1. PICK i \in DOMAIN topic[a] :
            /\ topic[a][i].trx = t /\ topic[a][i].amount = Net(t, a)
            /\ \A j \in DOMAIN topic[a] : topic[a][j].trx = t => j = i
      BY <2>6 DEF SentOnce
    <3>2. /\ i \in DOMAIN topic'[a] /\ topic'[a][i].trx = t
          /\ topic'[a][i].amount = Net(t, a)
          /\ \A j \in DOMAIN topic'[a] : topic'[a][j].trx = t => j = i
      BY <2>1, <2>3, <2>4, <3>1
    <3>. QED BY <3>2 DEF SentOnce, Net, Brought, Taken
  <2>. QED BY <2>5, <2>6
<1>. QED BY <1>1, <1>2

\* The first credit published is the only one.
LEMMA FirstCredit ==
    ASSUME TypeOK, NEW t \in Trx, NEW a \in Acct, Delivers(t, a), NotSent(t, a),
           Credit(t, a).amount = Net(t, a)
    PROVE  SentOnce(t, a)'
<1>1. t \in Call
  BY DEF Call
<1>2. topic[a] \in Seq(CreditMsg) /\ Credit(t, a) \in CreditMsg
  BY <1>1, CreditType DEF TypeOK
<1>3. topic'[a] = Append(topic[a], Credit(t, a))
  BY DEF TypeOK, Delivers, Publish
<1>4. /\ Len(topic[a]) \in Nat /\ DOMAIN topic[a] = 1..Len(topic[a])
      /\ DOMAIN topic'[a] = 1..(Len(topic[a]) + 1)
      /\ \A i \in 1..Len(topic[a]) : topic'[a][i] = topic[a][i]
      /\ topic'[a][Len(topic[a]) + 1] = Credit(t, a)
  BY <1>2, <1>3
<1>5. Credit(t, a).trx = t
  BY DEF Credit, TrxOf
<1>6. ASSUME NEW j \in DOMAIN topic'[a], topic'[a][j].trx = t
      PROVE  j = Len(topic[a]) + 1
  BY <1>4, <1>6 DEF NotSent
<1>7. Len(topic[a]) + 1 \in DOMAIN topic'[a]
  BY <1>4
<1>. QED BY <1>4, <1>5, <1>6, <1>7 DEF SentOnce, Net, Brought, Taken

LEMMA DoesDirectSent ==
    ASSUME TypeOK, OnlyReservedSettle, SendingDue, DirectSent,
           NEW c \in Call, OthersStay(c), Does(c), Sends(c)
    PROVE  DirectSent'
<1>1. ASSUME NEW t \in Trx, ~Reserved[t], pc'[t] # "done" PROVE result'[t] # "ok"
  <2>1. t \in Call
    BY DEF Call
  <2>2. CASE c # t
    BY <1>1, <2>1, <2>2 DEF OthersStay, DirectSent
  <2>3. CASE c = t /\ ~LeavesAlone(c)
    BY <1>1, <2>3 DEF Sends, Collects, Delivers, GivesUp, DirectSent
  <2>4. CASE c = t /\ LeavesAlone(c)
    <3>1. pc[t] # "done" /\ result'[t] = result[t]
      BY <1>1, <2>4 DEF LeavesAlone
    <3>. QED BY <1>1, <3>1 DEF DirectSent
  <2>. QED BY <2>2, <2>3, <2>4
<1>2. ASSUME NEW t \in Trx, ~Reserved[t], NEW a \in Lockable(t), ByTopic(t, a)
      PROVE  /\ pc'[t] \in {"idle"} \union InTx => NotSent(t, a)'
             /\ (pc'[t] = "committed" /\ a \in toPublish'[t]) => NotSent(t, a)'
             /\ (pc'[t] = "committed" /\ a \notin toPublish'[t] /\ result'[t] # "error")
                    => SentOnce(t, a)'
             /\ result'[t] = "ok" => SentOnce(t, a)'
  <2>1. t \in Call /\ TrxOf(t) = t /\ a \in Acct
    BY LockableRegistered DEF Call, TrxOf
  <2>2. a \in Eligible(t) /\ Due(t, a) = Net(t, a)
    <3>1. PhaseOf(t) = "create"
      BY <1>2 DEF PhaseOf, ActionOf
    <3>. QED BY <1>2, <2>1, <3>1 DEF Eligible, ByTopic, Due
  <2>3. /\ pc[t] # "done" => result[t] # "ok"
        /\ pc[t] \in {"idle"} \union InTx => NotSent(t, a)
        /\ (pc[t] = "committed" /\ a \in toPublish[t]) => NotSent(t, a)
        /\ (pc[t] = "committed" /\ a \notin toPublish[t] /\ result[t] # "error")
                => SentOnce(t, a)
        /\ result[t] = "ok" => SentOnce(t, a)
    BY <1>2 DEF DirectSent
  <2>4. CASE ~(c = t /\ Delivers(c, a))
    <3>1. (NotSent(t, a) => NotSent(t, a)') /\ (SentOnce(t, a) => SentOnce(t, a)')
      BY <1>2, <2>1, <2>4, DirectTopicKept
    <3>2. CASE c # t
      <4>1. pc'[t] = pc[t] /\ result'[t] = result[t] /\ toPublish'[t] = toPublish[t]
        BY <2>1, <3>2, OthersSend DEF OthersStay
      <4>. QED BY <2>3, <3>1, <4>1
    <3>3. CASE c = t /\ Collects(c)
      BY <2>3, <3>1, <3>3 DEF Collects, InTx
    <3>4. ASSUME c = t, NEW b \in Acct, Delivers(c, b)
          PROVE  /\ pc'[t] = pc[t] /\ pc[t] = "committed" /\ result'[t] = result[t]
                 /\ a \in toPublish'[t] <=> a \in toPublish[t]
      BY <2>1, <2>4, <3>4, TrxAssumption DEF TrxAssumption, Delivers, Publish, TypeOK
    <3>5. CASE c = t /\ \E b \in Acct : Delivers(c, b)
      BY <2>3, <3>1, <3>4, <3>5
    <3>6. CASE c = t /\ GivesUp(c)
      <4>1. /\ pc'[t] = "committed" /\ pc[t] = "committed" /\ result'[t] = "error"
            /\ toPublish'[t] \subseteq toPublish[t]
        BY <2>1, <3>6 DEF GivesUp, TypeOK
      <4>. QED BY <2>3, <3>1, <4>1 DEF InTx
    <3>7. CASE c = t /\ LeavesAlone(c)
      <4>1. pc'[t] \in {"idle"} \union InTx => NotSent(t, a)'
        BY <2>3, <3>1, <3>7 DEF LeavesAlone
      <4>2. result'[t] = "ok" => SentOnce(t, a)'
        BY <2>3, <3>1, <3>7 DEF LeavesAlone
      <4>3. ASSUME pc'[t] = "committed"
            PROVE  /\ toPublish'[t] = toPublish[t] /\ result'[t] = result[t]
                   /\ pc[t] = "committed" \/ (pc[t] = "committing" /\ a \in toPublish[t])
        BY <2>1, <2>2, <3>7, <4>3 DEF LeavesAlone, MovesOn, Sending, SendingDue
      <4>. QED BY <2>3, <3>1, <4>1, <4>2, <4>3 DEF InTx
    <3>. QED BY <3>2, <3>3, <3>5, <3>6, <3>7 DEF Sends
  <2>5. CASE c = t /\ Delivers(c, a)
    <3>1. /\ pc'[t] = "committed" /\ pc[t] = "committed" /\ result'[t] = result[t]
          /\ a \in toPublish[t] /\ a \notin toPublish'[t]
      BY <2>1, <2>5, TrxAssumption DEF TrxAssumption, Delivers, Publish, TypeOK
    <3>2. NotSent(t, a) /\ Credit(t, a).amount = Net(t, a)
      BY <2>1, <2>2, <2>3, <3>1 DEF SendingDue, Sending
    <3>3. SentOnce(t, a)'
      BY <2>1, <2>5, <3>2, FirstCredit
    <3>. QED BY <3>1, <3>3 DEF InTx
  <2>. QED BY <2>4, <2>5
<1>3. \A t : Lockable(t)' = Lockable(t) /\ \A a : ByTopic(t, a)' = ByTopic(t, a)
  BY DEF Lockable, Accounts, Froms, Tos, ByTopic
<1>. QED BY <1>1, <1>2, <1>3 DEF DirectSent

\* Each HVT credit of a committed reservation is on its topic, and each of a direct
\* transaction whose call answered ok is there exactly once, whatever the clients do and
\* whatever fails: the topics lack no credit of what the calls report as done.
THEOREM CreditsAreSent == Spec => []CreditsPublished
<1>. DEFINE Inv == SendingDue /\ WholeOrNothing /\ SettlerSent /\ SuccessSent /\ DirectSent
<1>1. Init => Inv
  <2>. SUFFICES ASSUME Init PROVE Inv
    OBVIOUS
  <2>1. /\ \A c \in Call : pc[c] = "idle" /\ result[c] = "none"
        /\ \A t \in Trx : status[t] = "none"
        /\ \A a \in Acct : topic[a] = <<>> /\ DOMAIN topic[a] = {}
    BY DEF Init
  <2>2. SendingDue /\ SettlerSent
    BY <2>1 DEF SendingDue, Sending, SettlerSent, Call
  <2>3. WholeOrNothing /\ SuccessSent
    BY <2>1 DEF WholeOrNothing, SuccessSent
  <2>4. DirectSent
    BY <2>1, LockableRegistered DEF DirectSent, NotSent, Call
  <2>. QED BY <2>2, <2>3, <2>4
<1>2. TypeOK /\ OnlyReservedSettle /\ (ChildInRange /\ CalculatedSoFar) /\ Inv /\ [Next]_vars
        => Inv'
  <2>. SUFFICES ASSUME TypeOK, OnlyReservedSettle, ChildInRange, CalculatedSoFar, Inv,
                       [Next]_vars
                PROVE  Inv'
    OBVIOUS
  <2>1. CASE UNCHANGED visible
    <3>1. target' = target /\ action' = action /\ pc' = pc /\ toPublish' = toPublish
          /\ before' = before /\ after' = after /\ topic' = topic /\ status' = status
          /\ result' = result
      BY <2>1 DEF visible, local, kafka, database
    <3>2. /\ \A c \in Call : Eligible(c)' = Eligible(c)
          /\ \A c \in Call : \A a : Due(c, a)' = Due(c, a) /\ Credit(c, a)' = Credit(c, a)
      <4>1. \A c \in Call : PhaseOf(c)' = PhaseOf(c) /\ TrxOf(c)' = TrxOf(c)
                            /\ Lockable(TrxOf(c))' = Lockable(TrxOf(c))
        BY <3>1, SameTrx
      <4>2. \A t, a : Net(t, a)' = Net(t, a)
        BY DEF Net, Brought, Taken
      <4>3. \A c \in Call : Eligible(c)' = Eligible(c)
        BY <3>1, <4>1 DEF Eligible, Froms
      <4>4. \A c \in Call : \A a : Due(c, a)' = Due(c, a)
        BY <3>1, <4>1 DEF Due, Net, Brought, Taken
      <4>5. \A c \in Call : \A a : Credit(c, a)' = Credit(c, a)
        BY <3>1, <4>1 DEF Credit, Available
      <4>. QED BY <4>3, <4>4, <4>5
    <3>3. SendingDue'
      BY <3>1, <3>2 DEF SendingDue
    <3>4. SettlerSent'
      <4>1. \A s \in Settler : Eligible(s)' = Eligible(s)
        BY <3>2 DEF Call
      <4>2. \A t, a : Has(t, a, Net(t, a))' = Has(t, a, Net(t, a))
        BY <3>1 DEF Has, Net, Brought, Taken
      <4>3. \A s \in Settler : \A a :
                Has(target[s], a, Net(target[s], a))' = Has(target[s], a, Net(target[s], a))
        BY <3>1, <4>2 DEF Has, Net, Brought, Taken
      <4>. QED BY <3>1, <4>1, <4>3 DEF SettlerSent
    <3>5. WholeOrNothing'
      BY <3>1 DEF WholeOrNothing, Net, Brought, Taken
    <3>6. SuccessSent'
      <4>1. \A t, a : Has(t, a, Net(t, a))' = Has(t, a, Net(t, a))
        BY <3>1 DEF Has, Net, Brought, Taken
      <4>2. \A t : Lockable(t)' = Lockable(t) /\ \A a : ByTopic(t, a)' = ByTopic(t, a)
        BY DEF Lockable, Accounts, Froms, Tos, ByTopic
      <4>. QED BY <3>1, <4>1, <4>2 DEF SuccessSent
    <3>7. DirectSent'
      <4>1. \A t, a : NotSent(t, a)' = NotSent(t, a) /\ SentOnce(t, a)' = SentOnce(t, a)
        BY <3>1 DEF NotSent, SentOnce, Net, Brought, Taken
      <4>2. \A t : Lockable(t)' = Lockable(t) /\ \A a : ByTopic(t, a)' = ByTopic(t, a)
        BY DEF Lockable, Accounts, Froms, Tos, ByTopic
      <4>. QED BY <3>1, <4>1, <4>2 DEF DirectSent
    <3>. QED BY <3>3, <3>4, <3>5, <3>6, <3>7
  <2>2. ASSUME NEW c \in Call, OthersStay(c), Does(c), Sends(c) PROVE Inv'
    BY <2>2, DoesSendingDue, DoesWholeOrNothing, DoesSettlerSent, DoesSuccessSent,
       DoesDirectSent
  <2>. QED BY <2>1, <2>2, SomeoneSends
<1>3. WholeOrNothing /\ SuccessSent /\ DirectSent => CreditsPublished
  <2>. SUFFICES ASSUME WholeOrNothing, SuccessSent, DirectSent,
                       NEW t \in Trx, status[t] = "SUCCESS", Reserved[t] \/ result[t] = "ok",
                       NEW a \in Lockable(t), ByTopic(t, a)
                PROVE  LET sent    == {i \in DOMAIN topic[a] : topic[a][i].trx = t}
                           amounts == {topic[a][i].amount : i \in sent}
                       IN  IF Reserved[t]
                           THEN Net(t, a) \in amounts /\ amounts \subseteq {0, Net(t, a)}
                           ELSE amounts = {Net(t, a)} /\ Cardinality(sent) = 1
    BY DEF CreditsPublished
  <2>. DEFINE sent    == {i \in DOMAIN topic[a] : topic[a][i].trx = t}
              amounts == {topic[a][i].amount : i \in sent}
  <2>1. a \in Acct
    BY LockableRegistered
  <2>2. CASE Reserved[t]
    <3>1. Has(t, a, Net(t, a))
      BY <2>2 DEF SuccessSent
    <3>2. Net(t, a) \in amounts
      BY <3>1 DEF Has
    <3>3. amounts \subseteq {0, Net(t, a)}
      BY <2>1, <2>2 DEF WholeOrNothing
    <3>. QED BY <2>2, <3>2, <3>3
  <2>3. CASE ~Reserved[t]
    <3>1. SentOnce(t, a)
      BY <2>3 DEF DirectSent
    <3>2. PICK i \in DOMAIN topic[a] :
            /\ topic[a][i].trx = t /\ topic[a][i].amount = Net(t, a)
            /\ \A j \in DOMAIN topic[a] : topic[a][j].trx = t => j = i
      BY <3>1 DEF SentOnce
    <3>3. sent = {i}
      BY <3>2
    <3>4. amounts = {Net(t, a)}
      <4>1. \A j \in sent : topic[a][j].amount = Net(t, a)
        BY <3>2, <3>3
      <4>. QED BY <3>3, <4>1
    <3>5. Cardinality(sent) = 1
      <4>1. Cardinality({i}) = 1
        BY FS_Singleton
      <4>. QED BY <3>3, <4>1
    <3>. QED BY <2>3, <3>4, <3>5
  <2>. QED BY <2>2, <2>3
<1>. QED BY <1>1, <1>2, <1>3, TypeCorrect, LifeInvariant, CalculationInvariant, PTL DEF Spec
=============================================================================
