----------------------------- MODULE LegacyLedger -----------------------------
(***************************************************************************)
(* The transaction service (internal/services/transaction_service.go) over *)
(* the transaction and account tables: StoreTransaction stores one         *)
(* transfer, settled or reserved, CommitReservedTransaction and            *)
(* CancelReservedTransaction settle a reserved one, StoreBulkTransaction   *)
(* stores rows in chunks without touching balances.  Every call is a       *)
(* goroutine of its own.  Storing and settling read first, then open a     *)
(* database transaction, lock, calculate, announce and commit; a bulk has  *)
(* no database transaction.                                                *)
(*                                                                         *)
(* Statements on rows that the call has locked are merged with the commit  *)
(* that shows them.  SELECT ... FOR UPDATE without ORDER BY locks in the   *)
(* order of the scan; one order for all is assumed, that of the index.     *)
(***************************************************************************)
EXTENDS Transfers, FiniteSets, SequencesExt

CONSTANTS
    Registered,  \* accounts that have a row
    Settler,     \* calls that commit or cancel a reserved transaction
    TargetOf,    \* which one each of them names
    ActionOf,    \* and what it asks for: "commit" or "cancel"
    Bulk,        \* bulk requests
    ChunksOf,    \* their reference numbers, in chunks of BatchSize
    RefOf,       \* refNumber of each transfer
    BadRef,      \* reference numbers of bulk rows whose account does not exist
    Racing,      \* transfers whose settling calls may be in flight together
    World        \* what happens: the calls that are made, and a bound on faults

Call   == Trx \union Settler \union Bulk
NoCall == "no call"

LegacyAssumption ==
    /\ Registered \subseteq Acct
    /\ Acct \subseteq Int
    /\ Trx \intersect Settler = {} /\ Trx \intersect Bulk = {} /\ Settler \intersect Bulk = {}
    /\ NoCall \notin Call
    /\ TargetOf \in [Settler -> Trx]
    /\ ActionOf \in [Settler -> {"commit", "cancel"}]
    /\ ChunksOf \in [Bulk -> Seq(Seq(Int)) \ {<<>>}]
    /\ \A w \in World : w.calls \subseteq Call /\ w.faults \in Nat
ASSUME LegacyAssumption

VARIABLES
    balance,    \* account.actualBalance and account.pendingBalance
    status,     \* transaction.status, "none" while there is no row
    imported,   \* rows of bulk requests, each with the chunk and the place it had there
    rowLock,    \* who holds the lock of an account row
    trxLock,    \* who holds the lock of a transaction row
    announced,  \* transfers whose success was published
    pc,         \* where a call is
    after,      \* the balances it calculated
    chunk,      \* the chunk a bulk request is at
    new,        \* the reference numbers of it that were not found
    result,     \* what a call returned
    faults      \* how many more there may be

tables == <<balance, status, imported>>
locks  == <<rowLock, trxLock>>
bulk   == <<chunk, new>>
vars   == <<tables, locks, announced, pc, after, bulk, result, faults>>

\* Between the reads and the answer of a call; a bulk request checks and stores.
Places == {"idle", "updating", "locking", "announcing", "committing", "checking",
           "storing", "done"}

TrxOf(c)   == IF c \in Settler THEN TargetOf[c] ELSE c
PhaseOf(c) == IF c \in Settler THEN ActionOf[c] ELSE EntryPhase(c)

\* The rows a call locks: cancelling leaves the destination alone.
Rows(c) ==
    IF PhaseOf(c) = "cancel" THEN {Transfer[TrxOf(c)].from}
    ELSE {Transfer[TrxOf(c)].from, Transfer[TrxOf(c)].to}

RefsOf(b) == UNION {ToSet(ChunksOf[b][k]) : k \in DOMAIN ChunksOf[b]}
KnownRefs == {RefOf[t] : t \in {u \in Trx : status[u] # "none"}}
                 \union {row.ref : row \in imported}

Running(c) == pc[c] \notin {"idle", "done"}
RefsOfCall(c) == IF c \in Bulk THEN RefsOf(c) ELSE {RefOf[TrxOf(c)]}

\* A client waits for the answer before it sends another call about the same
\* reference number.
MayStart(c) ==
    /\ pc[c] = "idle"
    /\ \A d \in Call :
          Running(d) /\ RefsOfCall(c) \intersect RefsOfCall(d) # {} =>
              c \in Settler /\ d \in Settler /\ TrxOf(c) \in Racing

\* Mutant: the row of the transaction stays locked.
UnlockAccounts(c) ==
    /\ rowLock' = [a \in Acct |-> IF rowLock[a] = c THEN NoCall ELSE rowLock[a]]
    /\ UNCHANGED trxLock

Unlock(c) ==
    /\ rowLock' = [a \in Acct |-> IF rowLock[a] = c THEN NoCall ELSE rowLock[a]]
    /\ trxLock' = [t \in Trx |-> IF trxLock[t] = c THEN NoCall ELSE trxLock[t]]

Goto(c, place) == pc' = [pc EXCEPT ![c] = place] /\ UNCHANGED result
Return(c, answer) ==
    /\ pc' = [pc EXCEPT ![c] = "done"]
    /\ result' = [result EXCEPT ![c] = answer]

Rollback(c, answer) ==
    /\ Unlock(c)
    /\ Return(c, answer)
    /\ UNCHANGED <<tables, announced, after, bulk>>

Init ==
    /\ balance = OpeningRow
    /\ status = [t \in Trx |-> "none"]
    /\ imported = {}
    /\ rowLock = [a \in Acct |-> NoCall]
    /\ trxLock = [t \in Trx |-> NoCall]
    /\ announced = {}
    /\ after = [c \in Call |-> OpeningRow]
    /\ chunk = [b \in Bulk |-> 1]
    /\ new = [b \in Bulk |-> {}]
    /\ result = [c \in Call |-> "none"]
    /\ \E w \in World :
          /\ pc = [c \in Call |-> IF c \in w.calls THEN "idle" ELSE "done"]
          /\ faults = w.faults

-----------------------------------------------------------------------------
(***************************************************************************)
(* Before the database transaction.                                        *)
(***************************************************************************)

\* Mutant: CheckRefNumbers does not see what bulk requests stored.
DuplicateOfStored(t) == \E u \in Trx : status[u] # "none" /\ RefOf[u] = RefOf[t]
Duplicate(t) == RefOf[t] \in KnownRefs

\* StoreTransaction refuses an invalid amount, a reference number that is known and
\* an account that is not.
Acceptable(t) ==
    /\ Transfer[t].amount > 0
    /\ ~Duplicate(t)
    /\ Rows(t) \subseteq Registered

StartStore(t) ==
    /\ MayStart(t)
    /\ IF Acceptable(t) THEN Goto(t, "locking") ELSE Return(t, "error")
    /\ UNCHANGED <<tables, locks, announced, after, bulk, faults>>

\* Settling reads the status, and returns when it is already what is asked for.
StartSettle(s) ==
    /\ MayStart(s)
    /\ CASE status[TargetOf[s]] = "PENDING"                -> Goto(s, "updating")
         [] status[TargetOf[s]] = StatusAfter(ActionOf[s]) -> Return(s, "ok")
         [] OTHER                                          -> Return(s, "error")
    /\ UNCHANGED <<tables, locks, announced, after, bulk, faults>>

-----------------------------------------------------------------------------
(***************************************************************************)
(* Inside it.                                                              *)
(***************************************************************************)

\* UPDATE "transaction" SET status WHERE id: it waits for the row, not for its status.
UpdateStatus(s) ==
    /\ pc[s] = "updating"
    /\ trxLock[TargetOf[s]] = NoCall
    /\ trxLock' = [trxLock EXCEPT ![TargetOf[s]] = s]
    /\ Goto(s, "locking")
    /\ UNCHANGED <<tables, rowLock, announced, after, bulk, faults>>

Unlocked(c) == {a \in Rows(c) : rowLock[a] # c}

\* Mutant: a SELECT without FOR UPDATE.
LockNothing(c, a) ==
    /\ pc[c] = "locking"
    /\ a \in Unlocked(c) /\ \A b \in Unlocked(c) : a <= b
    /\ rowLock' = [rowLock EXCEPT ![a] = c]
    /\ UNCHANGED <<tables, trxLock, announced, pc, after, bulk, result, faults>>

LockRow(c, a) ==
    /\ pc[c] = "locking"
    /\ a \in Unlocked(c) /\ \A b \in Unlocked(c) : a <= b
    /\ rowLock[a] = NoCall
    /\ rowLock' = [rowLock EXCEPT ![a] = c]
    /\ UNCHANGED <<tables, trxLock, announced, pc, after, bulk, result, faults>>

\* Mutant: a commit does not announce.
AnnouncesStored(c) == PhaseOf(c) = "create"
\* What ends in SUCCESS is announced, before it is committed.
Announces(c) == PhaseOf(c) \in {"create", "commit"}

CalculateBalances(c) ==
    /\ pc[c] = "locking" /\ Unlocked(c) = {}
    /\ CanMove(TrxOf(c), PhaseOf(c), balance)
    /\ after' = [after EXCEPT ![c] = Moved(TrxOf(c), PhaseOf(c), balance)]
    /\ Goto(c, IF Announces(c) THEN "announcing" ELSE "committing")
    /\ UNCHANGED <<tables, locks, announced, bulk, faults>>

CalculateFails(c) ==
    /\ pc[c] = "locking" /\ Unlocked(c) = {}
    /\ ~CanMove(TrxOf(c), PhaseOf(c), balance)
    /\ Rollback(c, "error")
    /\ UNCHANGED faults

Announce(c) ==
    /\ pc[c] = "announcing"
    /\ announced' = announced \union {TrxOf(c)}
    /\ Goto(c, "committing")
    /\ UNCHANGED <<tables, locks, after, bulk, faults>>

\* What COMMIT makes visible: UpdateAccountBalance for each row, and the transaction.
Written(c) ==
    /\ balance' = [a \in Acct |-> IF a \in Rows(c) THEN after[c][a] ELSE balance[a]]
    /\ status' = [status EXCEPT ![TrxOf(c)] = StatusAfter(PhaseOf(c))]

CommitTx(c) ==
    /\ pc[c] = "committing"
    /\ Written(c)
    /\ Unlock(c)
    /\ Return(c, "ok")
    /\ UNCHANGED <<imported, announced, after, bulk, faults>>

Spend == faults > 0 /\ faults' = faults - 1

\* COMMIT is carried out and its answer lost.
CommitUnanswered(c) ==
    /\ pc[c] = "committing"
    /\ Spend
    /\ Written(c)
    /\ Unlock(c)
    /\ Return(c, "error")
    /\ UNCHANGED <<imported, announced, after, bulk>>

InTransaction(c) == pc[c] \in {"updating", "locking", "announcing", "committing"}

\* The caller is gone, database/sql has rolled back, and Atomic takes the ErrTxDone of
\* COMMIT for success.
CommitTxDone(c) ==
    /\ pc[c] = "committing"
    /\ Spend
    /\ Rollback(c, "ok")

\* The database, the publisher or the caller fails, or the process dies: PostgreSQL
\* rolls back.  Whatever is answered, nobody may hear it.
Fail(c) ==
    /\ InTransaction(c)
    /\ Spend
    /\ Rollback(c, "error")

-----------------------------------------------------------------------------
(***************************************************************************)
(* Bulk requests.                                                          *)
(***************************************************************************)
StartBulk(b) ==
    /\ MayStart(b)
    /\ Goto(b, "checking")
    /\ UNCHANGED <<tables, locks, announced, after, bulk, faults>>

ChunkAt(b) == ChunksOf[b][chunk[b]]
NewRefs(b) == ToSet(ChunkAt(b)) \ KnownRefs

\* CheckRefNumbers: a chunk that is known entirely ends the request, with success.
CheckChunk(b) ==
    /\ pc[b] = "checking"
    /\ new' = [new EXCEPT ![b] = NewRefs(b)]
    /\ IF NewRefs(b) = {} THEN Return(b, "ok") ELSE Goto(b, "storing")
    /\ UNCHANGED <<tables, locks, announced, after, chunk, faults>>

\* Each row is compared with the database, and not with the rest of the chunk: a number
\* that the chunk names twice is stored twice.
NewRows(b) ==
    {[ref |-> ChunkAt(b)[i], bulk |-> b, chunk |-> chunk[b], place |-> i] :
        i \in {j \in DOMAIN ChunkAt(b) : ChunkAt(b)[j] \in new[b]}}

\* One INSERT, which is final.  The accounts are looked up after it.
StoreChunk(b) ==
    /\ pc[b] = "storing"
    /\ imported' = imported \union NewRows(b)
    /\ chunk' = [chunk EXCEPT ![b] = @ + 1]
    /\ CASE new[b] \intersect BadRef # {}      -> Return(b, "error")
         [] chunk[b] = Len(ChunksOf[b])        -> Return(b, "ok")
         [] OTHER                              -> Goto(b, "checking")
    /\ UNCHANGED <<balance, status, locks, announced, after, new, faults>>

\* The answer to it is lost.
StoreUnanswered(b) ==
    /\ pc[b] = "storing"
    /\ Spend
    /\ imported' = imported \union NewRows(b)
    /\ Return(b, "error")
    /\ UNCHANGED <<balance, status, locks, announced, after, bulk>>

FailBulk(b) ==
    /\ pc[b] \in {"checking", "storing"}
    /\ Spend
    /\ Return(b, "error")
    /\ UNCHANGED <<tables, locks, announced, after, bulk>>

-----------------------------------------------------------------------------
Work(c) ==
    \/ \E a \in Acct : LockRow(c, a)
    \/ CalculateBalances(c) \/ CalculateFails(c)
    \/ Announce(c)
    \/ CommitTx(c)

StoreStep(t)  == StartStore(t) \/ Work(t)
SettleStep(s) == StartSettle(s) \/ UpdateStatus(s) \/ Work(s)
BulkStep(b)   == StartBulk(b) \/ CheckChunk(b) \/ StoreChunk(b)

Fault ==
    \/ \E c \in Trx \union Settler :
          CommitUnanswered(c) \/ CommitTxDone(c) \/ Fail(c)
    \/ \E b \in Bulk : StoreUnanswered(b) \/ FailBulk(b)

Next ==
    \/ \E t \in Trx : StoreStep(t)
    \/ \E s \in Settler : SettleStep(s)
    \/ \E b \in Bulk : BulkStep(b)
    \/ Fault

Spec == Init /\ [][Next]_vars

-----------------------------------------------------------------------------
TypeOK ==
    /\ balance \in [Acct -> BalanceRow]
    /\ status \in [Trx -> Statuses]
    /\ \A row \in imported : row.bulk \in Bulk /\ row.ref \in RefsOf(row.bulk)
    /\ rowLock \in [Acct -> Call \union {NoCall}]
    /\ trxLock \in [Trx -> Settler \union {NoCall}]
    /\ \A a \in Acct : rowLock[a] # NoCall => InTransaction(rowLock[a])
    /\ \A t \in Trx : trxLock[t] # NoCall => InTransaction(trxLock[t])
    /\ announced \subseteq Trx
    /\ pc \in [Call -> Places]
    /\ after \in [Call -> [Acct -> BalanceRow]]
    /\ \A b \in Bulk : chunk[b] \in Nat \ {0} /\ new[b] \subseteq RefsOf(b)
    /\ result \in [Call -> {"none", "ok", "error"}]
    /\ faults \in Nat

\* Locking, calculating on what was read and committing has the effect of one step on
\* the balances of that moment, and a transfer that is reserved is settled once, in
\* one way, whatever else is in flight.
Ledger == INSTANCE Reservations WITH balance <- balance, status <- status
ImplementsLedger == Ledger!Spec

\* A reservation is never spent on anything else: two calls that both find the money
\* there do not both take it.
Solvent == Ledger!Solvent

\* Whoever listens to the notifications hears of every transfer that succeeded, even
\* when the call that made it was never answered.
AnnouncedFirst == \A t \in Trx : status[t] = "SUCCESS" => t \in announced

\* A client that repeats a call until it is answered, or sends its transfers once more
\* in bulk, has none of them stored twice, although the table has no unique key.  Rows
\* with one number are those that one chunk of one request names together.
OnePerReference ==
    /\ \A t, u \in {v \in Trx : status[v] # "none"} : RefOf[t] = RefOf[u] => t = u
    /\ \A row \in imported :
          /\ \A t \in Trx : status[t] # "none" => RefOf[t] # row.ref
          /\ \A other \in imported :
                row.ref = other.ref => row.bulk = other.bulk /\ row.chunk = other.chunk
=============================================================================
