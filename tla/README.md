# Verification of the wallet ledger (`go-fp-transaction`)

The program keeps the money of Amartha's wallets: accounts with an actual and a
pending balance, wallet transactions that move money between them, and the
consumers, jobs and reports around that. This directory holds TLA+ models of its
core, the TLC runs that check them on small instances, and TLAPS proofs of what
matters most for every size. Paths below are relative to `src/internal/`.

## 1. Inventory

| Component | State | Operations | What makes it correct |
|---|---|---|---|
| Balance arithmetic (`models/balance.go`, `models/transaction_wallet.go`, `services/common.go`) | actual, pending, limits | reserve, cancel, commit, add, withdraw; a calculator per flow and phase | refuses what the balance cannot bear; reserve then commit or cancel leaves no pending rest |
| Wallet transaction service (`services/wallet_transaction_service.go`) | tables `account`, `wallet_transaction`, `transaction` | create (direct or reserved), commit, cancel | the tables agree; each transaction settles once; no overdraft; success means committed |
| Database transactions (`repositories/sql_main.go`, `sql_balance*.go`, `sql_account.go`, `sql_wallet_transaction.go`) | row locks, open transactions | `Atomic`, `SELECT ... FOR UPDATE`, absolute `UPDATE` | no lost update, no deadlock, all or nothing |
| HVT balance consumer (`deliveries/consumer/hvt_balance_update`) | Kafka offsets, Redis keys, `account` | claim key, adjust balance, ack, nack | each credit added once; none passed over |
| Publisher (`common/publisher`) | Kafka topics | send a message | ordered per account |
| Wallet transaction queue consumer (`deliveries/consumer/process_wallet_transaction`) | Redis lock, offsets | lock, create transaction, release, dead-letter | each request executed once; none answered with PENDING vanishes |
| Legacy transaction service (`services/transaction_service.go`, `repositories/sql_transaction.go`) | `transaction`, `account` | store, bulk store, reserve, commit, cancel | each transfer takes effect in one step; a success is announced; one transfer per reference number |
| Report generation (`services/transaction_service.go`) | files in cloud storage | rotate, delete on failure | a failed report leaves no file |
| Money flow (`services/money_flow_*.go`, `repositories/sql_money_flow_calc.go`, `deliveries/consumer/money_flow_calc`, `deliveries/consumer/transaction_stream`) | summaries, their details and status | count, relate, update, activate; payment events | a total is what its details add up to; what was shown does not change; failures are taken up by later summaries |
| Reconciliation (`services/recon_*.go`, `deliveries/consumer/task_queue_recon`) | task status, files, local store | upload, match, report | a task ends; a report is exact and its own task's |
| Kafka reconciliation (`deliveries/consumer/kafka_recon`) | windows of two topics | compare | reports exactly the differences |
| Dead-letter queues (`services/dlq_processor_service.go`, `deliveries/consumer/dlq_*`, `common/dlq_publisher`) | retry status in Redis | retry, notify | a failed message is retried or reported |
| Account mutation consumer (`deliveries/consumer/account_mutation`) | `account` | upsert | the latest mutation wins |
| Accounts, master data, categories, entities, files (`services/*`) | one table or file each | single statements | validation |
| Transformers (`services/transformer`) | none; they read the tables, VAT periods and flags | about a hundred mappings from a transaction type to child transactions | settling releases what was reserved; refunds stay within the payment; reversals restore |
| HTTP handlers, jobs, command line, set-up | none | binding, validation, wiring | |

**Interaction.** An HTTP call runs the wallet service in a goroutine of its own.
Calls share nothing but the database, where `Atomic` gives each a transaction and
`GetMany ... FOR UPDATE` locks account rows in ascending order. Credits to
high-volume (HVT) accounts, whose row lock would be contended, are published with
the account number as key, so that one partition, hence one goroutine of the
consumer group, handles all credits of an account. That consumer guards itself
with an idempotency key in Redis and adds the amount with a single `UPDATE`.
A success is announced on a notification topic, which money flow and others
consume. Messages that fail go to dead-letter topics.

Reserved transactions are transformed into children twice, when they are created
and when they are settled; the children are not stored in between. The legacy
service keeps the same two tables with code of its own. Money flow adds the
transactions of finished orders up to one summary per day and payment type, which
people have the payment service (PAPA) transfer; its events come back as a stream.
An upload to be reconciled becomes a row, a file and a message; a consumer compares
the file with the day's transactions in a local key-value store.

For the clients listed in `AsyncWalletTransactionForClients`, `CreateTransaction`
only checks the request, puts it on a topic with the sorted account numbers as key
and the idempotency key as header, and answers PENDING. The queue consumer locks
the idempotency key in Redis for seven days and calls the same `CreateTransaction`,
now to execute the request.

**What is hard.** Interleavings of calls between the status check and the update,
and between reading and writing balances; lock order; a context that expires
inside a transaction; a lost answer to COMMIT; a crash between a commit and the
publication that should follow, or a publication before a commit that does not
follow; redelivery, rebalances and crashes between claiming a key and applying a
credit; a rollback that `Atomic` reports as success; lookups that go back only so many days; keys that are lost, given back or expire; an error for a transaction that stands;
children that are made anew from a configuration that has changed; totals that several
workers add to while the day ends, in Jakarta before it does in UTC; tasks whose
outcome, message, row and file are written one after the other.
`PROJECT.json` lists each at
its line under `hazards`, with the properties that would catch it going wrong.

## 2. Modules

| Module | Models |
|---|---|
| `Balance` | the arithmetic and calculators, as pure operators |
| `WalletLedger` | API calls, database transactions, row locks, publication, faults |
| `ConsumerGroup` | a topic and its consumer group: partitions, sessions, marks, commits |
| `HvtBalanceUpdate` | the HVT consumer on `ConsumerGroup`: Redis keys, balances, faults |
| `WalletQueue` | asynchronous requests on `ConsumerGroup`: the API's side, the lock, execution, the dead-letter queue, faults |
| `TransformerRules`, `TransformerTable` | the rule of every transformer, as pure operators |
| `Transformers` | wallet transactions created and settled through them, VAT periods, reversals and refunds |
| `MoneyFlow` | summaries: order notifications, relations, updates, activation, payment events, days |
| `Transfers` | what a phase of a legacy transfer does to balances and status, on `Balance` |
| `Reservations` | the abstract ledger: each transfer takes effect in one step |
| `LegacyLedger` | the legacy service: reads, locks, announcements, commits, bulk requests, faults |
| `Recon` | uploads and reconciliation tasks on `ConsumerGroup`: rows, files, local storage, faults |
| `MCWalletLedger`, `MCHvtBalanceUpdate`, `MCWalletQueue`, `MCTransformers`, `MCMoneyFlow`, `MCLegacyLedger`, `MCRecon` | instances for TLC |
| `BalanceProofs`, `ConsumerGroupProofs` | lemmas about the shared operators |
| `WalletLedgerProofs`, `HvtBalanceUpdateProofs`, `WalletQueueProofs`, `MoneyFlowProofs`, `LegacyLedgerProofs`, `ReconProofs` | theorems |

`Balance` is used by `WalletLedger` and, through `Transfers`, by `Reservations` and
`LegacyLedger`; `ConsumerGroup` by the three consumers that need its offsets.
`LegacyLedger` instantiates `Reservations` as what it implements. Four later modules take a
constant `World`, a set of scenarios: which calls are made, which faults may strike
and how many. TLC starts from each of them, so that one run covers the instances a
question needs without their product; the proofs hold for any set of worlds.

### Balance

A balance is `[actual, pending]`; its options are a constant record per account.
Each operation of `balance.go` is a guard (`CanReserve`, ...) and a function
(`Reserve`, ...). The twelve calculators of `transaction_wallet.go` all do one
thing to the source and then one to the destination: `FromOp` and `ToOp` name
them by flow and phase, `CanCalculate` and `Calculate` apply them in the code's
order, the destination reading the map the source was written to. Amounts are
unbounded integers, as `decimal.Decimal` is exact.

### WalletLedger

A call is a process: `Trx` are creations (`CreateTransaction`), `Settler` are
commits and cancellations (`ProcessReservedTransaction`).

| `pc` | Code | Actions |
|---|---|---|
| `idle` | duplicate lookup, validation, `GetById` and status check, all outside the transaction | `ReturnExisting`, `RefuseInput`, `StartCreate`; `AlreadySettled`, `RefuseSettle`, `StartSettle` |
| `updating` | `UPDATE wallet_transaction` by id | `UpdateStatus` |
| `locking` | `GetMany ... ORDER BY "accountNumber" FOR UPDATE`, one row at a time | `LockRow`, `ReadBalances`, `AccountMissing` |
| `calculating` | the loop over child transactions | `CalculateChild`, `CalculateFails`, `CreateWrites`, `SettleWrites` |
| `publishing` | HVT credits of a settlement, inside the transaction | `PublishInside`, `InsertChildren` |
| `committing` | COMMIT | `CommitTx`, `CommitTxDone`, `TimedOut` |
| `committed` | HVT credits of a creation, the notification | `PublishAfter`, `Notify` |

`tx` is the call's database transaction: `active`, or `aborted` when its context
expired and database/sql rolled it back while the goroutine runs on. Statements
on rows that the call has locked take effect with its COMMIT (`ApplyTx`): nobody
can see them before, and a rollback undoes them all. Isolation is READ COMMITTED,
the default the code leaves in place. What the transformers make of a
transaction, `Children`, is a constant; it is fixed when a transaction is created
and recomputed from the same row when it is settled.

Faults are actions with a budget: the process dies (`Crash`), a statement or
COMMIT fails (`DbError`), COMMIT succeeds but its answer is lost
(`CommitUnanswered`), the context expires (`Timeout`), the broker refuses
(`PublishInsideFails`, `PublishAfterFails`, `NotifyFails`). A month may go by for a
transaction that is done (`Age`): the duplicate lookup goes back thirty days
(`sql_wallet_transaction_query.go:70`), so that `KnownReference` passes over what is `old`.

`OneAtATime` says how clients behave: TRUE, they wait for an answer before they
send another call about the same reference. The code does not enforce it, so the
runs that need it say so and others show what happens without it.

### ConsumerGroup

A goroutine is a pair of worker and partition. `next` is the message it fetches
next, `marked` the offset marked with the session, `committed` the group's offset,
and a worker that takes a partition over starts again from there. A worker that
lost its partition stays in `running` until it notices, and its marks do not count.
The operators are parts of actions: `HvtBalanceUpdate` and `WalletQueue` conjoin
each with what their goroutine does at that point. Every consumer of the program
runs this loop; the broker and sarama are external and modelled from how
`ConsumeClaim`, `Ack` and `Start` use them.

### HvtBalanceUpdate

Each account is a partition. `pc` follows one message: `fetched`, `claimed` (the
key is set), `acking`, `nacking`. After a session is over its context is cancelled:
calls to Redis and the database fail (`ContextCancelled`), or take effect just
before (`CancelledLate`). `applied` and `nacked` are history: what was added to
each account, and which keys were given up.

### WalletQueue

| `pc` | Code | Actions |
|---|---|---|
| | `CreateTransaction` and `EnqueueTransaction` in the API | `CheckRequest`, `Enqueue`, `EnqueueFails` |
| `polling` | the loop of `ConsumeClaim` | `Fetch`, `LeaveLoop` |
| `fetched` | the header, `checkIdempotency` | `KeyMissing`, `Lock`, `Duplicate`; `LockFails`, `LockedLate` |
| `locked` | `CreateTransaction`: reference number and validation | `ReturnKnown`, `Unknown`, `Refuse` |
| `checked` | `CreateTransaction`: enqueue again or execute | `EnqueueAgain`, `Execute`, `Refuse`; `EnqueueAgainFails`, `FailAfterCommit`, `CommittedLate` |
| `releasing` | the deferred `releaseIdempotency` | `Release`, `ReleaseFails` |
| `nacking` | `Nack` | `DeadLetter`, `DeadLetterFails` |
| `acking` | `MarkMessage`, after `Nack` too | `Ack` |

A request carries its key and its reference number, so that `Request` stands for
all three; a client that repeats a request is `CheckRequest` again. Executing is
one step: what it does to the accounts is `WalletLedger`'s subject, and to the
queue it commits or does not, and answers an error or does not. For a request that is
new all four combinations occur: `Execute`, `Refuse`, `FailAfterCommit`, and
`RolledBack`, where the database context ended ahead of COMMIT, by its timeout or with the
session, and `Atomic` takes the rollback for success. `undone` remembers those. `Known` is
the lookup over thirty days, `old` counts the executions that are further back (`Age`). `Relisted` are the requests of clients that the
consumer's own configuration lists, too; `CheckReference` whether the flag makes
`CreateTransaction` look the reference number up. `Release` needs a live session:
the code releases with the session's context.

### TransformerRules, TransformerTable and Transformers

`TransformerRules` has the form of a rule and the rules in alphabetical order up to
merchants, `TransformerTable` the others and how they are applied. A rule is a record: what
a transformer needs, which entity and metadata it reads and writes, and the children it
makes. `Registry` maps the types to rules; the transformers
that look at configuration, flags, VAT or other parts of the transaction (`Computed`)
and those that read the tables (`RVRSL`, `RFDTX`, `RFDTF`) are operators of their
own. `Transform` is `MapTransformer.Transform`: the net amount, then every positive
part, one refusal refusing all.

`BeginCreate` and `EndCreate` are `CreateTransactionAtomic`, which transforms before it
opens its database transaction; `BeginSettle` and `EndSettle` are
`ProcessReservedTransaction`, which writes the status and transforms inside it. Between
the two anything else may happen. Metadata is the set of keys present plus the value
of "entity", which the transformers overwrite and which is stored with a new row.
`World` is a set of scenarios: what clients ask for, the environment (the value the flag for
RPYAB and RPYAC is deployed with among it), which kinds of changes there are and how many.
`Change` begins or ends a VAT period or switches between internal and external account
configuration, `NextDay` is midnight. Of the balances only the pending ones are kept: funds
suffice here, the rest is `WalletLedger`.

A reversal asks for the rows of its reference number that are dated between
`ReversalTimeRangeDays` ago and today (`rvrsl.go:33`). `GetList` is that query: rows have
the date of the time the client gave, so that a row may be posted today and lie outside the
window, or leave it between reserving and settling. The query goes to a replica that may be
behind, and a broken connection ends the list without an error; a *look* is what a call was
shown, `FullLook` all there is, `RowsCut` and `ListsCut` less than that. The list of wallet
transactions is read from the primary, so it is cut by its connection only, and not inside a
database transaction, which would be lost with it. Refunds are added up under the reference
number of the payment that the refund names (`rvrsl.go:108`), whatever number the refund has
itself; scenario `Crossed` has refunds of one payment under two numbers, and `Joined` a second
transaction posted under the number of the one that is reversed. `shown` and `inserted` are
history: what each call was shown, and in which order rows were inserted.

### MoneyFlow

| Code | Actions |
|---|---|
| `ConsumeClaim`, `handleProcessingResult` | `Take`, `Refuse`, `Ack`; `Fail`, `Redeliver` |
| `DetermineRelationship` | `CheckInProgress`, `LookUp` |
| `UpsertSummary`, `CreateDetailedSummary`, COMMIT | `Count` (its answer may be lost), `RolledBack` |
| `UpdateSummary` | `BeginUpdate`, `EndUpdate`, `GiveUp` |
| `UpdateActivationStatus` | `BeginActivate`, `EndActivate` |
| `ProcessTransactionStream` | `BeginEvent`, `EndEvent` |

A delivery of a notification is a process of its own, so that an order that is
delivered again may be counted by two workers at once. Calls read in one step and
write without a condition in another. The clock ticks at midnight in Jakarta and at
midnight in UTC, seven hours later; `TruncatedNow` and `TruncatedStored` are what
cutting an instant to 24 hours does to a day, `IsInstant` says how the driver reads a
DATE back. A database transaction is open for less than a tick's length. `RolledBack` is a
session that ends ahead of COMMIT: `Atomic` takes the rollback for success and the loop goes
on. The next transaction of the order cannot begin, so the notification fails; if there is no
next one, it is acknowledged, and `undone` remembers it.

### Transfers, Reservations, LegacyLedger

`Transfers` gives each phase of a transfer (create, reserve, commit, cancel) its guard
`CanMove` and its effect `Moved`, both from `Balance`. `Reservations` is the
specification a client has in mind: `Enter` and `Settle`, each one step on the balances
of that moment. `LegacyLedger` is how the service does it:

| `pc` | Code | Actions |
|---|---|---|
| `idle` | lookup of the reference number or the status, outside the transaction | `StartStore`, `StartSettle`, `StartBulk` |
| `updating` | `UPDATE "transaction"` by id | `UpdateStatus` |
| `locking` | `GetAccountBalances` for update, then the calculator | `LockRow`, `CalculateBalances`, `CalculateFails` |
| `announcing` | `publishNotificationSuccess`, inside the transaction | `Announce` |
| `committing` | COMMIT | `CommitTx`; `CommitUnanswered`, `CommitTxDone` |
| `checking`, `storing` | a chunk of a bulk request, without a transaction | `CheckChunk`, `StoreChunk`; `StoreUnanswered`, `FailBulk` |

A chunk is a sequence: each of its rows is compared with the database and not with the
others (`transaction_service.go:709`), so that `NewRows` has a row for each place of a number
that was not found. `Racing` are the transfers whose settling calls do not wait for each other. Rows are
locked in the order of account numbers, as an index scan finds them; the query has no
`ORDER BY`, see the hazards.

### Recon

`upload` follows `UploadReconTemplate`: received, row created, message published, and
the two ways of undoing; `Answer` is the deferred Close of the file, which makes it
visible, and the answer. `pc` follows a goroutine of the consumer:

| `pc` | Code | Actions |
|---|---|---|
| `fetched`, `read` | `prepareReconHistory` | `ReadRow`, `SetProcessing` |
| `ready` | `createLocalStorage`, which locks its directory | `OpenStorage`, `StorageLocked` |
| `open` | `streamTransactionsToLocalStorage` | `StreamAll`, `StreamCut` |
| `streamed` | `reconcileRecordsAndGenerateReport` | `Report`, `ReportOver`, `ReportUnclosed`, `ReportFails` |
| `reported`, `failing` | `updateReconHistoryStatus` | `SetSuccess`, `SetFailed` |
| `closing`, `cleaning` (`_ok` after success) | `closeLocalStorage` | `CloseStorage`, `CleanStorage` |
| `acking` | `MarkMessage`, after success only | `Ack` |

`Compared` is the matching itself, a fold over the rows of the file. As a row is compared
by identifier and amount only, storage and report are counts: how many transactions are
left, how many rows matched, how many are in the file only. What is streamed is `Shown`: the
filter has a date but neither start nor end, so the query adds the last seven days
(`sql_transaction_query.go:316`) and a day outside them, older or still to come, is empty; the
task's type is not part of the query (`:302`), so that transactions of every type are in it.
`today` counts from the day of the uploads, and `NextDay` is midnight. A row takes away a transaction
of its identifier and amount, and what is left over is in the database only. Errors end in
`Drop`, which puts the task into the history variable `dropped`: the error was logged, the
message was not marked. A report's name says the second it was made in: `ReportOver` is a
report that replaces the one before. `spoiled` marks a report made from a cut stream, one
that replaced another task's, and one made from a storage that was opened while its
predecessor was being removed. The names of uploaded files are taken to be unique. A
process that dies loses its directory with its container, and `Crash` is of a worker with
one goroutine.

## 3. Runs

| Run | Instance | Shows |
|---|---|---|
| `settle` | 2 accounts, 2 reservations and a direct transfer the other way, 2 settling calls on any of them, 1 crash or database error | types; no lost update; account and transaction tables agree; no overdraft beyond the limit; no deadlock of row locks; success means committed |
| `race` | 1 reservation, 1 transfer, 2 settling calls that do not wait for each other, 1 timeout | a reservation settles once and stays settled; every call returns |
| `credits` | 5 accounts, one HVT, one skipped, one unknown; a reservation and a direct request with the same reference number, a cash-in, a reserved cash-in, 2 settling calls, 2 crashes, database errors, lost answers, refused messages or months | credits are published with the right amount, once by a direct call that answers ok, at least once for a committed reservation, and never for a direct transaction that did not commit; one transaction per reference number in thirty days |
| `hvt_once` | 1 account, 2 workers, 3 messages of 2 transactions, 4 crashes, rebalances or failed updates | types; a credit is added at most once; offsets and keys lose none but to a crash, which leaves its key |
| `hvt_settle` | the same with 2 rebalances, Redis failures, failed or unanswered updates or lost keys | every credit is in the end added or given up, hence none is passed over |
| `queue_once` | 2 requests on 1 partition, the client of one on the consumer's own list, 2 workers, 3 messages, 2 crashes, rebalances or failures | types; a request is executed at most once and put back at most once |
| `queue_settle` | 2 requests, one without a key, with the reference lookup; 2 rebalances, failures, timeouts, errors after the commit, expiries or months | no request answered with PENDING vanishes but by a rollback taken for success; each settles |
| `transform` | every transformer alone; repayments and disbursements with their parts in either order; a transfer with a fee and two reversals, dated today or the day before; two transactions of one number and a reversal; a QRIS payment and two refunds, also of two payments under two numbers; one change of VAT or account configuration with either value of the flag, or one midnight or incomplete look of a reversal | settling releases exactly what was reserved; reversals that saw everything restore; refunds that were counted stay within the payment; withholding and VAT neither add nor lose; a reservation can always be given back |
| `moneyflow` | two orders, one with a type no rule covers, one of two transactions that may fall on two days, a failed order; a request that fails, switching off and on; 2 redeliveries, lost answers, rollbacks taken for commits or refused dead letters; 5 half days | totals are what details add up to; nothing acknowledged is forgotten; relations point back; a listed total is final |
| `legacy` | four worlds over 4 accounts: commit racing cancel; two reservations and a repeated call; a reference number again in a transfer, in two bulk requests and in one chunk; scarce funds; 2 faults | reservations are never spent; successes are announced; one row per reference number, or one chunk; the service implements `Reservations` |
| `recon` | every file of two rows against every day of up to three transactions; days in and out of the last week; one task with two faults of any kind or midnights; two tasks on one partition with a crash, rebalance, failure or midnight; two tasks in one process | reports are exact and a task's own; a refused upload leaves no row; tasks end, hence offsets skip none |
| `double_settle` | 2 reservations on one account, 2 commits of one of them | a counterexample: both commits succeed |

Two accounts suffice for lock cycles and for money in both directions; a
reservation with two children exercises the loop and the accumulated balance; two
settling calls are what a race needs; opening balances allow some orders of the
calls and refuse others, so that both outcomes of each check occur. `MaxFaults`,
`MaxTopic` and the number of calls are the only bounds of the wallet's runs; nothing
else is cut off. Two workers are what a rebalance needs, and three messages let a
request and its repetition stand behind another one. In `queue_settle` copies of a
request share a partition, as its key makes them; the lookup and the commit are two
steps, but the copies of one request are handled one after the other or under its
lock.

The later runs start from each scenario of `World`, which bounds calls and faults:

- `transform` (about 40,000 states): one change, enough to fall between any two steps of a
  reservation. Rules depend on nothing else; those of `Computed` and the split transactions
  meet a change of VAT period or account configuration, reversals and refunds a midnight or a
  look that shows less. A window of one day (`ReversalTimeRangeDays` = 1) and requests dated
  today or the day before contain a row that leaves the window, one that stays, and
  transactions of one number of which some are in it. VAT is 0 or 11 percent, and amounts are
  such that rounding matters.
- `moneyflow` (about 118,000): `MaxCopies` = 2 deliveries of a notification may be in
  flight together; `MaxClock` = 4 ticks span two midnights in Jakarta and two in UTC.
- `legacy` (about 18,000): two faults let an error and its repetition fail too.
- `recon` (about 163,000): files of two rows over two identifiers and two amounts
  against days of up to three transactions contain every pair of equal, missing and
  surplus rows, and one identifier twice on either side.

### A counterexample, and known behaviours

`double_settle` refutes a sentence of the repository (`findings` in `PROJECT.json`):
two commits of one reservation both succeed when the source account has other money
reserved. The status is checked before the transaction and overwritten by id; only the
pending balance stands in the way, and it is not this transaction's alone. In `race`,
with no other reservation on the account, it does stand in the way: that is what the
run shows.

The models contain the following, on which no document takes a position. The
properties state what holds beside them.

- Two concurrent requests with one reference number are both executed, by the wallet
  service (`wallet_transaction_service.go:42`, `:636`) and by the legacy one
  (`transaction_service.go:597`).
- A database context that ends between the last statement and COMMIT, by a timeout or with
  the session, is answered with success, because `Atomic` maps `sql.ErrTxDone` to nil
  (`sql_main.go:127`). The queue consumer acknowledges such a request and its lock stays;
  money flow does not count the last transaction of an order. `NothingForgotten` of either
  module and `RequestsSettle` exempt those (`undone`), and nothing else.
- The wallet service looks for a reference number in thirty days
  (`sql_wallet_transaction_query.go:70`). A client that repeats a request after that has it
  executed again, with the lock expired after seven days:
  `OneTransactionPerReference` and `ExecutedOnce` are about what the lookup can find.
- The queue consumer releases its lock with the context of the session; when the error
  is that this context is cancelled, the release fails with it and the key stays for
  seven days (`process_wallet_transaction_handler.go:150`).
- A consumer whose configuration lists the client of a message takes the request for a
  new one, puts it back, and drops the copy as a duplicate
  (`wallet_transaction_service.go:63`).
- A crash between claiming a key and doing the work loses a credit or a request; a
  request the dead-letter queue refuses is logged and marked.
- The roll-out of LCE subtracts amounts before a request is enqueued and again when it
  is executed (`wallet_transaction_service.go:54`); `WalletQueue` has no amounts.
- Two reversals or refunds prepared at the same time both go through, as what was
  already reversed is read before the transaction (`rvrsl.go:66`, `:117`). The model has one
  at a time (`OneAtATime`).
- A reversal reverses the rows it is shown. If some are outside the window, if the replica
  is behind or the list was cut (`sql_transaction.go:237`), it reverses a part, or sees no
  reversal before it and is the second. `ReversalRestores` is about reversals that were
  shown every row of their number, and says that there is one at most.
- A reserved reversal that finds other rows when it is settled releases something else than
  it reserved, from the accounts of either rows: `PendingIsReserved` exempts those accounts
  (`Shaken`), and only those. One that finds none any more, or that another overtook, can
  neither be committed nor cancelled; nor can a reservation stored without metadata. A
  reserved refund of more than half of its payment can only be cancelled.
- Nothing compares the reference number of a refund with that of the payment it names. One
  under another number is not counted against the payment (`rvrsl.go:108`), and neither are
  wallet transactions missing from a list that was cut (`sql_wallet_transaction.go:225`):
  `RefundsWithinOriginal` adds up the refunds that carry the payment's number and were
  accepted with the whole list (`Counted`). `ReservationsSettle` exempts refunds beside one
  that was not counted (`Overdrawn`), as they may not fit any more.
- The refund RFDTX never asks whether it was made before (`rfdtx.go:33`), and a VAT
  part rounded to nothing refuses a whole disbursement (`dsbrp.go:150`).
- A notification that is delivered again is counted again; the first transaction that
  no rule covers ends the loop over its order, which is then acknowledged
  (`money_flow_calc_service.go:695`). A payment event writes whatever status it
  carries, whatever the order of events (`:189`), into any summary with its id
  (`sql_money_flow_calc.go:469`). A failed summary that was taken up by a later one may
  be requested again, and its amount paid twice.
- A legacy commit announces success before it commits (`transaction_service.go:817`). A
  chunk of which everything is known ends a bulk request with success, its later chunks
  not stored (`:721`), and a number named twice in a chunk is stored twice (`:709`).
- A reconciliation task whose processing fails before the comparison stays in
  processing (`recon_service_process_task.go:42`); a broken connection looks like the
  end of the day (`sql_transaction.go:331`); a task about a day of more than a week ago ends
  with success and a report in which every row is in the file only
  (`sql_transaction_query.go:316`), and transactions of other types are reported as in the
  database only (`:302`); a report whose Close failed counts as
  written (`recon_service_process_task.go:153`); the file of a refused upload is stored
  after it was deleted (`recon_service.go:248`). Reports of one second overwrite each
  other, and so do uploads of one second, which `Recon` leaves out.

**Fairness.** `EveryCallReturns`, `CreditsSettle` and `RequestsSettle` assume weak
fairness of each call or goroutine as a whole: the Go scheduler runs every goroutine that can run,
and PostgreSQL grants row locks in the order they are asked for. `TasksEnd` assumes the
same of upload handlers and of consumer goroutines. No fairness is assumed of clients,
faults or offset commits, with one exception: `ReservationsSettle` says that a
reservation *can* be given back, so it supposes a client that cancels until it is
accepted and a database that does not fail that client every time (strong fairness of
both, as either may be disabled meanwhile by another call). `Finished` and `Drained` are
the states of the wallet's runs in which nothing is left to do; deadlock is checked
everywhere else. The four later runs end when all calls are made, and do not check it.

## 4. Proofs

All theorems hold for every value of the constants that the modules' assumptions
(`AcctAssumption`, `TrxAssumption`, `HvtAssumption`, `QueueAssumption`,
`OrdersAssumption`, `TransfersAssumption`, `LegacyAssumption`, `ReconAssumption`) allow: any set of accounts,
any calls, flows, children, requests, files, scenarios, faults.

- `WalletLedgerProofs!TypeCorrect`: `Spec => []TypeOK`. One lemma per group of
  actions; `CalculateType` in `BalanceProofs` says that calculators return
  balances, `CreditType` that credits are messages.
- `WalletLedgerProofs!UpdatesKept`: `Spec => []NoLostUpdate`. With the types
  `NoLostUpdate` is inductive. `OthersKept(c)` collects what a step of call `c`
  leaves alone: places, transactions and readings of other calls, their locks,
  and the rows under those locks. `StepKeeps` reduces every action to two facts:
  it keeps the others, and `c` is guarded if it is critical afterwards.
  `ApplyKeeps` is the heart: a commit overwrites only rows its call has locked,
  which is the invariant itself, so they are nobody else's. Without the clause
  that the lock is held, the equality of the row with the reading would not be
  preserved by another call's commit.
- `WalletLedgerProofs!LimitsRespected`: `Spec => []AvailableWithinLimit`, if the opening
  balances respect the limits (`OpensWithinLimit`) and limits are not negative
  (`LimitsAreNatural`; the code takes any number it finds, `repositories/common.go:43`, and
  a negative one would ask for a minimum that payments of other types need not keep). What
  a call has calculated respects them (`CalculatedWithinLimit`), and a commit writes only
  that.
- The life of a transaction. `SomeoneDoes` reduces a step to one call that does one of nine
  things (`Does`): it declines, begins, reads balances, calculates a child, moves on,
  aborts, commits, takes a rolled back transaction for committed (`SlipsThrough`), or
  tells. `ChildrenPostedOnce` and `SettledForGood` state `PostedOnce` and `StatusIsFinal`
  under `OneAtATime`. Their invariant `WaitingClients` says that one call at most is in
  flight about a transaction and that a settling call in flight finds it pending. The run `race` checks the same two properties of calls that do not wait,
  for one reservation that stands alone; in general they are false then, as
  `double_settle` shows.
- `WalletLedgerProofs!ReferenceRecordedOnce`: `OneTransactionPerReference` under
  `OneAtATime`, for the transactions of the last thirty days: what has become old is
  passed over by the lookup and by the property alike. A number that a call looked up without finding it stays free until that
  call commits (`ReferenceFree`).
- `WalletLedgerProofs!SuccessIsCommitted`: `SuccessMeansCommitted` under `OneAtATime` and
  without timeouts; with them it is false (section 3). No transaction is aborted
  (`NoneAborted`), so what was answered was committed (`CommittedAsAsked`) and is final.
- `WalletLedgerProofs!CreditsCommitted`: `NoCreditWithoutCommit` without timeouts, whether
  clients wait or not: a direct creation publishes after its COMMIT was answered
  (`DirectSucceeded`).
- `WalletLedgerProofs!LedgerAgrees`: `Spec => []LedgerBalanced` under `OneAtATime`. A commit
  changes each balance by what the transaction's children bring and take:
  `CalculatedSoFar` says so of the children calculated so far (`BroughtBy`, `TakenBy`), and
  the rows were those of the table by `NoLostUpdate`. The sum over all transactions then
  changes in one place (`FiniteRecorded`: only finitely many were made). `BalanceProofs`
  has the lemmas about sums over sets, among them that adding a member adds its value.
- `WalletLedgerProofs!CreditsAreSent`: `Spec => []CreditsPublished`, with no hypothesis.
  What a call has still to send is what its children bring to accounts it has not yet sent
  to (`SendingDue`); what was sent stays in the topic; a settling call sends everything
  before it commits (`SettlerSent`), a direct one before it answers (`DirectSent`).
- `HvtBalanceUpdateProofs!TypeCorrect`: needs that a busy goroutine is running
  and its message lies within its topic (`HasMessage`). What each step of the group
  keeps is a lemma of `ConsumerGroupProofs`, shared with the queue.
- `HvtBalanceUpdateProofs!CreditedOnce`: `AppliedOnce` under `Reliable`, the
  absence of Redis failures, lost answers and expiry. The inductive invariant
  `OnceInv` adds: the key a goroutine holds is set (`KeyTaken`) and held by it
  alone (`KeyOwned`); the key of a credit that was added is set (`DoneTaken`) and
  nobody holds it (`DoneFree`). A crash or a cancelled context leaves a key that
  nobody holds, which harms nobody here (and loses the credit). Without
  `Reliable` the property is false: Nack gives back a key after a lost answer.
- `HvtBalanceUpdateProofs!NoCreditForgotten`: `CreditsKept` under `Traceable`: processes
  die or keys expire, not both (with both, a credit can go without a trace). A credit is
  `Dealt` with once it was added or given up or is in good hands: where a process may die,
  once its key is set, and where none does, while a goroutine holds it. `KeptInv` says that
  every key is that of a credit dealt with, which is why `AlreadyClaimed` may pass one
  over, and that so is everything before an owner's position, a mark or a committed
  offset, which is why a rebalance or a restart may begin there.
- `WalletQueueProofs!TypeCorrect`: as above, with `HasRequest`.
- `WalletQueueProofs!ExecutedAtMostOnce` and `ReturnedAtMostOnce`: `ExecutedOnce`
  and `ReturnedOnce` under `Reliable`: no error follows a commit and no key
  expires. Crashes, rebalances and failures of Redis and the brokers are allowed.
  `OnceInv`: who holds a lock holds it alone (`LockTaken`, `LockOwned`) and for a
  request not yet executed (`HeldFresh`); the lock of a request that was executed
  is set (`DoneTaken`), so nobody gets it again.
- `WalletQueueProofs!ExecutedOnceByLookup`: `ExecutedOnce` under `CheckReference` alone,
  whatever fails. Keys may expire and be given back here; what counts is that a goroutine
  that has looked its request up still holds the lock and the request was not executed
  since (`CheckedFresh`). A key that expires is one whose lock nobody holds: seven days are
  longer than any handling. The lookup goes back thirty days, and so does what is proved:
  executions further back are in `old`, which never exceeds `executed` (`OldExecuted`). The
  run `queue_once` checks the property without the lookup, by the lock alone.
- `WalletQueueProofs!NoneForgotten`: `NothingForgotten` under `Lossless`: no
  crash, a dead-letter queue that answers, no client on the consumer's list. A request is
  `Covered` once it is being handled, executed, dead-lettered or rolled back unnoticed
  (`undone`), and stays so (`ProcessCovers`). `KeptInv` says that locked requests are covered, which is why
  `Duplicate` may drop one, and that everything before an owner's position, a mark
  or a committed offset is covered, which is why a rebalance may start there.

- `LegacyLedgerProofs!AlwaysSolvent`: `Spec => []Solvent` if the opening balances are
  solvent (`OpeningSolvent`). `Shapes` reduces every action to one of a few forms:
  something outside the tables, a call that begins, proceeds, locks a row, calculates,
  commits or gives up. `HeldInv` is the invariant: a call that has calculated holds the
  rows it calculated on, and what it calculated is what the phase makes of them now
  (`Held`). So a commit is `Moved` of the balances of that moment (`CommitMoves`), and
  the calculators keep accounts solvent (`MoveSolvent`).
- `LegacyLedgerProofs!ImplementsReservations`: `Spec => ImplementsLedger`, the
  refinement of `Reservations`, if no two settling calls of one transfer are in flight
  together (`Serial`). Two more invariants: a call under way is the only one about its
  transfer (`Alone`), so the status it read is still the status (`Fresh`). A commit is
  then `Enter` or `Settle` (`StepImplements`), every other step a stutter. Without
  `Serial` the theorem is false, as `double_settle` shows of the same code in the wallet
  service.
- `LegacyLedgerProofs!SuccessAnnounced`: `Spec => []AnnouncedFirst`. A call that waits for
  its COMMIT has announced, unless it need not (`AnnouncedOnTheWay`), nothing
  is taken back, and what shows as done was committed by such a call. `Serial` is not needed.
- `LegacyLedgerProofs!OneRowPerReference`: `Spec => []OnePerReference`. `RefsInv` has two
  parts besides: calls in flight share no reference number, unless both settle one
  transfer (`Apart`), and a number a call did not find stays unknown until that call stores
  it (`Unknown`). So a row that is inserted has a number that no row has but those of its own
  chunk, though no index says so and the lookup was made outside the transaction.
- `LegacyLedgerProofs!TypeCorrect`: `Spec => []TypeOK`. Beside the types of `Shapes` it needs
  that a lock belongs to a call whose database transaction is open (`LockInv`) and that what
  a bulk request has stored is what it was asked to (`RestInv`).
- `MoneyFlowProofs!TypeCorrect`, `CountedWhole`, `NoCircles`: `TypeOK`, `NothingForgotten`
  and `RelationsPointBack`. `Shapes` says what a step may do to a delivery, `RowSteps` what it
  may do to the table: rows stay where they are, with their day, type and relation
  (`RowsStay`), and a new one is what a worker had in hand (`Entered`). `Counting`: what lies
  behind a worker in its order has a detail row; with `Through`, the guard of `Ack`, that
  is all of it (`ThroughCovers`), but for a last transaction that is in `undone`. `Found`: what a worker found stays something it may take
  up until its upsert, since rows keep their day. The unique index is used nowhere but for
  itself (`Unique`): counting and relations do not rest on it.
- `MoneyFlowProofs!TotalsRight`: `Spec => []TotalMatchesDetails`. A step adds a detail and
  its amount in one database transaction, or neither, whatever two workers have read
  before; no other step writes a total. The sum over the details of a summary grows by
  what the step adds.
- `MoneyFlowProofs!ListedForGood`: `Spec => ListedTotalIsFinal`, if dates are read back as
  dates (`~IsInstant`). What a worker is about to upsert it has dated a tick ago at most
  (`InTime`), so not on a day that is over in UTC (`PastStays`); and the failed summary that
  a listed one takes up is older still (`NoCircles`). The schema is not in the repository.
  If the column held an instant, midnight in Jakarta would be the evening before in UTC, the
  list would show a day while it is counted, and the theorem would be false.
- `ReconProofs!RefusedIsForgotten`: `Spec => []RefusedLeavesNoRow`, with `RowInv`: an
  upload that was undone or refused has no row, and goroutines only write into rows there
  are. An upsert in their place would bring a row back.
- `ReconProofs!OwnReports`: a row whose task succeeded names a report made for that
  task, unless the report was spoiled. `HandInv` says what a goroutine has in hand,
  `ReportInv` that paths of rows and goroutines lead to reports of their own task.

- `ReconProofs!ReportsExact`: `Spec => []ReportIsExact`. `WholeDayIsExact` says that comparing
  a file with everything that is shown of a day counts right whatever the file and the day: what matched came from
  the storage, every row was counted once, and a row is in the file only when no transaction
  of its key is left (`Tally`). That holds after every number of rows, or there were a least
  number after which it does not (`LeastOfSome`), which is not zero and not the successor of
  one after which it does. `StorageInv` follows the storages: one goroutine holds a storage,
  one that nobody holds or cleans is empty (`EmptyWhenFree`), and the holder of one that is
  not spoiled has nothing in it or all that is shown of the day (`FreshWhenHeld`). `SoundInv` carries the
  comparison from the report to the end.
- `ReconProofs!TypeCorrect`: `Spec => []TypeOK`, from the same invariants.

Every property of a run is stated by a theorem, except for the following, which only TLC
checks.

- Liveness under fairness: `EveryCallReturns`, `CreditsSettle`, `RequestsSettle`,
  `ReservationsSettle` and `TasksEnd`. The prover does not reason about ENABLED.
- The properties of `Transformers`. They are about each rule of a finite table of about a
  hundred, which the run goes through completely, and about sums over the children each rule
  makes: folds over sequences of any length, so that a proof would be an induction over data.

## 5. Not modelled, and why

- **Dead-letter retries.** The retries are made by an external queue service. Read but not
  modelled: a message whose retry cannot be queued is not marked, but the mark of the
  next one covers it (`dlq_retrier_handler.go:62`); the id of a retry contains the time,
  so that a dead letter delivered twice makes two jobs
  (`dlq_processor_service.go:161`); the counter in Redis is read, increased and written
  around the request (`retry_dlq_status.go:63`); failed orders are posted to a path that
  the router does not register (`dlq_processor_service.go:199`).
- **Report generation.** One job over files of its own. Deleting them after a failure names
  the last file in every turn of the loop (`transaction_service.go:565`).
- **Kafka reconciliation and the daily balance.** They compare and report, and nothing
  depends on them. Its goroutines append to one map without a lock
  (`kafka_recon/kafka.go:163`), and the nil message of a closed channel is dereferenced
  (`:153`).
- **Account services and mutations.** Single statements; `RemoveDuplicateAccountMigration`
  (`account_service.go:268`) reads two accounts and deletes one without a transaction,
  and is a tool for a migration.
- **Cache, master data, categories, entities, files, HTTP binding, set-up, jobs.** Single
  statements, reads, or pure I/O.
- **Within modelled components.** Listing, paging and counting, which only read; enrichment
  and formatting of notifications; logging and metrics; names and descriptions of
  children.

## 6. Plan

1. `WalletSystem`: `WalletLedger` and `HvtBalanceUpdate` composed over one account
   table and one topic, credits and row locks meeting on the same rows (among them
   the empty credit of a cancellation that was rolled back, which uses up the key
   of the credit that follows).
2. `WalletLedger` as a second implementation of a ledger of reservations, with children,
   under `OneAtATime`.
3. `DlqRetry`, once it is known what the external queue service promises.
4. Proofs: that `Transformers` releases what it reserves for any table of rules that make
   the same children twice.
