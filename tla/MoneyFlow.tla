------------------------------ MODULE MoneyFlow ------------------------------
(***************************************************************************)
(* The money flow summaries: one row per day and payment type that adds up *)
(* the transactions of finished orders, which people then have PAPA, the   *)
(* payment service, transfer between bank accounts.                        *)
(*                                                                         *)
(* Workers (money_flow_calc_handler.go, money_flow_calc_service.go,        *)
(* money_flow_processor.go) take notifications of orders from Kafka and    *)
(* count each of their transactions in a database transaction of its own:  *)
(* CheckInProgress and LookUp are its queries, Count its upsert and detail *)
(* row, at its commit.  A notification is delivered again after a crash or *)
(* a rebalance.  Users update a summary (BeginUpdate, EndUpdate) or switch *)
(* it on and off (BeginActivate, EndActivate), reading first and writing   *)
(* without a condition later; payment events (BeginEvent, EndEvent) find   *)
(* their summary by the id it has in PAPA and write its status.            *)
(*                                                                         *)
(* Time runs in ticks of about half a day: odd ticks begin at midnight in  *)
(* UTC, even ones at midnight in Jakarta, seven hours earlier.             *)
(***************************************************************************)
EXTENDS Integers, Sequences, FiniteSets, FiniteSetsExt, SequencesExt

CONSTANTS
    Order,        \* the orders notifications are about
    OrderOf,      \* an order's outcome and its transactions, in order
    PaymentOf,    \* the business rules: a transaction type's payment type
    Papa,         \* ids of transactions in PAPA
    Call,         \* calls of the API and payment events, each made once
    Asked,        \* what each call asks for
    IsInstant,    \* TRUE when the date column reads back as an instant
    MaxCopies,    \* bound: how often a notification is delivered
    MaxClock,     \* bound: ticks
    World         \* what happens: the orders and calls that are made, and a bound on
                  \* redeliveries, database errors and refused dead letters

None == "none"
Copy == 1 .. MaxCopies

Statuses == {"PENDING", "IN_PROGRESS", "SUCCESSFUL", "FAILED", "REJECTED"}
Unpaid == {"FAILED", "REJECTED"}

\* None stands for a field the request leaves out.
Requests ==
    [op : {"update"}, status : Statuses \union {None}, papa : Papa \union {None},
     actual : BOOLEAN]
    \union [op : {"activate"}, active : BOOLEAN]
    \union [op : {"event"}, status : Statuses, papa : Papa]

Transactions == [type : STRING, amount : Nat]

ASSUME OrdersAssumption ==
    /\ OrderOf \in [Order -> [ok : BOOLEAN, trx : Seq(Transactions)]]
    /\ \A c \in Call : Asked[c] \in Requests
    /\ {MaxCopies, MaxClock} \subseteq Nat
    /\ \A w \in World : /\ w.orders \subseteq Order /\ w.calls \subseteq Call
                        /\ w.faults \in Nat

VARIABLES
    clock,
    summaries,    \* money_flow_summaries, in the order of insertion
    details,      \* detailed_money_flow_summaries
    undone,       \* history: counts that were rolled back and taken for done
    delivery,     \* each copy of a notification and the worker that has it
    call,         \* what each call of the API has read
    faults        \* how many more there may be

tables == <<summaries, details, undone>>
vars == <<clock, summaries, details, undone, delivery, call, faults>>

-----------------------------------------------------------------------------
\* Days.

\* The day in Jakarta, by which transactions are gathered.
JakartaDay(t) == t \div 2
\* The day in UTC, which begins seven hours later.
UtcDay(t) == (t - 1) \div 2

\* Truncate(24h) cuts an instant to its day in UTC: midnight in Jakarta falls on the
\* day before; a date without an instant is read back as midnight in UTC.
TruncatedNow(d)    == d - 1
TruncatedStored(d) == IF IsInstant THEN d - 1 ELSE d

\* Mutant: the list goes by the date in Jakarta.
ListedInJakarta(row) == row.active /\ row.date < JakartaDay(clock)

\* What the list of summaries shows: the days that are over.
Listed(row) ==
    /\ row.active
    /\ IF IsInstant THEN row.date - 1 < UtcDay(clock) ELSE row.date < UtcDay(clock)

\* ToModelResponse: the total shown takes up that of the related summary.
TotalShown(rows, s) ==
    rows[s].total + (IF rows[s].related = 0 THEN 0 ELSE rows[rows[s].related].total)

-----------------------------------------------------------------------------
\* Notifications of orders.

NoTx == [step |-> "none", at |-> 0, related |-> 0]
Fresh(stage) == [stage |-> stage, next |-> 1, tx |-> NoTx]

Init ==
    /\ clock = 0
    /\ summaries = <<>>
    /\ details = {}
    /\ undone = {}
    /\ \E w \in World :
          /\ delivery = [d \in Order \X Copy |->
                Fresh(IF d[1] \in w.orders /\ d[2] = 1 THEN "queued" ELSE "absent")]
          /\ call = [c \in Call |->
                [step |-> IF c \in w.calls THEN "todo" ELSE "done", row |-> 0]]
          /\ faults = w.faults

Working(d) == delivery[d].stage = "processing"

Trx(o) == OrderOf[o].trx
Current(d) == Trx(d[1])[delivery[d].next]
Eligible(trx) == trx.type \in DOMAIN PaymentOf

\* A worker takes a notification.
Take(d) ==
    /\ delivery[d].stage = "queued"
    /\ delivery' = [delivery EXCEPT ![d].stage = "processing"]
    /\ UNCHANGED <<clock, tables, call, faults>>

\* Nack: the notification goes to the dead-letter queue, which may refuse it, and is
\* marked all the same.
Nack(d, spent) ==
    \/ /\ delivery' = [delivery EXCEPT ![d] = Fresh("dead")]
       /\ faults' = faults - spent
    \/ /\ faults > spent
       /\ delivery' = [delivery EXCEPT ![d] = Fresh("lost")]
       /\ faults' = faults - spent - 1

\* Validate: the order must have succeeded, if it has transactions at all.
Refuse(d) ==
    /\ Working(d)
    /\ Trx(d[1]) # <<>> /\ ~OrderOf[d[1]].ok
    /\ Nack(d, 0)
    /\ UNCHANGED <<clock, tables, call>>

\* Mutant: the handler is through when it has counted the first one.
CountedFirst(d) == delivery[d].next > 1

\* processTransactions has nothing left to do, or meets a type without a payment type:
\* that is an error, on which the handler acknowledges the notification, with all
\* that follows in the order.
ThroughAt(d, i) == i <= Len(Trx(d[1])) => ~Eligible(Trx(d[1])[i])
Through(d) == ThroughAt(d, delivery[d].next)

Ack(d) ==
    /\ Working(d)
    /\ Trx(d[1]) = <<>> \/ OrderOf[d[1]].ok
    /\ delivery[d].tx = NoTx
    /\ Through(d)
    /\ delivery' = [delivery EXCEPT ![d] = Fresh("marked")]
    /\ UNCHANGED <<clock, tables, call, faults>>

Rows == DOMAIN summaries

\* Mutant: the queries ask for the payment type alone.
RowsOfPayment(trx) == {s \in Rows : summaries[s].pay = PaymentOf[trx.type]}

\* What the queries of DetermineRelationship look through.
RowsOf(trx) ==
    {s \in Rows : /\ summaries[s].type = trx.type
                  /\ summaries[s].pay = PaymentOf[trx.type]}

HasInProgress(trx) == \E s \in RowsOf(trx) : summaries[s].status = "IN_PROGRESS"
HasPendingAfter(trx, failure) ==
    \E s \in RowsOf(trx) :
        summaries[s].status = "PENDING" /\ summaries[s].related = failure

\* processSingleTransaction takes its date from the clock, and begins by asking for a
\* summary in progress: if there is one, it looks no further.
CheckInProgress(d) ==
    /\ Working(d)
    /\ OrderOf[d[1]].ok
    /\ delivery[d].tx = NoTx
    /\ ~Through(d)
    /\ delivery' = [delivery EXCEPT ![d].tx =
          [step |-> IF HasInProgress(Current(d)) THEN "upsert" ELSE "lookup",
           at |-> clock, related |-> 0]]
    /\ UNCHANGED <<clock, tables, call, faults>>

\* A failure is taken up by a summary of a later day, while no pending one has it.
Evaluate(trx, failure, date) ==
    /\ TruncatedStored(summaries[failure].date) < TruncatedNow(date)
    /\ ~HasPendingAfter(trx, failure)

\* The last failed or rejected summary of the type, any of the latest day.
LastUnpaid(trx) ==
    LET unpaid == {s \in RowsOf(trx) : summaries[s].status \in Unpaid}
    IN {s \in unpaid : \A r \in unpaid : summaries[r].date <= summaries[s].date}

\* checkFailedOrRejectedRelationship, whose two queries are taken together.
LookUp(d) ==
    /\ Working(d)
    /\ delivery[d].tx.step = "lookup"
    /\ LET date == JakartaDay(delivery[d].tx.at)
           last == LastUnpaid(Current(d))
       IN \E failure \in last \union (IF last = {} THEN {0} ELSE {}) :
             delivery' = [delivery EXCEPT ![d].tx =
                 [step |-> "upsert", at |-> @.at,
                  related |-> IF failure # 0 /\ Evaluate(Current(d), failure, date)
                              THEN failure ELSE 0]]
    /\ UNCHANGED <<clock, tables, call, faults>>

NewRow(trx, tx) ==
    [date |-> JakartaDay(tx.at), pay |-> PaymentOf[trx.type], type |-> trx.type,
     total |-> trx.amount, status |-> "PENDING", papa |-> None,
     related |-> tx.related, active |-> TRUE, requested |-> FALSE, actual |-> FALSE]

\* The partial unique index: one active summary for a day and a payment type.
Conflicts(row) ==
    {s \in Rows : /\ summaries[s].active
                  /\ summaries[s].date = row.date /\ summaries[s].pay = row.pay}

Added(total, amount)     == total + amount

Upserted(row) ==
    IF Conflicts(row) = {} THEN Append(summaries, row)
    ELSE [s \in Rows |-> IF s \in Conflicts(row)
                         THEN [summaries[s] EXCEPT !.total = Added(@, row.total)]
                         ELSE summaries[s]]

\* Mutant: the detail row refers to the id that was made for a new summary.
UpsertedIdNew(row) == Len(summaries) + 1
\* The id the upsert returns.
UpsertedId(row) ==
    IF Conflicts(row) = {} THEN Len(summaries) + 1 ELSE CHOOSE s \in Conflicts(row) : TRUE

\* CreateDetailedSummary's row; the last two fields stand for the transaction's id.
Detail(row, d) ==
    [summary |-> UpsertedId(row), delivery |-> d, trx |-> delivery[d].next]

\* UpsertSummary and CreateDetailedSummary, and COMMIT.  The answer may be lost, which
\* is an error to the worker.
Count(d) ==
    LET row == NewRow(Current(d), delivery[d].tx)
    IN /\ Working(d)
       /\ delivery[d].tx.step = "upsert"
       /\ summaries' = Upserted(row)
       /\ details' = details \union {Detail(row, d)}
       /\ \/ /\ delivery' = [delivery EXCEPT ![d].next = @ + 1, ![d].tx = NoTx]
             /\ UNCHANGED faults
          \/ /\ faults > 0
             /\ Nack(d, 1)
       /\ UNCHANGED <<clock, undone, call>>

\* The session ends ahead of COMMIT and the driver has rolled back by then: Atomic takes
\* ErrTxDone for success.  If that was not the last transaction, the next one cannot
\* begin, and the notification fails.
RolledBack(d) ==
    /\ Working(d)
    /\ delivery[d].tx.step = "upsert"
    /\ faults > 0
    /\ undone' = undone \union {<<d, delivery[d].next>>}
    /\ IF ThroughAt(d, delivery[d].next + 1)
       THEN /\ delivery' = [delivery EXCEPT ![d].next = @ + 1, ![d].tx = NoTx]
            /\ faults' = faults - 1
       ELSE Nack(d, 1)
    /\ UNCHANGED <<clock, summaries, details, call>>

\* The rules are missing from the feature flag, or the database fails: the transaction
\* is rolled back, those before it stand.
Fail(d) ==
    /\ Working(d)
    /\ faults > 0
    /\ Nack(d, 1)
    /\ UNCHANGED <<clock, tables, call>>

Latest(d) == d[2] < MaxCopies => delivery[<<d[1], d[2] + 1>>].stage = "absent"

\* The notification is fetched again from the committed offset: its worker has
\* crashed, or goes on after a rebalance, or had marked it and not committed the mark.
Redeliver(d) ==
    /\ faults > 0
    /\ d[2] < MaxCopies
    /\ Latest(d)
    /\ delivery[d].stage \notin {"absent", "queued"}
    /\ \E stage \in {delivery[d].stage} \union (IF Working(d) THEN {"killed"} ELSE {}) :
          delivery' = [delivery EXCEPT
              ![d] = IF stage = "killed" THEN Fresh("killed") ELSE @,
              ![<<d[1], d[2] + 1>>] = Fresh("queued")]
    /\ faults' = faults - 1
    /\ UNCHANGED <<clock, tables, call>>

HandleStep(d) == Refuse(d) \/ Ack(d) \/ CheckInProgress(d) \/ LookUp(d) \/ Count(d)
TroubleStep(d) == RolledBack(d) \/ Fail(d) \/ Redeliver(d)

-----------------------------------------------------------------------------
\* Calls of the API, and payment events.

Update(c) == Asked[c].op = "update"
Activate(c) == Asked[c].op = "activate"
Event(c) == Asked[c].op = "event"

\* ValidateStatusTransition.
Allowed(from) ==
    CASE from = "PENDING"     -> {"IN_PROGRESS"}
      [] from = "IN_PROGRESS" -> {"SUCCESSFUL", "FAILED", "REJECTED"}
      [] from = "FAILED"      -> {"IN_PROGRESS"}
      [] OTHER                -> {}

\* Validate, ValidateStatusTransition and ValidateInProgressRequirements.
Valid(asked, status) ==
    /\ asked.status # None \/ asked.papa # None \/ asked.actual
    /\ asked.status \in {None, status} \union Allowed(status)
    /\ asked.status = "IN_PROGRESS" => asked.papa # None /\ ~asked.actual

Answer(c) == call' = [call EXCEPT ![c] = [step |-> "done", row |-> 0]]
Remember(c, s) == call' = [call EXCEPT ![c] = [step |-> "write", row |-> s]]

\* GetSummaryDetailBySummaryID, and its like for all summaries.
Readable == {s \in Rows : summaries[s].active}
ReadableAllStatus == Rows

\* UpdateSummary reads an active summary and validates against it.
BeginUpdate(c) ==
    /\ Update(c) /\ call[c].step = "todo"
    /\ \E s \in Readable :
          /\ Valid(Asked[c], summaries[s].status)
          /\ Remember(c, s)
    /\ UNCHANGED <<clock, tables, delivery, faults>>

\* ToUpdateModelWithAutoFill: the status calls for its date.
WithRequest(row, asked) ==
    [row EXCEPT !.papa = IF asked.papa = None THEN @ ELSE asked.papa,
                !.status = IF asked.status = None THEN @ ELSE asked.status,
                !.requested = @ \/ asked.status = "IN_PROGRESS",
                !.actual = @ \/ asked.actual \/ asked.status = "SUCCESSFUL"]

\* The UPDATE names the id alone.
EndUpdate(c) ==
    /\ Update(c) /\ call[c].step = "write"
    /\ summaries' = [summaries EXCEPT ![call[c].row] = WithRequest(@, Asked[c])]
    /\ Answer(c)
    /\ UNCHANGED <<clock, details, undone, delivery, faults>>

\* UpdateActivationStatus reads any summary, which must be pending.
BeginActivate(c) ==
    /\ Activate(c) /\ call[c].step = "todo"
    /\ \E s \in ReadableAllStatus : summaries[s].status = "PENDING" /\ Remember(c, s)
    /\ UNCHANGED <<clock, tables, delivery, faults>>

\* Mutant: the index is missing.
SwitchableAlways(s, active) == TRUE

\* The index refuses a second active summary.
Switchable(s, active) ==
    active => Conflicts(summaries[s]) \subseteq {s}

EndActivate(c) ==
    /\ Activate(c) /\ call[c].step = "write"
    /\ summaries' = IF Switchable(call[c].row, Asked[c].active)
                    THEN [summaries EXCEPT ![call[c].row].active = Asked[c].active]
                    ELSE summaries
    /\ Answer(c)
    /\ UNCHANGED <<clock, details, undone, delivery, faults>>

\* GetSummaryIDByPapaTransactionID takes any of these.
WithPapa(papa) == {s \in Rows : summaries[s].papa = papa}

\* ProcessTransactionStream finds a summary, active or not, by the id in PAPA, any one
\* if there are several; an event with no summary is acknowledged.
BeginEvent(c) ==
    /\ Event(c) /\ call[c].step = "todo"
    /\ LET found == WithPapa(Asked[c].papa)
       IN IF found = {} THEN Answer(c) ELSE \E s \in found : Remember(c, s)
    /\ UNCHANGED <<clock, tables, delivery, faults>>

\* What an event writes.
WithStatus(row, status) ==
    [row EXCEPT !.status = status, !.actual = @ \/ status = "SUCCESSFUL"]

EndEvent(c) ==
    /\ Event(c) /\ call[c].step = "write"
    /\ summaries' = [summaries EXCEPT ![call[c].row] = WithStatus(@, Asked[c].status)]
    /\ Answer(c)
    /\ UNCHANGED <<clock, details, undone, delivery, faults>>

\* The database refuses a write, or the caller goes away.
GiveUp(c) ==
    /\ call[c].step = "write"
    /\ faults > 0
    /\ faults' = faults - 1
    /\ Answer(c)
    /\ UNCHANGED <<clock, tables, delivery>>

EndCall(c) == EndUpdate(c) \/ EndActivate(c) \/ EndEvent(c)
BeginCall(c) == BeginUpdate(c) \/ BeginActivate(c) \/ BeginEvent(c)

\* No database transaction is open for half a day: it sees at most one tick.
Tick ==
    /\ clock < MaxClock
    /\ \A d \in DOMAIN delivery : delivery[d].tx = NoTx \/ delivery[d].tx.at = clock
    /\ clock' = clock + 1
    /\ UNCHANGED <<tables, delivery, call, faults>>

Next ==
    \/ \E d \in Order \X Copy : Take(d) \/ HandleStep(d) \/ TroubleStep(d)
    \/ \E c \in Call : BeginCall(c) \/ EndCall(c) \/ GiveUp(c)
    \/ Tick

Spec == Init /\ [][Next]_vars

-----------------------------------------------------------------------------
\* The types of the variables, and the partial unique index of the table.
TypeOK ==
    /\ clock \in 0 .. MaxClock
    /\ \A s \in Rows :
          /\ summaries[s].status \in Statuses
          /\ summaries[s].papa \in Papa \union {None}
          /\ summaries[s].related \in 0 .. Len(summaries)
          /\ summaries[s].active => Conflicts(summaries[s]) = {s}
    /\ \A d \in DOMAIN delivery :
          /\ delivery[d].stage \in {"absent", "queued", "processing", "marked",
                                    "dead", "lost", "killed"}
          /\ delivery[d].next \in 1 .. Len(Trx(d[1])) + 1
    /\ \A c \in Call : call[c].step \in {"todo", "write", "done"}
    /\ faults \in Nat

\* The total that is requested from PAPA is what the listed transactions of the summary
\* add up to, whichever workers added them at once, and whatever failed, was repeated,
\* or was switched off and on in between.
TotalMatchesDetails ==
    \A s \in Rows :
        summaries[s].total =
            SumFunctionOnSet([r \in details |-> Trx(r.delivery[1])[r.trx].amount],
                             {r \in details : r.summary = s})

\* A summary people can see, and have transferred, does not change its total any more,
\* nor does the failed one it takes up: no worker still adds to a day that is over in
\* UTC, though days begin and end in Jakarta.
ListedTotalIsFinal ==
    [][\A s \in Rows :
           Listed(summaries[s]) => TotalShown(summaries, s)' = TotalShown(summaries, s)]_vars

\* A notification that was acknowledged has had every transaction counted, up to the
\* first that no rule covers; one that failed is in the dead-letter queue, or was
\* refused there.  A session that ends at a commit may have rolled it back unnoticed,
\* which can be that of the last transaction only.
NothingForgotten ==
    \A d \in DOMAIN delivery :
        delivery[d].stage = "marked" =>
            \A i \in DOMAIN Trx(d[1]) :
                \/ \E r \in details : r.delivery = d /\ r.trx = i
                \/ \E j \in 1 .. i : ~Eligible(Trx(d[1])[j])
                \/ <<d, i>> \in undone /\ ThroughAt(d, i + 1)

\* A summary takes up the amount of an older one only, of its own type and payment:
\* relations never lead round in a circle, so every amount asked for has an end.
RelationsPointBack ==
    \A s \in Rows :
        LET r == summaries[s].related
        IN r # 0 => /\ summaries[r].date < summaries[s].date
                    /\ summaries[r].pay = summaries[s].pay
                    /\ summaries[r].type = summaries[s].type

=============================================================================
