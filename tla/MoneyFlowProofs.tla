---------------------------- MODULE MoneyFlowProofs ----------------------------
(***************************************************************************)
(* Proofs about MoneyFlow, for any orders, rules, calls and faults:        *)
(*                                                                         *)
(*   TypeCorrect    TypeOK, with the unique index of the active summaries; *)
(*   CountedWhole   NothingForgotten: a notification that is acknowledged  *)
(*                  has been counted;                                      *)
(*   NoCircles      RelationsPointBack: summaries take up older ones;      *)
(*   TotalsRight    TotalMatchesDetails: a total is the sum of details;    *)
(*   ListedForGood  ListedTotalIsFinal: a total that is listed is final.   *)
(*                                                                         *)
(* Types and Counting are about one delivery at a time.  Relations need    *)
(* what a worker has found between its queries and its upsert (Found), and *)
(* that rows are never moved, removed or given another day (RowsStay).     *)
(* Totals need that a step adds details and their amount together or not   *)
(* at all; the sums are those of BalanceProofs.                            *)
(* A total is final once its day is over in UTC, as a worker dates what it *)
(* counts a tick before at most (InTime).                                  *)
(***************************************************************************)
EXTENDS MoneyFlow, BalanceProofs

Stages == {"absent", "queued", "processing", "marked", "dead", "lost", "killed"}

Tx == [step : {"none", "lookup", "upsert"}, at : Nat, related : Nat]

Summary ==
    [date : Int, pay : {PaymentOf[type] : type \in DOMAIN PaymentOf},
     type : DOMAIN PaymentOf, total : Nat, status : Statuses,
     papa : Papa \union {None}, related : Nat, active : BOOLEAN,
     requested : BOOLEAN, actual : BOOLEAN]

Deliveries == Order \X Copy

Types ==
    /\ clock \in 0 .. MaxClock
    /\ summaries \in Seq(Summary)
    /\ delivery \in [Deliveries -> [stage : Stages, next : Nat \ {0}, tx : Tx]]
    /\ call \in [Call -> [step : {"todo", "write", "done"}, row : Nat]]
    /\ faults \in Nat

\* A worker that has begun with a transaction has one to count.
Begun ==
    \A d \in Deliveries :
        /\ delivery[d].next <= Len(Trx(d[1])) + 1
        /\ delivery[d].tx.step # "none" => ~Through(d)

\* The partial unique index.
Unique ==
    \A s \in Rows : summaries[s].active => Conflicts(summaries[s]) = {s}

\* A transaction has its detail, or was rolled back as the last one.
Counted(d, i) ==
    \/ \E r \in details : r.delivery = d /\ r.trx = i
    \/ <<d, i>> \in undone /\ ThroughAt(d, i + 1)

\* What a worker has left behind it has been counted.
Counting ==
    \A d \in Deliveries : \A i \in 1 .. delivery[d].next - 1 : Counted(d, i)

\* What a worker may take up: an older summary of the transaction's type.
Older(r, trx, date) ==
    /\ r \in Rows
    /\ summaries[r].date < date
    /\ summaries[r].type = trx.type
    /\ summaries[r].pay = PaymentOf[trx.type]

\* What a worker has found, it may still take up.
Found ==
    \A d \in Deliveries :
        delivery[d].tx.step # "none" /\ delivery[d].tx.related # 0 =>
            Older(delivery[d].tx.related, Current(d), JakartaDay(delivery[d].tx.at))

Related == \A s \in Rows : summaries[s].related \in Rows \union {0}

\* A call writes into a row that is there.
Remembered == \A c \in Call : call[c].step = "write" => call[c].row \in Rows

-----------------------------------------------------------------------------
\* Shapes of steps.

\* A notification is handed over, dead-lettered or fetched anew: nothing is in hand.
Reset(d) ==
    \E stage \in Stages \ {"marked", "absent", "processing"} :
        /\ delivery'[d] = Fresh(stage)
        /\ stage = "queued" => delivery[d].stage = "absent"

Kept(d) == delivery'[d] = delivery[d]

Started(d) ==
    /\ delivery[d].stage = "queued"
    /\ delivery'[d] = [stage |-> "processing", next |-> delivery[d].next,
                       tx |-> delivery[d].tx]

Marked(d) ==
    /\ delivery'[d] = Fresh("marked")
    /\ Through(d)

\* A worker goes on to a transaction, and has this in hand.
Went(d, next, tx) ==
    /\ delivery[d].stage = "processing"
    /\ delivery'[d] = [stage |-> "processing", next |-> next, tx |-> tx]

Checked(d) ==
    /\ ~Through(d)
    /\ \E step \in {"lookup", "upsert"} :
          Went(d, delivery[d].next, [step |-> step, at |-> clock, related |-> 0])

LookedUp(d) ==
    /\ delivery[d].tx.step = "lookup"
    /\ \E r \in Nat :
          /\ Went(d, delivery[d].next,
                  [step |-> "upsert", at |-> delivery[d].tx.at, related |-> r])
          /\ r # 0 => Older(r, Current(d), JakartaDay(delivery[d].tx.at))

Advanced(d) ==
    /\ delivery[d].tx.step = "upsert"
    /\ \/ \E r \in details' : r.delivery = d /\ r.trx = delivery[d].next
       \/ <<d, delivery[d].next>> \in undone' /\ ThroughAt(d, delivery[d].next + 1)
    /\ Went(d, delivery[d].next + 1, NoTx)

Shaped(d) ==
    \/ Kept(d) \/ Reset(d) \/ Started(d) \/ Marked(d)
    \/ Checked(d) \/ LookedUp(d) \/ Advanced(d)

DeliveriesStay == delivery' = [d \in Deliveries |-> delivery'[d]]

\* A step of one delivery.
Only(d) == DeliveriesStay /\ \A e \in Deliveries \ {d} : Kept(e)

\* Rows are never moved or removed, and keep what relations go by.
RowsStay ==
    \A s \in Rows :
        /\ s \in Rows'
        /\ summaries'[s].date = summaries[s].date
        /\ summaries'[s].pay = summaries[s].pay
        /\ summaries'[s].type = summaries[s].type
        /\ summaries'[s].related = summaries[s].related

\* A row that is new is a worker's.
Entered ==
    \A s \in Rows' \ Rows : \E d \in Deliveries :
        /\ delivery[d].tx.step = "upsert"
        /\ summaries'[s] = NewRow(Current(d), delivery[d].tx)

RowStep == summaries' \in Seq(Summary) /\ RowsStay /\ Entered /\ Unique'

\* No row enters, and none is added to.
TotalsStay == Rows' = Rows /\ \A s \in Rows : summaries'[s].total = summaries[s].total

\* A row is changed in what relations, the index and the totals do not go by.
Settled(s, row) ==
    /\ row \in Summary
    /\ summaries' = [summaries EXCEPT ![s] = row]
    /\ row.date = summaries[s].date /\ row.pay = summaries[s].pay
    /\ row.total = summaries[s].total
    /\ row.type = summaries[s].type /\ row.related = summaries[s].related

-----------------------------------------------------------------------------
\* Facts about the data.

LEMMA OrderTypes ==
    ASSUME NEW o \in Order
    PROVE  /\ Trx(o) \in Seq(Transactions)
           /\ Len(Trx(o)) \in Nat
           /\ DOMAIN Trx(o) = 1 .. Len(Trx(o))
           /\ \A i \in DOMAIN Trx(o) : Trx(o)[i].amount \in Nat
<1>1. OrderOf[o] \in [ok : BOOLEAN, trx : Seq(Transactions)]
  BY OrdersAssumption DEF OrdersAssumption
<1>2. Trx(o) \in Seq(Transactions)
  BY <1>1 DEF Trx
<1>3. Len(Trx(o)) \in Nat /\ DOMAIN Trx(o) = 1 .. Len(Trx(o))
  BY <1>2
<1>4. \A i \in DOMAIN Trx(o) : Trx(o)[i] \in Transactions
  BY <1>2, <1>3
<1> QED
  BY <1>2, <1>3, <1>4 DEF Transactions

LEMMA CurrentTypes ==
    ASSUME Types, NEW d \in Deliveries, ~Through(d)
    PROVE  /\ delivery[d].next \in 1 .. Len(Trx(d[1]))
           /\ Current(d).amount \in Nat
           /\ Current(d).type \in DOMAIN PaymentOf
<1>1. d[1] \in Order
  BY DEF Deliveries
<1>2. delivery[d].next \in Nat \ {0}
  BY DEF Types
<1> QED
  BY <1>1, <1>2, OrderTypes DEF Through, ThroughAt, Current, Eligible

LEMMA RowTypes ==
    ASSUME Types
    PROVE  /\ Len(summaries) \in Nat
           /\ Rows = 1 .. Len(summaries)
           /\ \A s \in Rows : summaries[s] \in Summary
BY DEF Types, Rows

LEMMA InitTypes ==
    Init => Types /\ \A d \in Deliveries : \E stage \in Stages : delivery[d] = Fresh(stage)
<1> SUFFICES ASSUME Init
             PROVE  /\ Types
                    /\ \A d \in Deliveries : \E stage \in Stages : delivery[d] = Fresh(stage)
  OBVIOUS
<1> PICK w \in World :
        /\ delivery = [d \in Order \X Copy |->
              Fresh(IF d[1] \in w.orders /\ d[2] = 1 THEN "queued" ELSE "absent")]
        /\ call = [c \in Call |->
              [step |-> IF c \in w.calls THEN "todo" ELSE "done", row |-> 0]]
        /\ faults = w.faults
  BY DEF Init
<1>1. faults \in Nat /\ MaxClock \in Nat
  BY OrdersAssumption DEF OrdersAssumption
<1>2. \A d \in Deliveries : \E stage \in Stages : delivery[d] = Fresh(stage)
  BY DEF Deliveries, Stages
<1>3. delivery \in [Deliveries -> [stage : Stages, next : Nat \ {0}, tx : Tx]]
  BY DEF Deliveries, Fresh, NoTx, Stages, Tx
<1>4. call \in [Call -> [step : {"todo", "write", "done"}, row : Nat]]
  OBVIOUS
<1>5. summaries \in Seq(Summary)
  BY DEF Init
<1>6. clock \in 0 .. MaxClock
  BY <1>1 DEF Init
<1> QED
  BY <1>1, <1>2, <1>3, <1>4, <1>5, <1>6, Zenon DEF Types

LEMMA InitInv == Init => Begun /\ Unique /\ Counting /\ Found /\ Related
<1> SUFFICES ASSUME Init
             PROVE  Begun /\ Unique /\ Counting /\ Found /\ Related
  OBVIOUS
<1>1. Rows = {}
  BY DEF Init, Rows
<1>2. ASSUME NEW d \in Deliveries
      PROVE  /\ delivery[d].next = 1 /\ delivery[d].tx.step = "none"
             /\ d[1] \in Order
  <2>1. PICK stage \in Stages : delivery[d] = Fresh(stage)
    BY InitTypes
  <2> QED
    BY <2>1 DEF Fresh, NoTx, Deliveries
<1>3. Begun
  BY <1>2, OrderTypes DEF Begun
<1>4. Counting
  BY <1>2 DEF Counting
<1>5. Found
  BY <1>2 DEF Found
<1> QED
  BY <1>1, <1>3, <1>4, <1>5 DEF Unique, Related

-----------------------------------------------------------------------------
\* Deliveries.

\* DetermineRelationship finds an older summary of the type, or none.
LEMMA LookUpFinds ==
    ASSUME Types, Begun, NEW d \in Deliveries, LookUp(d)
    PROVE  LookedUp(d) /\ Only(d)
<1> DEFINE trx == Current(d)
           date == JakartaDay(delivery[d].tx.at)
           last == LastUnpaid(trx)
           found(failure) == IF failure # 0 /\ Evaluate(trx, failure, date)
                             THEN failure ELSE 0
<1>1. PICK failure \in last \union (IF last = {} THEN {0} ELSE {}) :
          delivery' = [delivery EXCEPT ![d].tx =
              [step |-> "upsert", at |-> @.at, related |-> found(failure)]]
  BY DEF LookUp
<1>2. /\ delivery[d].tx.step = "lookup" /\ delivery[d].tx.at \in Nat
      /\ delivery[d].stage = "processing"
  BY DEF LookUp, Working, Types, Tx
<1>3. failure \in RowsOf(trx) \union {0}
  BY <1>1 DEF LastUnpaid
<1>4. found(failure) # 0 => Older(found(failure), trx, date)
  <2> SUFFICES ASSUME found(failure) # 0
               PROVE  Older(found(failure), trx, date)
    OBVIOUS
  <2>1. failure \in RowsOf(trx) /\ Evaluate(trx, failure, date)
    BY <1>3
  <2>2. failure \in Rows /\ summaries[failure].date \in Int
    BY <2>1, RowTypes DEF RowsOf, Summary
  <2>3. date \in Int
    BY <1>2 DEF JakartaDay
  <2>4. summaries[failure].date < date
    BY <2>1, <2>2, <2>3 DEF Evaluate, TruncatedStored, TruncatedNow
  <2> QED
    BY <2>1, <2>2, <2>4 DEF RowsOf, Older
<1>5. found(failure) \in Nat
  BY <1>3, RowTypes DEF RowsOf
<1> HIDE DEF found
<1>6. Went(d, delivery[d].next, [step |-> "upsert", at |-> delivery[d].tx.at,
                                 related |-> found(failure)])
  BY <1>1, <1>2 DEF Types, Tx, Went
<1>7. Only(d)
  BY <1>1 DEF Types, Only, Kept, DeliveriesStay
<1>8. LookedUp(d)
  BY <1>2, <1>4, <1>5, <1>6 DEF LookedUp
<1> QED
  BY <1>7, <1>8

LEMMA NackResets ==
    ASSUME Types, NEW d \in Deliveries, NEW spent, Nack(d, spent)
    PROVE  Reset(d) /\ Only(d)
<1>1. PICK stage \in {"dead", "lost"} : delivery' = [delivery EXCEPT ![d] = Fresh(stage)]
  BY DEF Nack
<1>2. delivery'[d] = Fresh(stage) /\ stage \in Stages \ {"marked"}
  BY <1>1 DEF Types, Stages
<1>3. Only(d)
  BY <1>1 DEF Types, Only, Kept, DeliveriesStay
<1> QED
  BY <1>2, <1>3 DEF Reset

LEMMA TakeShape ==
    ASSUME Types, NEW d \in Deliveries, Take(d)
    PROVE  Started(d) /\ Only(d)
BY DEF Take, Types, Only, Kept, Started, DeliveriesStay

LEMMA AckShape ==
    ASSUME Types, NEW d \in Deliveries, Ack(d)
    PROVE  Marked(d) /\ Only(d)
BY DEF Ack, Types, Only, Kept, Marked, DeliveriesStay

LEMMA CheckShape ==
    ASSUME Types, NEW d \in Deliveries, CheckInProgress(d)
    PROVE  Checked(d) /\ Only(d)
<1>1. PICK step \in {"lookup", "upsert"} :
          delivery' = [delivery EXCEPT ![d].tx =
              [step |-> step, at |-> clock, related |-> 0]]
  BY DEF CheckInProgress
<1>2. delivery[d].stage = "processing" /\ ~Through(d)
  BY DEF CheckInProgress, Working
<1>3. Went(d, delivery[d].next, [step |-> step, at |-> clock, related |-> 0])
  BY <1>1, <1>2 DEF Types, Went
<1>4. Only(d)
  BY <1>1 DEF Types, Only, Kept, DeliveriesStay
<1> QED
  BY <1>2, <1>3, <1>4 DEF Checked

LEMMA CountShape ==
    ASSUME Types, NEW d \in Deliveries, Count(d)
    PROVE  (Advanced(d) \/ Reset(d)) /\ Only(d)
<1>1. CASE Nack(d, 1)
  BY <1>1, NackResets
<1>2. CASE delivery' = [delivery EXCEPT ![d].next = @ + 1, ![d].tx = NoTx]
  <2>1. delivery[d].stage = "processing" /\ delivery[d].tx.step = "upsert"
    BY DEF Count, Working
  <2>2. Went(d, delivery[d].next + 1, NoTx)
    BY <1>2, <2>1 DEF Types, Went
  <2>3. Only(d)
    BY <1>2 DEF Types, Only, Kept, DeliveriesStay
  <2>4. Detail(NewRow(Current(d), delivery[d].tx), d) \in details'
    BY DEF Count
  <2>5. PICK id : [summary |-> id, delivery |-> d, trx |-> delivery[d].next] \in details'
    BY <2>4 DEF Detail
  <2>6. \E r \in details' : r.delivery = d /\ r.trx = delivery[d].next
    BY <2>5
  <2> QED
    BY <2>1, <2>2, <2>3, <2>6 DEF Advanced
<1> QED
  BY <1>1, <1>2 DEF Count

LEMMA RolledBackShape ==
    ASSUME Types, NEW d \in Deliveries, RolledBack(d)
    PROVE  (Advanced(d) \/ Reset(d)) /\ Only(d)
<1>1. CASE Nack(d, 1)
  BY <1>1, NackResets
<1>2. CASE /\ ThroughAt(d, delivery[d].next + 1)
           /\ delivery' = [delivery EXCEPT ![d].next = @ + 1, ![d].tx = NoTx]
  <2>1. delivery[d].stage = "processing" /\ delivery[d].tx.step = "upsert"
    BY DEF RolledBack, Working
  <2>2. Went(d, delivery[d].next + 1, NoTx)
    BY <1>2, <2>1 DEF Types, Went
  <2>3. Only(d)
    BY <1>2 DEF Types, Only, Kept, DeliveriesStay
  <2>4. <<d, delivery[d].next>> \in undone'
    BY DEF RolledBack
  <2> QED
    BY <1>2, <2>1, <2>2, <2>3, <2>4 DEF Advanced
<1> QED
  BY <1>1, <1>2 DEF RolledBack

\* The second copy is new to its worker; the first goes on or is gone.
LEMMA RedeliverShape ==
    ASSUME Types, NEW d \in Deliveries, Redeliver(d)
    PROVE  DeliveriesStay /\ \A e \in Deliveries : Kept(e) \/ Reset(e)
<1> DEFINE copy == <<d[1], d[2] + 1>>
<1>1. PICK stage \in {delivery[d].stage} \union (IF Working(d) THEN {"killed"} ELSE {}) :
          delivery' = [delivery EXCEPT
              ![d] = IF stage = "killed" THEN Fresh("killed") ELSE @,
              ![copy] = Fresh("queued")]
  BY DEF Redeliver
<1>2. copy \in Deliveries /\ copy # d /\ delivery[copy].stage = "absent"
  BY OrdersAssumption DEF OrdersAssumption, Redeliver, Latest, Deliveries, Copy
<1>3. DeliveriesStay
  BY <1>1, <1>2 DEF Types, DeliveriesStay
<1>4. delivery'[copy] = Fresh("queued")
  BY <1>1, <1>2 DEF Types
<1>5. delivery'[d] = Fresh("killed") \/ Kept(d)
  BY <1>1, <1>2 DEF Types, Kept
<1>6. \A e \in Deliveries \ {d, copy} : Kept(e)
  BY <1>1, <1>2 DEF Types, Kept
<1>7. ASSUME NEW e \in Deliveries PROVE Kept(e) \/ Reset(e)
  BY <1>2, <1>4, <1>5, <1>6 DEF Reset, Stages
<1> QED
  BY <1>3, <1>7

LEMMA Shapes ==
    ASSUME Types, Begun, [Next]_vars
    PROVE  DeliveriesStay /\ \A e \in Deliveries : Shaped(e)
<1>1. ASSUME NEW d \in Deliveries,
             HandleStep(d) \/ Take(d) \/ Fail(d) \/ RolledBack(d)
      PROVE  DeliveriesStay /\ \A e \in Deliveries : Shaped(e)
  <2>1. Only(d) /\ Shaped(d)
    BY <1>1, NackResets, TakeShape, AckShape, CheckShape, LookUpFinds, CountShape,
       RolledBackShape DEF HandleStep, Refuse, Fail, Shaped
  <2> QED
    BY <2>1 DEF Only, Shaped
<1>2. ASSUME NEW d \in Deliveries, Redeliver(d)
      PROVE  DeliveriesStay /\ \A e \in Deliveries : Shaped(e)
  BY <1>2, RedeliverShape DEF Shaped
<1>3. ASSUME UNCHANGED delivery
      PROVE  DeliveriesStay /\ \A e \in Deliveries : Shaped(e)
  BY <1>3 DEF Types, DeliveriesStay, Kept, Shaped
<1>4. ASSUME NEW c \in Call, BeginCall(c) \/ EndCall(c) \/ GiveUp(c)
      PROVE  UNCHANGED delivery
  BY <1>4 DEF BeginCall, EndCall, BeginUpdate, EndUpdate, BeginActivate, EndActivate,
              BeginEvent, EndEvent, GiveUp
<1> QED
  BY <1>1, <1>2, <1>3, <1>4 DEF Next, TroubleStep, vars, Tick, Deliveries

-----------------------------------------------------------------------------
\* Rows.

\* A summary is one still with another id in PAPA, status and dates.
LEMMA WithRequestType ==
    ASSUME NEW row \in Summary, NEW asked,
           asked.papa \in Papa \union {None}, asked.status \in Statuses \union {None},
           asked.actual \in BOOLEAN,
           NEW new, new = WithRequest(row, asked)
    PROVE  /\ new \in Summary
           /\ new.date = row.date /\ new.pay = row.pay /\ new.type = row.type
           /\ new.related = row.related /\ new.active = row.active
           /\ new.total = row.total
<1> DEFINE papa == IF asked.papa = None THEN row.papa ELSE asked.papa
           status == IF asked.status = None THEN row.status ELSE asked.status
           requested == row.requested \/ asked.status = "IN_PROGRESS"
           paid == row.actual \/ asked.actual \/ asked.status = "SUCCESSFUL"
<1>1. papa \in Papa \union {None}
  BY DEF Summary
<1>2. status \in Statuses
  BY DEF Summary
<1>3. requested \in BOOLEAN /\ paid \in BOOLEAN
  OBVIOUS
<1>4. new = [row EXCEPT !.papa = papa, !.status = status,
                        !.requested = requested, !.actual = paid]
  BY Zenon DEF WithRequest
<1> HIDE DEF papa, status, requested, paid
<1> QED
  BY <1>1, <1>2, <1>3, <1>4 DEF Summary

LEMMA UpdateSettles ==
    ASSUME Types, NEW c \in Call, EndUpdate(c), call[c].row \in Rows
    PROVE  LET row == WithRequest(summaries[call[c].row], Asked[c])
           IN  Settled(call[c].row, row) /\ row.active = summaries[call[c].row].active
<1>1. /\ Asked[c].status \in Statuses \union {None}
      /\ Asked[c].papa \in Papa \union {None}
      /\ Asked[c].actual \in BOOLEAN
  BY OrdersAssumption DEF OrdersAssumption, Requests, EndUpdate, Update
<1>2. summaries[call[c].row] \in Summary
  BY RowTypes
<1>3. summaries' = [summaries EXCEPT
                       ![call[c].row] = WithRequest(summaries[call[c].row], Asked[c])]
  BY DEF EndUpdate
<1> QED
  BY <1>1, <1>2, <1>3, WithRequestType DEF Settled

LEMMA SettledKeeps ==
    ASSUME Types, Unique, NEW s \in Rows, NEW row, Settled(s, row),
           row.active => Conflicts(row) \subseteq {s}
    PROVE  RowStep /\ TotalsStay
<1>1. /\ row \in Summary
      /\ summaries' = [summaries EXCEPT ![s] = row]
  BY DEF Settled
<1>2. summaries' \in Seq(Summary) /\ Rows' = Rows
  BY <1>1, RowTypes DEF Rows, Types
<1>3. summaries'[s] = row /\ \A r \in Rows \ {s} : summaries'[r] = summaries[r]
  BY <1>1 DEF Rows
<1>4. RowsStay
  BY <1>2, <1>3 DEF RowsStay, Settled
<1>5. ASSUME NEW r \in Rows', NEW t \in Rows', summaries'[r].active, summaries'[t].active,
             summaries'[r].date = summaries'[t].date, summaries'[r].pay = summaries'[t].pay
      PROVE  r = t
  <2>1. CASE r # s /\ t # s
    BY <1>2, <1>3, <1>5, <2>1 DEF Unique, Conflicts
  <2>2. CASE r = s \/ t = s
    BY <1>2, <1>3, <1>5, <2>2 DEF Conflicts
  <2> QED
    BY <2>1, <2>2
<1>6. Unique'
  BY <1>5 DEF Unique, Conflicts
<1>7. TotalsStay
  BY <1>2, <1>3 DEF TotalsStay, Settled
<1> QED
  BY <1>2, <1>4, <1>6, <1>7 DEF RowStep, Entered

LEMMA EventSettles ==
    ASSUME Types, Unique, NEW c \in Call, EndEvent(c), call[c].row \in Rows
    PROVE  RowStep /\ TotalsStay
<1> DEFINE old == summaries[call[c].row]
           row == WithStatus(old, Asked[c].status)
<1>1. Asked[c].status \in Statuses
  BY OrdersAssumption DEF OrdersAssumption, Requests, EndEvent, Event
<1>2. old \in Summary
  BY RowTypes
<1>3. (Asked[c].status = "SUCCESSFUL") \in BOOLEAN
  OBVIOUS
<1>4. row \in Summary
  BY <1>1, <1>2, <1>3 DEF WithStatus, Summary
<1>5. /\ row.date = old.date /\ row.pay = old.pay /\ row.type = old.type
      /\ row.related = old.related /\ row.active = old.active /\ row.total = old.total
  BY <1>2 DEF WithStatus, Summary
<1>6. summaries' = [summaries EXCEPT ![call[c].row] = row]
  BY DEF EndEvent
<1>7. Settled(call[c].row, row)
  BY <1>4, <1>5, <1>6 DEF Settled
<1>8. row.active => Conflicts(row) \subseteq {call[c].row}
  BY <1>5 DEF Unique, Conflicts
<1> QED
  BY <1>7, <1>8, SettledKeeps

LEMMA ActivateSettles ==
    ASSUME Types, Unique, NEW c \in Call, EndActivate(c), call[c].row \in Rows,
           Switchable(call[c].row, Asked[c].active)
    PROVE  RowStep /\ TotalsStay
<1> DEFINE old == summaries[call[c].row]
           row == [old EXCEPT !.active = Asked[c].active]
<1>1. Asked[c].active \in BOOLEAN
  BY OrdersAssumption DEF OrdersAssumption, Requests, EndActivate, Activate
<1>2. old \in Summary
  BY RowTypes
<1>3. row \in Summary
  BY <1>1, <1>2 DEF Summary
<1>4. /\ row.date = old.date /\ row.pay = old.pay /\ row.type = old.type
      /\ row.related = old.related /\ row.active = Asked[c].active /\ row.total = old.total
  BY <1>2 DEF Summary
<1>5. summaries' = [summaries EXCEPT ![call[c].row] = row]
  <2>1. summaries' = [summaries EXCEPT ![call[c].row].active = Asked[c].active]
    BY DEF EndActivate
  <2> QED
    BY <2>1
<1>6. Settled(call[c].row, row)
  BY <1>3, <1>4, <1>5 DEF Settled
<1>7. row.active => Conflicts(row) \subseteq {call[c].row}
  BY <1>4 DEF Switchable, Conflicts
<1> QED
  BY <1>6, <1>7, SettledKeeps

LEMMA NothingSettles ==
    ASSUME Types, Unique, UNCHANGED summaries
    PROVE  RowStep /\ TotalsStay
BY DEF Types, Unique, RowStep, RowsStay, TotalsStay, Entered, Rows, Conflicts

LEMMA EndCallSettles ==
    ASSUME Types, Unique, Remembered, NEW c \in Call, EndCall(c)
    PROVE  RowStep /\ TotalsStay
<1>1. call[c].row \in Rows
  BY DEF EndCall, EndUpdate, EndActivate, EndEvent, Remembered
<1>2. CASE EndUpdate(c)
  <2> DEFINE row == WithRequest(summaries[call[c].row], Asked[c])
  <2>1. Settled(call[c].row, row) /\ row.active = summaries[call[c].row].active
    BY <1>1, <1>2, UpdateSettles
  <2>2. row.active => Conflicts(row) \subseteq {call[c].row}
    BY <1>1, <2>1 DEF Settled, Unique, Conflicts
  <2> QED
    BY <1>1, <2>1, <2>2, SettledKeeps
<1>3. CASE EndActivate(c)
  <2>1. CASE Switchable(call[c].row, Asked[c].active)
    BY <1>1, <1>3, <2>1, ActivateSettles
  <2>2. CASE ~Switchable(call[c].row, Asked[c].active)
    BY <1>3, <2>2, NothingSettles DEF EndActivate
  <2> QED
    BY <2>1, <2>2
<1>4. CASE EndEvent(c)
  BY <1>1, <1>4, EventSettles
<1> QED
  BY <1>2, <1>3, <1>4 DEF EndCall

\* The upsert adds to the row that the index allows, or begins it.
LEMMA CountEnters ==
    ASSUME Types, Begun, Unique, NEW d \in Deliveries, Count(d)
    PROVE  RowStep
<1> DEFINE row == NewRow(Current(d), delivery[d].tx)
<1>1. delivery[d].tx.step = "upsert" /\ ~Through(d)
  BY DEF Count, Begun
<1>2. delivery[d].tx \in Tx
  BY DEF Types
<1>3. Current(d).amount \in Nat /\ Current(d).type \in DOMAIN PaymentOf
  BY <1>1, CurrentTypes
<1>4. JakartaDay(delivery[d].tx.at) \in Int
  BY <1>2 DEF Tx, JakartaDay
<1>5. row \in Summary
  BY <1>2, <1>3, <1>4 DEF NewRow, Summary, Tx, Statuses
<1>6. summaries' = Upserted(row)
  BY DEF Count
<1> HIDE DEF row
<1>7. CASE Conflicts(row) = {}
  <2>1. summaries' = Append(summaries, row)
    BY <1>6, <1>7 DEF Upserted
  <2>2. /\ summaries' \in Seq(Summary)
        /\ Rows' = Rows \union {Len(summaries) + 1}
        /\ Len(summaries) + 1 \notin Rows
        /\ \A s \in Rows : summaries'[s] = summaries[s]
        /\ summaries'[Len(summaries) + 1] = row
    BY <1>5, <2>1, RowTypes DEF Types, Rows
  <2>3. RowsStay
    BY <2>2 DEF RowsStay
  <2>4. Entered
    BY <1>1, <2>2 DEF Entered, row
  <2>5. ASSUME NEW r \in Rows', NEW t \in Rows', summaries'[r].active, summaries'[t].active,
               summaries'[r].date = summaries'[t].date, summaries'[r].pay = summaries'[t].pay
        PROVE  r = t
    <3>1. CASE r \in Rows /\ t \in Rows
      BY <2>2, <2>5, <3>1 DEF Unique, Conflicts
    <3>2. CASE r \notin Rows \/ t \notin Rows
      BY <1>7, <2>2, <2>5, <3>2 DEF Conflicts
    <3> QED
      BY <3>1, <3>2
  <2>6. Unique'
    BY <2>5 DEF Unique, Conflicts
  <2> QED
    BY <2>2, <2>3, <2>4, <2>6 DEF RowStep
<1>8. CASE Conflicts(row) # {}
  <2> DEFINE new(s) == IF s \in Conflicts(row)
                       THEN [summaries[s] EXCEPT !.total = Added(@, row.total)]
                       ELSE summaries[s]
  <2>1. summaries' = [s \in Rows |-> new(s)]
    BY <1>6, <1>8 DEF Upserted
  <2>2. ASSUME NEW s \in Rows
        PROVE  /\ new(s) \in Summary
               /\ new(s).date = summaries[s].date /\ new(s).pay = summaries[s].pay
               /\ new(s).type = summaries[s].type /\ new(s).related = summaries[s].related
               /\ new(s).active = summaries[s].active
    <3>1. summaries[s] \in Summary
      BY RowTypes
    <3>2. Added(summaries[s].total, row.total) \in Nat
      BY <1>5, <3>1 DEF Summary, Added
    <3> QED
      BY <3>1, <3>2 DEF Summary
  <2> HIDE DEF new
  <2>3. summaries' \in Seq(Summary) /\ Rows' = Rows
    BY <2>1, <2>2, RowTypes DEF Rows
  <2>4. RowsStay /\ Entered
    BY <2>1, <2>2, <2>3 DEF RowsStay, Entered
  <2>5. Unique'
    BY <2>1, <2>2, <2>3 DEF Unique, Conflicts
  <2> QED
    BY <2>3, <2>4, <2>5 DEF RowStep
<1> QED
  BY <1>7, <1>8

LEMMA RowSteps ==
    ASSUME Types, Begun, Unique, Remembered, [Next]_vars
    PROVE  RowStep
<1>1. ASSUME NEW d \in Deliveries, Count(d)
      PROVE  RowStep
  BY <1>1, CountEnters
<1>2. ASSUME NEW c \in Call, EndCall(c)
      PROVE  RowStep
  BY <1>2, EndCallSettles
<1>3. ASSUME UNCHANGED summaries
      PROVE  RowStep
  BY <1>3, NothingSettles
<1>4. ASSUME NEW d \in Deliveries,
             Take(d) \/ Refuse(d) \/ Ack(d) \/ CheckInProgress(d) \/ LookUp(d)
                 \/ TroubleStep(d)
      PROVE  UNCHANGED summaries
  BY <1>4 DEF Take, Refuse, Ack, CheckInProgress, LookUp, TroubleStep, RolledBack, Fail,
              Redeliver, tables
<1>5. ASSUME NEW c \in Call, BeginCall(c) \/ GiveUp(c)
      PROVE  UNCHANGED summaries
  BY <1>5 DEF BeginCall, BeginUpdate, BeginActivate, BeginEvent, GiveUp, tables
<1> QED
  BY <1>1, <1>2, <1>3, <1>4, <1>5
     DEF Next, HandleStep, vars, Tick, tables, Deliveries

-----------------------------------------------------------------------------
\* The invariants.

LEMMA CallTypes ==
    ASSUME Types, Remembered, [Next]_vars, RowsStay
    PROVE  /\ call' \in [Call -> [step : {"todo", "write", "done"}, row : Nat]]
           /\ Remembered'
<1>1. ASSUME NEW c \in Call, NEW s \in Rows, Remember(c, s)
      PROVE  /\ call' \in [Call -> [step : {"todo", "write", "done"}, row : Nat]]
             /\ Remembered'
  <2>1. s \in Nat
    BY RowTypes
  <2> QED
    BY <1>1, <2>1 DEF Types, Remember, Remembered, RowsStay
<1>2. ASSUME NEW c \in Call, Answer(c)
      PROVE  /\ call' \in [Call -> [step : {"todo", "write", "done"}, row : Nat]]
             /\ Remembered'
  BY <1>2 DEF Types, Answer, Remembered, RowsStay
<1>3. ASSUME UNCHANGED call
      PROVE  /\ call' \in [Call -> [step : {"todo", "write", "done"}, row : Nat]]
             /\ Remembered'
  BY <1>3 DEF Types, Remembered, RowsStay
<1>4. ASSUME NEW c \in Call, BeginCall(c) \/ EndCall(c) \/ GiveUp(c)
      PROVE  Answer(c) \/ \E s \in Rows : Remember(c, s)
  BY <1>4 DEF BeginCall, EndCall, BeginUpdate, EndUpdate, BeginActivate, EndActivate,
              BeginEvent, EndEvent, GiveUp, Readable, ReadableAllStatus, WithPapa
<1>5. ASSUME NEW d \in Deliveries,
             Take(d) \/ HandleStep(d) \/ TroubleStep(d)
      PROVE  UNCHANGED call
  BY <1>5 DEF Take, HandleStep, Refuse, Ack, CheckInProgress, LookUp, Count, TroubleStep,
              RolledBack, Fail, Redeliver
<1> QED
  BY <1>1, <1>2, <1>3, <1>4, <1>5 DEF Next, vars, Tick, Deliveries

LEMMA FaultTypes ==
    ASSUME Types, [Next]_vars
    PROVE  faults' \in Nat /\ clock' \in 0 .. MaxClock
<1>0. MaxClock \in Nat /\ clock \in 0 .. MaxClock /\ faults \in Nat
  BY OrdersAssumption DEF OrdersAssumption, Types
<1>1. ASSUME NEW d \in Deliveries,
             Take(d) \/ HandleStep(d) \/ TroubleStep(d)
      PROVE  faults' \in Nat /\ clock' = clock
  BY <1>0, <1>1 DEF Take, HandleStep, Refuse, Ack, CheckInProgress, LookUp, Count,
                    TroubleStep, RolledBack, Fail, Redeliver, Nack
<1>2. ASSUME NEW c \in Call, BeginCall(c) \/ EndCall(c) \/ GiveUp(c)
      PROVE  faults' \in Nat /\ clock' = clock
  BY <1>0, <1>2 DEF BeginCall, EndCall, BeginUpdate, EndUpdate, BeginActivate,
                    EndActivate, BeginEvent, EndEvent, GiveUp
<1>3. ASSUME Tick
      PROVE  faults' \in Nat /\ clock' \in 0 .. MaxClock
  BY <1>0, <1>3 DEF Tick
<1> QED
  BY <1>0, <1>1, <1>2, <1>3 DEF Next, vars, Deliveries

LEMMA DeliveryTypes ==
    ASSUME Types, Begun, DeliveriesStay, NEW d \in Deliveries, Shaped(d)
    PROVE  /\ delivery'[d] \in [stage : Stages, next : Nat \ {0}, tx : Tx]
           /\ delivery'[d].next <= Len(Trx(d[1])) + 1
           /\ (delivery[d].tx.step # "none" => ~Through(d))'
<1>1. /\ d[1] \in Order
      /\ delivery[d] \in [stage : Stages, next : Nat \ {0}, tx : Tx]
      /\ delivery[d].next <= Len(Trx(d[1])) + 1
      /\ delivery[d].tx.step # "none" => ~Through(d)
  BY DEF Types, Begun, Deliveries
<1>2. Len(Trx(d[1])) \in Nat
  BY <1>1, OrderTypes
<1>3. ASSUME delivery'[d].next = delivery[d].next
      PROVE  Through(d)' = Through(d)
  BY <1>3 DEF Through, ThroughAt, Current
<1>4. CASE Kept(d)
  BY <1>1, <1>3, <1>4 DEF Kept
<1>5. ASSUME NEW stage \in Stages, delivery'[d] = Fresh(stage)
      PROVE  /\ delivery'[d] \in [stage : Stages, next : Nat \ {0}, tx : Tx]
             /\ delivery'[d].next = 1 /\ delivery'[d].tx.step = "none"
  BY <1>5 DEF Fresh, NoTx, Tx
<1>6. CASE Reset(d) \/ Marked(d)
  BY <1>2, <1>5, <1>6 DEF Reset, Marked, Stages
<1>7. CASE Started(d)
  <2>1. /\ delivery'[d].next = delivery[d].next /\ delivery'[d].tx = delivery[d].tx
        /\ delivery'[d].stage = "processing"
    BY <1>7 DEF Started
  <2> QED
    BY <1>1, <1>3, <1>7, <2>1 DEF Started, Stages
<1>8. CASE Checked(d)
  <2>1. PICK step \in {"lookup", "upsert"} :
            Went(d, delivery[d].next, [step |-> step, at |-> clock, related |-> 0])
    BY <1>8 DEF Checked
  <2>2. clock \in Nat
    BY OrdersAssumption DEF OrdersAssumption, Types
  <2> QED
    BY <1>1, <1>3, <1>8, <2>1, <2>2 DEF Checked, Went, Tx, Stages
<1>9. CASE LookedUp(d)
  <2>1. PICK r \in Nat :
            Went(d, delivery[d].next,
                 [step |-> "upsert", at |-> delivery[d].tx.at, related |-> r])
    BY <1>9 DEF LookedUp
  <2> QED
    BY <1>1, <1>3, <1>9, <2>1 DEF LookedUp, Went, Tx, Stages
<1>10. CASE Advanced(d)
  <2>1. delivery[d].next \in 1 .. Len(Trx(d[1]))
    BY <1>1, <1>10, CurrentTypes DEF Advanced
  <2> QED
    BY <1>1, <1>2, <1>10, <2>1 DEF Advanced, Went, NoTx, Tx, Stages
<1> QED
  BY <1>4, <1>6, <1>7, <1>8, <1>9, <1>10 DEF Shaped

LEMMA StartsAnew ==
    ASSUME NEW d \in Deliveries, Reset(d) \/ Marked(d)
    PROVE  /\ delivery'[d].next = 1 /\ delivery'[d].tx.step = "none"
           /\ ~Marked(d) => delivery'[d].stage # "marked"
<1>1. ASSUME NEW stage, delivery'[d] = Fresh(stage)
      PROVE  /\ delivery'[d].next = 1 /\ delivery'[d].tx.step = "none"
             /\ delivery'[d].stage = stage
  BY <1>1 DEF Fresh, NoTx
<1> QED
  BY <1>1 DEF Reset, Marked

LEMMA GoesOn ==
    ASSUME NEW d \in Deliveries, Started(d) \/ Checked(d) \/ LookedUp(d) \/ Advanced(d)
    PROVE  /\ delivery'[d].stage = "processing"
           /\ Advanced(d) \/ delivery'[d].next = delivery[d].next
           /\ Checked(d) => delivery'[d].tx.related = 0
           /\ Advanced(d) => delivery'[d].tx.step = "none"
<1>1. CASE Started(d)
  BY <1>1 DEF Started, Checked, Advanced, Went, NoTx
<1>2. CASE Checked(d)
  BY <1>2 DEF Checked, Advanced, Went, NoTx
<1>3. CASE LookedUp(d)
  BY <1>3 DEF Checked, LookedUp, Advanced, Went, NoTx
<1>4. CASE Advanced(d)
  BY <1>4 DEF Checked, Advanced, Went, NoTx
<1> QED
  BY <1>1, <1>2, <1>3, <1>4

\* A step leads from one state with correct types to another.
TypeInv == Types /\ Begun /\ Unique /\ Remembered

LEMMA TypeStep ==
    ASSUME TypeInv, [Next]_vars
    PROVE  TypeInv' /\ RowStep /\ DeliveriesStay /\ \A d \in Deliveries : Shaped(d)
<1>1. RowStep
  BY RowSteps DEF TypeInv
<1>2. DeliveriesStay /\ \A d \in Deliveries : Shaped(d)
  BY Shapes DEF TypeInv
<1>3. /\ call' \in [Call -> [step : {"todo", "write", "done"}, row : Nat]]
      /\ Remembered'
  BY <1>1, CallTypes DEF TypeInv, RowStep
<1>4. \A d \in Deliveries :
          /\ delivery'[d] \in [stage : Stages, next : Nat \ {0}, tx : Tx]
          /\ delivery'[d].next <= Len(Trx(d[1])) + 1
          /\ (delivery[d].tx.step # "none" => ~Through(d))'
  BY <1>2, DeliveryTypes DEF TypeInv
<1>5. delivery' \in [Deliveries -> [stage : Stages, next : Nat \ {0}, tx : Tx]]
  BY <1>2, <1>4 DEF DeliveriesStay
<1>6. Types'
  BY <1>1, <1>3, <1>5, FaultTypes DEF TypeInv, Types, RowStep
<1>7. Begun'
  BY <1>4 DEF Begun
<1> QED
  BY <1>1, <1>2, <1>3, <1>6, <1>7 DEF TypeInv, RowStep

LEMMA DetailsGrow ==
    ASSUME [Next]_vars
    PROVE  details \subseteq details' /\ undone \subseteq undone'
<1> DEFINE Grow == details \subseteq details' /\ undone \subseteq undone'
<1>1. ASSUME NEW d \in Deliveries,
             Take(d) \/ HandleStep(d) \/ TroubleStep(d)
      PROVE  Grow
  BY <1>1 DEF Take, HandleStep, Refuse, Ack, CheckInProgress, LookUp, Count,
              TroubleStep, RolledBack, Fail, Redeliver, tables
<1>2. ASSUME NEW c \in Call, BeginCall(c) \/ EndCall(c) \/ GiveUp(c)
      PROVE  Grow
  BY <1>2 DEF BeginCall, EndCall, BeginUpdate, EndUpdate, BeginActivate,
              EndActivate, BeginEvent, EndEvent, GiveUp, tables
<1>3. ASSUME Tick \/ UNCHANGED vars
      PROVE  Grow
  BY <1>3 DEF vars, Tick, tables
<1> QED
  BY <1>1, <1>2, <1>3 DEF Next, Deliveries

LEMMA CountingStep ==
    ASSUME TypeInv, Counting, [Next]_vars
    PROVE  Counting'
<1> SUFFICES ASSUME NEW d \in Deliveries, NEW i \in 1 .. delivery'[d].next - 1
             PROVE  Counted(d, i)'
  BY DEF Counting
<1>1. Shaped(d)
  BY TypeStep
<1>2. delivery[d].next \in Nat \ {0}
  BY DEF TypeInv, Types
<1>3. i \in 1 .. delivery[d].next - 1 => Counted(d, i)'
  BY DetailsGrow DEF Counting, Counted, ThroughAt
<1>4. CASE delivery'[d].next = delivery[d].next
  BY <1>3, <1>4
<1>5. CASE delivery'[d].next = 1
  BY <1>5
<1>6. CASE Advanced(d)
  <2>1. delivery'[d].next = delivery[d].next + 1
    BY <1>6 DEF Advanced, Went
  <2>2. i \in 1 .. delivery[d].next - 1 \/ i = delivery[d].next
    BY <1>2, <2>1
  <2> QED
    BY <1>3, <1>6, <2>2 DEF Advanced, Counted, ThroughAt
<1> QED
  BY <1>1, <1>4, <1>5, <1>6, StartsAnew, GoesOn DEF Shaped, Kept

Covered(d) ==
    \A i \in DOMAIN Trx(d[1]) :
        \/ Counted(d, i)
        \/ \E j \in 1 .. i : ~Eligible(Trx(d[1])[j])

\* What a worker is through with, it has counted.
LEMMA ThroughCovers ==
    ASSUME TypeInv, Counting, NEW d \in Deliveries, Through(d)
    PROVE  Covered(d)
<1> SUFFICES ASSUME NEW i \in DOMAIN Trx(d[1])
             PROVE  Counted(d, i) \/ \E j \in 1 .. i : ~Eligible(Trx(d[1])[j])
  BY DEF Covered
<1>1. /\ delivery[d].next \in Nat \ {0}
      /\ Len(Trx(d[1])) \in Nat /\ i \in 1 .. Len(Trx(d[1]))
  BY OrderTypes DEF TypeInv, Types, Deliveries
<1>2. CASE i < delivery[d].next
  BY <1>1, <1>2 DEF Counting
<1>3. CASE delivery[d].next <= i
  BY <1>1, <1>3 DEF Through, ThroughAt, Current
<1> QED
  BY <1>1, <1>2, <1>3

LEMMA ForgottenStep ==
    ASSUME TypeInv, Counting, NothingForgotten, [Next]_vars
    PROVE  NothingForgotten'
<1>0. /\ DeliveriesStay /\ DOMAIN delivery = Deliveries
      /\ \A d \in Deliveries : Shaped(d)
  BY TypeStep DEF TypeInv, Types
<1> SUFFICES ASSUME NEW d \in Deliveries, delivery'[d].stage = "marked"
             PROVE  Covered(d)'
  BY <1>0 DEF NothingForgotten, DeliveriesStay, Covered, Counted, ThroughAt
<1>1. CASE Kept(d)
  <2>1. Covered(d)
    BY <1>0, <1>1 DEF Kept, NothingForgotten, Covered, Counted
  <2> QED
    BY <2>1, DetailsGrow DEF Covered, Counted, ThroughAt
<1>2. CASE Marked(d)
  <2>1. Covered(d)
    BY <1>2, ThroughCovers DEF Marked
  <2> QED
    BY <2>1, DetailsGrow DEF Covered, Counted, ThroughAt
<1> QED
  BY <1>0, <1>1, <1>2, StartsAnew, GoesOn DEF Shaped

LEMMA FoundStep ==
    ASSUME TypeInv, Found, [Next]_vars
    PROVE  Found'
<1> SUFFICES ASSUME NEW d \in Deliveries,
                    delivery'[d].tx.step # "none", delivery'[d].tx.related # 0
             PROVE  Older(delivery[d].tx.related, Current(d),
                          JakartaDay(delivery[d].tx.at))'
  BY DEF Found
<1>1. Shaped(d) /\ RowsStay
  BY TypeStep DEF RowStep
<1>2. ASSUME NEW r, NEW trx, NEW date, Older(r, trx, date)
      PROVE  /\ r \in Rows' /\ summaries'[r].date < date
             /\ summaries'[r].type = trx.type /\ summaries'[r].pay = PaymentOf[trx.type]
  BY <1>1, <1>2 DEF Older, RowsStay
<1>3. CASE Kept(d) \/ Started(d)
  <2>1. delivery'[d].tx = delivery[d].tx /\ delivery'[d].next = delivery[d].next
    BY <1>3 DEF Kept, Started
  <2>2. Older(delivery[d].tx.related, Current(d), JakartaDay(delivery[d].tx.at))
    BY <2>1 DEF Found
  <2>3. Current(d)' = Current(d)
    BY <2>1 DEF Current
  <2> QED
    BY <1>2, <2>1, <2>2, <2>3 DEF Older
<1>4. CASE LookedUp(d)
  <2>1. PICK r \in Nat :
            /\ Went(d, delivery[d].next,
                    [step |-> "upsert", at |-> delivery[d].tx.at, related |-> r])
            /\ r # 0 => Older(r, Current(d), JakartaDay(delivery[d].tx.at))
    BY <1>4 DEF LookedUp
  <2>2. /\ delivery'[d].tx.related = r /\ delivery'[d].tx.at = delivery[d].tx.at
        /\ delivery'[d].next = delivery[d].next
    BY <2>1 DEF Went
  <2>3. Older(r, Current(d), JakartaDay(delivery[d].tx.at))
    BY <2>1, <2>2
  <2>4. Current(d)' = Current(d)
    BY <2>2 DEF Current
  <2> QED
    BY <1>2, <2>2, <2>3, <2>4 DEF Older
<1> QED
  BY <1>1, <1>3, <1>4, StartsAnew, GoesOn DEF Shaped

LEMMA RelationsStep ==
    ASSUME TypeInv, Found, Related, RelationsPointBack, [Next]_vars
    PROVE  Related' /\ RelationsPointBack'
<1>1. RowsStay /\ Entered
  BY TypeStep DEF RowStep
<1> SUFFICES ASSUME NEW s \in Rows'
             PROVE  LET r == summaries'[s].related
                    IN /\ r \in Rows' \union {0}
                       /\ r # 0 => /\ summaries'[r].date < summaries'[s].date
                                   /\ summaries'[r].pay = summaries'[s].pay
                                   /\ summaries'[r].type = summaries'[s].type
  BY DEF Related, RelationsPointBack
<1>2. CASE s \in Rows
  BY <1>1, <1>2 DEF Related, RelationsPointBack, RowsStay
<1>3. CASE s \notin Rows
  <2>1. PICK d \in Deliveries :
            /\ delivery[d].tx.step = "upsert"
            /\ summaries'[s] = NewRow(Current(d), delivery[d].tx)
    BY <1>1, <1>3 DEF Entered
  <2>2. delivery[d].tx.related # 0 =>
            Older(delivery[d].tx.related, Current(d), JakartaDay(delivery[d].tx.at))
    BY <2>1 DEF Found
  <2>3. /\ summaries'[s].related = delivery[d].tx.related
        /\ summaries'[s].date = JakartaDay(delivery[d].tx.at)
        /\ summaries'[s].pay = PaymentOf[Current(d).type]
        /\ summaries'[s].type = Current(d).type
    BY <2>1 DEF NewRow
  <2> QED
    BY <1>1, <2>2, <2>3 DEF Older, RowsStay
<1> QED
  BY <1>2, <1>3

-----------------------------------------------------------------------------
\* Totals.

Details(s) == {r \in details : r.summary = s}
Amounts == [r \in details |-> Trx(r.delivery[1])[r.trx].amount]

\* A detail row is about a summary that is there and a transaction that is behind its
\* worker; so the one a worker adds is a new one.
Detailed ==
    /\ IsFiniteSet(details)
    /\ \A r \in details :
          /\ r.summary \in Rows /\ r.delivery \in Deliveries
          /\ r.trx \in DOMAIN Trx(r.delivery[1])
          /\ delivery[r.delivery].stage \notin {"absent", "queued"}
          /\ delivery[r.delivery].stage = "processing" => r.trx < delivery[r.delivery].next

LEMMA AmountTypes ==
    ASSUME Detailed
    PROVE  /\ \A r \in details : /\ Amounts[r] = Trx(r.delivery[1])[r.trx].amount
                                 /\ Amounts[r] \in Nat
           /\ \A s : IsFiniteSet(Details(s)) /\ Details(s) \subseteq details
<1>1. ASSUME NEW r \in details
      PROVE  Amounts[r] = Trx(r.delivery[1])[r.trx].amount /\ Amounts[r] \in Nat
  <2>1. r.delivery[1] \in Order /\ r.trx \in DOMAIN Trx(r.delivery[1])
    BY DEF Detailed, Deliveries
  <2> QED
    BY <2>1, OrderTypes DEF Amounts
<1>2. ASSUME NEW s PROVE IsFiniteSet(Details(s)) /\ Details(s) \subseteq details
  BY FS_Subset DEF Details, Detailed
<1> QED
  BY <1>1, <1>2

\* What an upsert does to the totals: the summary whose id it returns takes the amount
\* up, or begins with it.
Adds(id, amount) ==
    /\ Rows' = Rows \union {id}
    /\ summaries'[id].total = IF id \in Rows THEN summaries[id].total + amount ELSE amount
    /\ \A s \in Rows \ {id} : summaries'[s].total = summaries[s].total

LEMMA CountAdds ==
    ASSUME Types, Begun, Unique, NEW d \in Deliveries, Count(d)
    PROVE  \E id : /\ Adds(id, Current(d).amount)
                   /\ details' = details \union
                        {[summary |-> id, delivery |-> d, trx |-> delivery[d].next]}
<1> DEFINE row == NewRow(Current(d), delivery[d].tx)
           id == UpsertedId(row)
<1>1. summaries' = Upserted(row)
  BY DEF Count
<1>2. details' = details \union {[summary |-> id, delivery |-> d, trx |-> delivery[d].next]}
  BY DEF Count, Detail
<1>3. row.total = Current(d).amount /\ row \in Summary
  <2>1. delivery[d].tx.step = "upsert" /\ ~Through(d)
    BY DEF Count, Begun
  <2>2. delivery[d].tx \in Tx
    BY DEF Types
  <2>3. JakartaDay(delivery[d].tx.at) \in Int
    BY <2>2 DEF Tx, JakartaDay
  <2> QED
    BY <2>1, <2>2, <2>3, CurrentTypes DEF NewRow, Summary, Tx, Statuses
<1>4. Len(summaries) \in Nat /\ Rows = 1 .. Len(summaries) /\ \A s \in Rows : summaries[s] \in Summary
  BY RowTypes
<1> HIDE DEF row
<1>5. CASE Conflicts(row) = {}
  <2>1. summaries' = Append(summaries, row) /\ id = Len(summaries) + 1
    BY <1>1, <1>5 DEF Upserted, UpsertedId
  <2>2. /\ Rows' = Rows \union {id} /\ id \notin Rows /\ summaries'[id] = row
        /\ \A s \in Rows : summaries'[s] = summaries[s]
    BY <1>3, <1>4, <2>1 DEF Types, Rows
  <2>3. Adds(id, row.total)
    BY <2>2 DEF Adds
  <2> QED
    BY <1>2, <1>3, <2>3
<1>6. CASE Conflicts(row) # {}
  <2> DEFINE new(s) == IF s \in Conflicts(row)
                       THEN [summaries[s] EXCEPT !.total = Added(@, row.total)]
                       ELSE summaries[s]
  <2>1. summaries' = [s \in Rows |-> new(s)] /\ id \in Conflicts(row)
    BY <1>1, <1>6 DEF Upserted, UpsertedId
  <2>2. id \in Rows /\ Conflicts(row) = {id}
    BY <2>1 DEF Conflicts, Unique
  <2>3. new(id).total = summaries[id].total + row.total
    BY <1>4, <2>2 DEF Added, Summary
  <2>4. \A s \in Rows \ {id} : new(s) = summaries[s]
    BY <2>2
  <2> HIDE DEF new, id
  <2>5. Rows' = Rows /\ \A s \in Rows : summaries'[s] = new(s)
    BY <2>1 DEF Rows
  <2>6. Adds(id, row.total)
    BY <2>2, <2>3, <2>4, <2>5 DEF Adds
  <2> QED
    BY <1>2, <1>3, <2>6
<1> QED
  BY <1>5, <1>6

\* Nothing else changes a total or adds a detail.
LEMMA TotalSteps ==
    ASSUME TypeInv, [Next]_vars
    PROVE  \/ TotalsStay /\ details' = details
           \/ \E d \in Deliveries : Count(d)
<1>1. ASSUME NEW c \in Call, EndCall(c)
      PROVE  TotalsStay /\ details' = details
  BY <1>1, EndCallSettles DEF TypeInv, EndCall, EndUpdate, EndActivate, EndEvent
<1>2. ASSUME UNCHANGED <<summaries, details>>
      PROVE  TotalsStay /\ details' = details
  BY <1>2, NothingSettles DEF TypeInv
<1>3. ASSUME NEW d \in Deliveries,
             Take(d) \/ Refuse(d) \/ Ack(d) \/ CheckInProgress(d) \/ LookUp(d)
                 \/ TroubleStep(d)
      PROVE  UNCHANGED <<summaries, details>>
  BY <1>3 DEF Take, Refuse, Ack, CheckInProgress, LookUp, TroubleStep, RolledBack, Fail,
              Redeliver, tables
<1>4. ASSUME NEW c \in Call, BeginCall(c) \/ GiveUp(c)
      PROVE  UNCHANGED <<summaries, details>>
  BY <1>4 DEF BeginCall, BeginUpdate, BeginActivate, BeginEvent, GiveUp, tables
<1>5. ASSUME NEW d \in Deliveries, Take(d) \/ HandleStep(d) \/ TroubleStep(d)
      PROVE  UNCHANGED <<summaries, details>> \/ Count(d)
  BY <1>3, <1>5 DEF HandleStep
<1>6. CASE Tick \/ UNCHANGED vars
  BY <1>2, <1>6 DEF Tick, vars, tables
<1>7. CASE \E d \in Deliveries : Take(d) \/ HandleStep(d) \/ TroubleStep(d)
  BY <1>2, <1>5, <1>7
<1>8. CASE \E c \in Call : BeginCall(c) \/ EndCall(c) \/ GiveUp(c)
  BY <1>1, <1>2, <1>4, <1>8
<1> QED
  BY <1>6, <1>7, <1>8 DEF Next, Deliveries

\* A worker never goes back to a transaction that has its detail.
LEMMA DetailBehind ==
    ASSUME TypeInv, [Next]_vars, NEW d \in Deliveries, NEW i \in Nat,
           delivery[d].stage \notin {"absent", "queued"},
           delivery[d].stage = "processing" => i < delivery[d].next
    PROVE  /\ delivery'[d].stage \notin {"absent", "queued"}
           /\ delivery'[d].stage = "processing" => i < delivery'[d].next
<1>1. Shaped(d) /\ delivery[d].next \in Nat
  BY TypeStep DEF TypeInv, Types
<1>2. CASE Kept(d) \/ Started(d)
  BY <1>2 DEF Kept, Started
<1>3. CASE Reset(d) \/ Marked(d)
  <2>1. PICK stage \in Stages \ {"absent", "queued", "processing"} :
            delivery'[d] = Fresh(stage)
    BY <1>3 DEF Reset, Marked, Stages
  <2>2. delivery'[d].stage = stage
    BY <2>1 DEF Fresh
  <2> QED
    BY <2>1, <2>2
<1>4. ASSUME NEW next, NEW tx, Went(d, next, tx), next >= delivery[d].next, next \in Nat
      PROVE  /\ delivery'[d].stage \notin {"absent", "queued"}
             /\ delivery'[d].stage = "processing" => i < delivery'[d].next
  BY <1>1, <1>4 DEF Went
<1>5. CASE Checked(d)
  BY <1>1, <1>4, <1>5 DEF Checked
<1>6. CASE LookedUp(d)
  BY <1>1, <1>4, <1>6 DEF LookedUp
<1>7. CASE Advanced(d)
  BY <1>1, <1>4, <1>7 DEF Advanced
<1> QED
  BY <1>1, <1>2, <1>3, <1>5, <1>6, <1>7 DEF Shaped

LEMMA DetailedStep ==
    ASSUME TypeInv, Detailed, [Next]_vars
    PROVE  Detailed'
<1>1. ASSUME NEW r \in details
      PROVE  /\ r.summary \in Rows' /\ r.delivery \in Deliveries
             /\ r.trx \in DOMAIN Trx(r.delivery[1])
             /\ delivery'[r.delivery].stage \notin {"absent", "queued"}
             /\ delivery'[r.delivery].stage = "processing" => r.trx < delivery'[r.delivery].next
  <2>1. /\ r.summary \in Rows /\ r.delivery \in Deliveries
        /\ r.trx \in DOMAIN Trx(r.delivery[1])
        /\ delivery[r.delivery].stage \notin {"absent", "queued"}
        /\ delivery[r.delivery].stage = "processing" => r.trx < delivery[r.delivery].next
    BY DEF Detailed
  <2>2. r.summary \in Rows'
    BY <2>1, TypeStep DEF RowStep, RowsStay
  <2>3. r.trx \in Nat
    BY <2>1, OrderTypes DEF Deliveries
  <2> QED
    BY <2>1, <2>2, <2>3, DetailBehind
<1>2. CASE details' = details
  BY <1>1, <1>2 DEF Detailed
<1>3. ASSUME NEW d \in Deliveries, Count(d)
      PROVE  Detailed'
  <2>1. PICK id : /\ Adds(id, Current(d).amount)
                  /\ details' = details \union
                       {[summary |-> id, delivery |-> d, trx |-> delivery[d].next]}
    BY <1>3, CountAdds DEF TypeInv
  <2> DEFINE x == [summary |-> id, delivery |-> d, trx |-> delivery[d].next]
  <2>2. x.summary \in Rows' /\ x.delivery = d /\ x.trx = delivery[d].next
    BY <2>1 DEF Adds
  <2>3. x.trx \in DOMAIN Trx(d[1]) /\ x.trx \in Nat
    <3>1. delivery[d].tx.step = "upsert" /\ ~Through(d)
      BY <1>3 DEF Count, TypeInv, Begun
    <3>2. d[1] \in Order
      BY DEF Deliveries
    <3> QED
      BY <2>2, <3>1, <3>2, CurrentTypes, OrderTypes DEF TypeInv
  <2>4. /\ delivery'[d].stage \notin {"absent", "queued"}
        /\ delivery'[d].stage = "processing" => x.trx < delivery'[d].next
    <3>1. (Advanced(d) \/ Reset(d)) /\ delivery[d].stage = "processing"
      BY <1>3, CountShape DEF TypeInv, Count, Working
    <3>2. CASE Advanced(d)
      BY <2>2, <2>3, <3>2 DEF Advanced, Went
    <3>3. CASE Reset(d)
      BY <3>1, <3>3 DEF Reset, Fresh, Stages
    <3> QED
      BY <3>1, <3>2, <3>3
  <2>5. IsFiniteSet(details')
    BY <2>1, FS_AddElement DEF Detailed
  <2> HIDE DEF x
  <2>6. details' = details \union {x}
    BY <2>1 DEF x
  <2>7. ASSUME NEW r \in details'
        PROVE  /\ r.summary \in Rows' /\ r.delivery \in Deliveries
               /\ r.trx \in DOMAIN Trx(r.delivery[1])
               /\ delivery'[r.delivery].stage \notin {"absent", "queued"}
               /\ delivery'[r.delivery].stage = "processing" =>
                        r.trx < delivery'[r.delivery].next
    <3>1. CASE r = x
      BY <2>2, <2>3, <2>4, <3>1
    <3>2. CASE r \in details
      BY <1>1, <3>2
    <3> QED
      BY <2>6, <3>1, <3>2
  <2> QED
    BY <2>5, <2>7 DEF Detailed
<1> QED
  BY <1>2, <1>3, TotalSteps

\* Each total is the sum of the amounts of its details.
TotalsAddUp == \A s \in Rows : summaries[s].total = SumFunctionOnSet(Amounts, Details(s))

LEMMA TotalsAddUpStep ==
    ASSUME TypeInv, Detailed, TotalsAddUp, [Next]_vars
    PROVE  TotalsAddUp'
<1>1. CASE TotalsStay /\ details' = details
  BY <1>1 DEF TotalsStay, TotalsAddUp, Amounts, Details
<1>2. ASSUME NEW d \in Deliveries, Count(d)
      PROVE  TotalsAddUp'
  <2>1. PICK id : /\ Adds(id, Current(d).amount)
                  /\ details' = details \union
                       {[summary |-> id, delivery |-> d, trx |-> delivery[d].next]}
    BY <1>2, CountAdds DEF TypeInv
  <2> DEFINE x == [summary |-> id, delivery |-> d, trx |-> delivery[d].next]
             amount == Current(d).amount
             f == [r \in details' |-> Trx(r.delivery[1])[r.trx].amount]
             S(s) == {r \in details' : r.summary = s}
  <2>2. x.summary = id /\ x.delivery = d /\ x.trx = delivery[d].next
    OBVIOUS
  <2> HIDE DEF x
  <2>3. details' = details \union {x}
    BY <2>1 DEF x
  <2>4. x \notin details
    <3>1. SUFFICES ASSUME x \in details PROVE FALSE
      OBVIOUS
    <3>2. delivery[d].stage = "processing"
      BY <1>2 DEF Count, Working
    <3>3. x.trx < delivery[d].next /\ delivery[d].next \in Nat
      BY <2>2, <3>1, <3>2 DEF Detailed, TypeInv, Types
    <3> QED
      BY <2>2, <3>3
  <2>5. f[x] = amount /\ amount \in Nat
    <3>1. delivery[d].tx.step = "upsert" /\ ~Through(d)
      BY <1>2 DEF Count, TypeInv, Begun
    <3>2. amount \in Nat
      BY <3>1, CurrentTypes DEF TypeInv
    <3> QED
      BY <2>2, <2>3, <3>2 DEF Current
  <2>6. \A r \in details : f[r] = Amounts[r] /\ f[r] \in Nat
    BY <2>3, AmountTypes
  <2>7. S(id) = Details(id) \union {x} /\ \A s : s # id => S(s) = Details(s)
    BY <2>2, <2>3 DEF Details
  <2> HIDE DEF f, amount, S
  <2>8. ASSUME NEW s PROVE SumFunctionOnSet(f, Details(s)) = SumFunctionOnSet(Amounts, Details(s))
    <3>1. IsFiniteSet(Details(s)) /\ \A r \in Details(s) : f[r] = Amounts[r]
      BY <2>6, AmountTypes
    <3> QED
      BY <3>1, SumSame
  <2>9. SumFunctionOnSet(f, S(id)) = amount + SumFunctionOnSet(f, Details(id))
    <3>1. /\ IsFiniteSet(Details(id)) /\ \A r \in Details(id) : f[r] \in Int
          /\ x \notin Details(id) /\ f[x] \in Int
      BY <2>4, <2>5, <2>6, AmountTypes
    <3>2. SumFunctionOnSet(f, Details(id) \union {x}) = f[x] + SumFunctionOnSet(f, Details(id))
      BY <3>1, SumAdd
    <3> QED
      BY <2>5, <2>7, <3>2
  <2>10. summaries'[id].total = SumFunctionOnSet(f, S(id))
    <3>1. CASE id \in Rows
      <4>1. summaries[id].total \in Nat /\ summaries[id].total = SumFunctionOnSet(Amounts, Details(id))
        BY <3>1, RowTypes DEF TypeInv, Summary, TotalsAddUp
      <4>2. summaries'[id].total = summaries[id].total + amount
        BY <2>1, <3>1 DEF Adds, amount
      <4> QED
        BY <2>5, <2>8, <2>9, <4>1, <4>2
    <3>2. CASE id \notin Rows
      <4>1. Details(id) = {}
        BY <3>2 DEF Details, Detailed
      <4>2. SumFunctionOnSet(f, Details(id)) = 0
        BY <4>1, SumEmpty
      <4>3. summaries'[id].total = amount
        BY <2>1, <3>2 DEF Adds, amount
      <4> QED
        BY <2>5, <2>9, <4>2, <4>3
    <3> QED
      BY <3>1, <3>2
  <2>11. ASSUME NEW s \in Rows', s # id
         PROVE  summaries'[s].total = SumFunctionOnSet(f, S(s))
    <3>1. s \in Rows /\ summaries'[s].total = summaries[s].total
      BY <2>1, <2>11 DEF Adds
    <3> QED
      BY <2>7, <2>8, <2>11, <3>1 DEF TotalsAddUp
  <2>12. \A s \in Rows' : summaries'[s].total = SumFunctionOnSet(f, S(s))
    BY <2>10, <2>11
  <2> QED
    BY <2>12 DEF TotalsAddUp, Amounts, Details, f, S
<1> QED
  BY <1>1, <1>2, TotalSteps

-----------------------------------------------------------------------------
\* The theorems.

LEMMA InitTypeInv == Init => TypeInv
<1>1. Init => Remembered
  BY DEF Init, Remembered
<1> QED
  BY <1>1, InitTypes, InitInv DEF TypeInv

LEMMA TypesAlways == Spec => []TypeInv
<1>1. TypeInv /\ [Next]_vars => TypeInv'
  BY TypeStep
<1> QED
  BY <1>1, InitTypeInv, PTL DEF Spec

LEMMA RelationsAlways == Spec => [](Found /\ Related /\ RelationsPointBack)
<1>1. Init => Found /\ Related /\ RelationsPointBack
  BY InitInv DEF Init, Rows, RelationsPointBack
<1>2. TypeInv /\ (Found /\ Related /\ RelationsPointBack) /\ [Next]_vars
          => (Found /\ Related /\ RelationsPointBack)'
  BY FoundStep, RelationsStep
<1> QED
  BY <1>1, <1>2, TypesAlways, PTL DEF Spec

\* The variables have their types, rows refer to rows, and no two active summaries are
\* for one day and one payment type: neither workers that upsert at once nor users that
\* switch summaries on and off get round the index (sql_money_flow_calc.go).
THEOREM TypeCorrect == Spec => []TypeOK
<1>1. TypeInv /\ Related => TypeOK
  <2> SUFFICES ASSUME TypeInv, Related
               PROVE  TypeOK
    OBVIOUS
  <2>1. /\ clock \in 0 .. MaxClock /\ faults \in Nat
        /\ \A c \in Call : call[c].step \in {"todo", "write", "done"}
    BY DEF TypeInv, Types
  <2>2. ASSUME NEW s \in Rows
        PROVE  /\ summaries[s].status \in Statuses
               /\ summaries[s].papa \in Papa \union {None}
               /\ summaries[s].related \in 0 .. Len(summaries)
               /\ summaries[s].active => Conflicts(summaries[s]) = {s}
    <3>1. /\ summaries[s] \in Summary /\ Len(summaries) \in Nat
          /\ Rows = 1 .. Len(summaries)
      BY RowTypes DEF TypeInv
    <3>2. summaries[s].related \in Rows \union {0}
      BY DEF Related
    <3>3. summaries[s].status \in Statuses /\ summaries[s].papa \in Papa \union {None}
      BY <3>1 DEF Summary
    <3>4. summaries[s].related \in 0 .. Len(summaries)
      BY <3>1, <3>2
    <3>5. summaries[s].active => Conflicts(summaries[s]) = {s}
      BY DEF TypeInv, Unique
    <3> QED
      BY <3>3, <3>4, <3>5
  <2>3. ASSUME NEW d \in DOMAIN delivery
        PROVE  /\ delivery[d].stage \in Stages
               /\ delivery[d].next \in 1 .. Len(Trx(d[1])) + 1
    <3>1. d \in Deliveries /\ Len(Trx(d[1])) \in Nat
      BY OrderTypes DEF TypeInv, Types, Deliveries
    <3> QED
      BY <3>1 DEF TypeInv, Types, Begun
  <2> QED
    BY <2>1, <2>2, <2>3 DEF TypeOK, Stages
<1> QED
  BY <1>1, TypesAlways, RelationsAlways, PTL

\* Whatever happens to workers, the database and the dead-letter queue, an acknowledged
\* notification has had its transactions counted up to the first that no rule covers
\* (money_flow_calc_handler.go): the mark comes after the last commit.  Only the count of
\* the last one may be missing, if the session ended at its commit (sql_main.go).
THEOREM CountedWhole == Spec => []NothingForgotten
<1>1. Init => Counting /\ NothingForgotten
  <2> SUFFICES ASSUME Init
               PROVE  NothingForgotten
    BY InitInv
  <2>1. \A d \in Deliveries : \E stage \in {"queued", "absent"} : delivery[d] = Fresh(stage)
    BY DEF Init, Deliveries
  <2> QED
    BY <2>1 DEF NothingForgotten, Init, Deliveries, Fresh
<1>2. TypeInv /\ (Counting /\ NothingForgotten) /\ [Next]_vars
          => (Counting /\ NothingForgotten)'
  BY CountingStep, ForgottenStep
<1> QED
  BY <1>1, <1>2, TypesAlways, PTL DEF Spec

\* A summary takes up the amount of an older one of its own type and payment only, for
\* all that happens between the queries of a worker and its upsert
\* (money_flow_processor.go): relations lead back in time and never round.
THEOREM NoCircles == Spec => []RelationsPointBack
BY RelationsAlways, PTL

\* The total that is asked of PAPA is what the details of the summary add up to, for any
\* number of workers that add to it at once and whatever fails or is repeated
\* (sql_money_flow_calc.go, UpsertSummary): an upsert adds to one row, and no transaction
\* of a notification gets a second detail from the same delivery.
THEOREM TotalsRight == Spec => []TotalMatchesDetails
<1>1. Init => Detailed /\ TotalsAddUp
  BY FS_EmptySet DEF Init, Detailed, TotalsAddUp, Rows
<1>2. TypeInv /\ (Detailed /\ TotalsAddUp) /\ [Next]_vars => (Detailed /\ TotalsAddUp)'
  BY DetailedStep, TotalsAddUpStep
<1>3. TotalsAddUp => TotalMatchesDetails
  BY DEF TotalsAddUp, TotalMatchesDetails, Amounts, Details
<1> QED
  BY <1>1, <1>2, <1>3, TypesAlways, PTL DEF Spec

-----------------------------------------------------------------------------
(***************************************************************************)
(* Days that are over.  A day ends in UTC seven hours after it has ended   *)
(* in Jakarta; that is more than a database transaction is open.           *)
(***************************************************************************)

\* What a worker is about to upsert it has dated a tick ago at most.
InTime == \A d \in Deliveries : delivery[d].tx.step # "none" => clock - 1 <= delivery[d].tx.at

Past(s) == summaries[s].date < UtcDay(clock)

LEMMA ClockTypes ==
    ASSUME Types
    PROVE  clock \in Nat /\ \A d \in Deliveries : delivery[d].tx.at \in Nat
<1>1. clock \in Nat
  BY OrdersAssumption DEF OrdersAssumption, Types
<1>2. ASSUME NEW d \in Deliveries PROVE delivery[d].tx \in Tx
  BY DEF Types
<1>3. \A d \in Deliveries : delivery[d].tx.at \in Nat
  BY <1>2 DEF Tx
<1> QED
  BY <1>1, <1>3

LEMMA InTimeStep ==
    ASSUME TypeInv, InTime, [Next]_vars
    PROVE  InTime'
<1> SUFFICES ASSUME NEW d \in Deliveries, delivery'[d].tx.step # "none"
             PROVE  clock' - 1 <= delivery'[d].tx.at
  BY DEF InTime
<1>1. clock \in Nat /\ delivery[d].tx.at \in Nat
  BY ClockTypes DEF TypeInv
<1>2. CASE Tick
  <2>1. delivery' = delivery /\ clock' = clock + 1
    BY <1>2 DEF Tick
  <2>2. DOMAIN delivery = Deliveries
    BY DEF TypeInv, Types
  <2>3. delivery[d].tx = NoTx \/ delivery[d].tx.at = clock
    BY <1>2, <2>2 DEF Tick
  <2>4. delivery[d].tx # NoTx
    BY <2>1 DEF NoTx
  <2> QED
    BY <1>1, <2>1, <2>3, <2>4
<1>3. CASE ~Tick
  <2>1. clock' = clock
    BY <1>3 DEF Next, vars, tables, Take, HandleStep, TroubleStep, RolledBack, Fail,
       Redeliver, Refuse, Ack, CheckInProgress, LookUp, Count, BeginCall, EndCall, GiveUp, BeginUpdate,
       BeginActivate, BeginEvent, EndUpdate, EndActivate, EndEvent
  <2>2. Shaped(d)
    BY TypeStep
  <2>3. CASE Kept(d)
    BY <2>1, <2>3 DEF Kept, InTime
  <2>4. CASE Reset(d) \/ Marked(d)
    BY <2>4, StartsAnew
  <2>5. CASE Started(d)
    <3>1. delivery'[d].tx = delivery[d].tx
      BY <2>5 DEF Started
    <3> QED
      BY <2>1, <3>1 DEF InTime
  <2>6. CASE Checked(d)
    <3>1. delivery'[d].tx.at = clock
      BY <2>6 DEF Checked, Went
    <3> QED
      BY <1>1, <2>1, <3>1
  <2>7. CASE LookedUp(d)
    <3>1. delivery'[d].tx.at = delivery[d].tx.at /\ delivery[d].tx.step = "lookup"
      BY <2>7 DEF LookedUp, Went
    <3> QED
      BY <2>1, <3>1 DEF InTime
  <2>8. CASE Advanced(d)
    <3>1. delivery'[d].tx = NoTx
      BY <2>8 DEF Advanced, Went
    <3> QED
      BY <3>1 DEF NoTx
  <2> QED
    BY <2>2, <2>3, <2>4, <2>5, <2>6, <2>7, <2>8 DEF Shaped
<1> QED
  BY <1>2, <1>3

\* No step adds to a summary of a day that is over in UTC.
LEMMA PastStays ==
    ASSUME TypeInv, InTime, [Next]_vars, NEW s \in Rows, Past(s)
    PROVE  summaries'[s].total = summaries[s].total
<1>1. CASE TotalsStay
  BY <1>1 DEF TotalsStay
<1>2. ASSUME NEW d \in Deliveries, Count(d)
      PROVE  summaries'[s].total = summaries[s].total
  <2> DEFINE row == NewRow(Current(d), delivery[d].tx)
  <2>1. clock - 1 <= delivery[d].tx.at
    BY <1>2 DEF Count, InTime
  <2>2. row.date = delivery[d].tx.at \div 2
    BY DEF NewRow, JakartaDay
  <2>3. clock \in Nat /\ delivery[d].tx.at \in Nat
    BY ClockTypes DEF TypeInv
  <2>4. (clock - 1) \div 2 <= delivery[d].tx.at \div 2
    BY <2>1, <2>3
  <2>5. summaries[s].date # row.date
    <3>1. summaries[s] \in Summary
      BY RowTypes DEF TypeInv
    <3>2. summaries[s].date \in Int
      BY <3>1 DEF Summary
    <3>3. summaries[s].date < (clock - 1) \div 2
      BY DEF Past, UtcDay
    <3> QED
      BY <2>2, <2>3, <2>4, <3>2, <3>3
  <2>6. summaries' = Upserted(row)
    BY <1>2 DEF Count
  <2>7. s \notin Conflicts(row)
    BY <2>5 DEF Conflicts
  <2> HIDE DEF row
  <2>8. summaries'[s] = summaries[s]
    <3>1. summaries \in Seq(Summary)
      BY DEF TypeInv, Types
    <3> QED
      BY <2>6, <2>7, <3>1 DEF Upserted, Rows
  <2> QED
    BY <2>8
<1> QED
  BY <1>1, <1>2, TotalSteps

\* The total of a summary that people can see, with that of the failed one it takes up,
\* never changes again, if dates are read back as dates and a database transaction is open
\* for less than the seven hours between midnight in Jakarta and in UTC
\* (sql_money_flow_calc.go, the list; money_flow_processor.go, the date).
THEOREM ListedForGood ==
    ASSUME ~IsInstant
    PROVE  Spec => ListedTotalIsFinal
<1>1. Init => InTime
  <2> SUFFICES ASSUME Init, NEW d \in Deliveries
               PROVE  delivery[d].tx.step = "none"
    BY DEF InTime
  <2>1. PICK stage \in Stages : delivery[d] = Fresh(stage)
    BY InitTypes
  <2> QED
    BY <2>1 DEF Fresh, NoTx
<1>2. TypeInv /\ InTime /\ [Next]_vars => InTime'
  BY InTimeStep
<1>3. TypeInv /\ InTime /\ (Found /\ Related /\ RelationsPointBack) /\ [Next]_vars
        => [\A s \in Rows :
              Listed(summaries[s]) => TotalShown(summaries, s)' = TotalShown(summaries, s)]_vars
  <2> SUFFICES ASSUME TypeInv, InTime, Related, RelationsPointBack, [Next]_vars,
                      NEW s \in Rows, Listed(summaries[s])
               PROVE  TotalShown(summaries, s)' = TotalShown(summaries, s)
    OBVIOUS
  <2> DEFINE r == summaries[s].related
  <2>1. Past(s)
    BY DEF Listed, Past
  <2>2. summaries'[s].total = summaries[s].total
    BY <2>1, PastStays
  <2>3. summaries'[s].related = r
    BY TypeStep DEF RowStep, RowsStay
  <2>4. CASE r = 0
    BY <2>2, <2>3, <2>4 DEF TotalShown
  <2>5. CASE r # 0
    <3>1. r \in Rows /\ summaries[r].date < summaries[s].date
      BY <2>5 DEF Related, RelationsPointBack
    <3>2. summaries[r].date \in Int /\ summaries[s].date \in Int /\ clock \in Nat
      <4>1. summaries[r] \in Summary /\ summaries[s] \in Summary
        BY <3>1, RowTypes DEF TypeInv
      <4> QED
        BY <4>1, ClockTypes DEF TypeInv, Summary
    <3>3. Past(r)
      BY <2>1, <3>1, <3>2 DEF Past, UtcDay
    <3>4. summaries'[r].total = summaries[r].total
      BY <3>1, <3>3, PastStays
    <3> QED
      BY <2>2, <2>3, <2>5, <3>4 DEF TotalShown
  <2> QED
    BY <2>4, <2>5
<1> QED
  BY <1>1, <1>2, <1>3, TypesAlways, RelationsAlways, PTL DEF Spec, ListedTotalIsFinal

=============================================================================
