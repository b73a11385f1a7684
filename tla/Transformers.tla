----------------------------- MODULE Transformers -----------------------------
(***************************************************************************)
(* Wallet transactions through the transformers: MapTransformer.Transform  *)
(* as CreateTransactionAtomic and ProcessReservedTransaction call it       *)
(* (internal/services/wallet_transaction_service.go), with what the        *)
(* transformers read while they do: the transaction and wallet_transaction *)
(* tables, the VAT periods and a feature flag.  The children of a          *)
(* reservation are made twice, when it is created and when it is settled,  *)
(* and are not stored in between.  Creation transforms before it opens its *)
(* database transaction; settling transforms inside it, after it updated   *)
(* the status.                                                             *)
(*                                                                         *)
(* Of the balances only pendingBalance is kept: funds suffice, and         *)
(* WalletLedger has the locks and the rest of the arithmetic.              *)
(***************************************************************************)
EXTENDS TransformerTable, FiniteSets, FiniteSetsExt

CONSTANTS
    Trx,         \* identifiers of wallet transactions, 1..n
    Percent,     \* VAT percentages of the periods; NoVat for a time in none
    SettleKey,   \* metadata a settling call may add
    Excluded,    \* accounts whose balance is never updated
    OneAtATime,  \* reversals of one transaction are never in flight together
    ReversalTimeRangeDays,  \* how far back a reversal looks
    World        \* the instances a behaviour may start from: the plan of what each client
                 \* asks for, the environment, which kinds of changes there are (a new
                 \* "period", another "day", a "look" that shows less than there is) and
                 \* how many at most

TransformersAssumption ==
    /\ Trx = 1 .. Cardinality(Trx)
    /\ Percent \subseteq Nat
    /\ ReversalTimeRangeDays \in Nat \ {0}
    /\ \A w \in World :
        /\ w.env \in [vat : Percent, external : BOOLEAN, adjust : BOOLEAN]
        /\ w.kinds \subseteq {"period", "day", "look"}
        /\ w.most \in Nat
ASSUME TransformersAssumption

VARIABLES
    bound,     \* the kinds of changes, and how many at most
    plan,      \* what each client asks for
    env,       \* the environment: the VAT, the flag for external account configurations, and
               \* the value EnableRpyabRpyacAdjustment is deployed with
    today,     \* days gone by; a request's date counts from the same day
    row,       \* wallet_transaction, metadata included
    status,    \* its status, "none" while there is no row
    posted,    \* the rows each inserted in the transaction table
    inserted,  \* the transactions with such rows, in the order of insertion
    pending,   \* pendingBalance of the accounts where it is not zero
    call,      \* the call in flight for each: idle, create, commit, cancel
    made,      \* what Transform returned to it
    reserved,  \* history: the children each was reserved with
    shown,     \* history: what queries showed each when it was created, and settled
    changes    \* changes left

tables  == <<row, status, posted, inserted, pending>>
history == <<reserved, shown>>
vars    == <<bound, plan, env, today, tables, call, made, history, changes>>

NoPlan == [type |-> "none"]

Strike(kind) ==
    /\ kind \in bound.kinds
    /\ changes > 0
    /\ changes' = changes - 1

-----------------------------------------------------------------------------
(***************************************************************************)
(* What the queries of a reversal show: a look is the rows that GetList    *)
(* gives it, and the wallet transactions that List does.                   *)
(***************************************************************************)
\* The rows some transactions inserted under a reference number.
Rows(ref, trxs) ==
    FlattenSeq([i \in DOMAIN trxs |-> IF row[trxs[i]].ref = ref THEN posted[trxs[i]] ELSE <<>>])

\* The rows of a reference number that are dated in the window which ends today, newest
\* first.  A row has the date of its transaction's time, which the client gave.
GetList(ref, trxs) ==
    LET Dated(date) == Rows(ref, SelectSeq(trxs, LAMBDA t : row[t].date = date))
    IN FlattenSeq([n \in 1 .. ReversalTimeRangeDays + 1 |-> Reverse(Dated(today + 1 - n))])

FullLook(ref) == [rows |-> GetList(ref, inserted), listed |-> Trx]

\* A replica is read that may be behind; and a connection that breaks cuts a list short,
\* of which nobody is told.
RowsCut(ref) ==
    UNION {LET all == GetList(ref, SubSeq(inserted, 1, n))
           IN {SubSeq(all, 1, m) : m \in 0 .. Len(all)} : n \in 0 .. Len(inserted)}

\* The newest come first, too.
ListsCut ==
    {some \in SUBSET {t \in Trx : status[t] # "none"} :
        \A t \in some, u \in Trx \ some : status[u] # "none" => row[t].date >= row[u].date}

IsPaid(rows) == \E r \in ToSet(rows) : r.type = "PAYQR"

\* Only reversals look, and List is for those of QRIS payments.  Inside a database
\* transaction it is not cut: the transaction would be lost with the connection.
Looks(w, inside) ==
    {FullLook(w.ref)} \union
    IF w.type = "RVRSL" /\ "look" \in bound.kinds
    THEN [rows : RowsCut(w.ref), listed : {Trx}] \union
         IF inside THEN {}
         ELSE [rows : {rows \in RowsCut(w.ref) : IsPaid(rows)}, listed : ListsCut]
    ELSE {}

See(w, look) ==
    IF look = FullLook(w.ref) THEN UNCHANGED changes ELSE Strike("look")

-----------------------------------------------------------------------------
(***************************************************************************)
(* Transformers that read the tables.  t is the transaction itself, st the *)
(* status its own row has inside the database transaction, "none" before   *)
(* it is inserted.                                                         *)
(***************************************************************************)
PartTotal(w, type) ==
    FoldLeft(LAMBDA sum, p : IF p.type = type THEN sum + p.amount ELSE sum,
             IF w.type = type THEN w.net ELSE 0, w.parts)

StatusSeen(t, st, u) == IF u = t THEN st ELSE status[u]

\* Mutant: only refunds that are still reserved are counted.
RefundedPending(t, w, st, look) ==
    MapThenSumSet(LAMBDA u : PartTotal(row[u], "RVRSL"),
        {u \in look.listed :
            /\ StatusSeen(t, st, u) = "PENDING"
            /\ row[u].type = "RVRSL" /\ row[u].ref = row[w.original].ref})

\* Mutant: refunds that were cancelled stay counted.
RefundedEver(t, w, st, look) ==
    MapThenSumSet(LAMBDA u : PartTotal(row[u], "RVRSL"),
        {u \in look.listed :
            /\ StatusSeen(t, st, u) # "none"
            /\ row[u].type = "RVRSL" /\ row[u].ref = row[w.original].ref})

\* What was refunded under the reference number of the original transaction, which need not
\* be the refund's own; its own row is counted as well once it is in the table.
Refunded(t, w, st, look) ==
    MapThenSumSet(LAMBDA u : PartTotal(row[u], "RVRSL"),
        {u \in look.listed :
            /\ StatusSeen(t, st, u) \in {"PENDING", "SUCCESS"}
            /\ row[u].type = "RVRSL" /\ row[u].ref = row[w.original].ref})

handleRefundIssuerQRIS(t, w, st, look) ==
    IF /\ w.parts = <<>>
       /\ status[w.original] # "none"
       /\ Refunded(t, w, st, look) + w.net <= PartTotal(row[w.original], "PAYQR")
    THEN Made(<<Child("RFDQR", <<System>>, <<"account", w.account>>, w.net)>>, w)
    ELSE Refused

\* Mutant: the children are posted again the way they went.
RVRSLRepeated(t, w, st, look) ==
    LET rows == look.rows
    IN IF w.flow = "refund" /\ w.original # None /\ rows # <<>>
       THEN IF IsPaid(rows)
            THEN handleRefundIssuerQRIS(t, w, st, look)
            ELSE Made([i \in DOMAIN rows |->
                          Child("RVRSL", rows[i].from, rows[i].to, rows[i].amount)], w)
       ELSE Refused

RVRSL(t, w, st, look) ==
    LET rows == look.rows
    IN CASE w.flow # "refund" \/ w.original = None \/ rows = <<>> -> Refused
         [] OTHER ->
              IF IsPaid(rows) THEN handleRefundIssuerQRIS(t, w, st, look)
              ELSE IF \E r \in ToSet(rows) : r.type = "RVRSL" THEN Refused
              ELSE Made([i \in DOMAIN rows |->
                            Child("RVRSL", rows[i].to, rows[i].from, rows[i].amount)], w)

\* The description names the first row of the original.
RFDTX(type, w, amount) ==
    IF /\ w.dest # None /\ w.original # None
       /\ status[w.original] # "none" /\ posted[w.original] # <<>>
       /\ row[w.original].ref = w.ref
       /\ LET r == Head(posted[w.original])
          IN /\ r.to = <<"account", w.account>>
             /\ r.from = <<"account", w.dest>>
             /\ r.amount = w.net
       /\ w.parts = <<>>
    THEN Made(<<Child(type, <<"account", w.account>>, <<"account", w.dest>>, amount)>>, w)
    ELSE Refused

RFDTF(w, amount) == RFDTX("RFDTF", w, amount)

TransformAmount(t, w, st, look, type, amount) ==
    CASE type = "RVRSL" -> RVRSL(t, w, st, look)
      [] type = "RFDTX" -> RFDTX("RFDTX", w, amount)
      [] type = "RFDTF" -> RFDTF(w, amount)
      [] OTHER -> TransformOne(type, w, amount, env)

KnownType(type) ==
    type \in DOMAIN Registry \union Computed \union {"RVRSL", "RFDTX", "RFDTF"}

\* The net amount, if it is positive, then every positive part in order; one refusal
\* refuses the whole.
Transform(t, w, st, look) ==
    LET amounts == SelectSeq(<<[type |-> w.type, amount |-> w.net]>> \o w.parts,
                             LAMBDA p : p.amount > 0 \/ ~KnownType(p.type))
        Before(done, one) == [children |-> done.children \o one.children, w |-> one.w]
        Step(results, p) ==
            UNION {{Before(done, one) :
                        one \in TransformAmount(t, done.w, st, look, p.type, p.amount)} :
                   done \in results}
    IN FoldLeft(Step, Made(<<>>, w), amounts)

-----------------------------------------------------------------------------
Froms(children) == {c.from : c \in ToSet(children)}
Tos(children)   == {c.to : c \in ToSet(children)}

\* What the children take from an account.
Held(children, a) ==
    FoldLeft(LAMBDA sum, c : IF c.from = a THEN sum + c.amount ELSE sum, 0, children)

PendingOf(a) == IF a \in DOMAIN pending THEN pending[a] ELSE 0

\* pendingBalance with sign times the children added, accounts at zero dropped.
PendingWith(children, sign) ==
    LET new(a)  == PendingOf(a) + sign * Held(children, a)
        touched == DOMAIN pending \union (Froms(children) \ Excluded)
    IN [a \in {b \in touched : new(b) # 0} |-> new(a)]

\* Every account exists and every amount is positive.
Calculable(children) ==
    \A c \in ToSet(children) :
        c.amount > 0 /\ c.from # <<"account", None>> /\ c.to # <<"account", None>>

Init ==
    /\ \E w \in World :
        /\ plan = w.plan
        /\ env = w.env
        /\ bound = [kinds |-> w.kinds, most |-> w.most]
        /\ changes = w.most
    /\ row = [t \in Trx |-> NoPlan]
    /\ status = [t \in Trx |-> "none"]
    /\ posted = [t \in Trx |-> <<>>]
    /\ today = 0
    /\ inserted = <<>>
    /\ pending = [a \in {} |-> 0]
    /\ call = [t \in Trx |-> "idle"]
    /\ made = [t \in Trx |-> Refused]
    /\ reserved = [t \in Trx |-> <<>>]
    /\ shown = [t \in Trx |-> <<>>]

\* Several reversals of one reference number wait for each other, if OneAtATime.
MayStart(t) ==
    /\ call[t] = "idle"
    /\ OneAtATime /\ plan[t].type = "RVRSL" =>
           \A u \in Trx : call[u] # "idle" => plan[u].ref # plan[t].ref

\* validateTransactionInput, as far as the transformers go.
ValidInput(w) ==
    /\ w.date <= today
    /\ ~(w.reserved /\ w.flow = "cashin")
    /\ w.flow = "transfer" => w.dest # None
    /\ \A i \in DOMAIN w.parts : w.net > 0 \/ w.parts[i].amount > 0

Holding(m, look) == [children |-> m.children, w |-> m.w, look |-> look]

\* CreateTransactionAtomic transforms before it opens a transaction.
BeginCreate(t) ==
    /\ plan[t] # NoPlan /\ status[t] = "none"
    /\ MayStart(t)
    /\ ValidInput(plan[t])
    /\ \E look \in Looks(plan[t], FALSE) :
          /\ See(plan[t], look)
          /\ \E m \in Transform(t, [plan[t] EXCEPT !.nilMetadata = FALSE], "none", look) :
                made' = [made EXCEPT ![t] = {Holding(m, look)}]
    /\ call' = [call EXCEPT ![t] = "create"]
    /\ UNCHANGED <<bound, plan, env, today, tables, history>>

Insert(t, children) ==
    /\ posted' = [posted EXCEPT ![t] = children]
    /\ inserted' = Append(inserted, t)

\* The row carries the metadata as the transformers left it, unless the request had
\* none: then they wrote to a map that is not stored.
EndCreate(t) ==
    \E m \in made[t] :
        LET w == plan[t]
        IN /\ call[t] = "create"
           /\ Calculable(m.children)
           /\ row' = [row EXCEPT ![t] =
                        IF w.nilMetadata THEN w
                        ELSE [w EXCEPT !.keys = m.w.keys, !.entity = m.w.entity]]
           /\ status' = [status EXCEPT ![t] = IF w.reserved THEN "PENDING" ELSE "SUCCESS"]
           /\ IF w.reserved
              THEN /\ pending' = PendingWith(m.children, 1)
                   /\ reserved' = [reserved EXCEPT ![t] = m.children]
                   /\ UNCHANGED <<posted, inserted>>
              ELSE /\ Insert(t, m.children)
                   /\ UNCHANGED <<pending, reserved>>
           /\ shown' = [shown EXCEPT ![t] = <<m.look>>]
           /\ call' = [call EXCEPT ![t] = "idle"]
           /\ made' = [made EXCEPT ![t] = Refused]
           /\ UNCHANGED <<bound, plan, env, today, changes>>

\* The database transaction fails, and leaves nothing behind.
Fail(t) ==
    /\ call[t] # "idle"
    /\ call' = [call EXCEPT ![t] = "idle"]
    /\ made' = [made EXCEPT ![t] = Refused]
    /\ plan' = IF call[t] = "create" THEN [plan EXCEPT ![t] = NoPlan] ELSE plan
    /\ UNCHANGED <<bound, env, today, tables, history, changes>>

\* Mutant: the action is written as it came.
SettledAsAsked(action) == action

SettledStatus(action) == IF action = "commit" THEN "SUCCESS" ELSE "CANCEL"

\* ProcessReservedTransaction: merge the metadata of the call, which panics when the
\* row has no map, write the new status, then transform.
BeginSettle(t, action, more) ==
    /\ MayStart(t)
    /\ status[t] = "PENDING"
    /\ row[t].nilMetadata => more = {}
    /\ \E look \in Looks(row[t], TRUE) :
          /\ See(row[t], look)
          /\ \E m \in Transform(t, [row[t] EXCEPT !.keys = @ \union more],
                                SettledStatus(action), look) :
                made' = [made EXCEPT ![t] = {Holding(m, look)}]
    /\ call' = [call EXCEPT ![t] = action]
    /\ UNCHANGED <<bound, plan, env, today, tables, history>>

\* Mutant: what is released is what the net amount alone took.
ReleasedNet(children) == SubSeq(children, 1, 1)
Released(children)    == children

\* Commit and cancel take every child off the pending balance, which must hold it.
EndSettle(t) ==
    \E m \in made[t] :
        /\ call[t] \in {"commit", "cancel"}
        /\ Calculable(m.children)
        /\ \A a \in Froms(m.children) \ Excluded : PendingOf(a) >= Held(m.children, a)
        /\ pending' = PendingWith(Released(m.children), -1)
        /\ status' = [status EXCEPT ![t] = SettledStatus(call[t])]
        /\ IF call[t] = "commit" THEN Insert(t, m.children) ELSE UNCHANGED <<posted, inserted>>
        /\ shown' = [shown EXCEPT ![t] = Append(@, m.look)]
        /\ call' = [call EXCEPT ![t] = "idle"]
        /\ made' = [made EXCEPT ![t] = Refused]
        /\ UNCHANGED <<bound, plan, env, today, row, reserved, changes>>

\* A VAT period begins or ends, or the flag is switched.
Change ==
    /\ Strike("period")
    /\ \E vat \in Percent, external \in BOOLEAN :
          env' = [env EXCEPT !.vat = vat, !.external = external]
    /\ env' # env
    /\ UNCHANGED <<bound, plan, today, tables, call, made, history>>

\* Midnight.
NextDay ==
    /\ Strike("day")
    /\ today' = today + 1
    /\ UNCHANGED <<bound, plan, env, tables, call, made, history>>

Create(t) == BeginCreate(t) \/ EndCreate(t)
Settle(t, action) ==
    \/ \E more \in SUBSET SettleKey : BeginSettle(t, action, more)
    \/ call[t] = action /\ EndSettle(t)

Next ==
    \/ \E t \in Trx : Create(t) \/ Fail(t)
    \/ \E t \in Trx, action \in {"commit", "cancel"} : Settle(t, action)
    \/ Change \/ NextDay

Spec == Init /\ [][Next]_vars

\* A client that holds a reservation cancels it until it is accepted; the database
\* does not fail a call every time; a call in flight ends.
Fairness ==
    \A t \in Trx :
        /\ WF_vars(EndCreate(t) \/ EndSettle(t) \/ Fail(t))
        /\ SF_vars(BeginSettle(t, "cancel", {}))
        /\ SF_vars(EndSettle(t))

FairSpec == Spec /\ Fairness

-----------------------------------------------------------------------------
IsLegs(children) ==
    \A c \in ToSet(children) :
        DOMAIN c = {"type", "from", "to", "amount"} /\ c.amount \in Nat

\* The types of the variables.  No pending balance is stored as zero or below.
TypeOK ==
    /\ env \in [vat : Percent, external : BOOLEAN, adjust : BOOLEAN]
    /\ status \in [Trx -> {"none", "PENDING", "SUCCESS", "CANCEL"}]
    /\ call \in [Trx -> {"idle", "create", "commit", "cancel"}]
    /\ \A t \in Trx :
         /\ IsLegs(posted[t]) /\ IsLegs(reserved[t])
         /\ \A look \in ToSet(shown[t]) : IsLegs(look.rows) /\ look.listed \subseteq Trx
         /\ made[t] # {} <=> call[t] # "idle"
         /\ status[t] = "none" <=> row[t] = NoPlan
    /\ \A a \in DOMAIN pending : pending[a] \in Nat \ {0}
    /\ inserted \in Seq(Trx)
    /\ today \in Nat /\ changes \in 0 .. bound.most

\* The rows that decide what a reversal does: the payments, if it is of a QRIS payment.
Basis(rows) ==
    IF IsPaid(rows) THEN SelectSeq(rows, LAMBDA r : r.type = "PAYQR") ELSE rows

\* Reversals that were settled on other rows than they were reserved on, since a row was
\* posted under the reference number or left the window in between, or a query did not
\* show every row; and the accounts they may have taken from.
Drifted ==
    {t \in Trx : /\ row[t].type = "RVRSL" /\ Len(shown[t]) = 2
                 /\ Basis(shown[t][1].rows) # Basis(shown[t][2].rows)}
Shaken ==
    UNION {{<<System>>} \union {r.to : r \in ToSet(shown[t][1].rows \o shown[t][2].rows)} :
              t \in Drifted}

\* The children of a reservation are computed anew when it is settled, under the VAT
\* period, the account configuration and the metadata of that time: yet what is
\* released from every account is what was reserved, so that the pending balance of
\* an account is always what the open reservations took from it.  Only reversals that
\* find other rows when they are settled release something else.
PendingIsReserved ==
    LET open == {t \in Trx : status[t] = "PENDING"}
    IN \A a \in DOMAIN pending \union UNION {Froms(reserved[t]) : t \in open} :
           a \notin Excluded \union Shaken =>
               PendingOf(a) = MapThenSumSet(LAMBDA t : Held(reserved[t], a), open)

NetOf(rows, a) ==
    FoldLeft(LAMBDA sum, c : sum + (IF c.to = a THEN c.amount ELSE 0)
                                 - (IF c.from = a THEN c.amount ELSE 0), 0, rows)

\* The nth transaction with rows is a reversal that was shown all the rows there were
\* under the reference number before its own: none had left the window, none was cut off or
\* behind, and none was posted after the query.
Reverses(n) ==
    LET t == inserted[n]
    IN /\ \E c \in ToSet(posted[t]) : c.type = "RVRSL"
       /\ Len(Last(shown[t]).rows) = Len(Rows(row[t].ref, SubSeq(inserted, 1, n - 1)))

\* Whatever was posted under a reference number, however many children and whoever
\* they were between, a reversal that is not of a QRIS payment takes every account
\* back to where it was, and no second reversal moves it again: the rows of the
\* reference number cancel out, and no later reversal is made that sees them all.
ReversalRestores ==
    \A n \in DOMAIN inserted : Reverses(n) =>
        LET ref  == row[inserted[n]].ref
            rows == Rows(ref, SubSeq(inserted, 1, n))
        IN /\ \A a \in Froms(rows) : NetOf(rows, a) = 0
           /\ \A m \in DOMAIN inserted :
                 m > n /\ row[inserted[m]].ref = ref => ~Reverses(m)

\* A refund carries the reference number of the payment it names, and the refunds before it
\* were all counted when it was accepted.
Counted(t) ==
    /\ status[t] # "none" /\ row[t].original # None
    /\ status[row[t].original] # "none" /\ row[t].ref = row[row[t].original].ref
    /\ \A n \in DOMAIN shown[t] : shown[t][n].listed = Trx

\* All the refunds of a QRIS payment, reserved, committed and direct ones, never
\* pay back more than was paid, as far as they carry its reference number and saw all the
\* others.  The comparison is made over wallet_transaction and not over what was posted,
\* outside the database transaction when it is created.
RefundsWithinOriginal ==
    \A o \in Trx :
        status[o] = "SUCCESS" /\ PartTotal(row[o], "PAYQR") > 0 =>
            MapThenSumSet(LAMBDA t : NetOf(SelectSeq(posted[t], LAMBDA x : x.type = "RFDQR"),
                                           <<"account", row[t].account>>),
                          {t \in Trx : status[t] = "SUCCESS" /\ Counted(t) /\ row[t].original = o})
                <= PartTotal(row[o], "PAYQR")

\* A repayment with withholding tax leaves the wallet with the repayment alone,
\* whether the tax is passed through the wallet or paid past it: RPYAB and RPYAC
\* read the same setting, and look at the same part.
WithholdingIsNeutral(t) ==
    LET legs == SelectSeq(posted[t], LAMBDA x : x.type \in {"RPYAB", "RPYAC"})
        w    == row[t]
    IN PartTotal(w, "RPYAB") > 0 =>
           NetOf(legs, <<"account", w.account>>) = PartTotal(w, "RPYAB")

\* Revenue and the VAT in it add up to the amount the client gave: nothing is lost
\* to rounding or charged on top of it, in whatever period it is settled.
VatIsPartOfAmount(t) ==
    \A pair \in {{"RPYAF", "RPYAG"}, {"DSBRP", "DSBRQ"}} :
        (\E c \in ToSet(posted[t]) : c.type \in pair) =>
            FoldLeft(LAMBDA sum, x : IF x.type \in pair THEN sum + x.amount ELSE sum,
                     0, posted[t])
                = MapThenSumSet(LAMBDA type : PartTotal(row[t], type), pair)

\* Taxes are neither lost nor charged twice, however a transaction is split into
\* parts, and by whichever configuration its children were made when it was settled.
TaxesAddUp ==
    \A t \in Trx : status[t] = "SUCCESS" => WithholdingIsNeutral(t) /\ VatIsPartOfAmount(t)

Reconfigured == "period" \in bound.kinds /\ changes # bound.most

\* A reversal for which the query shows other rows than when it was reserved: others were
\* posted, or they have left the window, or were not shown.
Drifts(t) ==
    /\ row[t].type = "RVRSL" /\ shown[t] # <<>>
    /\ Basis(GetList(row[t].ref, inserted)) # Basis(shown[t][1].rows)

\* A refund that may not fit any more: it, or another of the payment or under its number,
\* was accepted without all of them being counted.
Overdrawn(t) ==
    \E u \in Trx :
        /\ row[t].type = "RVRSL" /\ status[u] # "none" /\ row[u].type = "RVRSL"
        /\ row[u].ref = row[t].ref \/ row[u].original = row[t].original
        /\ ~Counted(u)

\* A reservation can always be given back: the transformers accept it again, and no
\* other settlement has eaten what it reserved.  It takes a row that has metadata, a
\* configuration that did not change, a reversal that still finds its rows, refunds that
\* were all counted, and no other reversal that took something else from the account.
ReservationsSettle ==
    \A t \in Trx :
        status[t] = "PENDING" ~> \/ status[t] # "PENDING"
                                 \/ row[t].nilMetadata
                                 \/ Reconfigured
                                 \/ Drifts(t)
                                 \/ Overdrawn(t)
                                 \/ Froms(reserved[t]) \intersect Shaken # {}
=============================================================================
