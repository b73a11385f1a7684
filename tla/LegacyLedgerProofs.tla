-------------------------- MODULE LegacyLedgerProofs --------------------------
(***************************************************************************)
(* LegacyLedger keeps every account solvent, and implements Reservations   *)
(* when no two settling calls about a transfer are in flight together.     *)
(*                                                                         *)
(* The argument: a call that has calculated holds the rows it calculated   *)
(* on until it commits (Held), so what it calculated is what it would      *)
(* calculate at that moment; and a call that is under way is the only one  *)
(* about its transfer (Alone), so the status it read is still the status   *)
(* (Fresh).  Its commit is then one step of Reservations.                  *)
(*                                                                         *)
(* The last three theorems hold whatever settling calls race: a success is *)
(* announced before it shows (SuccessAnnounced), no two rows share a       *)
(* reference number (OneRowPerReference), and every variable keeps its     *)
(* type (TypeCorrect), as locks go with the database transactions that     *)
(* hold them (LockInv).                                                    *)
(***************************************************************************)
EXTENDS LegacyLedger, BalanceProofs

-----------------------------------------------------------------------------
(***************************************************************************)
(* What a transfer does to the balances.                                   *)
(***************************************************************************)
RowsIn(t, phase) ==
    IF phase = "cancel" THEN {Transfer[t].from} ELSE {Transfer[t].from, Transfer[t].to}

\* What the calculators read of a transfer.
LEMMA TransferType ==
    ASSUME NEW t \in Trx
    PROVE  /\ Transfer[t].from \in Acct
           /\ Transfer[t].to \in Acct
           /\ Transfer[t].amount \in Int
           /\ EntryPhase(t) \in Phases
  BY TransfersAssumption DEF TransfersAssumption, EntryPhase, Phases

LEMMA CallTypes ==
    ASSUME NEW c \in Trx \union Settler
    PROVE  /\ c \in Call
           /\ TrxOf(c) \in Trx
           /\ PhaseOf(c) \in Phases
           /\ Rows(c) = RowsIn(TrxOf(c), PhaseOf(c))
           /\ Rows(c) \subseteq Acct
<1>1. c \in Call /\ TrxOf(c) \in Trx
  BY LegacyAssumption DEF LegacyAssumption, Call, TrxOf
<1>2. PhaseOf(c) \in Phases
  BY LegacyAssumption, TransferType DEF LegacyAssumption, PhaseOf, Phases
<1>. QED BY <1>1, <1>2, TransferType DEF Rows, RowsIn

\* The result is again a balance of every account.
LEMMA MovedType ==
    ASSUME NEW t \in Trx, NEW phase \in Phases, NEW b \in [Acct -> BalanceRow]
    PROVE  Moved(t, phase, b) \in [Acct -> BalanceRow]
<1>1. "transfer" \in Flows
  BY DEF Flows
<1>. QED BY <1>1, TransferType, CalculateType DEF Moved

\* What each phase of a transfer does to one account.
LEMMA MovedAt ==
    ASSUME NEW t \in Trx, NEW phase \in Phases, NEW b \in [Acct -> BalanceRow],
           NEW a \in Acct
    PROVE  LET x   == Transfer[t]
               fop == FromOp("transfer", phase)
               top == ToOp("transfer", phase)
               mid == IF a = x.from THEN Apply(fop, b[a], x.amount) ELSE b[a]
           IN Moved(t, phase, b)[a] = IF a = x.to THEN Apply(top, mid, x.amount) ELSE mid
<1>. DEFINE x   == Transfer[t]
            fop == FromOp("transfer", phase)
            top == ToOp("transfer", phase)
            first == [b EXCEPT ![x.from] = Apply(fop, @, x.amount)]
            mid == IF a = x.from THEN Apply(fop, b[a], x.amount) ELSE b[a]
<1>1. x.from \in Acct /\ x.to \in Acct
  BY TransferType
<1>2. first[a] = mid
  BY <1>1
<1>3. Moved(t, phase, b) = [first EXCEPT ![x.to] = Apply(top, @, x.amount)]
  BY DEF Moved, Calculate, AfterFrom
<1>4. DOMAIN first = Acct
  BY <1>1
<1>. HIDE DEF first
<1>5. Moved(t, phase, b)[a] = IF a = x.to THEN Apply(top, first[a], x.amount) ELSE first[a]
  BY <1>1, <1>3, <1>4
<1>. QED BY <1>2, <1>5

\* The operations of each phase, and what cancelling does to the destination: nothing.
LEMMA PhaseOps ==
    /\ FromOp("transfer", "create") = "withdraw" /\ ToOp("transfer", "create") = "add"
    /\ FromOp("transfer", "reserve") = "reserve" /\ ToOp("transfer", "reserve") = "none"
    /\ FromOp("transfer", "commit") = "commit" /\ ToOp("transfer", "commit") = "add"
    /\ FromOp("transfer", "cancel") = "cancel" /\ ToOp("transfer", "cancel") = "none"
  BY DEF FromOp, ToOp

\* A phase leaves the accounts alone whose rows are not locked for it, and what it does
\* to the others depends on them only.
LEMMA MovedElsewhere ==
    ASSUME NEW t \in Trx, NEW phase \in Phases, NEW b \in [Acct -> BalanceRow],
           NEW a \in Acct, a \notin RowsIn(t, phase)
    PROVE  Moved(t, phase, b)[a] = b[a]
<1>1. CASE phase = "cancel"
  <2>1. a # Transfer[t].from
    BY <1>1 DEF RowsIn
  <2>2. ToOp("transfer", phase) = "none"
    BY <1>1, PhaseOps
  <2>3. Apply("none", b[a], Transfer[t].amount) = b[a]
    BY DEF Apply
  <2>. QED BY <2>1, <2>2, <2>3, MovedAt
<1>2. CASE phase # "cancel"
  <2>1. a # Transfer[t].from /\ a # Transfer[t].to
    BY <1>2 DEF RowsIn
  <2>. QED BY <2>1, MovedAt
<1>. QED BY <1>1, <1>2

LEMMA MovedLocally ==
    ASSUME NEW t \in Trx, NEW phase \in Phases,
           NEW b \in [Acct -> BalanceRow], NEW e \in [Acct -> BalanceRow],
           \A a \in RowsIn(t, phase) : b[a] = e[a]
    PROVE  \A a \in RowsIn(t, phase) : Moved(t, phase, b)[a] = Moved(t, phase, e)[a]
<1>. SUFFICES ASSUME NEW a \in RowsIn(t, phase)
              PROVE  Moved(t, phase, b)[a] = Moved(t, phase, e)[a]
  OBVIOUS
<1>1. a \in Acct /\ b[a] = e[a]
  BY TransferType DEF RowsIn
<1>. QED BY <1>1, MovedAt

\* So does whether it is allowed.
LEMMA CanMoveLocally ==
    ASSUME NEW t \in Trx, NEW phase \in Phases,
           NEW b \in [Acct -> BalanceRow], NEW e \in [Acct -> BalanceRow],
           \A a \in RowsIn(t, phase) : b[a] = e[a],
           CanMove(t, phase, b)
    PROVE  CanMove(t, phase, e)
<1>. DEFINE x == Transfer[t]
            fop == FromOp("transfer", phase)
            top == ToOp("transfer", phase)
            mid(f) == AfterFrom("transfer", phase, x, f)
<1>1. x.from \in Acct /\ x.to \in Acct /\ x.from \in RowsIn(t, phase)
  BY TransferType DEF RowsIn
<1>2. b[x.from] = e[x.from]
  BY <1>1
<1>3. /\ CanApply(fop, OptIn(phase)[x.from], b[x.from], x.amount, x.type)
      /\ CanApply(top, OptIn(phase)[x.to], mid(b)[x.to], x.amount, x.type)
  BY DEF CanMove, CanCalculate
<1>4. CanApply(top, OptIn(phase)[x.to], mid(e)[x.to], x.amount, x.type)
  <2>1. CASE phase = "cancel"
    BY <2>1, PhaseOps DEF CanApply
  <2>2. CASE phase # "cancel"
    <3>1. b[x.to] = e[x.to]
      BY <2>2 DEF RowsIn
    <3>2. mid(b)[x.to] = mid(e)[x.to]
      BY <1>1, <1>2, <3>1 DEF AfterFrom
    <3>. QED BY <1>3, <3>2
  <2>. QED BY <2>1, <2>2
<1>. QED BY <1>2, <1>3, <1>4 DEF CanMove, CanCalculate

-----------------------------------------------------------------------------
(***************************************************************************)
(* A transfer that is allowed leaves a solvent ledger solvent.             *)
(***************************************************************************)
SolventRow(a, row) ==
    /\ row.pending >= 0
    /\ a \notin Unchecked => Available(row) >= 0

SolventRows(b) == \A a \in Acct : SolventRow(a, b[a])

\* The source leg, when it is allowed.
LEMMA SourceSolvent ==
    ASSUME NEW phase \in Phases, NEW a \in Acct, NEW row \in BalanceRow,
           NEW amount \in Int, NEW type, SolventRow(a, row),
           CanApply(FromOp("transfer", phase), OptIn(phase)[a], row, amount, type)
    PROVE  /\ amount > 0
           /\ SolventRow(a, Apply(FromOp("transfer", phase), row, amount))
<1>. DEFINE o == OptIn(phase)[a]
<1>1. /\ o.ignore = (a \in Unchecked /\ phase \in {"create", "reserve"})
      /\ o.negative = FALSE
  BY DEF OptIn
<1>2. row.actual \in Int /\ row.pending \in Int
  BY DEF BalanceRow
<1>. HIDE DEF o
<1>3. CASE phase = "create"
  <2>1. amount > 0 /\ (a \notin Unchecked => Available(row) >= amount)
    BY <1>1, <1>3, PhaseOps DEF CanApply, CanWithdraw, Sufficient, MayGoNegative, o
  <2>2. Apply("withdraw", row, amount) = [row EXCEPT !.actual = @ - amount]
    BY DEF Apply, Withdraw
  <2>. QED BY <1>2, <1>3, <2>1, <2>2, PhaseOps DEF SolventRow, Available, BalanceRow
<1>4. CASE phase = "reserve"
  <2>1. amount > 0 /\ (a \notin Unchecked => Available(row) >= amount)
    BY <1>1, <1>4, PhaseOps DEF CanApply, CanReserve, Sufficient, MayGoNegative, o
  <2>2. Apply("reserve", row, amount) = [row EXCEPT !.pending = @ + amount]
    BY DEF Apply, Reserve
  <2>. QED BY <1>2, <1>4, <2>1, <2>2, PhaseOps DEF SolventRow, Available, BalanceRow
<1>5. CASE phase = "commit"
  <2>1. amount > 0 /\ row.pending >= amount
    BY <1>1, <1>5, PhaseOps DEF CanApply, CanCommit, o
  <2>2. Apply("commit", row, amount)
          = [actual |-> row.actual - amount, pending |-> row.pending - amount]
    BY DEF Apply, Commit
  <2>. QED BY <1>2, <1>5, <2>1, <2>2, PhaseOps DEF SolventRow, Available
<1>6. CASE phase = "cancel"
  <2>1. amount > 0 /\ row.pending >= amount
    BY <1>1, <1>6, PhaseOps DEF CanApply, CanCancel, o
  <2>2. Apply("cancel", row, amount) = [row EXCEPT !.pending = @ - amount]
    BY DEF Apply, CancelReservation
  <2>. QED BY <1>2, <1>6, <2>1, <2>2, PhaseOps DEF SolventRow, Available, BalanceRow
<1>. QED BY <1>3, <1>4, <1>5, <1>6 DEF Phases

\* The destination leg only adds.
LEMMA DestinationSolvent ==
    ASSUME NEW phase \in Phases, NEW a \in Acct, NEW row \in BalanceRow,
           NEW amount \in Int, amount > 0, SolventRow(a, row)
    PROVE  SolventRow(a, Apply(ToOp("transfer", phase), row, amount))
<1>1. ToOp("transfer", phase) \in {"none", "add"}
  BY PhaseOps DEF Phases
<1>2. Apply("none", row, amount) = row
  BY DEF Apply
<1>3. SolventRow(a, Apply("add", row, amount))
  <2>1. Apply("add", row, amount) = [row EXCEPT !.actual = @ + amount]
    BY DEF Apply, AddFunds
  <2>. QED BY <2>1 DEF SolventRow, Available, BalanceRow
<1>. QED BY <1>1, <1>2, <1>3

LEMMA MoveSolvent ==
    ASSUME NEW t \in Trx, NEW phase \in Phases, NEW b \in [Acct -> BalanceRow],
           SolventRows(b), CanMove(t, phase, b)
    PROVE  SolventRows(Moved(t, phase, b))
<1>. DEFINE x == Transfer[t]
            fop == FromOp("transfer", phase)
            top == ToOp("transfer", phase)
<1>1. x.from \in Acct /\ x.to \in Acct /\ x.amount \in Int
  BY TransferType
<1>2. fop \in Ops
  BY OpTypes DEF Flows
<1>3. CanApply(fop, OptIn(phase)[x.from], b[x.from], x.amount, x.type)
  BY DEF CanMove, CanCalculate
<1>4. x.amount > 0 /\ SolventRow(x.from, Apply(fop, b[x.from], x.amount))
  <2>1. b[x.from] \in BalanceRow /\ SolventRow(x.from, b[x.from])
    BY <1>1 DEF SolventRows
  <2>. QED BY <1>1, <1>3, <2>1, SourceSolvent
<1>5. Apply(fop, b[x.from], x.amount) \in BalanceRow
  BY <1>1, <1>2, ApplyType
<1>. SUFFICES ASSUME NEW a \in Acct PROVE SolventRow(a, Moved(t, phase, b)[a])
  BY DEF SolventRows
<1>. DEFINE mid == IF a = x.from THEN Apply(fop, b[a], x.amount) ELSE b[a]
<1>6. mid \in BalanceRow /\ SolventRow(a, mid)
  BY <1>4, <1>5 DEF SolventRows
<1>7. Moved(t, phase, b)[a] = IF a = x.to THEN Apply(top, mid, x.amount) ELSE mid
  BY MovedAt
<1>. HIDE DEF mid
<1>8. SolventRow(a, Apply(top, mid, x.amount))
  BY <1>1, <1>4, <1>6, DestinationSolvent
<1>. QED BY <1>6, <1>7, <1>8

-----------------------------------------------------------------------------
(***************************************************************************)
(* The steps, by what they do to the balances, the statuses, the locks and *)
(* the place of the call that takes them.                                  *)
(***************************************************************************)
Worker == Trx \union Settler

Types ==
    /\ balance \in [Acct -> BalanceRow]
    /\ status \in [Trx -> Statuses]
    /\ rowLock \in [Acct -> Call \union {NoCall}]
    /\ pc \in [Call -> Places]
    /\ after \in [Call -> [Acct -> BalanceRow]]

Still == UNCHANGED <<balance, status, rowLock, after>>
Moves(c, place) == pc' = [pc EXCEPT ![c] = place]

Begins(c) ==
    /\ MayStart(c)
    /\ Still
    /\ \/ Moves(c, "done")
       \/ Moves(c, "locking") /\ c \in Trx
       \/ /\ Moves(c, "updating")
          /\ c \in Settler
          /\ status[TargetOf[c]] = "PENDING"

Proceeds(c) ==
    /\ Still
    /\ \/ pc[c] = "updating" /\ Moves(c, "locking")
       \/ pc[c] = "announcing" /\ Moves(c, "committing")

Locks(c) ==
    /\ \E a \in Acct : rowLock[a] = NoCall /\ rowLock' = [rowLock EXCEPT ![a] = c]
    /\ UNCHANGED <<balance, status, after, pc>>

Calculates(c) ==
    /\ pc[c] = "locking" /\ Unlocked(c) = {}
    /\ CanMove(TrxOf(c), PhaseOf(c), balance)
    /\ after' = [after EXCEPT ![c] = Moved(TrxOf(c), PhaseOf(c), balance)]
    /\ Moves(c, "announcing") \/ Moves(c, "committing")
    /\ UNCHANGED <<balance, status, rowLock>>

Releases(c) == rowLock' = [a \in Acct |-> IF rowLock[a] = c THEN NoCall ELSE rowLock[a]]

GivesUp(c) ==
    /\ Running(c)
    /\ Releases(c)
    /\ Moves(c, "done")
    /\ UNCHANGED <<balance, status, after>>

Commits(c) ==
    /\ pc[c] = "committing"
    /\ Written(c)
    /\ Releases(c)
    /\ Moves(c, "done")
    /\ UNCHANGED after

Elsewhere ==
    /\ Still
    /\ \/ pc' = pc
       \/ \E b \in Bulk : \/ Moves(b, "checking")
                       \/ Moves(b, "storing")
                       \/ Moves(b, "done")

LEMMA StoreShape ==
    ASSUME NEW c \in Trx, StartStore(c)
    PROVE  Begins(c)
<1>1. MayStart(c) /\ Still
  BY DEF StartStore, Still, tables, locks
<1>3. Moves(c, "locking") \/ Moves(c, "done")
  BY Zenon DEF StartStore, Goto, Return, Moves
<1>. QED BY <1>1, <1>3 DEF Begins

LEMMA SettleAnswers ==
    ASSUME NEW c \in Settler, StartSettle(c)
    PROVE  \/ status[TargetOf[c]] = "PENDING" /\ Goto(c, "updating")
           \/ Return(c, "ok")
           \/ Return(c, "error")
<1>1. CASE status[TargetOf[c]] = "PENDING"
  <2>1. StatusAfter(ActionOf[c]) # status[TargetOf[c]]
    BY <1>1, LegacyAssumption DEF LegacyAssumption, StatusAfter
  <2>2. Goto(c, "updating")
    BY <1>1, <2>1 DEF StartSettle, Goto, Return
  <2>. QED BY <1>1, <2>2
<1>2. CASE status[TargetOf[c]] # "PENDING"
  BY <1>2 DEF StartSettle
<1>. QED BY <1>1, <1>2

LEMMA SettleShape ==
    ASSUME NEW c \in Settler, StartSettle(c)
    PROVE  Begins(c)
<1>1. MayStart(c) /\ Still
  BY DEF StartSettle, Still, tables, locks
<1>. QED BY <1>1, SettleAnswers DEF Begins, Goto, Return, Moves

LEMMA RollbackShape ==
    ASSUME NEW c \in Worker, NEW answer, Running(c), Rollback(c, answer)
    PROVE  GivesUp(c)
  BY DEF Rollback, Unlock, Return, GivesUp, Releases, Moves, tables

LEMMA WorkShape ==
    ASSUME NEW c \in Worker, Work(c)
    PROVE  \/ Proceeds(c)
           \/ Locks(c)
           \/ Calculates(c)
           \/ GivesUp(c)
           \/ Commits(c)
<1>1. CASE \E a \in Acct : LockRow(c, a)
  BY <1>1 DEF LockRow, Locks, tables
<1>2. CASE CalculateBalances(c)
  BY <1>2 DEF CalculateBalances, Goto, Calculates, Moves, tables, locks
<1>3. CASE CalculateFails(c)
  BY <1>3, RollbackShape DEF CalculateFails, Running
<1>4. CASE Announce(c)
  BY <1>4 DEF Announce, Goto, Proceeds, Still, Moves, tables, locks
<1>5. CASE CommitTx(c)
  BY <1>5 DEF CommitTx, Unlock, Return, Commits, Releases, Moves
<1>. QED BY <1>1, <1>2, <1>3, <1>4, <1>5 DEF Work

LEMMA StoreAnswers ==
    ASSUME NEW b \in Bulk, StoreChunk(b)
    PROVE  \/ Return(b, "error")
           \/ Return(b, "ok")
           \/ Goto(b, "checking")
<1>1. CASE new[b] \intersect BadRef # {}
  BY <1>1 DEF StoreChunk
<1>2. CASE new[b] \intersect BadRef = {} /\ chunk[b] = Len(ChunksOf[b])
  BY <1>2 DEF StoreChunk
<1>3. CASE new[b] \intersect BadRef = {} /\ chunk[b] # Len(ChunksOf[b])
  BY <1>3 DEF StoreChunk, Goto, Return
<1>. QED BY <1>1, <1>2, <1>3

LEMMA BulkMoves ==
    ASSUME NEW b \in Bulk,
           \/ BulkStep(b)
           \/ StoreUnanswered(b)
           \/ FailBulk(b)
    PROVE  \/ Moves(b, "checking")
           \/ Moves(b, "storing")
           \/ Moves(b, "done")
<1>1. CASE StartBulk(b)
  BY <1>1 DEF StartBulk, Goto, Moves
<1>2. CASE CheckChunk(b)
  BY <1>2 DEF CheckChunk, Goto, Return, Moves
<1>3. CASE StoreChunk(b)
  BY <1>3, StoreAnswers DEF Goto, Return, Moves
<1>4. CASE StoreUnanswered(b)
  BY <1>4 DEF StoreUnanswered, Return, Moves
<1>5. CASE FailBulk(b)
  BY <1>5 DEF FailBulk, Return, Moves
<1>. QED BY <1>1, <1>2, <1>3, <1>4, <1>5 DEF BulkStep

LEMMA BulkShape ==
    ASSUME NEW b \in Bulk,
           \/ BulkStep(b)
           \/ StoreUnanswered(b)
           \/ FailBulk(b)
    PROVE  Elsewhere
<1>1. Still
  BY DEF BulkStep, StartBulk, CheckChunk, StoreChunk, StoreUnanswered, FailBulk, Still,
         tables, locks
<1>. QED BY <1>1, BulkMoves DEF Elsewhere

\* Every step has one of these shapes.
LEMMA Shapes ==
    ASSUME [Next]_vars
    PROVE  \/ Elsewhere
           \/ \E c \in Worker :
                 \/ Begins(c)
                 \/ Proceeds(c)
                 \/ Locks(c)
                 \/ Calculates(c)
                 \/ GivesUp(c)
                 \/ Commits(c)
<1>1. CASE \E t \in Trx : StoreStep(t)
  BY <1>1, StoreShape, WorkShape DEF StoreStep, Worker
<1>2. CASE \E s \in Settler : SettleStep(s)
  <2>1. ASSUME NEW s \in Settler, UpdateStatus(s) PROVE Proceeds(s)
    BY <2>1 DEF UpdateStatus, Goto, Proceeds, Still, Moves, tables
  <2>. QED BY <1>2, <2>1, SettleShape, WorkShape DEF SettleStep, Worker
<1>3. CASE \E b \in Bulk : BulkStep(b)
  BY <1>3, BulkShape
<1>4. CASE Fault
  <2>1. ASSUME NEW c \in Worker, CommitUnanswered(c) PROVE Commits(c)
    BY <2>1 DEF CommitUnanswered, Unlock, Return, Commits, Releases, Moves
  <2>2. ASSUME NEW c \in Worker, CommitTxDone(c) \/ Fail(c) PROVE GivesUp(c)
    BY <2>2, RollbackShape DEF CommitTxDone, Fail, InTransaction, Running
  <2>. QED BY <1>4, <2>1, <2>2, BulkShape DEF Fault, Worker
<1>5. CASE UNCHANGED vars
  BY <1>5 DEF vars, tables, locks, Elsewhere, Still
<1>. QED BY <1>1, <1>2, <1>3, <1>4, <1>5 DEF Next

-----------------------------------------------------------------------------
(***************************************************************************)
(* What a call has calculated is still right when it commits.              *)
(***************************************************************************)
Critical(c) == pc[c] \in {"announcing", "committing"}

Held(c) ==
    /\ \A a \in Rows(c) : rowLock[a] = c
    /\ CanMove(TrxOf(c), PhaseOf(c), balance)
    /\ \A a \in Rows(c) : after[c][a] = Moved(TrxOf(c), PhaseOf(c), balance)[a]

HeldInv == \A c \in Worker : Critical(c) => Held(c)

LEMMA WorkerCall == \A c \in Worker : c \in Call /\ c # NoCall /\ c \notin Bulk
  BY LegacyAssumption DEF LegacyAssumption, Worker, Call

\* What COMMIT shows is what the phase makes of the balances of that moment.
LEMMA CommitMoves ==
    ASSUME Types, NEW c \in Worker, Held(c), Commits(c)
    PROVE  balance' = Moved(TrxOf(c), PhaseOf(c), balance)
<1>. DEFINE m == Moved(TrxOf(c), PhaseOf(c), balance)
<1>1. /\ TrxOf(c) \in Trx
      /\ PhaseOf(c) \in Phases
      /\ Rows(c) = RowsIn(TrxOf(c), PhaseOf(c))
  BY CallTypes DEF Worker
<1>2. m \in [Acct -> BalanceRow]
  BY <1>1, MovedType DEF Types
<1>3. balance' = [a \in Acct |-> IF a \in Rows(c) THEN after[c][a] ELSE balance[a]]
  BY DEF Commits, Written
<1>4. ASSUME NEW a \in Acct
      PROVE  m[a] = IF a \in Rows(c) THEN after[c][a] ELSE balance[a]
  <2>1. CASE a \in Rows(c)
    BY <2>1 DEF Held
  <2>2. CASE a \notin Rows(c)
    BY <1>1, <2>2, MovedElsewhere DEF Types
  <2>. QED BY <2>1, <2>2
<1>. HIDE DEF m
<1>5. balance' = m
  BY <1>2, <1>3, <1>4
<1>. QED BY <1>5 DEF m

LEMMA TypesInit == Init => Types
  BY TransfersAssumption DEF TransfersAssumption, Init, Types, Statuses, Places

LEMMA TypesNext ==
    ASSUME Types, HeldInv, [Next]_vars
    PROVE  Types'
<1>1. CASE Elsewhere
  <2>1. pc' \in [Call -> Places]
    BY <1>1 DEF Types, Elsewhere, Moves, Places
  <2>. QED BY <1>1, <2>1 DEF Types, Elsewhere, Still
<1>2. ASSUME NEW c \in Worker, Begins(c) PROVE Types'
  <2>1. pc' \in [Call -> Places]
    BY <1>2 DEF Types, Begins, Moves, Places
  <2>. QED BY <1>2, <2>1 DEF Types, Begins, Still
<1>3. ASSUME NEW c \in Worker, Proceeds(c) PROVE Types'
  <2>1. pc' \in [Call -> Places]
    BY <1>3 DEF Types, Proceeds, Moves, Places
  <2>. QED BY <1>3, <2>1 DEF Types, Proceeds, Still
<1>4. ASSUME NEW c \in Worker, Locks(c) PROVE Types'
  BY <1>4, WorkerCall DEF Types, Locks
<1>5. ASSUME NEW c \in Worker, Calculates(c) PROVE Types'
  <2>1. pc' \in [Call -> Places]
    BY <1>5 DEF Types, Calculates, Moves, Places
  <2>2. Moved(TrxOf(c), PhaseOf(c), balance) \in [Acct -> BalanceRow]
    BY CallTypes, MovedType DEF Types, Worker
  <2>3. after' \in [Call -> [Acct -> BalanceRow]]
    BY <1>5, <2>2 DEF Types, Calculates
  <2>. QED BY <1>5, <2>1, <2>3 DEF Types, Calculates
<1>6. ASSUME NEW c \in Worker, GivesUp(c) PROVE Types'
  <2>1. pc' \in [Call -> Places]
    BY <1>6 DEF Types, GivesUp, Moves, Places
  <2>2. rowLock' \in [Acct -> Call \union {NoCall}]
    BY <1>6 DEF Types, GivesUp, Releases
  <2>. QED BY <1>6, <2>1, <2>2 DEF Types, GivesUp
<1>7. ASSUME NEW c \in Worker, Commits(c) PROVE Types'
  <2>1. pc' \in [Call -> Places]
    BY <1>7 DEF Types, Commits, Moves, Places
  <2>2. rowLock' \in [Acct -> Call \union {NoCall}]
    BY <1>7 DEF Types, Commits, Releases
  <2>3. balance' \in [Acct -> BalanceRow]
    <3>1. Held(c)
      BY <1>7 DEF HeldInv, Critical, Commits
    <3>. QED BY <1>7, <3>1, CommitMoves, CallTypes, MovedType DEF Types, Worker
  <2>4. status' \in [Trx -> Statuses]
    <3>1. StatusAfter(PhaseOf(c)) \in Statuses
      BY CallTypes DEF Worker, StatusAfter, Statuses, Phases
    <3>. QED BY <1>7, <3>1 DEF Types, Commits, Written
  <2>. QED BY <1>7, <2>1, <2>2, <2>3, <2>4 DEF Types, Commits
<1>. QED BY <1>1, <1>2, <1>3, <1>4, <1>5, <1>6, <1>7, Shapes

\* A step that keeps the locks a call holds, and the balances under them, keeps what
\* the call has calculated right.
LEMMA HeldKept ==
    ASSUME Types, Types', NEW c \in Worker, Held(c), after'[c] = after[c],
           \A a \in Acct : rowLock[a] = c => rowLock'[a] = c /\ balance'[a] = balance[a]
    PROVE  Held(c)'
<1>1. /\ TrxOf(c) \in Trx
      /\ PhaseOf(c) \in Phases
      /\ Rows(c) = RowsIn(TrxOf(c), PhaseOf(c))
      /\ Rows(c) \subseteq Acct
  BY CallTypes DEF Worker
<1>2. \A a \in Rows(c) : rowLock'[a] = c /\ balance[a] = balance'[a]
  BY <1>1 DEF Held
<1>3. balance \in [Acct -> BalanceRow] /\ balance' \in [Acct -> BalanceRow]
  BY DEF Types
<1>4. CanMove(TrxOf(c), PhaseOf(c), balance')
  BY <1>1, <1>2, <1>3, CanMoveLocally DEF Held
<1>5. \A a \in Rows(c) : Moved(TrxOf(c), PhaseOf(c), balance)[a]
                            = Moved(TrxOf(c), PhaseOf(c), balance')[a]
  BY <1>1, <1>2, <1>3, MovedLocally
<1>. QED BY <1>2, <1>4, <1>5 DEF Held

LEMMA HeldNext ==
    ASSUME Types, Types', HeldInv, [Next]_vars
    PROVE  HeldInv'
<1>. SUFFICES ASSUME NEW c \in Worker, Critical(c)' PROVE Held(c)'
  BY DEF HeldInv
<1>. USE WorkerCall
<1>1. CASE Elsewhere
  <2>1. pc'[c] = pc[c]
    BY <1>1 DEF Elsewhere, Moves, Types
  <2>. QED BY <1>1, <2>1, HeldKept DEF HeldInv, Critical, Elsewhere, Still
<1>2. ASSUME NEW d \in Worker, Begins(d) PROVE Held(c)'
  <2>1. Critical(c)
    BY <1>2 DEF Critical, Begins, Moves, Types
  <2>. QED BY <1>2, <2>1, HeldKept DEF HeldInv, Begins, Still
<1>3. ASSUME NEW d \in Worker, Proceeds(d) PROVE Held(c)'
  <2>1. Critical(c)
    BY <1>3 DEF Critical, Proceeds, Moves, Types
  <2>. QED BY <1>3, <2>1, HeldKept DEF HeldInv, Proceeds, Still
<1>4. ASSUME NEW d \in Worker, Locks(d) PROVE Held(c)'
  <2>1. Held(c)
    BY <1>4 DEF HeldInv, Critical, Locks
  <2>2. \A a \in Acct : rowLock[a] = c => rowLock'[a] = c
    BY <1>4 DEF Locks, Types
  <2>. QED BY <1>4, <2>1, <2>2, HeldKept DEF Locks
<1>5. ASSUME NEW d \in Worker, Calculates(d) PROVE Held(c)'
  <2>1. CASE c = d
    <3>1. \A a \in Rows(c) : rowLock'[a] = c
      BY <1>5, <2>1 DEF Calculates, Unlocked
    <3>2. after'[c] = Moved(TrxOf(c), PhaseOf(c), balance)
      BY <1>5, <2>1 DEF Calculates, Types
    <3>. QED BY <1>5, <2>1, <3>1, <3>2 DEF Calculates, Held
  <2>2. CASE c # d
    <3>1. pc'[c] = pc[c] /\ after'[c] = after[c]
      BY <1>5, <2>2 DEF Calculates, Moves, Types
    <3>2. Held(c)
      BY <3>1 DEF HeldInv, Critical
    <3>. QED BY <1>5, <3>1, <3>2, HeldKept DEF Calculates
  <2>. QED BY <2>1, <2>2
<1>6. ASSUME NEW d \in Worker, GivesUp(d) PROVE Held(c)'
  <2>1. c # d /\ pc'[c] = pc[c]
    BY <1>6 DEF GivesUp, Moves, Types, Critical
  <2>2. Held(c)
    BY <2>1 DEF HeldInv, Critical
  <2>3. \A a \in Acct : rowLock[a] = c => rowLock'[a] = c
    BY <1>6, <2>1 DEF GivesUp, Releases
  <2>. QED BY <1>6, <2>2, <2>3, HeldKept DEF GivesUp
<1>7. ASSUME NEW d \in Worker, Commits(d) PROVE Held(c)'
  <2>1. c # d /\ pc'[c] = pc[c]
    BY <1>7 DEF Commits, Moves, Types, Critical
  <2>2. Held(c)
    BY <2>1 DEF HeldInv, Critical
  <2>3. Held(d)
    BY <1>7 DEF HeldInv, Critical, Commits
  <2>4. ASSUME NEW a \in Acct, rowLock[a] = c
        PROVE  rowLock'[a] = c /\ balance'[a] = balance[a]
    <3>1. a \notin Rows(d)
      BY <2>1, <2>3, <2>4 DEF Held
    <3>. QED BY <1>7, <2>1, <2>4, <3>1 DEF Commits, Written, Releases
  <2>. QED BY <1>7, <2>2, <2>4, HeldKept DEF Commits
<1>. QED BY <1>1, <1>2, <1>3, <1>4, <1>5, <1>6, <1>7, Shapes

LEMMA HeldAlways == Spec => [](Types /\ HeldInv)
<1>1. Init => Types /\ HeldInv
  <2>1. Init => HeldInv
    BY WorkerCall DEF Init, HeldInv, Critical
  <2>. QED BY <2>1, TypesInit
<1>2. Types /\ HeldInv /\ [Next]_vars => (Types /\ HeldInv)'
  BY TypesNext, HeldNext
<1>. QED BY <1>1, <1>2, PTL DEF Spec

-----------------------------------------------------------------------------
(***************************************************************************)
(* No account whose funds are asked for is ever short of what is reserved  *)
(* on it, whatever settling calls race, if none is at the start.           *)
(***************************************************************************)
OpeningSolvent == SolventRows(OpeningRow)

LEMMA SolventMeaning == Solvent <=> SolventRows(balance)
  BY DEF Solvent, Ledger!Solvent, SolventRows, SolventRow, Available, Ledger!Available

LEMMA SolventNext ==
    ASSUME Types, HeldInv, Solvent, [Next]_vars
    PROVE  Solvent'
<1>. SUFFICES ASSUME balance' # balance
              PROVE  Solvent'
  BY DEF Solvent, Ledger!Solvent
<1>1. PICK c \in Worker : Commits(c)
  BY Shapes DEF Elsewhere, Begins, Proceeds, Still, Locks, Calculates, GivesUp
<1>2. Held(c)
  BY <1>1 DEF HeldInv, Critical, Commits
<1>3. balance' = Moved(TrxOf(c), PhaseOf(c), balance)
  BY <1>1, <1>2, CommitMoves
<1>4. SolventRows(Moved(TrxOf(c), PhaseOf(c), balance))
  BY <1>2, CallTypes, SolventMeaning, MoveSolvent DEF Held, Types, Worker
<1>. QED
  BY <1>3, <1>4
  DEF Solvent, Ledger!Solvent, SolventRows, SolventRow, Available, Ledger!Available

\* No two calls take the same money: storing, committing and cancelling may interleave
\* and fail as they like.
THEOREM AlwaysSolvent == ASSUME OpeningSolvent PROVE Spec => []Solvent
<1>1. Init => Solvent
  BY SolventMeaning DEF Init, OpeningSolvent
<1>2. Types /\ HeldInv /\ Solvent /\ [Next]_vars => Solvent'
  BY SolventNext
<1>. QED BY <1>1, <1>2, HeldAlways, PTL DEF Spec

-----------------------------------------------------------------------------
(***************************************************************************)
(* When calls about a transfer come one after the other, each finds the    *)
(* status it read still there, and is one step of Reservations.            *)
(***************************************************************************)
Serial == Racing = {}

Alone ==
    \A c, d \in Worker : Running(c) /\ Running(d) /\ TrxOf(c) = TrxOf(d) => c = d

Fresh ==
    /\ \A t \in Trx : pc[t] # "done" => status[t] = "none"
    /\ \A s \in Settler : Running(s) => status[TargetOf[s]] = "PENDING"

LEMMA TrxOfWorker ==
    /\ \A t \in Trx : TrxOf(t) = t
    /\ \A s \in Settler : TrxOf(s) = TargetOf[s] /\ TargetOf[s] \in Trx /\ s \notin Trx
  BY LegacyAssumption DEF LegacyAssumption, TrxOf

LEMMA AloneNext ==
    ASSUME Serial, Types, Alone, [Next]_vars
    PROVE  Alone'
<1>. SUFFICES ASSUME NEW c \in Worker, NEW d \in Worker, Running(c)', Running(d)',
                     TrxOf(c) = TrxOf(d), c # d
              PROVE  FALSE
  BY DEF Alone, TrxOf
<1>. USE WorkerCall
<1>1. CASE Elsewhere
  BY <1>1 DEF Alone, Running, Elsewhere, Moves, Types
<1>2. ASSUME NEW e \in Worker, Begins(e) PROVE FALSE
  <2>1. \A f \in Worker : f # e => pc'[f] = pc[f]
    BY <1>2 DEF Begins, Moves, Types
  <2>2. ASSUME NEW f \in Worker, f # e, TrxOf(f) = TrxOf(e) PROVE ~Running(f)
    <3>1. RefsOfCall(e) = {RefOf[TrxOf(e)]} /\ RefsOfCall(f) = {RefOf[TrxOf(f)]}
      BY DEF RefsOfCall
    <3>2. RefsOfCall(e) \intersect RefsOfCall(f) # {}
      BY <2>2, <3>1
    <3>3. TrxOf(e) \notin Racing
      BY DEF Serial
    <3>. QED BY <1>2, <3>2, <3>3 DEF Begins, MayStart
  <2>. QED BY <2>1, <2>2 DEF Alone, Running
<1>3. ASSUME NEW e \in Worker, Proceeds(e) PROVE FALSE
  <2>1. Running(e)
    BY <1>3 DEF Proceeds, Running
  <2>2. \A f \in Worker : f # e => pc'[f] = pc[f]
    BY <1>3 DEF Proceeds, Moves, Types
  <2>. QED BY <2>1, <2>2 DEF Alone, Running
<1>4. ASSUME NEW e \in Worker, Locks(e) PROVE FALSE
  BY <1>4 DEF Alone, Running, Locks
<1>5. ASSUME NEW e \in Worker, Calculates(e) PROVE FALSE
  <2>1. Running(e)
    BY <1>5 DEF Calculates, Running
  <2>2. \A f \in Worker : f # e => pc'[f] = pc[f]
    BY <1>5 DEF Calculates, Moves, Types
  <2>. QED BY <2>1, <2>2 DEF Alone, Running
<1>6. ASSUME NEW e \in Worker, GivesUp(e) \/ Commits(e) PROVE FALSE
  <2>1. pc'[e] = "done" /\ \A f \in Worker : f # e => pc'[f] = pc[f]
    BY <1>6 DEF GivesUp, Commits, Moves, Types
  <2>. QED BY <2>1 DEF Alone, Running
<1>. QED BY <1>1, <1>2, <1>3, <1>4, <1>5, <1>6, Shapes

LEMMA FreshNext ==
    ASSUME Types, Alone, Fresh, [Next]_vars
    PROVE  Fresh'
<1>. USE WorkerCall, TrxOfWorker
<1>0. /\ \A t \in Trx : t \in Worker
      /\ \A s \in Settler : s \in Worker
  BY DEF Worker
<1>1. CASE Elsewhere
  <2>1. \A c \in Worker : pc'[c] = pc[c]
    BY <1>1 DEF Elsewhere, Moves, Types
  <2>. QED BY <1>0, <1>1, <2>1 DEF Fresh, Running, Elsewhere, Still
<1>2. ASSUME NEW e \in Worker, Begins(e) PROVE Fresh'
  <2>1. pc[e] = "idle" /\ \A f \in Worker : f # e => pc'[f] = pc[f]
    BY <1>2 DEF Begins, MayStart, Moves, Types
  <2>2. status' = status
    BY <1>2 DEF Begins, Still
  <2>3. e \in Settler /\ Running(e)' => status[TargetOf[e]] = "PENDING"
    BY <1>2 DEF Begins, Moves, Running, Types
  <2>. QED BY <1>0, <2>1, <2>2, <2>3 DEF Fresh, Running
<1>3. ASSUME NEW e \in Worker,
             Proceeds(e) \/ Locks(e) \/ Calculates(e) \/ GivesUp(e)
      PROVE  Fresh'
  <2>1. status' = status
    BY <1>3 DEF Proceeds, Still, Locks, Calculates, GivesUp
  <2>2. \A f \in Worker : /\ Running(f)' => Running(f)
                          /\ pc'[f] # "done" => pc[f] # "done"
    <3>1. CASE Proceeds(e)
      BY <3>1 DEF Proceeds, Moves, Running, Types
    <3>2. CASE Locks(e)
      BY <3>2 DEF Locks, Running
    <3>3. CASE Calculates(e)
      BY <3>3 DEF Calculates, Moves, Running, Types
    <3>4. CASE GivesUp(e)
      BY <3>4 DEF GivesUp, Moves, Running, Types
    <3>. QED BY <1>3, <3>1, <3>2, <3>3, <3>4
  <2>. QED BY <1>0, <2>1, <2>2 DEF Fresh
<1>4. ASSUME NEW e \in Worker, Commits(e) PROVE Fresh'
  <2>1. /\ pc[e] = "committing" /\ pc'[e] = "done"
        /\ \A f \in Worker : f # e => pc'[f] = pc[f]
    BY <1>4 DEF Commits, Moves, Types
  <2>2. \A t \in Trx : t # TrxOf(e) => status'[t] = status[t]
    BY <1>4 DEF Commits, Written, Types
  <2>3. Running(e)
    BY <2>1 DEF Running
  <2>4. ASSUME NEW t \in Trx, pc'[t] # "done" PROVE status'[t] = "none"
    <3>1. t # e /\ pc[t] # "done" /\ status[t] = "none"
      BY <1>0, <2>1, <2>4 DEF Fresh
    <3>2. t # TrxOf(e)
      BY <2>3, <3>1 DEF Fresh, Worker
    <3>. QED BY <2>2, <3>1, <3>2
  <2>5. ASSUME NEW s \in Settler, Running(s)' PROVE status'[TargetOf[s]] = "PENDING"
    <3>1. s # e /\ Running(s) /\ status[TargetOf[s]] = "PENDING"
      BY <1>0, <2>1, <2>5 DEF Fresh, Running
    <3>2. TargetOf[s] # TrxOf(e)
      BY <1>0, <2>3, <3>1 DEF Alone
    <3>. QED BY <2>2, <3>1, <3>2
  <2>. QED BY <2>4, <2>5 DEF Fresh
<1>. QED BY <1>1, <1>2, <1>3, <1>4, Shapes

\* The operators of Reservations are those of the service.
LEMMA SameOperators ==
    ASSUME NEW t, NEW phase, NEW b
    PROVE  /\ Ledger!CanMove(t, phase, b) = CanMove(t, phase, b)
           /\ Ledger!Moved(t, phase, b) = Moved(t, phase, b)
           /\ Ledger!StatusAfter(phase) = StatusAfter(phase)
           /\ Ledger!EntryPhase(t) = EntryPhase(t)
<1>1. \A op, o, r, n, ty : Ledger!CanApply(op, o, r, n, ty) = CanApply(op, o, r, n, ty)
  BY DEF CanApply, Ledger!CanApply, CanWithdraw, Ledger!CanWithdraw, CanReserve,
         Ledger!CanReserve, CanCommit, Ledger!CanCommit, CanCancel, Ledger!CanCancel,
         CanAdd, Ledger!CanAdd, Sufficient, Ledger!Sufficient, MayGoNegative,
         Ledger!MayGoNegative, Available, Ledger!Available
<1>2. \A op, r, n : Ledger!Apply(op, r, n) = Apply(op, r, n)
  BY DEF Apply, Ledger!Apply, Withdraw, Ledger!Withdraw, Reserve, Ledger!Reserve,
         Commit, Ledger!Commit, CancelReservation, Ledger!CancelReservation,
         AddFunds, Ledger!AddFunds
<1>3. \A f : /\ Ledger!FromOp(f, phase) = FromOp(f, phase)
             /\ Ledger!ToOp(f, phase) = ToOp(f, phase)
  BY DEF FromOp, Ledger!FromOp, ToOp, Ledger!ToOp
<1>4. \A f, x, bs : Ledger!AfterFrom(f, phase, x, bs) = AfterFrom(f, phase, x, bs)
  BY <1>2, <1>3 DEF AfterFrom, Ledger!AfterFrom
<1>5. Ledger!OptIn(phase) = OptIn(phase)
  BY DEF OptIn, Ledger!OptIn
<1>6. Ledger!CanMove(t, phase, b) = CanMove(t, phase, b)
  BY <1>1, <1>3, <1>4, <1>5 DEF CanMove, Ledger!CanMove, CanCalculate, Ledger!CanCalculate
<1>7. Ledger!Moved(t, phase, b) = Moved(t, phase, b)
  BY <1>2, <1>3, <1>4 DEF Moved, Ledger!Moved, Calculate, Ledger!Calculate
<1>8. Ledger!StatusAfter(phase) = StatusAfter(phase)
  BY DEF StatusAfter, Ledger!StatusAfter
<1>9. Ledger!EntryPhase(t) = EntryPhase(t)
  BY DEF EntryPhase, Ledger!EntryPhase
<1>. QED BY <1>6, <1>7, <1>8, <1>9

LEMMA StepImplements ==
    ASSUME Types, HeldInv, Fresh, [Next]_vars
    PROVE  [Ledger!Next]_<<balance, status>>
<1>. SUFFICES ASSUME ~UNCHANGED <<balance, status>>
              PROVE  Ledger!Next
  OBVIOUS
<1>1. PICK c \in Worker : Commits(c)
  BY Shapes DEF Elsewhere, Begins, Proceeds, Still, Locks, Calculates, GivesUp
<1>2. Held(c)
  BY <1>1 DEF HeldInv, Critical, Commits
<1>3. /\ CanMove(TrxOf(c), PhaseOf(c), balance)
      /\ balance' = Moved(TrxOf(c), PhaseOf(c), balance)
      /\ status' = [status EXCEPT ![TrxOf(c)] = StatusAfter(PhaseOf(c))]
  BY <1>1, <1>2, CommitMoves DEF Held, Commits, Written
<1>4. Ledger!Step(TrxOf(c), PhaseOf(c))
  BY <1>3, SameOperators DEF Ledger!Step
<1>5. CASE c \in Settler
  <2>1. /\ TrxOf(c) = TargetOf[c] /\ TargetOf[c] \in Trx
        /\ PhaseOf(c) \in {"commit", "cancel"}
    BY <1>5, TrxOfWorker, LegacyAssumption DEF LegacyAssumption, PhaseOf
  <2>2. status[TargetOf[c]] = "PENDING"
    BY <1>1, <1>5 DEF Fresh, Running, Commits
  <2>. QED BY <1>4, <2>1, <2>2 DEF Ledger!Next, Ledger!Settle
<1>6. CASE c \in Trx
  <2>1. TrxOf(c) = c /\ PhaseOf(c) = EntryPhase(c)
    BY <1>6, TrxOfWorker DEF PhaseOf
  <2>2. status[c] = "none"
    BY <1>1, <1>6 DEF Fresh, Commits
  <2>. QED BY <1>4, <1>6, <2>1, <2>2, SameOperators DEF Ledger!Next, Ledger!Enter
<1>. QED BY <1>5, <1>6 DEF Worker

\* The service implements the ledger of Reservations: what its calls read, lock and
\* write in several steps is, seen from the tables, one step for each transfer that is
\* entered or settled.
THEOREM ImplementsReservations == ASSUME Serial PROVE Spec => ImplementsLedger
<1>1. Init => Alone /\ Fresh /\ Ledger!Init
  <2>1. ASSUME Init PROVE Alone
    BY <2>1, WorkerCall DEF Init, Alone, Running
  <2>2. ASSUME Init PROVE Fresh
    BY <2>2, WorkerCall DEF Init, Fresh, Running, Worker
  <2>. QED BY <2>1, <2>2 DEF Init, Ledger!Init
<1>2. Types /\ Alone /\ Fresh /\ [Next]_vars => (Alone /\ Fresh)'
  BY AloneNext, FreshNext
<1>3. Types /\ HeldInv /\ Fresh /\ [Next]_vars => [Ledger!Next]_<<balance, status>>
  BY StepImplements
<1>. QED BY <1>1, <1>2, <1>3, HeldAlways, PTL DEF Spec, ImplementsLedger, Ledger!Spec

-----------------------------------------------------------------------------
(***************************************************************************)
(* Announcements.  A call that must announce has done so when it gets to   *)
(* COMMIT, and nothing is taken back.                                      *)
(***************************************************************************)
AnnouncedInv ==
    /\ AnnouncedFirst
    /\ \A c \in Worker : pc[c] = "committing" /\ Announces(c) => TrxOf(c) \in announced

\* Whoever gets to COMMIT has announced, or does not need to.
LEMMA AnnouncedOnTheWay ==
    ASSUME Types, [Next]_vars
    PROVE  /\ announced \subseteq announced'
           /\ \A c \in Worker : pc'[c] = "committing" /\ pc[c] # "committing"
                                   => ~Announces(c) \/ TrxOf(c) \in announced'
<1>. USE WorkerCall
<1>1. ASSUME NEW c \in Worker, CalculateBalances(c)
      PROVE  /\ announced' = announced
             /\ \A d \in Worker : pc'[d] = "committing" /\ pc[d] # "committing"
                                   => ~Announces(d)
  BY <1>1 DEF CalculateBalances, Goto, Types
<1>2. ASSUME NEW c \in Worker, Announce(c)
      PROVE  /\ announced' = announced \union {TrxOf(c)}
             /\ \A d \in Worker : pc'[d] = "committing" /\ pc[d] # "committing" => d = c
  BY <1>2 DEF Announce, Goto, Types
<1>3. ASSUME NEW c \in Worker,
             \/ \E a \in Acct : LockRow(c, a)
             \/ CalculateFails(c)
             \/ CommitTx(c)
             \/ CommitUnanswered(c)
             \/ CommitTxDone(c)
             \/ Fail(c)
      PROVE  /\ announced' = announced
             /\ \A d \in Worker : pc'[d] = "committing" => pc[d] = "committing"
  BY <1>3 DEF LockRow, CalculateFails, CommitTx, CommitUnanswered, CommitTxDone, Fail,
              Rollback, Return, Types
<1>4. ASSUME NEW t \in Trx, StartStore(t)
      PROVE  /\ announced' = announced
             /\ \A d \in Worker : pc'[d] = "committing" => pc[d] = "committing"
  <2>1. t \in Worker /\ announced' = announced
    BY <1>4 DEF StartStore, Worker
  <2>2. Moves(t, "locking") \/ Moves(t, "done")
    BY <1>4, Zenon DEF StartStore, Goto, Return, Moves
  <2>. QED BY <2>1, <2>2 DEF Moves, Types
<1>5. ASSUME NEW s \in Settler, StartSettle(s) \/ UpdateStatus(s)
      PROVE  /\ announced' = announced
             /\ \A d \in Worker : pc'[d] = "committing" => pc[d] = "committing"
  <2>1. s \in Worker /\ announced' = announced
    BY <1>5 DEF StartSettle, UpdateStatus, Worker
  <2>2. Moves(s, "updating") \/ Moves(s, "done") \/ Moves(s, "locking")
    BY <1>5, SettleShape DEF UpdateStatus, Goto, Begins, Moves
  <2>. QED BY <2>1, <2>2 DEF Moves, Types
<1>6. ASSUME NEW b \in Bulk, BulkStep(b) \/ StoreUnanswered(b) \/ FailBulk(b)
      PROVE  /\ announced' = announced
             /\ \A d \in Worker : pc'[d] = "committing" => pc[d] = "committing"
  <2>1. announced' = announced
    BY <1>6 DEF BulkStep, StartBulk, CheckChunk, StoreChunk, StoreUnanswered, FailBulk
  <2>2. Elsewhere
    BY <1>6, BulkShape
  <2>. QED BY <2>1, <2>2 DEF Elsewhere, Moves, Types
<1>7. CASE UNCHANGED vars
  BY <1>7 DEF vars
<1>8. ASSUME NEW c \in Worker, Work(c)
      PROVE  /\ announced \subseteq announced'
             /\ \A d \in Worker : pc'[d] = "committing" /\ pc[d] # "committing"
                                   => ~Announces(d) \/ TrxOf(d) \in announced'
  BY <1>1, <1>2, <1>3, <1>8 DEF Work
<1>. QED
  BY <1>3, <1>4, <1>5, <1>6, <1>7, <1>8 DEF Next, Fault, StoreStep, SettleStep, Worker

LEMMA AnnouncedNext ==
    ASSUME Types, AnnouncedInv, [Next]_vars
    PROVE  AnnouncedInv'
<1>1. /\ announced \subseteq announced'
      /\ \A c \in Worker : pc'[c] = "committing" /\ Announces(c) => TrxOf(c) \in announced'
  BY AnnouncedOnTheWay DEF AnnouncedInv
<1>2. AnnouncedFirst'
  <2>1. CASE status' = status
    BY <1>1, <2>1 DEF AnnouncedInv, AnnouncedFirst
  <2>2. CASE status' # status
    <3>1. PICK c \in Worker : Commits(c)
      BY <2>2, Shapes DEF Elsewhere, Begins, Proceeds, Still, Locks, Calculates, GivesUp
    <3>2. /\ pc[c] = "committing"
          /\ status' = [status EXCEPT ![TrxOf(c)] = StatusAfter(PhaseOf(c))]
      BY <3>1 DEF Commits, Written
    <3>3. StatusAfter(PhaseOf(c)) = "SUCCESS" => Announces(c)
      BY CallTypes DEF StatusAfter, Announces, Phases, Worker
    <3>4. StatusAfter(PhaseOf(c)) = "SUCCESS" => TrxOf(c) \in announced
      BY <3>2, <3>3 DEF AnnouncedInv
    <3>. QED BY <1>1, <3>2, <3>4 DEF AnnouncedInv, AnnouncedFirst, Types
  <2>. QED BY <2>1, <2>2
<1>. QED BY <1>1, <1>2 DEF AnnouncedInv, Announces, TrxOf, PhaseOf

\* Whoever listens to the notifications hears of every success, whatever calls are in
\* flight together and whatever fails.
THEOREM SuccessAnnounced == Spec => []AnnouncedFirst
<1>1. Init => AnnouncedInv
  BY WorkerCall DEF Init, AnnouncedInv, AnnouncedFirst
<1>2. Types /\ AnnouncedInv /\ [Next]_vars => AnnouncedInv'
  BY AnnouncedNext
<1>3. AnnouncedInv => AnnouncedFirst
  BY DEF AnnouncedInv
<1>. QED BY <1>1, <1>2, <1>3, HeldAlways, PTL DEF Spec

-----------------------------------------------------------------------------
(***************************************************************************)
(* Reference numbers.  Calls in flight together share none (Apart), two    *)
(* settling calls excepted, so that what a call did not find stays unknown *)
(* until it stores it itself (Unknown).                                    *)
(***************************************************************************)
Storing(b) == pc[b] = "storing"

BulkTypes == new \in [Bulk -> SUBSET Int] /\ chunk \in [Bulk -> Nat]

Apart ==
    \A c, d \in Call :
        c # d /\ Running(c) /\ Running(d) /\ RefsOfCall(c) \intersect RefsOfCall(d) # {}
            => c \in Settler /\ d \in Settler

Unknown ==
    /\ \A t \in Trx : Running(t) => RefOf[t] \notin KnownRefs
    /\ \A b \in Bulk : Storing(b) => new[b] \subseteq RefsOf(b) \ KnownRefs

RefsInv ==
    /\ BulkTypes
    /\ Apart
    /\ Unknown
    /\ \A s \in Settler : Running(s) => status[TargetOf[s]] # "none"
    /\ \A b \in Bulk : pc[b] # "done" => chunk[b] \in DOMAIN ChunksOf[b]
    /\ OnePerReference

\* The steps, by what they do to what is known: a call begins, goes on or ends; a
\* transfer is entered; one is settled; a chunk is checked; a chunk is stored.
Known == <<status, imported>>

Enters(t) ==
    /\ pc[t] = "committing" /\ Moves(t, "done")
    /\ \E x \in Statuses \ {"none"} : status' = [status EXCEPT ![t] = x]
    /\ UNCHANGED <<imported, bulk>>

Settles(s) ==
    /\ pc[s] = "committing" /\ Moves(s, "done")
    /\ \E x \in Statuses \ {"none"} : status' = [status EXCEPT ![TargetOf[s]] = x]
    /\ UNCHANGED <<imported, bulk>>

Arrives(c) ==
    /\ MayStart(c)
    /\ UNCHANGED <<Known, bulk>>
    /\ \/ Moves(c, "done")
       \/ c \in Trx /\ Moves(c, "locking") /\ ~Duplicate(c)
       \/ c \in Settler /\ Moves(c, "updating") /\ status[TargetOf[c]] = "PENDING"
       \/ c \in Bulk /\ Moves(c, "checking")

Continues(c) ==
    /\ UNCHANGED <<Known, bulk>>
    /\ \/ pc' = pc
       \/ Running(c) /\ Moves(c, "done")
       \/ c \in Worker /\ Running(c) /\ \E place \in Places : Moves(c, place)

Checks(b) ==
    /\ pc[b] = "checking" /\ (Moves(b, "storing") \/ Moves(b, "done"))
    /\ new' = [new EXCEPT ![b] = NewRefs(b)]
    /\ UNCHANGED <<Known, chunk>>

Stores(b) ==
    /\ Storing(b) /\ (Moves(b, "checking") \/ Moves(b, "done"))
    /\ imported' = imported \union NewRows(b)
    /\ \/ chunk' = chunk /\ Moves(b, "done")
       \/ chunk' = [chunk EXCEPT ![b] = @ + 1]
            /\ (Moves(b, "done") \/ chunk[b] # Len(ChunksOf[b]))
    /\ UNCHANGED <<status, new>>

LEMMA StatusAfterType ==
    ASSUME NEW c \in Worker
    PROVE  StatusAfter(PhaseOf(c)) \in Statuses \ {"none"}
  BY CallTypes DEF Worker, Phases, StatusAfter, Statuses

LEMMA WrittenShape ==
    ASSUME NEW c \in Worker, pc[c] = "committing", Written(c), Moves(c, "done"),
           UNCHANGED <<imported, bulk>>
    PROVE  (c \in Trx /\ Enters(c)) \/ (c \in Settler /\ Settles(c))
<1>1. status' = [status EXCEPT ![TrxOf(c)] = StatusAfter(PhaseOf(c))]
  BY DEF Written
<1>. QED BY <1>1, StatusAfterType, TrxOfWorker DEF Worker, Enters, Settles

LEMMA WorkKnown ==
    ASSUME NEW c \in Worker,
           Work(c) \/ CommitUnanswered(c) \/ CommitTxDone(c) \/ Fail(c) \/ UpdateStatus(c)
    PROVE  Continues(c) \/ (c \in Trx /\ Enters(c)) \/ (c \in Settler /\ Settles(c))
<1>1. CASE CommitTx(c) \/ CommitUnanswered(c)
  BY <1>1, WrittenShape DEF CommitTx, CommitUnanswered, Return, Moves
<1>2. CASE \E a \in Acct : LockRow(c, a)
  BY <1>2 DEF LockRow, Continues, tables, Known
<1>3. CASE CalculateBalances(c) \/ Announce(c) \/ UpdateStatus(c)
  <2>1. UNCHANGED <<Known, bulk>> /\ Running(c)
    BY <1>3 DEF CalculateBalances, Announce, UpdateStatus, tables, Known, Running
  <2>2. Moves(c, "announcing") \/ Moves(c, "committing") \/ Moves(c, "locking")
    BY <1>3 DEF CalculateBalances, Announce, UpdateStatus, Goto, Moves
  <2>. QED BY <2>1, <2>2 DEF Continues, Places
<1>4. CASE CalculateFails(c) \/ CommitTxDone(c) \/ Fail(c)
  <2>1. Running(c)
    BY <1>4 DEF CalculateFails, CommitTxDone, Fail, InTransaction, Running
  <2>2. Moves(c, "done") /\ UNCHANGED <<Known, bulk>>
    BY <1>4 DEF CalculateFails, CommitTxDone, Fail, Rollback, Return, Moves, Known, tables
  <2>. QED BY <2>1, <2>2 DEF Continues
<1>. QED BY <1>1, <1>2, <1>3, <1>4 DEF Work

LEMMA StartKnown ==
    /\ \A t \in Trx : StartStore(t) => Arrives(t)
    /\ \A s \in Settler : StartSettle(s) => Arrives(s)
    /\ \A b \in Bulk : StartBulk(b) => Arrives(b)
<1>1. ASSUME NEW t \in Trx, StartStore(t) PROVE Arrives(t)
  <2>1. MayStart(t) /\ UNCHANGED <<Known, bulk>>
    BY <1>1 DEF StartStore, tables, Known
  <2>2. CASE Acceptable(t)
    BY <1>1, <2>1, <2>2 DEF StartStore, Acceptable, Goto, Arrives, Moves
  <2>3. CASE ~Acceptable(t)
    BY <1>1, <2>1, <2>3 DEF StartStore, Return, Arrives, Moves
  <2>. QED BY <2>2, <2>3
<1>2. ASSUME NEW s \in Settler, StartSettle(s) PROVE Arrives(s)
  <2>1. UNCHANGED <<Known, bulk>>
    BY <1>2 DEF StartSettle, tables, Known
  <2>2. s \notin Trx
    BY TrxOfWorker
  <2>. QED BY <1>2, <2>1, <2>2, SettleShape DEF Begins, Arrives
<1>3. ASSUME NEW b \in Bulk, StartBulk(b) PROVE Arrives(b)
  BY <1>3 DEF StartBulk, Goto, Arrives, Moves, tables, Known
<1>. QED BY <1>1, <1>2, <1>3

LEMMA BulkKnown ==
    ASSUME NEW b \in Bulk,
           CheckChunk(b) \/ StoreChunk(b) \/ StoreUnanswered(b) \/ FailBulk(b)
    PROVE  Continues(b) \/ Checks(b) \/ Stores(b)
<1>1. CASE CheckChunk(b)
  BY <1>1 DEF CheckChunk, Checks, Goto, Return, Moves, tables, Known
<1>2. CASE StoreChunk(b)
  <2>1. CASE Moves(b, "done")
    BY <1>2, <2>1 DEF StoreChunk, Stores, Storing
  <2>2. CASE ~Moves(b, "done")
    <3>1. ~Return(b, "error") /\ ~Return(b, "ok")
      BY <2>2 DEF Return, Moves
    <3>2. new[b] \intersect BadRef = {} /\ chunk[b] # Len(ChunksOf[b])
      <4>1. CASE new[b] \intersect BadRef # {}
        BY <1>2, <3>1, <4>1 DEF StoreChunk
      <4>2. CASE new[b] \intersect BadRef = {} /\ chunk[b] = Len(ChunksOf[b])
        BY <1>2, <3>1, <4>2 DEF StoreChunk
      <4>. QED BY <4>1, <4>2
    <3>3. Moves(b, "checking")
      BY <1>2, <3>2 DEF StoreChunk, Goto, Moves
    <3>. QED BY <1>2, <3>2, <3>3 DEF StoreChunk, Stores, Storing
  <2>. QED BY <2>1, <2>2
<1>3. CASE StoreUnanswered(b)
  BY <1>3 DEF StoreUnanswered, Stores, Storing, Return, Moves, bulk
<1>4. CASE FailBulk(b)
  BY <1>4 DEF FailBulk, Continues, Running, Return, Moves, tables, Known
<1>. QED BY <1>1, <1>2, <1>3, <1>4

LEMMA KnownShapes ==
    ASSUME [Next]_vars
    PROVE  \/ \E c \in Call : Arrives(c) \/ Continues(c)
           \/ \E t \in Trx : Enters(t)
           \/ \E s \in Settler : Settles(s)
           \/ \E b \in Bulk : Checks(b) \/ Stores(b)
           \/ UNCHANGED <<Known, bulk, pc>>
<1>1. CASE \E t \in Trx : StoreStep(t)
  BY <1>1, StartKnown, WorkKnown, WorkerCall DEF StoreStep, Worker
<1>2. CASE \E s \in Settler : SettleStep(s)
  BY <1>2, StartKnown, WorkKnown, WorkerCall DEF SettleStep, Worker
<1>3. CASE \E b \in Bulk : BulkStep(b)
  BY <1>3, StartKnown, BulkKnown DEF BulkStep, Call
<1>4. CASE Fault
  BY <1>4, WorkKnown, BulkKnown, WorkerCall DEF Fault, Worker, Call
<1>5. CASE UNCHANGED vars
  BY <1>5 DEF vars, tables, bulk, Known
<1>. QED BY <1>1, <1>2, <1>3, <1>4, <1>5 DEF Next

\* What is known before and after.
LEMMA KnownSame == ASSUME UNCHANGED Known PROVE KnownRefs' = KnownRefs
  BY DEF Known, KnownRefs

LEMMA KnownEntered ==
    ASSUME Types, NEW t \in Trx, Enters(t)
    PROVE  KnownRefs' = KnownRefs \union {RefOf[t]}
<1>1. imported' = imported
      /\ \A u \in Trx : status'[u] # "none" <=> status[u] # "none" \/ u = t
  BY DEF Enters, Types
<1>. QED BY <1>1 DEF KnownRefs

LEMMA KnownSettled ==
    ASSUME Types, NEW s \in Settler, Settles(s), status[TargetOf[s]] # "none"
    PROVE  /\ KnownRefs' = KnownRefs
           /\ \A u \in Trx : status'[u] # "none" <=> status[u] # "none"
<1>1. imported' = imported
      /\ \A u \in Trx : status'[u] # "none" <=> status[u] # "none"
  BY DEF Settles, Types
<1>. QED BY <1>1 DEF KnownRefs

\* What is stored of a chunk.
LEMMA RowsNew ==
    ASSUME NEW b \in Bulk, NEW row \in NewRows(b)
    PROVE  row.ref \in new[b] /\ row.bulk = b /\ row.chunk = chunk[b]
  BY DEF NewRows

LEMMA KnownStored ==
    ASSUME NEW b \in Bulk, Stores(b)
    PROVE  KnownRefs' \subseteq KnownRefs \union new[b]
<1>1. status' = status /\ imported' = imported \union NewRows(b)
  BY DEF Stores
<1>. QED BY <1>1, RowsNew DEF KnownRefs

\* Only the call that takes a step begins or ends with it.
LEMMA ApartKept ==
    ASSUME Apart, NEW e \in Call, \A d \in Call \ {e} : pc'[d] = pc[d],
           Running(e)' => Running(e) \/ MayStart(e)
    PROVE  Apart'
<1>. SUFFICES ASSUME NEW c \in Call, NEW d \in Call, c # d, Running(c)', Running(d)',
                     RefsOfCall(c) \intersect RefsOfCall(d) # {}
              PROVE  c \in Settler /\ d \in Settler
  BY DEF Apart, RefsOfCall, RefsOf, TrxOf
<1>1. CASE c # e /\ d # e
  BY <1>1 DEF Apart, Running
<1>2. CASE c = e
  BY <1>2 DEF Apart, Running, MayStart
<1>3. CASE d = e
  BY <1>3 DEF Apart, Running, MayStart
<1>. QED BY <1>1, <1>2, <1>3

LEMMA ApartNext ==
    ASSUME Types, Apart, [Next]_vars
    PROVE  Apart'
<1>1. ASSUME NEW c \in Call, Arrives(c) \/ Continues(c) PROVE Apart'
  <2>1. CASE pc' = pc
    BY <2>1 DEF Apart, Running, RefsOfCall, RefsOf, TrxOf
  <2>2. CASE pc' # pc
    <3>1. \E place : Moves(c, place)
      BY <1>1, <2>2 DEF Arrives, Continues
    <3>2. \A d \in Call \ {c} : pc'[d] = pc[d]
      BY <3>1 DEF Moves, Types
    <3>3. Running(c)' => Running(c) \/ MayStart(c)
      BY <1>1, <2>2 DEF Arrives, Continues, Moves, Running, Types
    <3>. QED BY <3>2, <3>3, ApartKept
  <2>. QED BY <2>1, <2>2
<1>2. ASSUME NEW c \in Call, Enters(c) \/ Settles(c) \/ Checks(c) \/ Stores(c) PROVE Apart'
  <2>1. Running(c) /\ \E place : Moves(c, place)
    BY <1>2 DEF Enters, Settles, Checks, Stores, Storing, Running
  <2>2. \A d \in Call \ {c} : pc'[d] = pc[d]
    BY <2>1 DEF Moves, Types
  <2>. QED BY <2>1, <2>2, ApartKept
<1>3. CASE UNCHANGED <<Known, bulk, pc>>
  BY <1>3 DEF Apart, Running, RefsOfCall, RefsOf, TrxOf
<1>. QED BY <1>1, <1>2, <1>3, KnownShapes DEF Call

\* Two calls that are not both settling share no reference number.
LEMMA Disjoint ==
    ASSUME Apart
    PROVE  /\ \A t, u \in Trx : t # u /\ Running(t) /\ Running(u) => RefOf[t] # RefOf[u]
           /\ \A t \in Trx, b \in Bulk : Running(t) /\ Running(b) => RefOf[t] \notin RefsOf(b)
           /\ \A b, d \in Bulk : b # d /\ Running(b) /\ Running(d)
                                    => RefsOf(b) \intersect RefsOf(d) = {}
<1>1. \A t \in Trx : /\ t \in Call /\ t \notin Settler /\ t \notin Bulk
                     /\ RefsOfCall(t) = {RefOf[t]}
  BY LegacyAssumption DEF LegacyAssumption, Call, RefsOfCall, TrxOf
<1>2. \A b \in Bulk : /\ b \in Call /\ b \notin Settler /\ b \notin Trx
                      /\ RefsOfCall(b) = RefsOf(b)
  BY LegacyAssumption DEF LegacyAssumption, Call, RefsOfCall
<1>. QED BY <1>1, <1>2 DEF Apart

LEMMA UnknownNext ==
    ASSUME Types, RefsInv, [Next]_vars
    PROVE  Unknown'
<1>. USE DEF RefsInv
<1>0. /\ \A t \in Trx : t \in Call /\ t \notin Bulk /\ t \notin Settler
      /\ \A s \in Settler : s \in Call /\ s \notin Bulk /\ s \notin Trx
      /\ \A b \in Bulk : b \in Call /\ b \notin Trx /\ b \notin Settler
  BY LegacyAssumption DEF LegacyAssumption, Call
<1>1. ASSUME NEW c \in Call, Arrives(c) \/ Continues(c) PROVE Unknown'
  <2>1. KnownRefs' = KnownRefs /\ new' = new
    BY <1>1, KnownSame DEF Arrives, Continues, bulk
  <2>2. ASSUME NEW t \in Trx, Running(t)' PROVE RefOf[t] \notin KnownRefs
    BY <1>0, <1>1, <2>2 DEF Arrives, Continues, Moves, Running, Types, Unknown, Duplicate, Worker
  <2>3. ASSUME NEW b \in Bulk, Storing(b)' PROVE Storing(b)
    BY <1>0, <1>1, <2>3 DEF Arrives, Continues, Moves, Storing, Types, Worker
  <2>. QED BY <2>1, <2>2, <2>3 DEF Unknown, RefsOf
<1>2. ASSUME NEW t \in Trx, Enters(t) PROVE Unknown'
  <2>1. KnownRefs' = KnownRefs \union {RefOf[t]} /\ new' = new /\ Running(t)
    BY <1>2, KnownEntered DEF Enters, bulk, Running
  <2>2. ~Running(t)' /\ \A d \in Call : d # t => pc'[d] = pc[d]
    BY <1>0, <1>2 DEF Enters, Moves, Running, Types
  <2>3. \A u \in Trx : Running(u)' => u # t /\ Running(u)
    BY <1>0, <2>2 DEF Running
  <2>4. \A b \in Bulk : Storing(b)' => Storing(b) /\ Running(b)
    BY <1>0, <2>2 DEF Running, Storing
  <2>5. \A u \in Trx : Running(u)' => RefOf[u] \notin KnownRefs'
    BY <2>1, <2>3, Disjoint DEF Unknown
  <2>6. \A b \in Bulk : Storing(b)' => new[b] \subseteq RefsOf(b) \ KnownRefs'
    BY <2>1, <2>4, Disjoint DEF Unknown
  <2>. QED BY <2>1, <2>5, <2>6 DEF Unknown, RefsOf
<1>3. ASSUME NEW s \in Settler, Settles(s) PROVE Unknown'
  <2>1. Running(s)
    BY <1>3 DEF Settles, Running
  <2>2. KnownRefs' = KnownRefs /\ new' = new
    BY <1>3, <2>1, KnownSettled DEF Settles, bulk
  <2>3. \A d \in Call : d # s => pc'[d] = pc[d]
    BY <1>0, <1>3 DEF Settles, Moves, Types
  <2>. QED BY <1>0, <2>2, <2>3 DEF Unknown, Running, Storing, RefsOf
<1>4. ASSUME NEW b \in Bulk, Checks(b) PROVE Unknown'
  <2>1. KnownRefs' = KnownRefs
    BY <1>4, KnownSame DEF Checks
  <2>2. \A d \in Call : d # b => pc'[d] = pc[d]
    BY <1>0, <1>4 DEF Checks, Moves, Types
  <2>3. NewRefs(b) \subseteq RefsOf(b) \ KnownRefs
    BY <1>4 DEF Checks, NewRefs, ChunkAt, RefsOf
  <2>4. \A d \in Bulk : Storing(d)' => new'[d] \subseteq RefsOf(d) \ KnownRefs
    BY <1>0, <1>4, <2>2, <2>3 DEF Checks, Unknown, Storing, Types, BulkTypes
  <2>. QED BY <1>0, <2>1, <2>2, <2>4 DEF Unknown, Running, RefsOf
<1>5. ASSUME NEW b \in Bulk, Stores(b) PROVE Unknown'
  <2>1. KnownRefs' \subseteq KnownRefs \union new[b] /\ new' = new
    BY <1>5, KnownStored DEF Stores
  <2>2. /\ \A d \in Call : d # b => pc'[d] = pc[d]
        /\ Running(b) /\ ~Storing(b)' /\ new[b] \subseteq RefsOf(b)
    BY <1>0, <1>5 DEF Stores, Storing, Moves, Running, Types, Unknown
  <2>3. \A t \in Trx : Running(t)' => RefOf[t] \notin KnownRefs'
    BY <1>0, <2>1, <2>2, Disjoint DEF Unknown, Running
  <2>4. \A d \in Bulk : Storing(d)' => d # b /\ Storing(d) /\ Running(d)
    BY <1>0, <2>2 DEF Storing, Running
  <2>5. \A d \in Bulk : Storing(d)' => new[d] \subseteq RefsOf(d) \ KnownRefs'
    BY <2>1, <2>2, <2>4, Disjoint DEF Unknown
  <2>. QED BY <2>1, <2>3, <2>5 DEF Unknown, RefsOf
<1>6. CASE UNCHANGED <<Known, bulk, pc>>
  BY <1>6, KnownSame DEF Unknown, Running, Storing, RefsOf, bulk
<1>. QED BY <1>1, <1>2, <1>3, <1>4, <1>5, <1>6, KnownShapes

LEMMA OneNext ==
    ASSUME Types, RefsInv, [Next]_vars
    PROVE  OnePerReference'
<1>. USE DEF RefsInv
<1>1. CASE UNCHANGED Known
  BY <1>1 DEF OnePerReference, Known
<1>2. ASSUME NEW t \in Trx, Enters(t) PROVE OnePerReference'
  <2>1. imported' = imported
        /\ \A u \in Trx : status'[u] # "none" <=> status[u] # "none" \/ u = t
    BY <1>2 DEF Enters, Types
  <2>2. RefOf[t] \notin KnownRefs
    BY <1>2 DEF Enters, Running, Unknown
  <2>3. /\ \A u \in Trx : status[u] # "none" => RefOf[u] # RefOf[t]
        /\ \A row \in imported : row.ref # RefOf[t]
    BY <2>2 DEF KnownRefs
  <2>. QED BY <2>1, <2>3 DEF OnePerReference
<1>3. ASSUME NEW s \in Settler, Settles(s) PROVE OnePerReference'
  <2>1. status[TargetOf[s]] # "none" /\ imported' = imported
    BY <1>3 DEF Settles, Running
  <2>. QED BY <1>3, <2>1, KnownSettled DEF OnePerReference
<1>4. ASSUME NEW b \in Bulk, Stores(b) PROVE OnePerReference'
  <2>1. new[b] \intersect KnownRefs = {} /\ status' = status
    BY <1>4 DEF Stores, Unknown
  <2>2. /\ \A t \in Trx : status[t] # "none" => RefOf[t] \notin new[b]
        /\ \A row \in imported : row.ref \notin new[b]
    BY <2>1 DEF KnownRefs
  <2>3. ASSUME NEW row \in imported', row \notin imported
        PROVE  row.ref \in new[b] /\ row.bulk = b /\ row.chunk = chunk[b]
    BY <1>4, <2>3, RowsNew DEF Stores
  <2>. QED BY <2>1, <2>2, <2>3 DEF OnePerReference
<1>. QED BY <1>1, <1>2, <1>3, <1>4, KnownShapes DEF Arrives, Continues, Checks

LEMMA BulkNext ==
    ASSUME Types, RefsInv, [Next]_vars
    PROVE  /\ BulkTypes'
           /\ \A b \in Bulk : pc'[b] # "done" => chunk'[b] \in DOMAIN ChunksOf[b]
<1>. USE DEF RefsInv
<1>0. \A b \in Bulk : b \in Call /\ b \notin Worker
  BY LegacyAssumption DEF LegacyAssumption, Call, Worker
<1>1. CASE UNCHANGED bulk
  <2>1. ASSUME NEW b \in Bulk, pc'[b] # "done" PROVE pc[b] # "done"
    BY <1>0, <1>1, <2>1, KnownShapes
       DEF Arrives, MayStart, Continues, Running, Enters, Settles, Checks, Stores, Storing,
           Moves, Types
  <2>. QED BY <1>1, <2>1 DEF bulk, BulkTypes
<1>2. ASSUME NEW b \in Bulk, Checks(b)
      PROVE  /\ BulkTypes'
             /\ \A d \in Bulk : pc'[d] # "done" => chunk'[d] \in DOMAIN ChunksOf[d]
  <2>1. NewRefs(b) \subseteq Int
    <3>1. chunk[b] \in DOMAIN ChunksOf[b]
      BY <1>2 DEF Checks
    <3>2. ChunksOf[b][chunk[b]] \in Seq(Int)
      BY <3>1, LegacyAssumption DEF LegacyAssumption
    <3>. QED BY <3>2 DEF NewRefs, ChunkAt, ToSet
  <2>2. \A d \in Bulk : pc'[d] # "done" => pc[d] # "done"
    BY <1>0, <1>2 DEF Checks, Moves, Types
  <2>. QED BY <1>2, <2>1, <2>2 DEF Checks, BulkTypes
<1>3. ASSUME NEW b \in Bulk, Stores(b)
      PROVE  /\ BulkTypes'
             /\ \A d \in Bulk : pc'[d] # "done" => chunk'[d] \in DOMAIN ChunksOf[d]
  <2>1. /\ pc[b] # "done"
        /\ \A d \in Bulk : d # b => pc'[d] = pc[d] /\ chunk'[d] = chunk[d]
    BY <1>0, <1>3 DEF Stores, Storing, Moves, Types, BulkTypes
  <2>2. pc'[b] # "done" => chunk[b] # Len(ChunksOf[b]) /\ chunk'[b] = chunk[b] + 1
    BY <1>0, <1>3 DEF Stores, Moves, Types, BulkTypes
  <2>3. chunk[b] \in DOMAIN ChunksOf[b] /\ ChunksOf[b] \in Seq(Seq(Int))
    BY <2>1, LegacyAssumption DEF LegacyAssumption
  <2>4. pc'[b] # "done" => chunk'[b] \in DOMAIN ChunksOf[b]
    BY <2>2, <2>3
  <2>5. BulkTypes'
    BY <1>3 DEF Stores, BulkTypes
  <2>. QED BY <2>1, <2>4, <2>5
<1>. QED BY <1>1, <1>2, <1>3, KnownShapes DEF Arrives, Continues, Enters, Settles

LEMMA SettlersNext ==
    ASSUME Types, RefsInv, [Next]_vars
    PROVE  \A s \in Settler : Running(s)' => status'[TargetOf[s]] # "none"
<1>. USE DEF RefsInv
<1>. SUFFICES ASSUME NEW s \in Settler, Running(s)' PROVE status'[TargetOf[s]] # "none"
  OBVIOUS
<1>0. s \in Call /\ s \notin Trx /\ s \notin Bulk /\ TargetOf[s] \in Trx
  BY LegacyAssumption DEF LegacyAssumption, Call
<1>1. Running(s) \/ Arrives(s)
  BY <1>0, KnownShapes
     DEF Arrives, Continues, Running, Enters, Settles, Checks, Stores, Moves, Types
<1>2. status[TargetOf[s]] # "none"
  BY <1>0, <1>1 DEF Arrives, Running, Moves, Types
<1>3. \A t \in Trx : status[t] # "none" => status'[t] # "none"
  BY KnownShapes DEF Arrives, Continues, Known, Enters, Settles, Checks, Stores, Types
<1>. QED BY <1>0, <1>2, <1>3

LEMMA RefsAlways == Spec => []RefsInv
<1>1. Init => RefsInv
  <2>. SUFFICES ASSUME Init PROVE RefsInv
    OBVIOUS
  <2>1. \A c \in Call : ~Running(c) /\ pc[c] \in {"idle", "done"}
    BY DEF Init, Running
  <2>2. /\ \A t \in Trx : t \in Call
        /\ \A s \in Settler : s \in Call
        /\ \A b \in Bulk : b \in Call
    BY DEF Call
  <2>3. \A b \in Bulk : 1 \in DOMAIN ChunksOf[b]
    BY LegacyAssumption DEF LegacyAssumption
  <2>4. BulkTypes /\ \A b \in Bulk : chunk[b] = 1
    BY DEF Init, BulkTypes
  <2>5. Unknown
    BY <2>1, <2>2 DEF Unknown, Storing
  <2>6. OnePerReference
    BY DEF Init, OnePerReference
  <2>7. Apart
    BY <2>1 DEF Apart
  <2>8. \A s \in Settler : Running(s) => status[TargetOf[s]] # "none"
    BY <2>1, <2>2
  <2>9. \A b \in Bulk : chunk[b] \in DOMAIN ChunksOf[b]
    BY <2>3, <2>4
  <2>. QED BY <2>4, <2>5, <2>6, <2>7, <2>8, <2>9 DEF RefsInv
<1>2. Types /\ RefsInv /\ [Next]_vars => RefsInv'
  BY ApartNext, UnknownNext, OneNext, BulkNext, SettlersNext DEF RefsInv
<1>. QED BY <1>1, <1>2, HeldAlways, PTL DEF Spec

\* However calls are repeated, raced, lost or sent again in bulk: while clients wait for
\* an answer before they use a reference number again, no two rows have one in common
\* unless one chunk of a bulk request names it twice (transaction_service.go).
THEOREM OneRowPerReference == Spec => []OnePerReference
<1>1. RefsInv => OnePerReference
  BY DEF RefsInv
<1>. QED BY <1>1, RefsAlways, PTL

-----------------------------------------------------------------------------
(***************************************************************************)
(* Type correctness.  Locks belong to database transactions that are open, *)
(* and go with them.                                                       *)
(***************************************************************************)
LockInv ==
    /\ trxLock \in [Trx -> Settler \union {NoCall}]
    /\ \A a \in Acct : rowLock[a] # NoCall => rowLock[a] \in Worker /\ InTransaction(rowLock[a])
    /\ \A t \in Trx : trxLock[t] # NoCall => InTransaction(trxLock[t])

\* The steps, by what they do to locks.
Lockless(c) ==
    /\ UNCHANGED locks
    /\ \E place \in Places :
          /\ Moves(c, place)
          /\ InTransaction(c) => place \in {"updating", "locking", "announcing", "committing"}

Unlocks(c) ==
    /\ Unlock(c)
    /\ Moves(c, "done")

LEMMA LockShapes ==
    ASSUME [Next]_vars
    PROVE  \/ \E c \in Call : Lockless(c)
           \/ \E c \in Worker : Unlocks(c)
           \/ \E c \in Worker : \E a \in Acct : LockRow(c, a)
           \/ \E s \in Settler : UpdateStatus(s)
           \/ UNCHANGED <<locks, pc>>
<1>1. ASSUME NEW c \in Call, NEW place \in Places, Goto(c, place), UNCHANGED locks,
             InTransaction(c) => place \in {"updating", "locking", "announcing", "committing"}
      PROVE  Lockless(c)
  BY <1>1 DEF Lockless, Goto, Moves
<1>2. ASSUME NEW c \in Call, NEW answer, Return(c, answer), UNCHANGED locks, ~InTransaction(c)
      PROVE  Lockless(c)
  BY <1>2 DEF Lockless, Return, Moves, Places
<1>3. ASSUME NEW c \in Worker, Work(c)
      PROVE  \/ Lockless(c) \/ Unlocks(c)
             \/ \E a \in Acct : LockRow(c, a)
  <2>1. CASE CalculateBalances(c)
    <3>1. Goto(c, "announcing") \/ Goto(c, "committing")
      BY <2>1 DEF CalculateBalances
    <3>. QED BY <1>1, <2>1, <3>1, WorkerCall DEF CalculateBalances, Places
  <2>2. CASE Announce(c)
    BY <1>1, <2>2, WorkerCall DEF Announce, Places
  <2>3. CASE CalculateFails(c)
    BY <2>3 DEF CalculateFails, Rollback, Return, Unlocks, Moves
  <2>4. CASE CommitTx(c)
    BY <2>4 DEF CommitTx, Return, Unlocks, Moves
  <2>. QED BY <1>3, <2>1, <2>2, <2>3, <2>4 DEF Work
<1>4. ASSUME NEW t \in Trx, StoreStep(t)
      PROVE  \/ Lockless(t) \/ Unlocks(t)
             \/ \E a \in Acct : LockRow(t, a)
  <2>1. CASE StartStore(t)
    <3>1. UNCHANGED locks /\ ~InTransaction(t) /\ t \in Call
      BY <2>1 DEF StartStore, MayStart, InTransaction, Call
    <3>2. Goto(t, "locking") \/ Return(t, "error")
      BY <2>1 DEF StartStore
    <3>. QED BY <1>1, <1>2, <3>1, <3>2 DEF Places
  <2>. QED BY <1>3, <1>4, <2>1 DEF StoreStep, Worker
<1>5. ASSUME NEW s \in Settler, SettleStep(s)
      PROVE  \/ Lockless(s) \/ Unlocks(s) \/ UpdateStatus(s)
             \/ \E a \in Acct : LockRow(s, a)
  <2>1. CASE StartSettle(s)
    <3>1. UNCHANGED locks /\ ~InTransaction(s) /\ s \in Call
      BY <2>1 DEF StartSettle, MayStart, InTransaction, Call
    <3>2. Moves(s, "updating") \/ Moves(s, "done")
      BY <2>1, SettleShape, TrxOfWorker DEF Begins
    <3>. QED BY <3>1, <3>2 DEF Lockless, Places
  <2>. QED BY <1>3, <1>5, <2>1 DEF SettleStep, Worker
<1>6. ASSUME NEW b \in Bulk, BulkStep(b) \/ StoreUnanswered(b) \/ FailBulk(b)
      PROVE  Lockless(b)
  <2>1. UNCHANGED locks /\ ~InTransaction(b) /\ b \in Call
    BY <1>6 DEF BulkStep, StartBulk, CheckChunk, StoreChunk, StoreUnanswered, FailBulk,
           MayStart, InTransaction, Call
  <2>. QED BY <1>6, <2>1, BulkMoves DEF Lockless, Places
<1>7. ASSUME NEW c \in Worker, CommitUnanswered(c) \/ CommitTxDone(c) \/ Fail(c)
      PROVE  Unlocks(c)
  BY <1>7 DEF CommitUnanswered, CommitTxDone, Fail, Rollback, Return, Unlocks, Moves
<1>8. CASE UNCHANGED vars
  BY <1>8 DEF vars
<1>. QED BY <1>4, <1>5, <1>6, <1>7, <1>8, WorkerCall DEF Next, Fault, Worker, Call

LEMMA LockNext ==
    ASSUME Types, LockInv, [Next]_vars
    PROVE  LockInv'
<1>1. ASSUME NEW c \in Call, NEW place, Moves(c, place), UNCHANGED locks,
             InTransaction(c) => place \in {"updating", "locking", "announcing", "committing"}
      PROVE  LockInv'
  <2>1. \A d \in Call : InTransaction(d) => InTransaction(d)'
    BY <1>1 DEF Moves, Types, InTransaction
  <2>2. Settler \subseteq Call
    BY DEF Call
  <2>. QED BY <1>1, <2>1, <2>2, WorkerCall DEF LockInv, locks
<1>2. ASSUME NEW c \in Worker, Unlocks(c) PROVE LockInv'
  <2>1. \A d \in Call : d # c /\ InTransaction(d) => InTransaction(d)'
    BY <1>2 DEF Unlocks, Moves, Types, InTransaction
  <2>2. /\ rowLock' = [a \in Acct |-> IF rowLock[a] = c THEN NoCall ELSE rowLock[a]]
        /\ trxLock' = [t \in Trx |-> IF trxLock[t] = c THEN NoCall ELSE trxLock[t]]
    BY <1>2 DEF Unlocks, Unlock
  <2>3. Settler \subseteq Call
    BY DEF Call
  <2>4. trxLock' \in [Trx -> Settler \union {NoCall}]
    BY <2>2 DEF LockInv
  <2>5. \A a \in Acct : rowLock'[a] # NoCall => rowLock'[a] \in Worker /\ InTransaction(rowLock[a])'
    BY <2>1, <2>2, WorkerCall DEF LockInv, InTransaction
  <2>6. \A t \in Trx : trxLock'[t] # NoCall => InTransaction(trxLock[t])'
    BY <2>1, <2>2, <2>3 DEF LockInv, InTransaction
  <2>. QED BY <2>4, <2>5, <2>6 DEF LockInv, InTransaction
<1>3. ASSUME NEW c \in Worker, NEW a \in Acct, LockRow(c, a) PROVE LockInv'
  <2>1. InTransaction(c) /\ UNCHANGED <<trxLock, pc>> /\ rowLock' = [rowLock EXCEPT ![a] = c]
    BY <1>3 DEF LockRow, InTransaction
  <2>. QED BY <2>1 DEF LockInv, Types, InTransaction
<1>4. ASSUME NEW s \in Settler, UpdateStatus(s) PROVE LockInv'
  <2>1. /\ pc[s] = "updating" /\ pc' = [pc EXCEPT ![s] = "locking"] /\ s \in Call
        /\ trxLock' = [trxLock EXCEPT ![TargetOf[s]] = s] /\ UNCHANGED rowLock
    BY <1>4 DEF UpdateStatus, Goto, Call
  <2>2. \A d \in Call : InTransaction(d) => InTransaction(d)'
    BY <2>1 DEF Types, InTransaction
  <2>3. InTransaction(s)'
    BY <2>1 DEF Types, InTransaction
  <2>4. trxLock' \in [Trx -> Settler \union {NoCall}]
    BY <2>1 DEF LockInv
  <2>5. Settler \subseteq Call
    BY DEF Call
  <2>6. \A t \in Trx : trxLock'[t] # NoCall => InTransaction(trxLock[t])'
    BY <2>1, <2>2, <2>3, <2>5 DEF LockInv, InTransaction
  <2>7. \A a \in Acct : rowLock'[a] # NoCall => rowLock'[a] \in Worker /\ InTransaction(rowLock[a])'
    BY <2>1, <2>2, WorkerCall DEF LockInv, InTransaction
  <2>. QED BY <2>4, <2>6, <2>7 DEF LockInv, InTransaction
<1>5. CASE UNCHANGED <<locks, pc>>
  BY <1>5 DEF LockInv, locks, InTransaction
<1>. QED BY <1>1, <1>2, <1>3, <1>4, <1>5, LockShapes DEF Lockless

\* The rest: what was announced, answered, imported and counted.
RestInv ==
    /\ announced \subseteq Trx
    /\ result \in [Call -> {"none", "ok", "error"}]
    /\ faults \in Nat
    /\ \A row \in imported : row.bulk \in Bulk /\ row.ref \in RefsOf(row.bulk)
    /\ \A b \in Bulk : chunk[b] \in Nat \ {0} /\ new[b] \subseteq RefsOf(b)

LEMMA InitRest == Init => RestInv /\ LockInv
<1>. SUFFICES ASSUME Init PROVE RestInv /\ LockInv
  OBVIOUS
<1>1. faults \in Nat
  BY LegacyAssumption DEF LegacyAssumption, Init
<1>2. RestInv
  BY <1>1 DEF Init, RestInv
<1>3. LockInv
  BY DEF Init, LockInv
<1>. QED BY <1>2, <1>3

LEMMA BulkRest ==
    ASSUME Types, RefsInv, RestInv, [Next]_vars
    PROVE  /\ \A row \in imported' : row.bulk \in Bulk /\ row.ref \in RefsOf(row.bulk)
           /\ \A b \in Bulk : chunk'[b] \in Nat \ {0} /\ new'[b] \subseteq RefsOf(b)
<1>1. CASE UNCHANGED <<imported, bulk>>
  BY <1>1 DEF RestInv, bulk
<1>2. ASSUME NEW b \in Bulk, Checks(b)
      PROVE  /\ \A row \in imported' : row.bulk \in Bulk /\ row.ref \in RefsOf(row.bulk)
             /\ \A d \in Bulk : chunk'[d] \in Nat \ {0} /\ new'[d] \subseteq RefsOf(d)
  <2>1. chunk[b] \in DOMAIN ChunksOf[b]
    BY <1>2 DEF RefsInv, Checks
  <2>2. NewRefs(b) \subseteq RefsOf(b)
    BY <2>1 DEF NewRefs, ChunkAt, RefsOf
  <2>. QED BY <1>2, <2>2 DEF Checks, RestInv, RefsInv, BulkTypes, Known
<1>3. ASSUME NEW b \in Bulk, Stores(b)
      PROVE  /\ \A row \in imported' : row.bulk \in Bulk /\ row.ref \in RefsOf(row.bulk)
             /\ \A d \in Bulk : chunk'[d] \in Nat \ {0} /\ new'[d] \subseteq RefsOf(d)
  <2>1. ASSUME NEW row \in imported' PROVE row.bulk \in Bulk /\ row.ref \in RefsOf(row.bulk)
    <3>1. CASE row \in imported
      BY <3>1 DEF RestInv
    <3>2. CASE row \notin imported
      <4>1. row.bulk = b /\ row.ref \in new[b]
        BY <1>3, <3>2, RowsNew DEF Stores
      <4>. QED BY <4>1 DEF RestInv
    <3>. QED BY <3>1, <3>2
  <2>2. \A d \in Bulk : chunk'[d] \in Nat \ {0}
    BY <1>3 DEF Stores, RestInv, RefsInv, BulkTypes
  <2>3. \A d \in Bulk : new'[d] \subseteq RefsOf(d)
    BY <1>3 DEF Stores, RestInv
  <2>. QED BY <2>1, <2>2, <2>3
<1>. QED BY <1>1, <1>2, <1>3, KnownShapes DEF Arrives, Continues, Enters, Settles, Known, bulk

LEMMA RestNext ==
    ASSUME Types, RefsInv, RestInv, [Next]_vars
    PROVE  RestInv'
<1>. DEFINE Answers == {"none", "ok", "error"}
<1>1. ASSUME NEW c \in Worker, Work(c) \/ CommitUnanswered(c) \/ CommitTxDone(c) \/ Fail(c)
      PROVE  announced' \subseteq Trx /\ result' \in [Call -> Answers]
  <2>1. announced' = announced \/ announced' = announced \union {TrxOf(c)}
    BY <1>1 DEF Work, LockRow, CalculateBalances, CalculateFails, Announce, CommitTx,
           CommitUnanswered, CommitTxDone, Fail, Rollback
  <2>2. UNCHANGED result \/ \E answer \in Answers : result' = [result EXCEPT ![c] = answer]
    BY <1>1 DEF Work, LockRow, CalculateBalances, CalculateFails, Announce, CommitTx,
           CommitUnanswered, CommitTxDone, Fail, Rollback, Return, Goto
  <2>. QED BY <2>1, <2>2, CallTypes DEF RestInv, Worker
<1>2. ASSUME NEW c \in Call,
             \/ c \in Trx /\ StartStore(c)
             \/ c \in Settler /\ (StartSettle(c) \/ UpdateStatus(c))
             \/ c \in Bulk /\ (BulkStep(c) \/ StoreUnanswered(c) \/ FailBulk(c))
      PROVE  announced' \subseteq Trx /\ result' \in [Call -> Answers]
  <2>1. UNCHANGED announced
    BY <1>2 DEF StartStore, StartSettle, UpdateStatus, BulkStep, StartBulk, CheckChunk,
           StoreChunk, StoreUnanswered, FailBulk
  <2>2. UNCHANGED result \/ \E answer \in Answers : result' = [result EXCEPT ![c] = answer]
    <3>1. CASE c \in Settler /\ StartSettle(c)
      <4>1. Goto(c, "updating") \/ Return(c, "ok") \/ Return(c, "error")
        BY <3>1, SettleAnswers
      <4>. QED BY <4>1 DEF Goto, Return
    <3>2. CASE c \in Bulk /\ StoreChunk(c)
      BY <3>2, StoreAnswers DEF Goto, Return
    <3>3. CASE ~(c \in Settler /\ StartSettle(c)) /\ ~(c \in Bulk /\ StoreChunk(c))
      BY <1>2, <3>3 DEF StartStore, UpdateStatus, BulkStep, StartBulk, CheckChunk,
             StoreUnanswered, FailBulk, Goto, Return
    <3>. QED BY <3>1, <3>2, <3>3
  <2>. QED BY <2>1, <2>2 DEF RestInv
<1>3. announced' \subseteq Trx /\ result' \in [Call -> Answers]
  <2>1. CASE UNCHANGED vars
    BY <2>1 DEF vars, RestInv
  <2>. QED BY <1>1, <1>2, <2>1 DEF Next, StoreStep, SettleStep, Fault, Worker, Call
<1>4. faults' \in Nat
  <2>1. Spend => faults' \in Nat
    BY DEF Spend, RestInv
  <2>2. UNCHANGED faults \/ Spend
    BY DEF Next, StoreStep, SettleStep, BulkStep, Fault, Work, StartStore, StartSettle,
           UpdateStatus, LockRow, CalculateBalances, CalculateFails, Announce, CommitTx,
           CommitUnanswered, CommitTxDone, Fail, StartBulk, CheckChunk, StoreChunk,
           StoreUnanswered, FailBulk, vars
  <2>. QED BY <2>1, <2>2 DEF RestInv
<1>. QED BY <1>3, <1>4, BulkRest DEF RestInv

\* Every variable keeps its type: a row of an account or a transaction is locked by a call
\* whose database transaction is open, and what is imported was asked for.
THEOREM TypeCorrect == Spec => []TypeOK
<1>1. Types /\ RefsInv /\ LockInv /\ RestInv => TypeOK
  BY DEF Types, LockInv, RestInv, TypeOK
<1>2. Types /\ LockInv /\ [Next]_vars => LockInv'
  BY LockNext
<1>3. Types /\ RefsInv /\ RestInv /\ [Next]_vars => RestInv'
  BY RestNext
<1>. QED BY <1>1, <1>2, <1>3, InitRest, RefsAlways, HeldAlways, PTL DEF Spec
=============================================================================
