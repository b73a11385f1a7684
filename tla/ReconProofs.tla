---------------------------- MODULE ReconProofs -----------------------------
(***************************************************************************)
(* Proofs about Recon, for any tasks, workers, partitions, files, days and *)
(* faults:                                                                 *)
(*                                                                         *)
(*   TypeCorrect         TypeOK                                            *)
(*   RefusedIsForgotten  RefusedLeavesNoRow: a refused upload has no row   *)
(*   OwnReports          ReportsBelong: a success names its own report     *)
(*   ReportsExact        ReportIsExact: what it says is how file and day   *)
(*                       differ, exactly, unless it is spoiled             *)
(*                                                                         *)
(* ReportsExact has two parts.  That the comparison of a file with the     *)
(* whole day is exact is a fact about a function defined by recursion; it  *)
(* is shown by looking at the first row at which it would fail.  That a    *)
(* report is such a comparison needs what is in a worker's storage at each *)
(* of its steps (StorageInv): it belongs to one goroutine, is empty until  *)
(* that has streamed, and then holds the day, unless it is known to be     *)
(* spoiled.                                                                *)
(***************************************************************************)
EXTENDS Recon, ConsumerGroupProofs, FiniteSetTheorems, WellFoundedInduction

USE DEF given

-----------------------------------------------------------------------------
(***************************************************************************)
(* Refused uploads.  The row of a task exists from its creation until it   *)
(* is deleted; updates do not bring it back.                               *)
(***************************************************************************)
Rowless == {"idle", "received", "undone", "refused"}

RowInv ==
    /\ DOMAIN upload = Task
    /\ DOMAIN row = Task
    /\ \A t \in Task : upload[t] \in Rowless => row[t] = Gone

LEMMA InitRow == Init => RowInv
BY DEF Init, RowInv, Rowless

\* A goroutine writes into rows there are, and leaves uploads alone.
LEMMA ProcessRow ==
    ASSUME RowInv, NEW g \in Claims, Process(g) \/ Rebalance(g) \/ Crash(g)
    PROVE  RowInv'
<1>. USE DEF RowInv
<1>1. UNCHANGED upload
  BY DEF Process, Rebalance, Crash, Fetch, ReadRow, SetProcessing, OpenStorage, StorageLocked,
         StreamAll, StreamCut, Stream, Report, ReportOver, ReportUnclosed, ReportFails, SetSuccess, SetFailed,
         RowVanished, DatabaseFails, ContextCancelled, CloseStorage, CleanStorage, Ack, LeaveLoop
<1>2. CASE SetProcessing(g) \/ SetSuccess(g) \/ SetFailed(g)
  BY <1>1, <1>2 DEF SetProcessing, SetSuccess, SetFailed, UpdateRow
<1>3. CASE ~(SetProcessing(g) \/ SetSuccess(g) \/ SetFailed(g))
  <2>1. UNCHANGED row
    BY <1>3 DEF Process, Rebalance, Crash, Fetch, ReadRow, OpenStorage, StorageLocked, StreamAll,
           StreamCut, Stream, Report, ReportOver, ReportUnclosed, ReportFails, RowVanished, DatabaseFails,
           ContextCancelled, CloseStorage, CleanStorage, Ack, LeaveLoop
  <2>. QED BY <1>1, <2>1
<1>. QED BY <1>2, <1>3

LEMMA UploadRow ==
    ASSUME RowInv, NEW t \in Task, Receive(t) \/ Refuse(t) \/ Handle(t)
    PROVE  RowInv'
<1>. USE DEF RowInv, Rowless, Step
<1>1. CASE Receive(t) \/ Refuse(t)
  BY <1>1 DEF Receive, Refuse
<1>2. CASE CreateRow(t)
  BY <1>2 DEF CreateRow
<1>3. CASE CreateFails(t)
  BY <1>3 DEF CreateFails
<1>4. CASE PublishTask(t) \/ PublishFails(t)
  BY <1>4 DEF PublishTask, PublishFails
<1>5. CASE DeleteRow(t)
  BY <1>5 DEF DeleteRow
<1>6. CASE DeleteRowFails(t)
  BY <1>6 DEF DeleteRowFails
<1>7. CASE Answer(t)
  BY <1>7 DEF Answer
<1>8. CASE AnswerUnclosed(t)
  BY <1>8 DEF AnswerUnclosed
<1>. QED BY <1>1, <1>2, <1>3, <1>4, <1>5, <1>6, <1>7, <1>8 DEF Handle

LEMMA NextRow == RowInv /\ [Next]_vars => RowInv'
<1>. SUFFICES ASSUME RowInv, [Next]_vars PROVE RowInv'
  OBVIOUS
<1>1. CASE UNCHANGED vars
  BY <1>1 DEF vars, RowInv
<1>2. CASE NextDay \/ \E p \in Partition : CommitOffset(p)
  BY <1>2 DEF NextDay, CommitOffset, RowInv
<1>. QED BY <1>1, <1>2, UploadRow, ProcessRow DEF Next

\* The row of an upload that was refused is gone for good, whatever its task's goroutines
\* do, in any instance.
THEOREM RefusedIsForgotten == Spec => []RefusedLeavesNoRow
<1>1. RowInv => RefusedLeavesNoRow
  BY DEF RowInv, Rowless, RefusedLeavesNoRow
<1>. QED BY <1>1, InitRow, NextRow, PTL DEF Spec

-----------------------------------------------------------------------------
(***************************************************************************)
(* Reports.  A goroutine that is busy has its task in hand.                *)
(***************************************************************************)
Busy(g) == pc[g] # "polling"

HandInv ==
    /\ GroupType(Task)
    /\ DOMAIN pc = Claims
    /\ \A g \in Claims : Busy(g) => InHand(g)

LEMMA InitHand == Init => HandInv
<1>. SUFFICES ASSUME Init PROVE HandInv
  OBVIOUS
<1>1. CASE Claims = {}
  <2>1. topic \in [Partition -> Seq(Task)] /\ owner \in [Partition -> Worker]
    BY DEF Init, GroupInit
  <2>2. GroupType(Task)
    BY <1>1, <2>1 DEF Init, GroupInit, GroupType
  <2>. QED BY <1>1, <2>2 DEF Init, HandInv
<1>2. CASE Claims # {}
  <2>1. Worker # {}
    BY <1>2 DEF Claims
  <2>2. GroupType(Task)
    BY <2>1, GroupInitType DEF Init
  <2>. QED BY <2>2 DEF Init, HandInv, Busy
<1>. QED BY <1>1, <1>2

\* The steps of a goroutine that leave its group alone.
Works(g) ==
    \/ ReadRow(g) \/ SetProcessing(g) \/ OpenStorage(g) \/ StorageLocked(g)
    \/ StreamAll(g) \/ StreamCut(g) \/ Report(g) \/ ReportOver(g) \/ ReportUnclosed(g) \/ ReportFails(g)
    \/ SetSuccess(g) \/ SetFailed(g) \/ RowVanished(g) \/ DatabaseFails(g)
    \/ ContextCancelled(g) \/ CloseStorage(g) \/ CleanStorage(g)

LEMMA WorksQuietly ==
    ASSUME HandInv, NEW g \in Claims, Works(g)
    PROVE  /\ UNCHANGED group
           /\ Busy(g)
           /\ DOMAIN pc' = Claims
           /\ \A h \in Claims \ {g} : pc'[h] = pc[h]
BY DEF HandInv, Busy, Works, ReadRow, SetProcessing, OpenStorage, StorageLocked, StreamAll, StreamCut,
       Stream, Report, ReportOver, ReportUnclosed, ReportFails, SetSuccess, SetFailed, RowVanished,
       DatabaseFails, ContextCancelled, CloseStorage, CleanStorage, Drop, At

\* The message of every other goroutine, and of one that works on, stays what it is.
LEMMA NextHand ==
    ASSUME HandInv, [Next]_vars
    PROVE  /\ HandInv'
           /\ \A g \in Claims : Busy(g) /\ Busy(g)' => Current(g)' = Current(g)
<1>. USE DEF HandInv, Busy
<1>1. CASE UNCHANGED vars \/ NextDay
  BY <1>1, QuietGroup DEF vars, task, NextDay
<1>2. ASSUME NEW t \in Task, Receive(t) \/ Refuse(t) \/ Handle(t)
      PROVE  HandInv' /\ \A g \in Claims : Busy(g) /\ Busy(g)' => Current(g)' = Current(g)
  <2>1. UNCHANGED pc
    BY <1>2 DEF Handle, task, Receive, Refuse, CreateRow, CreateFails, PublishTask, PublishFails,
           DeleteRow, DeleteRowFails, Answer, AnswerUnclosed
  <2>2. UNCHANGED group \/ Publish(PartitionFor[t], t)
    BY <1>2 DEF Handle, Receive, Refuse, CreateRow, CreateFails, PublishTask, PublishFails,
           DeleteRow, DeleteRowFails, Answer, AnswerUnclosed
  <2>3. PartitionFor[t] \in Partition
    BY ReconAssumption DEF ReconAssumption
  <2>. QED BY <2>1, <2>2, <2>3, QuietGroup, PublishStep
<1>3. ASSUME NEW p \in Partition, CommitOffset(p)
      PROVE  HandInv' /\ \A g \in Claims : Busy(g) /\ Busy(g)' => Current(g)' = Current(g)
  BY <1>3, CommitStep DEF CommitOffset, task
<1>4. ASSUME NEW g \in Claims, Process(g) \/ Rebalance(g) \/ Crash(g)
      PROVE  HandInv' /\ \A h \in Claims : Busy(h) /\ Busy(h)' => Current(h)' = Current(h)
  <2>1. CASE Works(g)
    BY <2>1, WorksQuietly, QuietGroup
  <2>2. CASE Fetch(g)
    <3>1. pc[g] = "polling" /\ DOMAIN pc' = Claims /\ \A h \in Claims \ {g} : pc'[h] = pc[h]
      BY <2>2 DEF Fetch, At
    <3>. QED BY <2>2, <3>1, PollStep DEF Fetch
  <2>3. CASE Ack(g)
    <3>1. DOMAIN pc' = Claims /\ pc'[g] = "polling" /\ \A h \in Claims \ {g} : pc'[h] = pc[h]
      BY <2>3 DEF Ack, At
    <3>. QED BY <2>3, <3>1, MarkStep DEF Ack
  <2>4. CASE LeaveLoop(g)
    BY <2>4, EndStep DEF LeaveLoop, task
  <2>5. CASE Rebalance(g)
    <3>1. ~Busy(g) /\ Assign(g) /\ UNCHANGED pc
      BY <2>5 DEF Rebalance, TakeOver, InHand, task
    <3>. QED BY <3>1, AssignStep
  <2>6. CASE Crash(g)
    <3>1. Assign(g) /\ DOMAIN pc' = Claims /\ pc'[g] = "polling"
          /\ \A h \in Claims \ {g} : pc'[h] = pc[h]
      BY <2>6 DEF Crash, Restart
    <3>. QED BY <3>1, AssignStep
  <2>. QED BY <1>4, <2>1, <2>2, <2>3, <2>4, <2>5, <2>6 DEF Process, Works
<1>. QED BY <1>1, <1>2, <1>3, <1>4 DEF Next

\* A path is none, or that of a report that is lost, spoiled, or the task's own.
Owns(t, n) ==
    \/ n = NoPath
    \/ n \in 1..Len(results) /\ (results[n].spoiled \/ results[n].task = t)

\* What a row says and what a goroutine is about to write are the task's own.
ReportInv ==
    /\ DOMAIN row = Task
    /\ DOMAIN path = Claims
    /\ \E R : results \in Seq(R)
    /\ \A t \in Task : row[t] # Gone => Owns(t, row[t].result)
    /\ \A t \in Task : row[t].status = "SUCCESS" => row[t].result # NoPath
    /\ \A g \in Claims : pc[g] \in {"read", "reported"} => Owns(Current(g), path[g])
    /\ \A g \in Claims : pc[g] = "reported" => path[g] # NoPath

ReportsBelong ==
    \A t \in Task : row[t].status = "SUCCESS" =>
        LET report == results[row[t].result] IN report.spoiled \/ report.task = t

LEMMA HandTask == ASSUME HandInv, NEW g \in Claims, Busy(g) PROVE Current(g) \in Task
BY CurrentType DEF HandInv

\* Reports are only added.
LEMMA AddReport ==
    ASSUME ReportInv, NEW r, results' = Append(results, r)
    PROVE  /\ \E R : results' \in Seq(R)
           /\ Len(results) \in Nat
           /\ Len(results') = Len(results) + 1
           /\ results'[Len(results) + 1] = r
           /\ \A n \in 1..Len(results) : results'[n] = results[n]
<1>1. PICK R : results \in Seq(R)
  BY DEF ReportInv
<1>2. results \in Seq(R \union {r}) /\ r \in R \union {r}
  BY <1>1
<1>. QED BY <1>2

\* A new report is the goroutine's own, and whoever had one keeps it: the one that is
\* replaced counts as spoiled for another task.
LEMMA MakeReport ==
    ASSUME ReportInv, NEW g \in Claims, Report(g) \/ ReportOver(g) \/ ReportUnclosed(g)
    PROVE  /\ \E R : results' \in Seq(R)
           /\ \A t, n : Owns(t, n) => Owns(t, n)'
           /\ \E n \in 1..Len(results') :
                  /\ results'[n].spoiled \/ results'[n].task = Current(g)
                  /\ n # NoPath
                  /\ path' = [path EXCEPT ![g] = n]
<1>1. CASE Report(g) \/ ReportUnclosed(g)
  <2>1. PICK r : results' = Append(results, r) /\ (r.spoiled \/ r.task = Current(g))
    BY <1>1 DEF Report, ReportUnclosed, Comparison, Missing
  <2>2. /\ \E R : results' \in Seq(R)
        /\ Len(results) \in Nat
        /\ Len(results') = Len(results) + 1
        /\ results'[Len(results) + 1] = r
        /\ \A n \in 1..Len(results) : results'[n] = results[n]
    BY <2>1, AddReport
  <2>3. ASSUME NEW t, NEW n, Owns(t, n) PROVE Owns(t, n)'
    BY <2>2, <2>3 DEF Owns
  <2>4. path' = [path EXCEPT ![g] = Len(results) + 1]
    BY <1>1 DEF Report, ReportUnclosed
  <2>5. Len(results) + 1 \in 1..Len(results') /\ Len(results) + 1 # NoPath
    BY <2>2 DEF NoPath
  <2>6. results'[Len(results) + 1].spoiled \/ results'[Len(results) + 1].task = Current(g)
    BY <2>1, <2>2
  <2>. QED BY <2>2, <2>3, <2>4, <2>5, <2>6, Zenon
<1>2. CASE ReportOver(g)
  <2>. DEFINE last == Len(results)
              r == Comparison(g, results[last].spoiled \/ results[last].task # Current(g))
  <2>1. PICK R : results \in Seq(R)
    BY DEF ReportInv
  <2>2. results # <<>> /\ results' = [results EXCEPT ![last] = r]
        /\ path' = [path EXCEPT ![g] = last]
    BY <1>2 DEF ReportOver
  <2>3. last \in 1..Len(results) /\ last # NoPath
    BY <2>1, <2>2 DEF NoPath
  <2>4. r.task = Current(g)
    BY DEF Comparison
  <2>5. results[last].spoiled \/ results[last].task # Current(g) => r.spoiled
    BY DEF Comparison
  <2>. HIDE DEF r
  <2>6. results' \in Seq(R \union {r}) /\ Len(results') = Len(results) /\ results'[last] = r
        /\ \A n \in 1..Len(results) : n # last => results'[n] = results[n]
    BY <2>1, <2>2, <2>3
  <2>7. ASSUME NEW t, NEW n, Owns(t, n) PROVE Owns(t, n)'
    <3>1. CASE n = last
      BY <2>3, <2>4, <2>5, <2>6, <2>7, <3>1 DEF Owns
    <3>2. CASE n # last
      BY <2>6, <2>7, <3>2 DEF Owns
    <3>. QED BY <3>1, <3>2
  <2>8. last \in 1..Len(results') /\ (results'[last].spoiled \/ results'[last].task = Current(g))
    BY <2>3, <2>4, <2>6
  <2>. QED BY <2>2, <2>3, <2>6, <2>7, <2>8, Zenon
<1>. QED BY <1>1, <1>2

LEMMA ProcessReport ==
    ASSUME HandInv, HandInv', ReportInv, NEW g \in Claims, Works(g)
    PROVE  ReportInv'
<1>. USE DEF ReportInv, HandInv, Busy, At
<1>1. /\ Current(g) \in Task /\ Current(g)' = Current(g)
      /\ \A h \in Claims \ {g} : pc'[h] = pc[h] /\ Current(h)' = Current(h)
      /\ pc[g] # "polling"
  BY WorksQuietly, HandTask, QuietGroup
<1>2. CASE ReadRow(g)
  <2>1. CASE row[Current(g)] = Gone
    BY <1>1, <1>2, <2>1 DEF ReadRow, Drop, Owns
  <2>2. CASE row[Current(g)] # Gone
    BY <1>1, <1>2, <2>2 DEF ReadRow, Owns
  <2>. QED BY <2>1, <2>2
<1>3. CASE SetProcessing(g)
  <2>1. row'[Current(g)] = [status |-> "PROCESSING", result |-> path[g]]
        /\ \A t \in Task \ {Current(g)} : row'[t] = row[t]
    BY <1>1, <1>3 DEF SetProcessing, UpdateRow
  <2>. QED BY <1>1, <1>3, <2>1 DEF SetProcessing, UpdateRow, Owns
<1>4. CASE SetSuccess(g)
  <2>1. row'[Current(g)] = [status |-> "SUCCESS", result |-> path[g]]
        /\ \A t \in Task \ {Current(g)} : row'[t] = row[t]
    BY <1>1, <1>4 DEF SetSuccess, UpdateRow
  <2>. QED BY <1>1, <1>4, <2>1 DEF SetSuccess, UpdateRow, Owns
<1>5. CASE SetFailed(g)
  <2>1. row'[Current(g)] = [status |-> "FAILED", result |-> NoPath]
        /\ \A t \in Task \ {Current(g)} : row'[t] = row[t]
    BY <1>1, <1>5 DEF SetFailed, UpdateRow
  <2>. QED BY <1>1, <1>5, <2>1 DEF SetFailed, UpdateRow, Owns
<1>6. CASE Report(g) \/ ReportOver(g) \/ ReportUnclosed(g)
  <2>1. /\ \E R : results' \in Seq(R)
        /\ \A t, n : Owns(t, n) => Owns(t, n)'
    BY <1>6, MakeReport
  <2>2. PICK n \in 1..Len(results') :
            /\ results'[n].spoiled \/ results'[n].task = Current(g)
            /\ n # NoPath
            /\ path' = [path EXCEPT ![g] = n]
    BY <1>6, MakeReport
  <2>3. UNCHANGED row /\ pc' = [pc EXCEPT ![g] = "reported"]
    BY <1>6 DEF Report, ReportOver, ReportUnclosed
  <2>4. path'[g] = n /\ path'[g] # NoPath /\ Owns(Current(g), path[g])'
    BY <1>1, <2>2 DEF Owns
  <2>5. \A t \in Task : row'[t] # Gone => Owns(t, row[t].result)'
    BY <2>1, <2>3
  <2>6. ASSUME NEW h \in Claims, pc'[h] \in {"read", "reported"}
        PROVE  Owns(Current(h), path[h])' /\ (pc'[h] = "reported" => path'[h] # NoPath)
    <3>1. CASE h = g
      BY <2>4, <3>1
    <3>2. CASE h # g
      <4>1. pc'[h] = pc[h] /\ path'[h] = path[h] /\ Current(h)' = Current(h)
        BY <1>1, <2>2, <2>3, <3>2
      <4>2. Owns(Current(h), path[h])
        BY <2>6, <4>1
      <4>3. Owns(Current(h), path[h])'
        BY <2>1, <4>1, <4>2 DEF Owns
      <4>. QED BY <2>6, <4>1, <4>3
    <3>. QED BY <3>1, <3>2
  <2>. QED BY <2>1, <2>2, <2>3, <2>5, <2>6
<1>7. CASE ~(ReadRow(g) \/ SetProcessing(g) \/ SetSuccess(g) \/ SetFailed(g)
             \/ Report(g) \/ ReportOver(g) \/ ReportUnclosed(g))
  <2>1. UNCHANGED <<row, path, results>> /\ pc'[g] \notin {"read", "reported"}
    BY <1>7 DEF Works, OpenStorage, StorageLocked, StreamAll, StreamCut, Stream, ReportFails,
           RowVanished, DatabaseFails, ContextCancelled, CloseStorage, CleanStorage, Drop
  <2>. QED BY <1>1, <2>1 DEF Owns
<1>. QED BY <1>2, <1>3, <1>4, <1>5, <1>6, <1>7

LEMMA NextReport == HandInv /\ HandInv' /\ ReportInv /\ [Next]_vars => ReportInv'
<1>. SUFFICES ASSUME HandInv, HandInv', ReportInv, [Next]_vars PROVE ReportInv'
  OBVIOUS
<1>1. \A g \in Claims : Busy(g) /\ Busy(g)' => Current(g)' = Current(g)
  BY NextHand
<1>2. CASE UNCHANGED vars \/ NextDay \/ \E p \in Partition : CommitOffset(p)
  BY <1>1, <1>2 DEF ReportInv, Owns, Busy, NextDay, vars, task, CommitOffset
<1>3. ASSUME NEW t \in Task, Receive(t) \/ Refuse(t) \/ Handle(t)
      PROVE  ReportInv'
  <2>1. UNCHANGED <<pc, path, results>>
    BY <1>3 DEF Handle, task, Receive, Refuse, CreateRow, CreateFails, PublishTask, PublishFails,
           DeleteRow, DeleteRowFails, Answer, AnswerUnclosed
  <2>2. UNCHANGED row \/ CreateRow(t) \/ DeleteRow(t)
    BY <1>3 DEF Handle, task, Receive, Refuse, CreateFails, PublishTask, PublishFails,
           DeleteRowFails, Answer, AnswerUnclosed
  <2>3. /\ DOMAIN row' = Task
        /\ \A u \in Task : row'[u] # Gone => Owns(u, row'[u].result)
        /\ \A u \in Task : row'[u].status = "SUCCESS" => row'[u].result # NoPath
    BY <2>2 DEF CreateRow, DeleteRow, ReportInv, Owns, Gone
  <2>. QED BY <1>1, <2>1, <2>3 DEF ReportInv, Owns, Busy
<1>4. ASSUME NEW g \in Claims, Process(g) \/ Rebalance(g) \/ Crash(g)
      PROVE  ReportInv'
  <2>1. CASE Works(g)
    BY <2>1, ProcessReport
  <2>2. CASE ~Works(g)
    <3>1. UNCHANGED <<row, path, results>>
      BY <1>4, <2>2 DEF Works, Process, Rebalance, Crash, Fetch, Ack, LeaveLoop, task
    <3>2. \A h \in Claims : pc'[h] \in {"read", "reported"} => pc'[h] = pc[h]
      BY <1>4, <2>2 DEF HandInv, Works, Process, Rebalance, Crash, Fetch, Ack, LeaveLoop, task, At
    <3>. QED BY <1>1, <3>1, <3>2 DEF ReportInv, Owns, Busy
  <2>. QED BY <2>1, <2>2
<1>. QED BY <1>2, <1>3, <1>4 DEF Next

LEMMA InitReport == Init => ReportInv
<1>. SUFFICES ASSUME Init PROVE ReportInv
  OBVIOUS
<1>1. results \in Seq({})
  BY DEF Init
<1>. QED BY <1>1 DEF Init, ReportInv, Owns, Gone

\* The report a successful task points at was made for it, though tasks are worked on
\* again and by several goroutines at once; reports that are lost or spoiled apart.
THEOREM OwnReports == Spec => []ReportsBelong
<1>1. ReportInv => ReportsBelong
  <2>. SUFFICES ASSUME ReportInv, NEW t \in Task, row[t].status = "SUCCESS"
                PROVE  results[row[t].result].spoiled \/ results[row[t].result].task = t
    BY DEF ReportsBelong
  <2>1. row[t] # Gone
    BY DEF Gone
  <2>. QED BY <2>1 DEF ReportInv, Owns
<1>. QED BY <1>1, InitReport, InitHand, NextHand, NextReport, PTL DEF Spec

-----------------------------------------------------------------------------
(***************************************************************************)
(* Comparison.  What a report says after some rows of the file.            *)
(***************************************************************************)

\* Among some numbers one is least.
LEMMA LeastOfSome ==
    ASSUME NEW T, T \subseteq Nat, T # {}
    PROVE  \E n \in T : \A m \in T : n <= m
<1>1. PICK n \in T : \A m \in T : <<m, n>> \notin OpToRel(<, Nat)
  BY NatLessThanWellFounded, WFMin
<1>2. ASSUME NEW m \in T PROVE n <= m
  <2>1. n \in Nat /\ m \in Nat
    OBVIOUS
  <2>2. ~(m < n)
    BY <1>1, <2>1 DEF OpToRel
  <2>. QED BY <2>1, <2>2
<1>. QED BY <1>2

Blank(records) == [left |-> records, match |-> Empty, notInDB |-> Empty, error |-> Empty]

\* What is seen of the first m rows, one after the other.
Walks(seen, records, csv, m) ==
    seen = [n \in 0..m |-> IF n = 0 THEN Blank(records) ELSE CompareRow(seen[n - 1], csv[n])]

LEMMA WalksAt ==
    ASSUME NEW records, NEW csv, NEW m \in Nat, NEW seen, Walks(seen, records, csv, m)
    PROVE  /\ DOMAIN seen = 0..m
           /\ seen[0] = Blank(records)
           /\ \A n \in 1..m : seen[n] = CompareRow(seen[n - 1], csv[n])
<1>. DEFINE f == [n \in 0..m |-> IF n = 0 THEN Blank(records) ELSE CompareRow(seen[n - 1], csv[n])]
<1>1. seen = f
  BY DEF Walks
<1>2. /\ DOMAIN f = 0..m
      /\ f[0] = Blank(records)
      /\ \A n \in 1..m : f[n] = CompareRow(seen[n - 1], csv[n])
  OBVIOUS
<1>. QED BY <1>1, <1>2

\* Some function is the walk through the rows.
LEMMA WalkExists ==
    ASSUME NEW records, NEW csv, NEW m \in Nat
    PROVE  \E seen : Walks(seen, records, csv, m)
<1>. DEFINE T == {n \in 0..m : ~\E seen : Walks(seen, records, csv, n)}
<1>1. SUFFICES ASSUME T # {} PROVE FALSE
  OBVIOUS
<1>2. PICK n \in T : \A k \in T : n <= k
  <2>1. T \subseteq Nat
    OBVIOUS
  <2>. HIDE DEF T
  <2>. QED BY <1>1, <2>1, LeastOfSome
<1>3. CASE n = 0
  <2>. DEFINE f == [k \in 0..0 |-> Blank(records)]
  <2>1. Walks(f, records, csv, 0)
    <3>1. f = [k \in 0..0 |-> IF k = 0 THEN Blank(records) ELSE CompareRow(f[k - 1], csv[k])]
      OBVIOUS
    <3>. QED BY <3>1 DEF Walks
  <2>. QED BY <1>2, <1>3, <2>1
<1>4. CASE n # 0
  <2>1. n - 1 \in 0..m /\ n - 1 \notin T
    BY <1>2, <1>4
  <2>2. PICK g : Walks(g, records, csv, n - 1)
    BY <2>1
  <2>. DEFINE f == [k \in 0..n |-> IF k = n THEN CompareRow(g[n - 1], csv[n]) ELSE g[k]]
  <2>3. /\ DOMAIN g = 0..(n - 1)
        /\ g[0] = Blank(records)
        /\ \A k \in 1..(n - 1) : g[k] = CompareRow(g[k - 1], csv[k])
    <3>1. n - 1 \in Nat
      BY <1>2, <1>4
    <3>. DEFINE p == n - 1
    <3>2. p \in Nat /\ Walks(g, records, csv, p)
      BY <2>2, <3>1
    <3>. HIDE DEF p
    <3>. DEFINE h == [k \in 0..p |-> IF k = 0 THEN Blank(records) ELSE CompareRow(g[k - 1], csv[k])]
    <3>3. g = h
      BY <3>2 DEF Walks
    <3>4. /\ DOMAIN h = 0..p
          /\ h[0] = Blank(records)
          /\ \A k \in 1..p : h[k] = CompareRow(g[k - 1], csv[k])
      BY <3>2
    <3>. HIDE DEF h
    <3>. QED BY <3>3, <3>4, Zenon DEF p
  <2>4. ASSUME NEW k \in 0..n
        PROVE  f[k] = IF k = 0 THEN Blank(records) ELSE CompareRow(f[k - 1], csv[k])
    <3>1. CASE k = n
      <4>1. f[n] = CompareRow(g[n - 1], csv[n]) /\ f[n - 1] = g[n - 1] /\ n # 0
        BY <1>2, <1>4
      <4>. QED BY <3>1, <4>1
    <3>2. CASE k = 0
      BY <1>4, <2>3, <3>2
    <3>3. CASE k \in 1..(n - 1)
      BY <2>3, <3>3
    <3>. QED BY <1>2, <3>1, <3>2, <3>3
  <2>5. f = [k \in 0..n |-> IF k = 0 THEN Blank(records) ELSE CompareRow(f[k - 1], csv[k])]
    BY <2>4
  <2>6. Walks(f, records, csv, n)
    BY <2>5 DEF Walks
  <2>. QED BY <1>2, <2>6
<1>. QED BY <1>3, <1>4

\* The report is the end of a walk through the file.
LEMMA ComparedWalk ==
    ASSUME NEW records, NEW csv \in Seq(Row)
    PROVE  \E seen : Walks(seen, records, csv, Len(csv)) /\ Compared(records, csv) = seen[Len(csv)]
<1>. DEFINE walk == CHOOSE seen : Walks(seen, records, csv, Len(csv))
<1>1. Len(csv) \in Nat
  OBVIOUS
<1>2. Walks(walk, records, csv, Len(csv))
  BY <1>1, WalkExists
<1>3. Compared(records, csv) = walk[Len(csv)]
  BY DEF Compared, Walks, Blank
<1>. QED BY <1>2, <1>3

\* The rows among the first n that count for a key.
RowsFor(rows, k, n) == {i \in 1..n : rows[i].kind = "row" /\ Key(rows[i]) = k}

LEMMA RowsForType ==
    ASSUME NEW rows, NEW k, NEW n \in Nat
    PROVE  IsFiniteSet(RowsFor(rows, k, n)) /\ Cardinality(RowsFor(rows, k, n)) \in Nat
<1>1. IsFiniteSet(1..n)
  BY FS_Interval
<1>2. IsFiniteSet(RowsFor(rows, k, n))
  BY <1>1, FS_Subset DEF RowsFor
<1>. QED BY <1>2, FS_CardinalityType

LEMMA OccurrencesType ==
    ASSUME NEW rows \in Seq(Row), NEW k
    PROVE  /\ Occurrences(rows, k) = Cardinality(RowsFor(rows, k, Len(rows)))
           /\ Occurrences(rows, k) \in Nat
<1>1. DOMAIN rows = 1..Len(rows) /\ Len(rows) \in Nat
  OBVIOUS
<1>2. Occurrences(rows, k) = Cardinality(RowsFor(rows, k, Len(rows)))
  BY <1>1 DEF Occurrences, RowsFor
<1>. QED BY <1>1, <1>2, RowsForType

\* One more row counts for its own key, if it is a row.
LEMMA RowsForNext ==
    ASSUME NEW rows, NEW k, NEW n \in Nat \ {0}
    PROVE  Cardinality(RowsFor(rows, k, n)) =
               Cardinality(RowsFor(rows, k, n - 1))
                   + (IF rows[n].kind = "row" /\ Key(rows[n]) = k THEN 1 ELSE 0)
<1>. DEFINE before == RowsFor(rows, k, n - 1)
<1>1. n - 1 \in Nat /\ 1..n = (1..(n - 1)) \union {n} /\ n \notin 1..(n - 1)
  OBVIOUS
<1>2. IsFiniteSet(before) /\ Cardinality(before) \in Nat
  BY <1>1, RowsForType
<1>3. n \notin before
  BY <1>1 DEF RowsFor
<1>4. CASE rows[n].kind = "row" /\ Key(rows[n]) = k
  <2>1. RowsFor(rows, k, n) = before \union {n}
    BY <1>1, <1>4 DEF RowsFor
  <2>. HIDE DEF before
  <2>2. Cardinality(before \union {n}) = Cardinality(before) + 1
    BY <1>2, <1>3, FS_AddElement
  <2>. QED BY <1>4, <2>1, <2>2 DEF before
<1>5. CASE ~(rows[n].kind = "row" /\ Key(rows[n]) = k)
  <2>1. RowsFor(rows, k, n) = before
    BY <1>1, <1>5 DEF RowsFor
  <2>. QED BY <1>2, <1>5, <2>1
<1>. QED BY <1>4, <1>5

\* What is seen after the first n rows: of every key, what matched came from the storage,
\* every row is accounted for, and none is missed while the storage has one.
Tally(seen, records, csv, n) ==
    /\ seen \in Lines
    /\ \A k \in Keys :
          /\ seen.match[k] + seen.left[k] = records[k]
          /\ seen.match[k] + seen.notInDB[k] = Cardinality(RowsFor(csv, k, n))
          /\ seen.notInDB[k] > 0 => seen.left[k] = 0

LEMMA TallyStart ==
    ASSUME NEW records \in Counts, NEW csv
    PROVE  Tally(Blank(records), records, csv, 0)
<1>1. Empty \in Counts
  BY DEF Empty, Counts
<1>2. ASSUME NEW k PROVE Cardinality(RowsFor(csv, k, 0)) = 0
  <2>1. RowsFor(csv, k, 0) = {}
    BY DEF RowsFor
  <2>. QED BY <2>1, FS_EmptySet
<1>3. \A k \in Keys : Empty[k] = 0 /\ records[k] \in Nat
  BY DEF Empty, Counts
<1>. QED BY <1>1, <1>2, <1>3 DEF Tally, Blank, Lines

LEMMA CountChanges ==
    ASSUME NEW f \in Counts, NEW k \in Keys
    PROVE  /\ More(f, k) \in Counts
           /\ \A j \in Keys : More(f, k)[j] = f[j] + (IF j = k THEN 1 ELSE 0)
           /\ f[k] > 0 => Less(f, k) \in Counts
           /\ \A j \in Keys : Less(f, k)[j] = f[j] - (IF j = k THEN 1 ELSE 0)
BY DEF More, Less, Counts

LEMMA TallyRow ==
    ASSUME NEW records \in Counts, NEW csv \in Seq(Row), NEW n \in 1..Len(csv),
           NEW seen, Tally(seen, records, csv, n - 1)
    PROVE  Tally(CompareRow(seen, csv[n]), records, csv, n)
<1>. DEFINE r == csv[n]
            key == Key(r)
            was(k) == Cardinality(RowsFor(csv, k, n - 1))
            is(k) == Cardinality(RowsFor(csv, k, n))
<1>1. r \in Row /\ key \in Keys /\ n \in Nat \ {0} /\ n - 1 \in Nat
  <2>1. n \in Nat \ {0} /\ n - 1 \in Nat
    OBVIOUS
  <2>2. r \in Row
    OBVIOUS
  <2>. HIDE DEF r
  <2>3. r.id \in Id /\ r.amount \in Amount
    BY <2>2 DEF Row
  <2>. QED BY <2>1, <2>2, <2>3 DEF Key, Keys
<1>2. \A k : is(k) = was(k) + (IF r.kind = "row" /\ key = k THEN 1 ELSE 0)
  BY <1>1, RowsForNext
<1>3. \A k : was(k) \in Nat
  BY <1>1, RowsForType
<1>4. /\ seen.left \in Counts /\ seen.match \in Counts
      /\ seen.notInDB \in Counts /\ seen.error \in Counts
      /\ seen = [left |-> seen.left, match |-> seen.match, notInDB |-> seen.notInDB,
                 error |-> seen.error]
  BY DEF Tally, Lines
<1>5. \A k \in Keys : /\ seen.match[k] \in Nat /\ seen.left[k] \in Nat /\ seen.notInDB[k] \in Nat
                      /\ records[k] \in Nat
  BY <1>4 DEF Counts
<1>6. \A k \in Keys : /\ seen.match[k] + seen.left[k] = records[k]
                      /\ seen.match[k] + seen.notInDB[k] = was(k)
                      /\ seen.notInDB[k] > 0 => seen.left[k] = 0
  BY DEF Tally
<1>. HIDE DEF r, key, was, is
<1>. SUFFICES /\ CompareRow(seen, r) \in Lines
              /\ \A k \in Keys :
                    /\ CompareRow(seen, r).match[k] + CompareRow(seen, r).left[k] = records[k]
                    /\ CompareRow(seen, r).match[k] + CompareRow(seen, r).notInDB[k] = is(k)
                    /\ CompareRow(seen, r).notInDB[k] > 0 => CompareRow(seen, r).left[k] = 0
  BY DEF Tally, r, is
<1>7. CASE r.kind \in {"header", "other"}
  <2>1. CompareRow(seen, r) = seen
    BY <1>7 DEF CompareRow
  <2>2. seen \in Lines
    BY DEF Tally
  <2>. QED BY <1>2, <1>3, <1>6, <1>7, <2>1, <2>2
<1>8. CASE r.kind = "bad"
  <2>1. CompareRow(seen, r) = [seen EXCEPT !.error = More(@, key)]
    BY <1>8 DEF CompareRow, key
  <2>2. CompareRow(seen, r) = [left |-> seen.left, match |-> seen.match, notInDB |-> seen.notInDB,
                               error |-> More(seen.error, key)]
    BY <1>4, <2>1
  <2>3. More(seen.error, key) \in Counts
    BY <1>1, <1>4, CountChanges
  <2>. QED BY <1>2, <1>3, <1>4, <1>6, <1>8, <2>2, <2>3 DEF Lines
<1>9. CASE r.kind = "row" /\ seen.left[key] > 0
  <2>. DEFINE left == Less(seen.left, key)
              match == More(seen.match, key)
  <2>1. CompareRow(seen, r) = [seen EXCEPT !.left = Less(@, key), !.match = More(@, key)]
    BY <1>9 DEF CompareRow, key
  <2>2. CompareRow(seen, r) = [left |-> left, match |-> match, notInDB |-> seen.notInDB,
                               error |-> seen.error]
    BY <1>4, <2>1
  <2>3. /\ left \in Counts /\ match \in Counts
        /\ \A k \in Keys : left[k] = seen.left[k] - (IF k = key THEN 1 ELSE 0)
        /\ \A k \in Keys : match[k] = seen.match[k] + (IF k = key THEN 1 ELSE 0)
    BY <1>1, <1>4, <1>9, CountChanges
  <2>. HIDE DEF left, match
  <2>4. CompareRow(seen, r) \in Lines
    BY <1>4, <2>2, <2>3 DEF Lines
  <2>5. ASSUME NEW k \in Keys
        PROVE  /\ match[k] + left[k] = records[k]
               /\ match[k] + seen.notInDB[k] = is(k)
               /\ seen.notInDB[k] > 0 => left[k] = 0
    <3>. DEFINE x == IF k = key THEN 1 ELSE 0
    <3>1. left[k] = seen.left[k] - x /\ match[k] = seen.match[k] + x /\ is(k) = was(k) + x
      BY <1>2, <1>9, <2>3
    <3>2. /\ seen.match[k] \in Nat /\ seen.left[k] \in Nat /\ seen.notInDB[k] \in Nat
          /\ records[k] \in Nat /\ was(k) \in Nat /\ x \in {0, 1}
      BY <1>3, <1>5
    <3>3. /\ seen.match[k] + seen.left[k] = records[k]
          /\ seen.match[k] + seen.notInDB[k] = was(k)
          /\ seen.notInDB[k] > 0 => seen.left[k] = 0
      BY <1>6
    <3>4. x = 1 => seen.left[k] > 0
      BY <1>9
    <3>. DEFINE m == seen.match[k]
                l == seen.left[k]
                d == seen.notInDB[k]
    <3>. HIDE DEF x, m, l, d
    <3>5. m \in Nat /\ l \in Nat /\ d \in Nat /\ x \in {0, 1}
      BY <3>2 DEF m, l, d
    <3>6. (d > 0 => l = 0) /\ (x = 1 => l > 0)
      BY <3>3, <3>4 DEF l, d
    <3>7. (m + x) + (l - x) = m + l /\ (m + x) + d = (m + d) + x /\ (d > 0 => l - x = 0)
      BY <3>5, <3>6
    <3>. QED BY <3>1, <3>3, <3>7 DEF m, l, d
  <2>. QED BY <2>2, <2>4, <2>5
<1>10. CASE r.kind = "row" /\ ~(seen.left[key] > 0)
  <2>. DEFINE missed == More(seen.notInDB, key)
  <2>1. CompareRow(seen, r) = [seen EXCEPT !.notInDB = More(@, key)]
    BY <1>10 DEF CompareRow, key
  <2>2. CompareRow(seen, r) = [left |-> seen.left, match |-> seen.match, notInDB |-> missed,
                               error |-> seen.error]
    BY <1>4, <2>1
  <2>3. /\ missed \in Counts
        /\ \A k \in Keys : missed[k] = seen.notInDB[k] + (IF k = key THEN 1 ELSE 0)
    BY <1>1, <1>4, CountChanges
  <2>. HIDE DEF missed
  <2>4. CompareRow(seen, r) \in Lines
    BY <1>4, <2>2, <2>3 DEF Lines
  <2>5. ASSUME NEW k \in Keys
        PROVE  /\ seen.match[k] + seen.left[k] = records[k]
               /\ seen.match[k] + missed[k] = is(k)
               /\ missed[k] > 0 => seen.left[k] = 0
    <3>. DEFINE x == IF k = key THEN 1 ELSE 0
    <3>1. missed[k] = seen.notInDB[k] + x /\ is(k) = was(k) + x
      BY <1>2, <1>10, <2>3
    <3>2. /\ seen.match[k] \in Nat /\ seen.left[k] \in Nat /\ seen.notInDB[k] \in Nat
          /\ was(k) \in Nat /\ x \in {0, 1}
      BY <1>3, <1>5
    <3>3. /\ seen.match[k] + seen.left[k] = records[k]
          /\ seen.match[k] + seen.notInDB[k] = was(k)
          /\ seen.notInDB[k] > 0 => seen.left[k] = 0
      BY <1>6
    <3>4. x = 1 => seen.left[k] = 0
      BY <1>5, <1>10
    <3>. DEFINE m == seen.match[k]
                l == seen.left[k]
                d == seen.notInDB[k]
    <3>. HIDE DEF x, m, l, d
    <3>5. m \in Nat /\ l \in Nat /\ d \in Nat /\ x \in {0, 1}
      BY <3>2 DEF m, l, d
    <3>6. (d > 0 => l = 0) /\ (x = 1 => l = 0)
      BY <3>3, <3>4 DEF l, d
    <3>7. m + (d + x) = (m + d) + x /\ (d + x > 0 => l = 0)
      BY <3>5, <3>6
    <3>. QED BY <3>1, <3>3, <3>7 DEF m, l, d
  <2>. QED BY <2>2, <2>4, <2>5
<1>. QED BY <1>1, <1>7, <1>8, <1>9, <1>10 DEF Row

\* The comparison is exact, for any file and any day.
LEMMA ComparisonIsExact ==
    ASSUME NEW csv \in Seq(Row), NEW records \in Counts
    PROVE  Tally(Compared(records, csv), records, csv, Len(csv))
<1>1. Len(csv) \in Nat
  OBVIOUS
<1>2. PICK seen : Walks(seen, records, csv, Len(csv)) /\ Compared(records, csv) = seen[Len(csv)]
  BY ComparedWalk
<1>3. /\ seen[0] = Blank(records)
      /\ \A n \in 1..Len(csv) : seen[n] = CompareRow(seen[n - 1], csv[n])
  BY <1>1, <1>2, WalksAt
<1>. DEFINE T == {n \in 0..Len(csv) : ~Tally(seen[n], records, csv, n)}
<1>4. ASSUME T # {} PROVE FALSE
  <2>1. PICK n \in T : \A m \in T : n <= m
    <3>1. T \subseteq Nat
      OBVIOUS
    <3>. HIDE DEF T
    <3>. QED BY <1>4, <3>1, LeastOfSome
  <2>2. n # 0
    BY <1>3, <2>1, TallyStart
  <2>3. n \in 1..Len(csv) /\ n - 1 \in 0..Len(csv) /\ n - 1 \notin T
    BY <1>1, <2>1, <2>2
  <2>4. Tally(seen[n - 1], records, csv, n - 1)
    BY <2>3
  <2>5. Tally(CompareRow(seen[n - 1], csv[n]), records, csv, n)
    BY <2>3, <2>4, TallyRow
  <2>. QED BY <1>3, <2>1, <2>3, <2>5
<1>. QED BY <1>1, <1>2, <1>4

LEMMA StoredAll ==
    ASSUME NEW records \in Counts, NEW db \in Seq(Row)
    PROVE  /\ Stored(records, db) \in Counts
           /\ \A k \in Keys : Stored(records, db)[k] = records[k] + Occurrences(db, k)
<1>1. \A k \in Keys : records[k] + Occurrences(db, k) \in Nat
  BY OccurrencesType DEF Counts
<1>. QED BY <1>1 DEF Stored, Counts

\* What the comparison of a file with a whole day gives.
LEMMA WholeDayIsExact ==
    ASSUME NEW csv \in Seq(Row), NEW db \in Seq(Row)
    PROVE  IsExact(Compared(Stored(Empty, db), csv), csv, db)
<1>. DEFINE lines == Compared(Stored(Empty, db), csv)
<1>1. Empty \in Counts /\ \A k \in Keys : Empty[k] = 0
  BY DEF Empty, Counts
<1>2. Stored(Empty, db) \in Counts /\ \A k \in Keys : Stored(Empty, db)[k] = 0 + Occurrences(db, k)
  BY <1>1, StoredAll
<1>3. Tally(lines, Stored(Empty, db), csv, Len(csv))
  BY <1>2, ComparisonIsExact
<1>. HIDE DEF lines
<1>4. ASSUME NEW k \in Keys
      PROVE  LET inCSV == Occurrences(csv, k)
                 inDB == Occurrences(db, k)
                 both == Least(inCSV, inDB)
             IN /\ lines.match[k] = both
                /\ lines.notInDB[k] = inCSV - both
                /\ lines.left[k] = inDB - both
  <2>1. Occurrences(csv, k) \in Nat /\ Occurrences(db, k) \in Nat
    BY OccurrencesType
  <2>2. lines.match[k] \in Nat /\ lines.notInDB[k] \in Nat /\ lines.left[k] \in Nat
    <3>1. lines.match \in Counts /\ lines.notInDB \in Counts /\ lines.left \in Counts
      BY <1>3 DEF Tally, Lines
    <3>. QED BY <3>1 DEF Counts
  <2>3. /\ lines.match[k] + lines.left[k] = Occurrences(db, k)
        /\ lines.match[k] + lines.notInDB[k] = Occurrences(csv, k)
        /\ lines.notInDB[k] > 0 => lines.left[k] = 0
    <3>1. Occurrences(csv, k) = Cardinality(RowsFor(csv, k, Len(csv)))
      BY OccurrencesType
    <3>. QED BY <1>2, <1>3, <2>1, <3>1 DEF Tally
  <2>. DEFINE inCSV == Occurrences(csv, k)
              inDB  == Occurrences(db, k)
              match == lines.match[k]
              added == lines.notInDB[k]
              left  == lines.left[k]
  <2>. HIDE DEF inCSV, inDB, match, added, left
  <2>4. /\ inCSV \in Nat /\ inDB \in Nat /\ match \in Nat /\ added \in Nat /\ left \in Nat
        /\ match + left = inDB /\ match + added = inCSV /\ (added > 0 => left = 0)
    BY <2>1, <2>2, <2>3 DEF inCSV, inDB, match, added, left
  <2>5. /\ match = Least(inCSV, inDB)
        /\ added = inCSV - Least(inCSV, inDB)
        /\ left = inDB - Least(inCSV, inDB)
    BY <2>4 DEF Least
  <2>. QED BY <2>5 DEF inCSV, inDB, match, added, left
<1>. QED BY <1>4 DEF IsExact, lines

-----------------------------------------------------------------------------
(***************************************************************************)
(* Local storages.  The holder is at work with it, and nothing of another  *)
(* task is in a storage that nobody holds and nobody is about to remove.   *)
(***************************************************************************)
Holding == {"open", "streamed", "reported", "failing", "closing", "closing_ok"}
Cleaning == {"cleaning", "cleaning_ok"}

Swept(w) == \A g \in Claims : WorkerOf(g) = w => pc[g] \notin Cleaning

StorageType ==
    [holder : Claims \union {Nobody}, spoiled : BOOLEAN, recent : BOOLEAN, records : Counts]

LocalType == local \in [Worker -> StorageType]

HolderHolds ==
    /\ \A g \in Claims : pc[g] \in Holding <=> Storage(g).holder = g
    /\ \A w \in Worker : local[w].holder # Nobody => WorkerOf(local[w].holder) = w

EmptyWhenFree ==
    \A w \in Worker : local[w].holder = Nobody /\ Swept(w) => local[w].records = Empty

\* What a query has shown, and nothing else.
HoldsShown(storage) == storage.records = Stored(Empty, Shown(storage.recent))

FreshWhenHeld ==
    \A g \in Claims : pc[g] \in Holding /\ ~Storage(g).spoiled =>
        /\ Swept(WorkerOf(g))
        /\ pc[g] = "open" => Storage(g).records = Empty
        /\ pc[g] = "streamed" => HoldsShown(Storage(g))

StorageInv == LocalType /\ HolderHolds /\ EmptyWhenFree /\ FreshWhenHeld

\* The messages are tasks of this world.
SentInv ==
    /\ world \in World
    /\ topic \in [Partition -> Seq(world.tasks)]

LEMMA WorldParts ==
    ASSUME NEW w \in World
    PROVE  /\ w.tasks \subseteq Task
           /\ w.csv \in [w.tasks -> Seq(Row)]
           /\ w.db \in Seq(Row)
           /\ w.owner \in [Partition -> Worker]
           /\ w.today \in Int
           /\ w.most \in Nat
BY ReconAssumption DEF ReconAssumption

LEMMA ClaimIsNotNobody == \A g \in Claims : g # Nobody
BY DEF Claims, Nobody

LEMMA InitStorage == Init => StorageInv /\ SentInv
<1>. SUFFICES ASSUME Init PROVE StorageInv /\ SentInv
  OBVIOUS
<1>1. NewStorage \in StorageType /\ NewStorage.holder = Nobody /\ NewStorage.records = Empty
  BY DEF NewStorage, StorageType, Empty, Counts
<1>2. \A w \in Worker : local[w] = NewStorage
  BY DEF Init
<1>3. \A g \in Claims : pc[g] = "polling"
  BY DEF Init
<1>4. LocalType
  <2>1. local = [w \in Worker |-> NewStorage]
    BY DEF Init
  <2>. HIDE DEF NewStorage
  <2>. QED BY <1>1, <2>1 DEF LocalType
<1>5. HolderHolds
  BY <1>1, <1>2, <1>3, ClaimIsNotNobody, ClaimParts DEF HolderHolds, Holding, Storage
<1>6. EmptyWhenFree
  BY <1>1, <1>2 DEF EmptyWhenFree
<1>7. FreshWhenHeld
  BY <1>3 DEF FreshWhenHeld, Holding
<1>8. SentInv
  <2>1. world \in World /\ topic = [p \in Partition |-> <<>>]
    BY DEF Init, GroupInit
  <2>2. <<>> \in Seq(world.tasks)
    OBVIOUS
  <2>. QED BY <2>1, <2>2 DEF SentInv
<1>. QED BY <1>4, <1>5, <1>6, <1>7, <1>8 DEF StorageInv

\* Only handlers of uploads send, and what they send is their own task.
LEMMA NextSent == SentInv /\ [Next]_vars => SentInv' /\ UNCHANGED world
<1>. SUFFICES ASSUME SentInv, [Next]_vars PROVE SentInv' /\ UNCHANGED world
  OBVIOUS
<1>. USE DEF SentInv
<1>1. ASSUME NEW t \in Task, Receive(t) \/ Refuse(t) \/ Handle(t)
      PROVE  SentInv' /\ UNCHANGED world
  <2>1. t \in world.tasks /\ UNCHANGED world
    BY <1>1 DEF Handle, Receive, Refuse, CreateRow, CreateFails, PublishTask, PublishFails,
           DeleteRow, DeleteRowFails, Answer, AnswerUnclosed, Step
  <2>2. UNCHANGED topic \/ Publish(PartitionFor[t], t)
    BY <1>1 DEF Handle, Receive, Refuse, CreateRow, CreateFails, PublishTask, PublishFails,
           DeleteRow, DeleteRowFails, Answer, AnswerUnclosed, group
  <2>3. PartitionFor[t] \in Partition
    BY ReconAssumption DEF ReconAssumption
  <2>4. \A s \in Seq(world.tasks) : Append(s, t) \in Seq(world.tasks)
    BY <2>1
  <2>. QED BY <2>1, <2>2, <2>3, <2>4 DEF Publish
<1>2. ASSUME NEW g \in Claims, Process(g) \/ Rebalance(g) \/ Crash(g)
      PROVE  SentInv' /\ UNCHANGED world
  <2>1. UNCHANGED world
    BY <1>2 DEF Process, Rebalance, Crash, Fetch, ReadRow, SetProcessing, OpenStorage,
         StorageLocked, StreamAll, StreamCut, Stream, Report, ReportOver, ReportUnclosed,
         ReportFails, SetSuccess, SetFailed, RowVanished, DatabaseFails, ContextCancelled,
         CloseStorage, CleanStorage, Ack, LeaveLoop
  <2>2. UNCHANGED topic
    BY <1>2 DEF Process, Rebalance, Crash, Fetch, ReadRow, SetProcessing, OpenStorage,
         StorageLocked, StreamAll, StreamCut, Stream, Report, ReportOver, ReportUnclosed,
         ReportFails, SetSuccess, SetFailed, RowVanished, DatabaseFails, ContextCancelled,
         CloseStorage, CleanStorage, Ack, LeaveLoop, group, Poll, Mark, EndClaim, TakeOver,
         Restart, Assign
  <2>. QED BY <2>1, <2>2
<1>3. CASE UNCHANGED vars \/ NextDay \/ \E p \in Partition : CommitOffset(p)
  BY <1>3 DEF NextDay, vars, group, CommitOffset, CommitMarked
<1>. QED BY <1>1, <1>2, <1>3 DEF Next

LEMMA TaskAtHand ==
    ASSUME HandInv, SentInv, NEW g \in Claims, Busy(g)
    PROVE  Current(g) \in world.tasks
<1>1. InHand(g) /\ PartitionOf(g) \in Partition
  BY ClaimParts DEF HandInv
<1>2. topic[PartitionOf(g)] \in Seq(world.tasks)
  BY <1>1 DEF SentInv
<1>. QED BY <1>1, <1>2 DEF InHand, Current

\* A step that changes the storage of one worker only.
Stores(w, s) ==
    /\ local' = [local EXCEPT ![w] = s]
    /\ s \in StorageType

LEMMA StoresAt ==
    ASSUME LocalType, NEW w \in Worker, NEW s, Stores(w, s)
    PROVE  /\ LocalType'
           /\ local'[w] = s
           /\ \A v \in Worker \ {w} : local'[v] = local[v]
BY DEF LocalType, Stores

\* Who opens a storage holds it; it is spoiled if somebody is about to remove it.
LEMMA OpenHolds ==
    ASSUME HandInv, StorageInv, NEW g \in Claims, OpenStorage(g)
    PROVE  StorageInv'
<1>. DEFINE w == WorkerOf(g)
            spoiled == \E h \in Claims : /\ WorkerOf(h) = WorkerOf(g)
                                         /\ pc[h] \in {"cleaning", "cleaning_ok"}
            s == [local[WorkerOf(g)] EXCEPT !.holder = g, !.spoiled = spoiled]
<1>1. w \in Worker /\ g # Nobody
  BY ClaimParts, ClaimIsNotNobody
<1>2. Storage(g) \in StorageType
  BY <1>1 DEF StorageInv, LocalType, Storage
<1>3. s.holder = g /\ (s.spoiled = ~Swept(w)) /\ s.records = Storage(g).records
      /\ s \in StorageType
  <2>1. spoiled = ~Swept(w) /\ spoiled \in BOOLEAN
    BY DEF Swept, Cleaning
  <2>2. local[WorkerOf(g)] = Storage(g)
    BY DEF Storage
  <2>. HIDE DEF spoiled, w
  <2>3. g \in Claims \union {Nobody} /\ s = [Storage(g) EXCEPT !.holder = g, !.spoiled = spoiled]
    BY <2>2
  <2>. HIDE DEF s
  <2>4. /\ s.holder = g /\ s.spoiled = spoiled /\ s.records = Storage(g).records
        /\ s \in StorageType
    BY <1>2, <2>1, <2>3 DEF StorageType
  <2>. QED BY <2>1, <2>4
<1>4. Stores(w, s)
  <2>1. local' = [local EXCEPT ![w] = s]
    BY DEF OpenStorage
  <2>. HIDE DEF w, s
  <2>. QED BY <1>3, <2>1 DEF Stores
<1>. HIDE DEF spoiled
<1>5. LocalType' /\ local'[w] = s /\ \A v \in Worker \ {w} : local'[v] = local[v]
  BY <1>1, <1>4, StoresAt DEF StorageInv
<1>6. Storage(g).holder = Nobody /\ pc[g] = "ready" /\ pc'[g] = "open"
      /\ \A h \in Claims \ {g} : pc'[h] = pc[h]
  BY DEF OpenStorage, At, HandInv
<1>. HIDE DEF w, s
<1>7. \A h \in Claims : WorkerOf(h) \in Worker /\ h # Nobody
  BY ClaimParts, ClaimIsNotNobody
<1>8. \A v \in Worker : Swept(v)' <=> Swept(v)
  BY <1>6 DEF Swept, Cleaning
<1>9. HolderHolds'
  <2>1. ASSUME NEW h \in Claims PROVE (pc'[h] \in Holding <=> Storage(h)'.holder = h)
    <3>1. CASE h = g
      BY <1>5, <1>6, <1>3, <3>1 DEF Holding, Storage, w
    <3>2. CASE h # g /\ WorkerOf(h) = w
      BY <1>5, <1>6, <1>3, <1>7, <3>2 DEF Storage, w, StorageInv, HolderHolds
    <3>3. CASE WorkerOf(h) # w
      BY <1>5, <1>6, <1>7, <3>3 DEF Storage, w, StorageInv, HolderHolds
    <3>. QED BY <3>1, <3>2, <3>3
  <2>2. \A v \in Worker : local'[v].holder # Nobody => WorkerOf(local'[v].holder) = v
    BY <1>5, <1>3 DEF StorageInv, HolderHolds, w
  <2>. QED BY <2>1, <2>2 DEF HolderHolds
<1>10. EmptyWhenFree'
  BY <1>1, <1>5, <1>3, <1>8 DEF StorageInv, EmptyWhenFree
<1>11. FreshWhenHeld'
  <2>1. ASSUME NEW h \in Claims, pc'[h] \in Holding, ~Storage(h)'.spoiled
        PROVE  /\ Swept(WorkerOf(h))'
               /\ pc'[h] = "open" => Storage(h)'.records = Empty
               /\ pc'[h] = "streamed" => HoldsShown(Storage(h))'
    <3>1. CASE h = g
      BY <1>1, <1>5, <1>6, <1>3, <1>8, <2>1, <3>1 DEF Storage, w, StorageInv, EmptyWhenFree
    <3>2. CASE h # g
      <4>1. pc[h] \in Holding /\ WorkerOf(h) # w
        BY <1>6, <1>7, <2>1, <3>2 DEF StorageInv, HolderHolds, Storage, w
      <4>2. Storage(h)' = Storage(h) /\ UNCHANGED world
        BY <1>5, <1>7, <4>1 DEF Storage, OpenStorage
      <4>. QED BY <1>6, <1>7, <1>8, <2>1, <3>2, <4>1, <4>2
                  DEF StorageInv, FreshWhenHeld, HoldsShown, Shown
    <3>. QED BY <3>1, <3>2
  <2>. QED BY <2>1 DEF FreshWhenHeld
<1>. QED BY <1>5, <1>9, <1>10, <1>11 DEF StorageInv

\* The holder goes on, or closes.
LEMMA HolderStep ==
    ASSUME StorageInv, UNCHANGED world, NEW g \in Claims, Storage(g).holder = g,
           \A h \in Claims \ {g} : pc'[h] = pc[h],
           NEW s, Stores(WorkerOf(g), s),
           \/ s.holder = g /\ pc'[g] \in Holding
           \/ s.holder = Nobody /\ pc'[g] \in Cleaning,
           pc'[g] \in Holding /\ ~s.spoiled =>
               /\ ~Storage(g).spoiled
               /\ pc'[g] = "open" => s.records = Empty
               /\ pc'[g] = "streamed" => HoldsShown(s)
    PROVE  StorageInv'
<1>. DEFINE w == WorkerOf(g)
<1>1. w \in Worker /\ g # Nobody
  BY ClaimParts, ClaimIsNotNobody
<1>2. LocalType' /\ local'[w] = s /\ \A v \in Worker \ {w} : local'[v] = local[v]
  BY <1>1, StoresAt DEF StorageInv
<1>3. pc[g] \in Holding /\ \A h \in Claims : WorkerOf(h) \in Worker
  BY ClaimParts DEF StorageInv, HolderHolds
<1>4. \A h \in Claims \ {g} : WorkerOf(h) = w => pc[h] \notin Holding
  BY DEF StorageInv, HolderHolds, Storage
<1>5. pc'[g] \notin Holding \/ pc'[g] \notin Cleaning
  BY DEF Holding, Cleaning
<1>6. \A v \in Worker : v # w => (Swept(v)' <=> Swept(v))
  BY DEF Swept
<1>7. pc'[g] \in Holding => (Swept(w)' <=> Swept(w))
  BY <1>3 DEF Swept, Holding, Cleaning
<1>8. pc'[g] \in Cleaning => ~Swept(w)'
  BY DEF Swept
<1>9. HolderHolds'
  <2>1. ASSUME NEW h \in Claims PROVE (pc'[h] \in Holding <=> Storage(h)'.holder = h)
    <3>1. CASE h = g
      BY <1>1, <1>2, <1>5, <3>1 DEF Storage
    <3>2. CASE h # g /\ WorkerOf(h) = w
      BY <1>2, <1>4, <3>2, ClaimIsNotNobody DEF Storage
    <3>3. CASE WorkerOf(h) # w
      BY <1>2, <1>3, <3>3 DEF Storage, StorageInv, HolderHolds
    <3>. QED BY <3>1, <3>2, <3>3
  <2>2. \A v \in Worker : local'[v].holder # Nobody => WorkerOf(local'[v].holder) = v
    BY <1>2 DEF StorageInv, HolderHolds
  <2>. QED BY <2>1, <2>2 DEF HolderHolds
<1>10. EmptyWhenFree'
  <2>1. local'[w].holder = Nobody => ~Swept(w)'
    BY <1>1, <1>2, <1>8
  <2>. QED BY <1>2, <1>6, <2>1 DEF StorageInv, EmptyWhenFree
<1>11. FreshWhenHeld'
  <2>1. ASSUME NEW h \in Claims, pc'[h] \in Holding, ~Storage(h)'.spoiled
        PROVE  /\ Swept(WorkerOf(h))'
               /\ pc'[h] = "open" => Storage(h)'.records = Empty
               /\ pc'[h] = "streamed" => HoldsShown(Storage(h))'
    <3>1. CASE h = g
      <4>1. Storage(h)' = s
        BY <1>2, <3>1 DEF Storage
      <4>2. ~Storage(g).spoiled /\ Swept(w)
        BY <1>3, <2>1, <3>1, <4>1 DEF StorageInv, FreshWhenHeld
      <4>. QED BY <1>7, <2>1, <3>1, <4>1, <4>2 DEF HoldsShown, Shown
    <3>2. CASE h # g
      <4>1. pc[h] \in Holding /\ WorkerOf(h) # w
        BY <1>4, <2>1, <3>2
      <4>2. Storage(h)' = Storage(h)
        BY <1>2, <1>3, <4>1 DEF Storage
      <4>. QED BY <1>3, <1>6, <2>1, <3>2, <4>1, <4>2
                  DEF StorageInv, FreshWhenHeld, HoldsShown, Shown
    <3>. QED BY <3>1, <3>2
  <2>. QED BY <2>1 DEF FreshWhenHeld
<1>. QED BY <1>2, <1>9, <1>10, <1>11 DEF StorageInv

\* Storages are left alone, and who has one keeps it.
LEMMA QuietStorage ==
    ASSUME StorageInv, UNCHANGED <<local, world>>, NEW g \in Claims,
           \A h \in Claims \ {g} : pc'[h] = pc[h],
           pc'[g] \in Holding <=> pc[g] \in Holding,
           pc[g] \notin Cleaning, pc'[g] \notin Cleaning \union {"open", "streamed"}
    PROVE  StorageInv'
<1>1. \A v \in Worker : Swept(v)' <=> Swept(v)
  BY DEF Swept
<1>2. \A h \in Claims : Storage(h)' = Storage(h) /\ WorkerOf(h) \in Worker
  BY ClaimParts DEF Storage
<1>3. HolderHolds'
  BY <1>2 DEF StorageInv, HolderHolds
<1>4. EmptyWhenFree' /\ LocalType'
  BY <1>1 DEF StorageInv, EmptyWhenFree, LocalType
<1>5. FreshWhenHeld'
  BY <1>1, <1>2 DEF StorageInv, FreshWhenHeld, HoldsShown, Shown
<1>. QED BY <1>3, <1>4, <1>5 DEF StorageInv

\* A storage that is removed is empty, unless somebody has it open: then it is spoiled.
LEMMA CleanLeavesNothing ==
    ASSUME HandInv, StorageInv, NEW g \in Claims, CleanStorage(g)
    PROVE  StorageInv'
<1>. DEFINE w == WorkerOf(g)
<1>1. w \in Worker /\ Storage(g) = local[w] /\ \A h \in Claims : WorkerOf(h) \in Worker
  BY ClaimParts DEF Storage
<1>2. /\ pc[g] \in Cleaning /\ pc'[g] \notin Cleaning /\ pc'[g] \notin Holding
      /\ \A h \in Claims \ {g} : pc'[h] = pc[h]
      /\ UNCHANGED world
  BY DEF CleanStorage, At, HandInv, Cleaning, Holding
<1>3. pc[g] \notin Holding /\ ~Swept(w)
  BY <1>2 DEF Cleaning, Holding, Swept
<1>4. /\ LocalType'
      /\ \A v \in Worker : local'[v].holder = local[v].holder
      /\ \A v \in Worker \ {w} : local'[v] = local[v]
      /\ local[w].holder = Nobody => local'[w].records = Empty
      /\ local[w].holder # Nobody => local'[w] = local[w]
  <2>1. CASE Storage(g).holder = Nobody
    <3>1. local' = [local EXCEPT ![WorkerOf(g)].records = Empty]
      BY <2>1 DEF CleanStorage
    <3>2. Empty \in Counts
      BY DEF Empty, Counts
    <3>. QED BY <1>1, <2>1, <3>1, <3>2 DEF StorageInv, LocalType, StorageType
  <2>2. CASE Storage(g).holder # Nobody
    BY <1>1, <2>2 DEF CleanStorage, StorageInv, LocalType
  <2>. QED BY <2>1, <2>2
<1>5. \A v \in Worker : v # w => (Swept(v)' <=> Swept(v))
  BY <1>2 DEF Swept
<1>6. HolderHolds'
  BY <1>1, <1>2, <1>3, <1>4 DEF StorageInv, HolderHolds, Storage
<1>7. EmptyWhenFree'
  BY <1>4, <1>5 DEF StorageInv, EmptyWhenFree
<1>8. FreshWhenHeld'
  <2>1. ASSUME NEW h \in Claims, pc'[h] \in Holding, ~Storage(h)'.spoiled
        PROVE  /\ Swept(WorkerOf(h))'
               /\ pc'[h] = "open" => Storage(h)'.records = Empty
               /\ pc'[h] = "streamed" => HoldsShown(Storage(h))'
    <3>1. h # g /\ pc'[h] = pc[h]
      BY <1>2, <2>1
    <3>2. Storage(h).holder = h /\ h # Nobody
      BY <2>1, <3>1, ClaimIsNotNobody DEF StorageInv, HolderHolds
    <3>3. Storage(h)' = Storage(h)
      BY <1>1, <1>4, <3>2 DEF Storage
    <3>4. WorkerOf(h) # w
      BY <1>3, <2>1, <3>1, <3>3 DEF StorageInv, FreshWhenHeld
    <3>. QED BY <1>1, <1>2, <1>5, <2>1, <3>1, <3>3, <3>4
                DEF StorageInv, FreshWhenHeld, HoldsShown, Shown
  <2>. QED BY <2>1 DEF FreshWhenHeld
<1>. QED BY <1>4, <1>6, <1>7, <1>8 DEF StorageInv

LEMMA ShownType ==
    ASSUME SentInv, NEW recent
    PROVE  Shown(recent) \in Seq(Row) /\ Len(Shown(recent)) \in Nat
<1>1. world.db \in Seq(Row)
  BY WorldParts DEF SentInv
<1>2. <<>> \in Seq(Row)
  OBVIOUS
<1>3. Shown(recent) \in Seq(Row)
  BY <1>1, <1>2 DEF Shown
<1>. QED BY <1>3

LEMMA StreamHolds ==
    ASSUME HandInv, StorageInv, SentInv, NEW g \in Claims, NEW cut \in 0..Len(Shown(IsRecent)),
           Stream(g, cut)
    PROVE  StorageInv'
<1>. DEFINE shown == Shown(IsRecent)
            day == SubSeq(shown, 1, Len(shown) - cut)
            c == Stored(Storage(g).records, day)
            b == Storage(g).spoiled \/ cut # 0
            s == [holder |-> g, spoiled |-> b, recent |-> IsRecent, records |-> c]
<1>1. shown \in Seq(Row) /\ day \in Seq(Row)
  <2>1. shown \in Seq(Row) /\ Len(shown) \in Nat
    BY ShownType
  <2>. HIDE DEF shown
  <2>. QED BY <2>1
<1>2. cut = 0 => day = shown
  <2>. HIDE DEF shown
  <2>1. SubSeq(shown, 1, Len(shown)) = shown
    BY <1>1
  <2>. QED BY <1>1, <2>1
<1>. HIDE DEF day
<1>3. Storage(g).records \in Counts
  BY ClaimParts DEF StorageInv, LocalType, StorageType, Storage
<1>4. c \in Counts
  BY <1>1, <1>3, StoredAll
<1>5. pc[g] = "open" /\ pc'[g] = "streamed" /\ (\A h \in Claims \ {g} : pc'[h] = pc[h])
      /\ UNCHANGED world /\ local' = [local EXCEPT ![WorkerOf(g)] = s]
  <2>1. local' = [local EXCEPT ![WorkerOf(g)] = s]
    BY DEF Stream, day
  <2>. HIDE DEF s
  <2>. QED BY <2>1 DEF Stream, At, HandInv
<1>6. Storage(g).holder = g
  BY <1>5 DEF StorageInv, HolderHolds, Holding, Storage
<1>7. ~b => c = Stored(Empty, shown) /\ ~Storage(g).spoiled
  BY <1>2, <1>5, <1>6 DEF StorageInv, FreshWhenHeld, Holding
<1>8. b \in BOOLEAN /\ IsRecent \in BOOLEAN
  BY DEF IsRecent
<1>. HIDE DEF b, c
<1>9. s.holder = g /\ s.spoiled = b /\ s.recent = IsRecent /\ s.records = c
      /\ s \in StorageType
  BY <1>4, <1>8 DEF StorageType
<1>. HIDE DEF s
<1>10. Stores(WorkerOf(g), s)
  BY <1>5, <1>9 DEF Stores
<1>11. pc'[g] \in Holding /\ ~s.spoiled =>
          ~Storage(g).spoiled /\ pc'[g] # "open" /\ HoldsShown(s)
  BY <1>5, <1>7, <1>9 DEF HoldsShown
<1>. QED BY <1>5, <1>6, <1>9, <1>10, <1>11, HolderStep DEF Holding

LEMMA CloseFrees ==
    ASSUME HandInv, StorageInv, NEW g \in Claims, CloseStorage(g)
    PROVE  StorageInv'
<1>. DEFINE s == [local[WorkerOf(g)] EXCEPT !.holder = Nobody]
<1>1. local[WorkerOf(g)] \in StorageType
  BY ClaimParts DEF StorageInv, LocalType
<1>2. s.holder = Nobody /\ s \in StorageType
  BY <1>1 DEF StorageType
<1>3. /\ pc[g] \in Holding /\ pc'[g] \in Cleaning /\ pc'[g] \notin Holding
      /\ \A h \in Claims \ {g} : pc'[h] = pc[h]
      /\ UNCHANGED world
  BY DEF CloseStorage, At, HandInv, Holding, Cleaning
<1>4. local' = [local EXCEPT ![WorkerOf(g)] = s]
  BY DEF CloseStorage
<1>5. Storage(g).holder = g
  BY <1>3 DEF StorageInv, HolderHolds
<1>. HIDE DEF s
<1>6. Stores(WorkerOf(g), s)
  BY <1>2, <1>4 DEF Stores
<1>. QED BY <1>2, <1>3, <1>5, <1>6, HolderStep

\* Nobody else of the process is at work when it dies.
LEMMA CrashEmpties ==
    ASSUME HandInv, StorageInv, NEW g \in Claims, Crash(g)
    PROVE  StorageInv'
<1>. DEFINE w == WorkerOf(g)
            s == NewStorage
<1>1. NewStorage \in StorageType /\ NewStorage.holder = Nobody /\ NewStorage.records = Empty
  BY DEF NewStorage, StorageType, Empty, Counts
<1>2. w \in Worker /\ \A h \in Claims : WorkerOf(h) \in Worker /\ h # Nobody
  BY ClaimParts, ClaimIsNotNobody
<1>3. Stores(w, s)
  BY <1>1 DEF Stores, Crash
<1>4. LocalType' /\ local'[w] = s /\ \A v \in Worker \ {w} : local'[v] = local[v]
  BY <1>2, <1>3, StoresAt DEF StorageInv
<1>5. s.holder = Nobody /\ s.records = Empty
  BY <1>1
<1>. HIDE DEF s
<1>6. /\ pc'[g] = "polling" /\ UNCHANGED world
      /\ \A h \in Claims \ {g} : pc'[h] = pc[h]
  BY DEF Crash, HandInv
<1>7. \A h \in Claims : WorkerOf(h) = w => pc'[h] = "polling"
  BY <1>6 DEF Crash, HandInv, InHand, Busy
<1>8. \A v \in Worker : v # w => (Swept(v)' <=> Swept(v))
  BY <1>6 DEF Swept
<1>9. \A h \in Claims : WorkerOf(h) = w => pc'[h] \notin Holding
  BY <1>7 DEF Holding
<1>. HIDE DEF w
<1>10. \A h \in Claims : WorkerOf(h) # w => pc'[h] = pc[h] /\ Storage(h)' = Storage(h)
  BY <1>2, <1>4, <1>6 DEF Storage, w
<1>11. HolderHolds'
  BY <1>2, <1>4, <1>5, <1>9, <1>10 DEF StorageInv, HolderHolds, Storage
<1>12. EmptyWhenFree'
  BY <1>4, <1>5, <1>8 DEF StorageInv, EmptyWhenFree
<1>13. FreshWhenHeld'
  BY <1>2, <1>6, <1>8, <1>9, <1>10 DEF StorageInv, FreshWhenHeld, HoldsShown, Shown
<1>. QED BY <1>4, <1>11, <1>12, <1>13 DEF StorageInv

LEMMA NextStorage ==
    HandInv /\ StorageInv /\ SentInv /\ [Next]_vars => StorageInv'
<1>. SUFFICES ASSUME HandInv, StorageInv, SentInv, [Next]_vars PROVE StorageInv'
  OBVIOUS
<1>1. CASE UNCHANGED <<pc, local, world>>
  BY <1>1 DEF StorageInv, LocalType, HolderHolds, EmptyWhenFree, FreshWhenHeld, Swept, Storage,
              HoldsShown, Shown
<1>2. ASSUME NEW t \in Task, Receive(t) \/ Refuse(t) \/ Handle(t)
      PROVE  UNCHANGED <<pc, local, world>>
  BY <1>2 DEF Handle, task, Receive, Refuse, CreateRow, CreateFails, PublishTask, PublishFails,
         DeleteRow, DeleteRowFails, Answer, AnswerUnclosed
<1>3. ASSUME UNCHANGED vars \/ NextDay \/ \E p \in Partition : CommitOffset(p)
      PROVE  UNCHANGED <<pc, local, world>>
  BY <1>3 DEF NextDay, vars, task, CommitOffset
<1>4. ASSUME NEW g \in Claims, Process(g) \/ Rebalance(g) \/ Crash(g)
      PROVE  StorageInv'
  <2>1. CASE OpenStorage(g)
    BY <2>1, OpenHolds
  <2>2. CASE StreamAll(g) \/ StreamCut(g)
    <3>1. Len(Shown(IsRecent)) \in Nat
      BY ShownType
    <3>2. PICK cut \in 0..Len(Shown(IsRecent)) : Stream(g, cut)
      BY <2>2, <3>1 DEF StreamAll, StreamCut
    <3>. QED BY <3>2, StreamHolds
  <2>3. CASE CloseStorage(g)
    BY <2>3, CloseFrees
  <2>4. CASE CleanStorage(g)
    BY <2>4, CleanLeavesNothing
  <2>5. CASE Crash(g)
    BY <2>5, CrashEmpties
  <2>6. CASE LeaveLoop(g) \/ Rebalance(g)
    BY <1>1, <2>6 DEF LeaveLoop, Rebalance, task
  <2>7. CASE ReadRow(g) /\ row[Current(g)] # Gone
    <3>1. pc[g] = "fetched" /\ pc' = [pc EXCEPT ![g] = "read"] /\ UNCHANGED <<local, world>>
      BY <2>7 DEF ReadRow, At
    <3>. QED BY <3>1, QuietStorage DEF HandInv, Holding, Cleaning
  <2>8. CASE Fetch(g) \/ SetProcessing(g) \/ Report(g) \/ ReportOver(g) \/ ReportUnclosed(g)
             \/ ReportFails(g) \/ SetSuccess(g) \/ SetFailed(g) \/ Ack(g)
    <3>1. /\ DOMAIN pc = Claims /\ UNCHANGED <<local, world>>
          /\ \/ pc[g] \in {"polling", "read", "acking"}
                /\ (\E to \in {"fetched", "ready", "polling"} : pc' = [pc EXCEPT ![g] = to])
             \/ pc[g] \in {"streamed", "reported", "failing"}
                /\ (\E to \in {"reported", "failing", "closing", "closing_ok"} :
                        pc' = [pc EXCEPT ![g] = to])
      BY <2>8 DEF Fetch, SetProcessing, Report, ReportOver, ReportUnclosed, ReportFails,
             SetSuccess, SetFailed, Ack, At, HandInv
    <3>. QED BY <3>1, QuietStorage DEF Holding, Cleaning
  <2>9. CASE (ReadRow(g) /\ row[Current(g)] = Gone) \/ StorageLocked(g) \/ RowVanished(g)
             \/ DatabaseFails(g) \/ ContextCancelled(g)
    <3>1. /\ DOMAIN pc = Claims /\ UNCHANGED <<local, world>>
          /\ pc[g] \in {"fetched", "read", "ready", "open", "streamed", "reported", "failing"}
          /\ pc' = [pc EXCEPT ![g] = IF Storage(g).holder = g THEN "closing" ELSE "polling"]
      BY <2>9 DEF ReadRow, StorageLocked, RowVanished, DatabaseFails, ContextCancelled, Drop,
             HandInv
    <3>2. pc[g] \in Holding <=> Storage(g).holder = g
      BY DEF StorageInv, HolderHolds
    <3>. QED BY <3>1, <3>2, QuietStorage DEF Holding, Cleaning
  <2>. QED BY <1>4, <2>1, <2>2, <2>3, <2>4, <2>5, <2>6, <2>7, <2>8, <2>9 DEF Process
<1>. QED BY <1>1, <1>2, <1>3, <1>4 DEF Next

-----------------------------------------------------------------------------
(***************************************************************************)
(* What reports say.                                                       *)
(***************************************************************************)
Sound(r) ==
    /\ r.lines \in Lines
    /\ \/ r.spoiled
       \/ /\ r.task \in world.tasks
          /\ IsExact(r.lines, world.csv[r.task], Shown(r.recent))

SoundInv == \A n \in 1..Len(results) : Sound(results[n])

LEMMA ComparisonIsSound ==
    ASSUME HandInv, StorageInv, SentInv, NEW g \in Claims, pc[g] = "streamed", NEW b
    PROVE  Sound(Comparison(g, b))
<1>. DEFINE t == Current(g)
            csv == world.csv[t]
            shown == Shown(Storage(g).recent)
<1>1. t \in world.tasks /\ csv \in Seq(Row) /\ shown \in Seq(Row)
  BY TaskAtHand, WorldParts, ShownType DEF Busy, SentInv
<1>2. Storage(g).records \in Counts
  BY ClaimParts DEF StorageInv, LocalType, StorageType, Storage
<1>. HIDE DEF t, csv, shown
<1>3. Compared(Storage(g).records, csv) \in Lines
  BY <1>1, <1>2, ComparisonIsExact DEF Tally
<1>4. ASSUME ~Storage(g).spoiled
      PROVE  IsExact(Compared(Storage(g).records, csv), csv, shown)
  <2>1. Storage(g).records = Stored(Empty, shown)
    BY <1>4 DEF StorageInv, FreshWhenHeld, Holding, HoldsShown, shown
  <2>. QED BY <1>1, <2>1, WholeDayIsExact
<1>5. Comparison(g, b) = [task |-> t, spoiled |-> b \/ Storage(g).spoiled,
                          recent |-> Storage(g).recent,
                          lines |-> Compared(Storage(g).records, csv)]
  BY DEF Comparison, t, csv
<1>6. /\ Comparison(g, b).task = t
      /\ Comparison(g, b).lines = Compared(Storage(g).records, csv)
      /\ Comparison(g, b).spoiled = (b \/ Storage(g).spoiled)
      /\ Comparison(g, b).recent = Storage(g).recent
  BY <1>5
<1>. QED BY <1>1, <1>3, <1>4, <1>6 DEF Sound, csv, shown

\* Replacing the last report leaves the others.
LEMMA ReplaceReport ==
    ASSUME ReportInv, NEW r, results # <<>>, results' = [results EXCEPT ![Len(results)] = r]
    PROVE  /\ \E R : results' \in Seq(R)
           /\ Len(results) \in 1..Len(results)
           /\ Len(results') = Len(results)
           /\ results'[Len(results)] = r
           /\ \A n \in 1..Len(results) : n # Len(results) => results'[n] = results[n]
<1>. DEFINE last == Len(results)
<1>1. PICK R : results \in Seq(R)
  BY DEF ReportInv
<1>2. results # <<>> /\ results' = [results EXCEPT ![last] = r]
  OBVIOUS
<1>3. last \in 1..Len(results)
  BY <1>1, <1>2
<1>4. results' \in Seq(R \union {r}) /\ Len(results') = Len(results) /\ results'[last] = r
      /\ \A n \in 1..Len(results) : n # last => results'[n] = results[n]
  BY <1>1, <1>2, <1>3
<1>. QED BY <1>3, <1>4, Zenon

LEMMA NextSound ==
    ASSUME HandInv, StorageInv, SentInv, ReportInv, SoundInv, [Next]_vars
    PROVE  SoundInv'
<1>1. UNCHANGED world
  BY NextSent
<1>2. \A r : Sound(r) <=> Sound(r)'
  BY <1>1 DEF Sound, Shown
<1>3. CASE UNCHANGED results
  BY <1>2, <1>3 DEF SoundInv
<1>4. ASSUME NEW r, Sound(r), results' = Append(results, r)
      PROVE  SoundInv'
  <2>1. /\ Len(results') = Len(results) + 1 /\ Len(results) \in Nat
        /\ results'[Len(results) + 1] = r
        /\ \A n \in 1..Len(results) : results'[n] = results[n]
    BY <1>4, AddReport
  <2>2. ASSUME NEW n \in 1..Len(results') PROVE Sound(results'[n])
    BY <1>4, <2>1 DEF SoundInv
  <2>. QED BY <1>2, <2>2 DEF SoundInv
<1>5. ASSUME NEW r, Sound(r), results # <<>>,
             results' = [results EXCEPT ![Len(results)] = r]
      PROVE  SoundInv'
  <2>1. /\ Len(results') = Len(results)
        /\ results'[Len(results)] = r
        /\ \A n \in 1..Len(results) : n # Len(results) => results'[n] = results[n]
    BY <1>5, ReplaceReport
  <2>2. ASSUME NEW n \in 1..Len(results') PROVE Sound(results'[n])
    <3>1. n \in 1..Len(results)
      BY <2>1, <2>2, Zenon
    <3>2. CASE n = Len(results)
      BY <1>5, <2>1, <3>2, Zenon
    <3>3. CASE n # Len(results)
      <4>1. results'[n] = results[n] /\ Sound(results[n])
        BY <2>1, <3>1, <3>3, Zenon DEF SoundInv
      <4>. QED BY <4>1, Zenon
    <3>. QED BY <3>2, <3>3
  <2>. QED BY <1>2, <2>2, Zenon DEF SoundInv
<1>6. ASSUME NEW g \in Claims, Process(g) \/ Rebalance(g) \/ Crash(g)
      PROVE  SoundInv'
  <2>1. CASE Report(g)
    <3>1. pc[g] = "streamed" /\ results' = Append(results, Comparison(g, FALSE))
      BY <2>1 DEF Report, At
    <3>. QED BY <1>4, <3>1, ComparisonIsSound
  <2>2. CASE ReportOver(g)
    <3>. DEFINE b == results[Len(results)].spoiled \/ results[Len(results)].task # Current(g)
    <3>1. /\ pc[g] = "streamed" /\ results # <<>>
          /\ results' = [results EXCEPT ![Len(results)] = Comparison(g, b)]
      BY <2>2 DEF ReportOver, At
    <3>. HIDE DEF b
    <3>. QED BY <1>5, <3>1, ComparisonIsSound
  <2>3. CASE ReportUnclosed(g)
    <3>1. Missing.spoiled /\ Missing.lines \in Lines
      BY DEF Missing, Lines, Empty, Counts
    <3>2. Sound(Missing)
      BY <3>1 DEF Sound
    <3>3. results' = Append(results, Missing)
      BY <2>3 DEF ReportUnclosed
    <3>. QED BY <1>4, <3>2, <3>3
  <2>4. CASE ~(Report(g) \/ ReportOver(g) \/ ReportUnclosed(g))
    <3>1. UNCHANGED results
      BY <1>6, <2>4 DEF Process, Rebalance, Crash, Fetch, ReadRow, SetProcessing, OpenStorage,
         StorageLocked, StreamAll, StreamCut, Stream, ReportFails, SetSuccess, SetFailed,
         RowVanished, DatabaseFails, ContextCancelled, CloseStorage, CleanStorage, Ack,
         LeaveLoop, Drop, task
    <3>. QED BY <1>3, <3>1
  <2>. QED BY <2>1, <2>2, <2>3, <2>4
<1>7. ASSUME NEW t \in Task, Receive(t) \/ Refuse(t) \/ Handle(t)
      PROVE  UNCHANGED results
  BY <1>7 DEF Handle, task, Receive, Refuse, CreateRow, CreateFails, PublishTask, PublishFails,
         DeleteRow, DeleteRowFails, Answer, AnswerUnclosed
<1>8. ASSUME UNCHANGED vars \/ NextDay \/ \E p \in Partition : CommitOffset(p)
      PROVE  UNCHANGED results
  BY <1>8 DEF NextDay, vars, task, CommitOffset
<1>. QED BY <1>3, <1>6, <1>7, <1>8 DEF Next

ReconInv == HandInv /\ ReportInv /\ SentInv /\ StorageInv /\ SoundInv

LEMMA InitRecon == Init => ReconInv
<1>1. Init => SoundInv
  BY DEF Init, SoundInv
<1>. QED BY <1>1, InitHand, InitReport, InitStorage DEF ReconInv

LEMMA NextRecon == ReconInv /\ [Next]_vars => ReconInv'
BY NextHand, NextReport, NextSent, NextStorage, NextSound DEF ReconInv

\* A successful task points at its own report, which says exactly what its file and what
\* the query shows of the day have in common: the transactions of every type, if the day
\* was one of the last seven when they were read, and none otherwise.  That is so whatever
\* files and days there are, whatever storages have been used for before, and however
\* goroutines, rebalances, crashes and midnights interleave.
THEOREM ReportsExact == Spec => []ReportIsExact
<1>1. ReconInv => ReportIsExact
  <2>. SUFFICES ASSUME ReconInv, NEW t \in Task, row[t].status = "SUCCESS",
                       ~results[row[t].result].spoiled
                PROVE  /\ results[row[t].result].task = t
                       /\ IsExact(results[row[t].result].lines, world.csv[t],
                                  Shown(results[row[t].result].recent))
    BY DEF ReportIsExact
  <2>1. row[t] # Gone
    BY DEF Gone
  <2>2. row[t].result \in 1..Len(results) /\ results[row[t].result].task = t
    BY <2>1 DEF ReconInv, ReportInv, Owns
  <2>3. Sound(results[row[t].result])
    BY <2>2 DEF ReconInv, SoundInv
  <2>. QED BY <2>2, <2>3 DEF Sound
<1>. QED BY <1>1, InitRecon, NextRecon, PTL DEF Spec

-----------------------------------------------------------------------------
(***************************************************************************)
(* Type correctness.                                                       *)
(***************************************************************************)
Uploads == {"idle", "received", "created", "published", "undoing", "undone", "stranded", "ok",
            "refused"}
Places == {"polling", "fetched", "read", "ready", "open", "streamed", "reported", "failing",
           "closing", "closing_ok", "cleaning", "cleaning_ok", "acking"}

ShapeInv ==
    /\ upload \in [Task -> Uploads]
    /\ file \subseteq Task
    /\ \A t \in Task : row[t] = Gone
                       \/ row[t].status \in {"PENDING", "PROCESSING", "SUCCESS", "FAILED"}
    /\ pc \in [Claims -> Places]
    /\ path \in [Claims -> {NoPath} \union 1..Len(results)]
    /\ dropped \subseteq Task
    /\ today \in Int
    /\ faults \in Nat

LEMMA InitShape == Init => ShapeInv
<1>. SUFFICES ASSUME Init PROVE ShapeInv
  OBVIOUS
<1>1. faults \in Nat /\ today \in Int
  BY WorldParts DEF Init
<1>. QED BY <1>1 DEF Init, ShapeInv, Uploads, Places

LEMMA UploadShape ==
    ASSUME ShapeInv, RowInv, NEW t \in Task, Receive(t) \/ Refuse(t) \/ Handle(t)
    PROVE  ShapeInv'
<1>1. UNCHANGED <<pc, path, results, dropped, today>>
  BY DEF Handle, task, Receive, Refuse, CreateRow, CreateFails, PublishTask, PublishFails,
         DeleteRow, DeleteRowFails, Answer, AnswerUnclosed
<1>2. upload' \in [Task -> Uploads]
  BY DEF Handle, Receive, Refuse, CreateRow, CreateFails, PublishTask, PublishFails, DeleteRow,
         DeleteRowFails, Answer, AnswerUnclosed, Step, ShapeInv, Uploads
<1>3. file' \subseteq Task
  BY DEF Handle, Receive, Refuse, CreateRow, CreateFails, PublishTask, PublishFails, DeleteRow,
         DeleteRowFails, Answer, AnswerUnclosed, ShapeInv
<1>4. faults' \in Nat
  BY DEF Handle, Receive, Refuse, CreateRow, CreateFails, PublishTask, PublishFails, DeleteRow,
         DeleteRowFails, Answer, AnswerUnclosed, ShapeInv, Strike
<1>5. \A u \in Task : row'[u] = Gone
                      \/ row'[u].status \in {"PENDING", "PROCESSING", "SUCCESS", "FAILED"}
  <2>1. CASE CreateRow(t)
    BY <2>1 DEF CreateRow, ShapeInv, RowInv
  <2>2. CASE DeleteRow(t)
    BY <2>2 DEF DeleteRow, ShapeInv, RowInv
  <2>3. CASE UNCHANGED row
    BY <2>3 DEF ShapeInv
  <2>. QED BY <2>1, <2>2, <2>3 DEF Handle, Receive, Refuse, CreateFails, PublishTask,
              PublishFails, DeleteRowFails, Answer, AnswerUnclosed
<1>. QED BY <1>1, <1>2, <1>3, <1>4, <1>5 DEF ShapeInv

LEMMA ProcessShape ==
    ASSUME ShapeInv, RowInv, HandInv, ReportInv, ReportInv', NEW g \in Claims,
           Process(g) \/ Rebalance(g) \/ Crash(g)
    PROVE  ShapeInv'
<1>1. UNCHANGED <<upload, file, today>>
  BY DEF Process, Rebalance, Crash, Fetch, ReadRow, SetProcessing, OpenStorage, StorageLocked,
         StreamAll, StreamCut, Stream, Report, ReportOver, ReportUnclosed, ReportFails,
         SetSuccess, SetFailed, RowVanished, DatabaseFails, ContextCancelled, CloseStorage,
         CleanStorage, Ack, LeaveLoop
<1>2. faults' \in Nat
  <2>1. \A kind : Strike(kind) => faults' \in Nat
    BY DEF Strike, ShapeInv
  <2>2. UNCHANGED faults \/ \E kind : Strike(kind)
    BY DEF Process, Rebalance, Crash, Fetch, ReadRow, SetProcessing, OpenStorage,
           StorageLocked, StreamAll, StreamCut, Stream, Report, ReportOver, ReportUnclosed,
           ReportFails, SetSuccess, SetFailed, RowVanished, DatabaseFails, ContextCancelled,
           CloseStorage, CleanStorage, Ack, LeaveLoop
  <2>. QED BY <2>1, <2>2 DEF ShapeInv
<1>3. pc' \in [Claims -> Places]
  BY DEF Process, Rebalance, Crash, Fetch, ReadRow, SetProcessing, OpenStorage, StorageLocked,
         StreamAll, StreamCut, Stream, Report, ReportOver, ReportUnclosed, ReportFails,
         SetSuccess, SetFailed, RowVanished, DatabaseFails, ContextCancelled, CloseStorage,
         CleanStorage, Ack, LeaveLoop, Drop, At, ShapeInv, Places, task
<1>4. \A t \in Task : row'[t] = Gone
                      \/ row'[t].status \in {"PENDING", "PROCESSING", "SUCCESS", "FAILED"}
  <2>1. CASE SetProcessing(g) \/ SetSuccess(g) \/ SetFailed(g)
    BY <2>1 DEF SetProcessing, SetSuccess, SetFailed, UpdateRow, ShapeInv, RowInv
  <2>2. CASE UNCHANGED row
    BY <2>2 DEF ShapeInv
  <2>. QED BY <2>1, <2>2 DEF Process, Rebalance, Crash, Fetch, ReadRow, OpenStorage,
              StorageLocked, StreamAll, StreamCut, Stream, Report, ReportOver, ReportUnclosed,
              ReportFails, RowVanished, DatabaseFails, ContextCancelled, CloseStorage,
              CleanStorage, Ack, LeaveLoop, task
<1>5. dropped' \subseteq Task
  <2>1. CASE dropped' = dropped \union {Current(g)} /\ Busy(g)
    BY <2>1, HandTask DEF ShapeInv
  <2>2. CASE UNCHANGED dropped
    BY <2>2 DEF ShapeInv
  <2>. QED BY <2>1, <2>2 DEF Process, Rebalance, Crash, Fetch, ReadRow, SetProcessing,
              OpenStorage, StorageLocked, StreamAll, StreamCut, Stream, Report, ReportOver,
              ReportUnclosed, ReportFails, SetSuccess, SetFailed, RowVanished, DatabaseFails,
              ContextCancelled, CloseStorage, CleanStorage, Ack, LeaveLoop, Drop, Busy, task
<1>6. path' \in [Claims -> {NoPath} \union 1..Len(results')]
  <2>1. PICK R : results \in Seq(R)
    BY DEF ReportInv
  <2>2. CASE Report(g) \/ ReportOver(g) \/ ReportUnclosed(g)
    <3>1. PICK n \in 1..Len(results') : path' = [path EXCEPT ![g] = n]
      BY <2>2, MakeReport
    <3>2. Len(results) \in Nat /\ (Len(results') = Len(results) + 1 \/ Len(results') = Len(results))
      <4>1. CASE Report(g) \/ ReportUnclosed(g)
        BY <4>1, AddReport DEF Report, ReportUnclosed
      <4>2. CASE ReportOver(g)
        BY <2>1, <4>2 DEF ReportOver
      <4>. QED BY <2>2, <4>1, <4>2
    <3>. QED BY <3>1, <3>2 DEF ShapeInv
  <2>3. CASE ReadRow(g) /\ row[Current(g)] # Gone
    <3>1. Current(g) \in Task
      BY <2>3, HandTask DEF ReadRow, Busy
    <3>2. row[Current(g)].result \in {NoPath} \union 1..Len(results)
      BY <2>3, <3>1 DEF ReportInv, Owns
    <3>3. path' = [path EXCEPT ![g] = row[Current(g)].result] /\ UNCHANGED results
      BY <2>3 DEF ReadRow
    <3>. QED BY <3>2, <3>3 DEF ShapeInv
  <2>4. CASE UNCHANGED <<path, results>>
    BY <2>4 DEF ShapeInv
  <2>. QED BY <2>2, <2>3, <2>4 DEF Process, Rebalance, Crash, Fetch, ReadRow, SetProcessing,
              OpenStorage, StorageLocked, StreamAll, StreamCut, Stream, ReportFails, SetSuccess,
              SetFailed, RowVanished, DatabaseFails, ContextCancelled, CloseStorage,
              CleanStorage, Ack, LeaveLoop, Drop, task
<1>. QED BY <1>1, <1>2, <1>3, <1>4, <1>5, <1>6 DEF ShapeInv

LEMMA NextShape ==
    ShapeInv /\ RowInv /\ HandInv /\ ReportInv /\ ReportInv' /\ [Next]_vars => ShapeInv'
<1>. SUFFICES ASSUME ShapeInv, RowInv, HandInv, ReportInv, ReportInv', [Next]_vars
              PROVE  ShapeInv'
  OBVIOUS
<1>1. CASE UNCHANGED vars \/ NextDay \/ \E p \in Partition : CommitOffset(p)
  BY <1>1 DEF NextDay, Strike, vars, task, CommitOffset, ShapeInv
<1>. QED BY <1>1, UploadShape, ProcessShape DEF Next

\* Every variable keeps its type: a path leads to a report there is, the counts of a storage
\* and of a report are never negative, and only tasks that were uploaded are worked on.
THEOREM TypeCorrect == Spec => []TypeOK
<1>1. ReconInv /\ ShapeInv => TypeOK
  <2>. SUFFICES ASSUME ReconInv, ShapeInv PROVE TypeOK
    OBVIOUS
  <2>1. PICK R : results \in Seq(R)
    BY DEF ReconInv, ReportInv
  <2>2. DOMAIN results = 1..Len(results)
    BY <2>1
  <2>3. \A t \in Task : row[t] # Gone => row[t].result \in {NoPath} \union DOMAIN results
    BY <2>2 DEF ReconInv, ReportInv, Owns
  <2>4. \A w \in Worker : local[w].holder \in Claims \union {Nobody} /\ local[w].records \in Counts
    BY DEF ReconInv, StorageInv, LocalType, StorageType
  <2>5. \A n \in DOMAIN results : results[n].lines \in Lines
    BY <2>2 DEF ReconInv, SoundInv, Sound
  <2>6. GroupType(Task)
    BY DEF ReconInv, HandInv
  <2>. QED BY <2>2, <2>3, <2>4, <2>5, <2>6 DEF TypeOK, ShapeInv, Uploads, Places
<1>. QED BY <1>1, InitRecon, NextRecon, InitRow, NextRow, InitShape, NextShape, PTL
         DEF Spec, ReconInv
=============================================================================
