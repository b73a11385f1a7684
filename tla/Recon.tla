-------------------------------- MODULE Recon --------------------------------
(***************************************************************************)
(* The reconciliation of an uploaded file with the transactions of a day   *)
(* (internal/services/recon_service.go, recon_service_process_task.go, the *)
(* consumer internal/deliveries/consumer/task_queue_recon).  An upload is  *)
(* written to cloud storage, gets a row of recon_tool_history and a        *)
(* message; a goroutine of the consumer group streams the transactions     *)
(* into the local storage its process has, compares the file with it line  *)
(* by line, stores a report and writes the outcome into the row.           *)
(***************************************************************************)
EXTENDS ConsumerGroup

CONSTANTS
    Task,          \* uploads
    PartitionFor,  \* the partition a task's message is on
    Id, Amount,    \* identifiers and amounts of rows and transactions
    World          \* the instances a behaviour may start from: who owns which
                   \* partition, the uploads, their files, the transactions of the
                   \* day, how long ago that was, and the faults

\* Rows of files and transactions.  Rows that are bad or of another day are told apart.
Row == [kind : {"row", "header", "other", "bad"}, id : Id, amount : Amount]

ReconAssumption ==
    /\ PartitionFor \in [Task -> Partition]
    /\ \A w \in World :
        /\ w.tasks \subseteq Task
        /\ w.owner \in [Partition -> Worker]
        /\ w.csv \in [w.tasks -> Seq(Row)]
        /\ w.db \in Seq(Row)
        /\ w.today \in Int
        /\ w.most \in Nat
ASSUME ReconAssumption

VARIABLES
    world,
    today,    \* days since the day the uploads are about
    upload,   \* where the handler of an upload is, at last the answer it gave
    file,     \* tasks whose uploaded file can be read
    row,      \* recon_tool_history
    pc,       \* where a goroutine is with the task it has
    path,     \* the result path a goroutine writes next
    local,    \* the local storage of each worker's process
    results,  \* report files, in the order in which they were named
    dropped,  \* history: tasks an error about which was only logged
    faults    \* faults left to strike

given == <<world, today>>
task == <<pc, path, local, results, dropped>>
vars == <<group, given, upload, file, row, task, faults>>

Gone == [status |-> "GONE", result |-> 0]
NoPath == 0
Nobody == <<>>
Keys == Id \X Amount
Empty == [k \in Keys |-> 0]
NewStorage == [holder |-> Nobody, spoiled |-> FALSE, recent |-> FALSE, records |-> Empty]

Init ==
    /\ world \in World
    /\ GroupInit
    /\ owner = world.owner
    /\ today = world.today
    /\ upload = [t \in Task |-> "idle"]
    /\ file = {}
    /\ row = [t \in Task |-> Gone]
    /\ pc = [g \in Claims |-> "polling"]
    /\ path = [g \in Claims |-> NoPath]
    /\ local = [w \in Worker |-> NewStorage]
    /\ results = <<>>
    /\ dropped = {}
    /\ faults = world.most

Strike(kind) ==
    /\ kind \in world.kinds
    /\ faults > 0
    /\ faults' = faults - 1

-----------------------------------------------------------------------------
(***************************************************************************)
(* Comparison.  Only how many rows, records and lines there are with an    *)
(* identifier and an amount matters.                                       *)
(***************************************************************************)
Key(r) == <<r.id, r.amount>>
More(count, k) == [count EXCEPT ![k] = @ + 1]
Less(count, k) == [count EXCEPT ![k] = @ - 1]

Occurrences(rows, k) == Cardinality({n \in DOMAIN rows : rows[n].kind = "row" /\ Key(rows[n]) = k})

\* streamTransactionsToLocalStorage: records are kept by identifier.
Stored(records, transactions) ==
    [k \in Keys |-> records[k] + Occurrences(transactions, k)]

\* processCSVRow: the header and rows of other dates are passed over; a row takes away a
\* transaction of its identifier that has its amount.
CompareRow(seen, r) ==
    CASE r.kind \in {"header", "other"} -> seen
      [] r.kind = "bad" -> [seen EXCEPT !.error = More(@, Key(r))]
      [] r.kind = "row" /\ seen.left[Key(r)] > 0 ->
            [seen EXCEPT !.left = Less(@, Key(r)), !.match = More(@, Key(r))]
      [] OTHER -> [seen EXCEPT !.notInDB = More(@, Key(r))]

\* The lines of the report; what is left in the storage at the end has a line too.
Compared(records, csv) ==
    LET seen[n \in 0..Len(csv)] ==
            IF n = 0 THEN [left |-> records, match |-> Empty, notInDB |-> Empty, error |-> Empty]
            ELSE CompareRow(seen[n - 1], csv[n])
    IN seen[Len(csv)]

-----------------------------------------------------------------------------
(***************************************************************************)
(* UploadReconTemplate.                                                    *)
(***************************************************************************)
Step(t, from, to) ==
    /\ t \in world.tasks
    /\ upload[t] = from
    /\ upload' = [upload EXCEPT ![t] = to]

\* The rows are written; nobody sees the object before it is closed.
Receive(t) ==
    /\ Step(t, "idle", "received")
    /\ UNCHANGED <<group, given, file, row, task, faults>>

\* A bad header, or the stream or the writer breaks: its context is cancelled and
\* nothing is stored.
Refuse(t) ==
    /\ Strike("upload")
    /\ Step(t, "idle", "refused")
    /\ UNCHANGED <<group, given, file, row, task>>

CreateRow(t) ==
    /\ Step(t, "received", "created")
    /\ row' = [row EXCEPT ![t] = [status |-> "PENDING", result |-> NoPath]]
    /\ UNCHANGED <<group, given, file, task, faults>>

\* The object that is deleted is not there yet: the deferred Close stores it.
CreateFails(t) ==
    /\ Strike("create")
    /\ Step(t, "received", "undone")
    /\ UNCHANGED <<group, given, file, row, task>>

PublishTask(t) ==
    /\ Step(t, "created", "published")
    /\ Publish(PartitionFor[t], t)
    /\ UNCHANGED <<given, file, row, task, faults>>

\* The broker may have the message all the same.
PublishFails(t) ==
    /\ Strike("publish")
    /\ Step(t, "created", "undoing")
    /\ Publish(PartitionFor[t], t) \/ UNCHANGED group
    /\ UNCHANGED <<given, file, row, task>>

DeleteRow(t) ==
    /\ Step(t, "undoing", "undone")
    /\ row' = [row EXCEPT ![t] = Gone]
    /\ UNCHANGED <<group, given, file, task, faults>>

DeleteRowFails(t) ==
    /\ Strike("db")
    /\ Step(t, "undoing", "stranded")
    /\ UNCHANGED <<group, given, file, row, task>>

\* The deferred Close, then the answer.
Answer(t) ==
    /\ \/ Step(t, "published", "ok")
       \/ Step(t, "undone", "refused")
    /\ file' = file \union {t}
    /\ UNCHANGED <<group, given, row, task, faults>>

\* Its error is not looked at.
AnswerUnclosed(t) ==
    /\ Strike("storage")
    /\ \/ Step(t, "published", "ok")
       \/ Step(t, "undone", "refused")
    /\ UNCHANGED <<group, given, file, row, task>>

-----------------------------------------------------------------------------
(***************************************************************************)
(* ProcessReconTaskQueue.                                                  *)
(***************************************************************************)
Storage(g) == local[WorkerOf(g)]

At(g, from, to) ==
    /\ pc[g] = from
    /\ pc' = [pc EXCEPT ![g] = to]

\* An error goes to ConsumeClaim, which logs it and does not mark the message; the local
\* storage is closed first if it is open.
Drop(g) ==
    /\ dropped' = dropped \union {Current(g)}
    /\ pc' = [pc EXCEPT ![g] = IF Storage(g).holder = g THEN "closing" ELSE "polling"]
    /\ UNCHANGED <<path, local, results>>

Fetch(g) ==
    /\ At(g, "polling", "fetched")
    /\ Poll(g)
    /\ UNCHANGED <<given, upload, file, row, path, local, results, dropped, faults>>

\* prepareReconHistory: GetById
ReadRow(g) ==
    /\ pc[g] = "fetched"
    /\ IF row[Current(g)] = Gone
       THEN Drop(g)
       ELSE /\ At(g, "fetched", "read")
            /\ path' = [path EXCEPT ![g] = row[Current(g)].result]
            /\ UNCHANGED <<local, results, dropped>>
    /\ UNCHANGED <<group, given, upload, file, row, faults>>

\* Mutant: an upsert.
UpsertRow(g, status, result) ==
    row' = [row EXCEPT ![Current(g)] = [status |-> status, result |-> result]]

\* Update writes the whole row, if it is there.
UpdateRow(g, status, result) ==
    /\ row[Current(g)] # Gone
    /\ row' = [row EXCEPT ![Current(g)] = [status |-> status, result |-> result]]

SetProcessing(g) ==
    /\ At(g, "read", "ready")
    /\ UpdateRow(g, "PROCESSING", path[g])
    /\ UNCHANGED <<group, given, upload, file, path, local, results, dropped, faults>>

\* badger locks its directory.  Whatever is in the directory is in the storage.
OpenStorage(g) ==
    /\ Storage(g).holder = Nobody
    /\ At(g, "ready", "open")
    /\ local' = [local EXCEPT ![WorkerOf(g)] =
        [@ EXCEPT !.holder = g,
                  !.spoiled = \E h \in Claims : /\ WorkerOf(h) = WorkerOf(g)
                                               /\ pc[h] \in {"cleaning", "cleaning_ok"}]]
    /\ UNCHANGED <<group, given, upload, file, row, path, results, dropped, faults>>

StorageLocked(g) ==
    /\ pc[g] = "ready"
    /\ Storage(g).holder # Nobody
    /\ Drop(g)
    /\ UNCHANGED <<group, given, upload, file, row, faults>>

\* What the query shows of the day.  As the filter has neither start nor end, it is limited
\* to the last seven days; and it does not look at the filter's type: transactions of
\* every type are shown.
IsRecent == today \in 0 .. 7
Shown(recent) == IF recent THEN world.db ELSE <<>>

\* All of that is streamed, or as much as the connection gives before it breaks:
\* StreamAll ends the stream and does not look at rows.Err.
Stream(g, cut) ==
    LET shown == Shown(IsRecent)
    IN /\ At(g, "open", "streamed")
       /\ local' = [local EXCEPT ![WorkerOf(g)] =
            [holder |-> g,
             spoiled |-> Storage(g).spoiled \/ cut # 0,
             recent |-> IsRecent,
             records |-> Stored(Storage(g).records, SubSeq(shown, 1, Len(shown) - cut))]]
       /\ UNCHANGED <<group, given, upload, file, row, path, results, dropped>>

StreamAll(g) ==
    /\ Stream(g, 0)
    /\ UNCHANGED faults

StreamCut(g) ==
    /\ Strike("cut")
    /\ \E cut \in 1..Len(Shown(IsRecent)) : Stream(g, cut)

\* reconcileRecordsAndGenerateReport; the report is closed before the row is updated.
Comparison(g, spoiled) ==
    [task |-> Current(g), spoiled |-> spoiled \/ Storage(g).spoiled,
     recent |-> Storage(g).recent,
     lines |-> Compared(Storage(g).records, world.csv[Current(g)])]

Report(g) ==
    /\ At(g, "streamed", "reported")
    /\ Current(g) \in file
    /\ results' = Append(results, Comparison(g, FALSE))
    /\ path' = [path EXCEPT ![g] = Len(results) + 1]
    /\ UNCHANGED <<group, given, upload, file, row, local, dropped, faults>>

\* A name says the second: the last report was named in the same one, and is replaced.
ReportOver(g) ==
    /\ Strike("second")
    /\ At(g, "streamed", "reported")
    /\ Current(g) \in file
    /\ results # <<>>
    /\ results' = [results EXCEPT ![Len(results)] =
                      Comparison(g, @.spoiled \/ @.task # Current(g))]
    /\ path' = [path EXCEPT ![g] = Len(results)]
    /\ UNCHANGED <<group, given, upload, file, row, local, dropped>>

\* The file has a name and is not there.
Missing ==
    [task |-> "none", spoiled |-> TRUE, recent |-> FALSE,
     lines |-> [left |-> Empty, match |-> Empty, notInDB |-> Empty, error |-> Empty]]

\* The error of resultFile.Close goes to a variable nobody returns.
ReportUnclosed(g) ==
    /\ Strike("storage")
    /\ At(g, "streamed", "reported")
    /\ Current(g) \in file
    /\ results' = Append(results, Missing)
    /\ path' = [path EXCEPT ![g] = Len(results) + 1]
    /\ UNCHANGED <<group, given, upload, file, row, local, dropped>>

\* The uploaded file cannot be opened: it may not be closed yet.
ReportFails(g) ==
    /\ At(g, "streamed", "failing")
    /\ \/ Current(g) \notin file /\ UNCHANGED faults
       \/ Strike("storage")
    /\ UNCHANGED <<group, given, upload, file, row, path, local, results, dropped>>

SetSuccess(g) ==
    /\ At(g, "reported", "closing_ok")
    /\ UpdateRow(g, "SUCCESS", path[g])
    /\ UNCHANGED <<group, given, upload, file, path, local, results, dropped, faults>>

SetFailed(g) ==
    /\ At(g, "failing", "closing")
    /\ UpdateRow(g, "FAILED", NoPath)
    /\ UNCHANGED <<group, given, upload, file, path, local, results, dropped, faults>>

\* The upload's handler has deleted the row in the meantime: no row is affected.
RowVanished(g) ==
    /\ pc[g] \in {"read", "reported", "failing"}
    /\ row[Current(g)] = Gone
    /\ Drop(g)
    /\ UNCHANGED <<group, given, upload, file, row, faults>>

DatabaseFails(g) ==
    /\ Strike("db")
    /\ pc[g] \in {"fetched", "read", "open", "reported", "failing"}
    /\ Drop(g)
    /\ UNCHANGED <<group, given, upload, file, row>>

\* The session is over, so whatever uses its context fails.
ContextCancelled(g) ==
    /\ ~IsOwner(g)
    /\ pc[g] \in {"fetched", "read", "open", "streamed", "reported", "failing"}
    /\ Drop(g)
    /\ UNCHANGED <<group, given, upload, file, row, faults>>

\* closeLocalStorage closes the directory, then removes it.
CloseStorage(g) ==
    /\ \/ At(g, "closing", "cleaning")
       \/ At(g, "closing_ok", "cleaning_ok")
    /\ local' = [local EXCEPT ![WorkerOf(g)].holder = Nobody]
    /\ UNCHANGED <<group, given, upload, file, row, path, results, dropped, faults>>

\* Mutant: closed, and not removed.
CleanNothing(g) ==
    /\ \/ At(g, "cleaning", "polling")
       \/ At(g, "cleaning_ok", "acking")
    /\ UNCHANGED <<group, given, upload, file, row, path, local, results, dropped, faults>>

\* Another task that has opened it in between keeps what it has open.
CleanStorage(g) ==
    /\ \/ At(g, "cleaning", "polling")
       \/ At(g, "cleaning_ok", "acking")
    /\ local' = IF Storage(g).holder = Nobody
                THEN [local EXCEPT ![WorkerOf(g)].records = Empty]
                ELSE local
    /\ UNCHANGED <<group, given, upload, file, row, path, results, dropped, faults>>

Ack(g) ==
    /\ At(g, "acking", "polling")
    /\ Mark(g)
    /\ UNCHANGED <<given, upload, file, row, path, local, results, dropped, faults>>

CommitOffset(p) ==
    /\ CommitMarked(p)
    /\ UNCHANGED <<given, upload, file, row, task, faults>>

LeaveLoop(g) ==
    /\ pc[g] = "polling"
    /\ EndClaim(g)
    /\ UNCHANGED <<given, upload, file, row, task, faults>>

Rebalance(g) ==
    /\ Strike("rebalance")
    /\ TakeOver(g)
    /\ UNCHANGED <<given, upload, file, row, task>>

\* The process dies, with a directory of its own, and comes back.
Crash(g) ==
    /\ Strike("crash")
    /\ \A h \in running : WorkerOf(h) = WorkerOf(g) => h = g
    /\ Restart(g)
    /\ pc' = [pc EXCEPT ![g] = "polling"]
    /\ local' = [local EXCEPT ![WorkerOf(g)] = NewStorage]
    /\ UNCHANGED <<given, upload, file, row, path, results, dropped>>

\* Midnight.
NextDay ==
    /\ Strike("day")
    /\ today' = today + 1
    /\ UNCHANGED <<group, world, upload, file, row, task>>

-----------------------------------------------------------------------------
Handle(t) ==
    \/ CreateRow(t) \/ CreateFails(t) \/ PublishTask(t) \/ PublishFails(t)
    \/ DeleteRow(t) \/ DeleteRowFails(t) \/ Answer(t) \/ AnswerUnclosed(t)

Process(g) ==
    \/ Fetch(g) \/ ReadRow(g) \/ SetProcessing(g) \/ OpenStorage(g) \/ StorageLocked(g)
    \/ StreamAll(g) \/ StreamCut(g) \/ Report(g) \/ ReportOver(g) \/ ReportUnclosed(g)
    \/ ReportFails(g)
    \/ SetSuccess(g) \/ SetFailed(g) \/ RowVanished(g) \/ DatabaseFails(g)
    \/ ContextCancelled(g) \/ CloseStorage(g) \/ CleanStorage(g) \/ Ack(g) \/ LeaveLoop(g)

Next ==
    \/ \E t \in Task : Receive(t) \/ Refuse(t) \/ Handle(t)
    \/ \E g \in Claims : Process(g) \/ Rebalance(g) \/ Crash(g)
    \/ \E p \in Partition : CommitOffset(p)
    \/ NextDay

Spec == Init /\ [][Next]_vars

\* A handler that has begun goes on, and so does a goroutine that has a message.
FairSpec ==
    /\ Spec
    /\ \A t \in Task : WF_vars(Handle(t))
    /\ \A g \in Claims : WF_vars(Process(g))

-----------------------------------------------------------------------------
(***************************************************************************)
(* Properties.                                                             *)
(***************************************************************************)
Counts == [Keys -> Nat]
Lines == [left : Counts, match : Counts, notInDB : Counts, error : Counts]

\* The type of every variable.
TypeOK ==
    /\ GroupType(Task)
    /\ upload \in [Task -> {"idle", "received", "created", "published", "undoing", "undone",
                            "stranded", "ok", "refused"}]
    /\ file \subseteq Task
    /\ \A t \in Task :
        \/ row[t] = Gone
        \/ /\ row[t].status \in {"PENDING", "PROCESSING", "SUCCESS", "FAILED"}
           /\ row[t].result \in {NoPath} \union DOMAIN results
    /\ pc \in [Claims -> {"polling", "fetched", "read", "ready", "open", "streamed", "reported",
                          "failing", "closing", "closing_ok", "cleaning", "cleaning_ok", "acking"}]
    /\ path \in [Claims -> {NoPath} \union DOMAIN results]
    /\ \A w \in Worker : /\ local[w].holder \in Claims \union {Nobody}
                         /\ local[w].records \in Counts
    /\ today \in Int
    /\ \A n \in DOMAIN results : results[n].lines \in Lines
    /\ dropped \subseteq Task
    /\ faults \in Nat

Least(m, n) == IF m < n THEN m ELSE n

\* The report counts what file and database have in common, and what each has alone.
IsExact(lines, csv, db) ==
    \A k \in Keys :
        LET inCSV == Occurrences(csv, k)
            inDB == Occurrences(db, k)
            both == Least(inCSV, inDB)
        IN /\ lines.match[k] = both
           /\ lines.notInDB[k] = inCSV - both
           /\ lines.left[k] = inDB - both

\* The report a successful task points at is that task's, and exact, whatever tasks its
\* process has worked on before and whoever else has worked on it: unless the report got
\* lost or was replaced by another task's, the stream was cut, or the storage was opened
\* while it was being removed.  It compares the file with the transactions of the day, of
\* whatever type, if the day was one of the last seven when they were read, and with none
\* if it was not.
ReportIsExact ==
    \A t \in Task : row[t].status = "SUCCESS" =>
        LET report == results[row[t].result] IN
        \/ report.spoiled
        \/ report.task = t /\ IsExact(report.lines, world.csv[t], Shown(report.recent))

Ended(t) == row[t].status \in {"SUCCESS", "FAILED"}

\* Who is told that an upload failed does not find a task for it, even if the message was
\* sent and its task is being worked on; except when undoing it failed too.
RefusedLeavesNoRow == \A t \in Task : upload[t] = "refused" => row[t] = Gone

\* A task whose upload was answered ends, through crashes and rebalances, unless an
\* error was logged in place of an outcome.
TasksEnd == \A t \in Task : upload[t] = "ok" ~> Ended(t) \/ t \in dropped
=============================================================================
