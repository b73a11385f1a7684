------------------------------- MODULE MCRecon -------------------------------
(***************************************************************************)
(* Instances of Recon for TLC.                                             *)
(***************************************************************************)
EXTENDS Recon, TLC

MCPartitionFor == [u \in Task |-> IF u = "u3" THEN 2 ELSE 1]

MCRow(i, a) == [kind |-> "row", id |-> i, amount |-> a]
MCOdd(kind) == [kind |-> kind, id |-> "a", amount |-> 1]

\* Files: with equal rows, a header, a bad row, and a row of another day.
MCPlain == <<MCOdd("header"), MCRow("a", 1)>>
MCFiles ==
    {<<MCOdd("header")>> \o rows : rows \in
        {<<x, y>> : x, y \in {MCRow("a", 1), MCRow("a", 2), MCRow("b", 1), MCOdd("bad"),
                              MCOdd("other")}}}

\* Days of up to three transactions.
MCDays == UNION {[1..n -> {MCRow("a", 1), MCRow("a", 2)}] : n \in 0..3}
MCDay == <<MCRow("a", 2), MCRow("a", 1), MCRow("a", 1)>>

MCWorld(owners, tasks, csv, db, age, kinds, most) ==
    [owner |-> owners, tasks |-> tasks, csv |-> [u \in tasks |-> csv], db |-> db,
     today |-> age, kinds |-> kinds, most |-> most]

MCOneWorker == [p \in Partition |-> "w1"]
MCTwoWorkers == (1 :> "w1" @@ 2 :> "w2")

\* Every file with every day, on days in and out of the week; one task with faults of
\* every kind, on the last day of the week; two tasks one after the other, and side by
\* side in one process or in two.
MCWorlds ==
    {MCWorld(MCOneWorker, {"u1"}, csv, db, 1, {}, 0) : csv \in MCFiles, db \in MCDays}
    \union
    {MCWorld(MCOneWorker, {"u1"}, MCPlain, MCDay, age, {}, 0) : age \in {-1, 0, 7, 8}}
    \union
    {MCWorld(MCTwoWorkers, {"u1"}, MCPlain, MCDay, 7,
        {"upload", "create", "publish", "db", "storage", "second", "cut", "day", "crash",
         "rebalance"}, 2),
     MCWorld(MCTwoWorkers, {"u1", "u2"}, MCPlain, MCDay, 7,
        {"crash", "rebalance", "storage", "second", "publish", "day"}, 1),
     MCWorld(MCOneWorker, {"u1", "u3"}, MCPlain, MCDay, 1, {}, 0)}
=============================================================================
