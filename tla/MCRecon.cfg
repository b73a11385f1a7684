\* Two workers and two partitions; two tasks, crashes, rebalances and errors.
SPECIFICATION FairSpec
CONSTANTS
    Partition = {1, 2}
    Worker = {"w1", "w2"}
    Task = {"u1", "u2", "u3"}
    PartitionFor <- MCPartitionFor
    Id = {"a", "b"}
    Amount = {1, 2}
    World <- MCWorlds
CHECK_DEADLOCK FALSE
INVARIANTS
    TypeOK
    ReportIsExact
    RefusedLeavesNoRow
PROPERTIES
    TasksEnd
