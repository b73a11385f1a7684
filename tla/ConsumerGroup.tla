--------------------------- MODULE ConsumerGroup ----------------------------
(***************************************************************************)
(* A topic and the consumer group that reads it, as sarama gives it to     *)
(* every consumer of internal/deliveries/consumer.  The group gives each   *)
(* partition to one worker, whose ConsumeClaim goroutine takes one message *)
(* at a time and marks it.  Marks reach the broker when offsets are        *)
(* committed: a worker that takes a partition over starts again from       *)
(* there.  A worker that lost a partition goes on with what it has fetched *)
(* until it sees its session is over, and its marks no longer count.       *)
(*                                                                         *)
(* What a goroutine does with a message is the business of the modules     *)
(* that extend this one: their actions are conjunctions with these.        *)
(***************************************************************************)
EXTENDS Integers, FiniteSets, Sequences

CONSTANTS
    Partition,   \* partitions of the topic
    Worker       \* consumer instances

VARIABLES
    topic,      \* the messages of each partition
    owner,      \* the worker each partition is assigned to
    committed,  \* the group's committed offset: the first message not covered
    marked,     \* the owner's mark, not yet committed
    running,    \* goroutines that have not yet left their loop
    next        \* the message a goroutine will fetch next

group == <<topic, owner, committed, marked, running, next>>

\* The goroutine of a worker on a partition.
Claims == Worker \X Partition
WorkerOf(g)    == g[1]
PartitionOf(g) == g[2]

IsOwner(g) == owner[PartitionOf(g)] = WorkerOf(g)

\* The message a goroutine has fetched.
Current(g) == topic[PartitionOf(g)][next[g] - 1]

GroupInit ==
    /\ topic = [p \in Partition |-> <<>>]
    /\ owner \in [Partition -> Worker]
    /\ committed = [p \in Partition |-> 1]
    /\ marked = [p \in Partition |-> 1]
    /\ running = {g \in Claims : IsOwner(g)}
    /\ next = [g \in Claims |-> 1]

\* SendMessage, acknowledged or not.
Publish(p, m) ==
    /\ topic' = [topic EXCEPT ![p] = Append(@, m)]
    /\ UNCHANGED <<owner, committed, marked, running, next>>

\* claim.Messages()
Poll(g) ==
    /\ g \in running
    /\ next[g] <= Len(topic[PartitionOf(g)])
    /\ next' = [next EXCEPT ![g] = @ + 1]
    /\ UNCHANGED <<topic, owner, committed, marked, running>>

\* MarkMessage; the mark of a session that is over does not count.
Mark(g) ==
    /\ marked' = IF IsOwner(g) THEN [marked EXCEPT ![PartitionOf(g)] = next[g]] ELSE marked
    /\ UNCHANGED <<topic, owner, committed, running, next>>

\* Mutant: the commit covers what was fetched, not what was marked.
CommitFetched(p) ==
    /\ committed[p] # next[<<owner[p], p>>]
    /\ committed' = [committed EXCEPT ![p] = next[<<owner[p], p>>]]
    /\ UNCHANGED <<topic, owner, marked, running, next>>

\* The periodic commit of what is marked.
CommitMarked(p) ==
    /\ committed[p] # marked[p]
    /\ committed' = [committed EXCEPT ![p] = marked[p]]
    /\ UNCHANGED <<topic, owner, marked, running, next>>

\* session.Context().Done()
EndClaim(g) ==
    /\ g \in running
    /\ ~IsOwner(g)
    /\ running' = running \ {g}
    /\ UNCHANGED <<topic, owner, committed, marked, next>>

\* Mutant: it starts at the last message covered.
AssignBefore(g) ==
    /\ owner' = [owner EXCEPT ![PartitionOf(g)] = WorkerOf(g)]
    /\ marked' = [marked EXCEPT ![PartitionOf(g)] = committed[PartitionOf(g)]]
    /\ next' = [next EXCEPT ![g] = committed[PartitionOf(g)] - 1]
    /\ running' = running \union {g}
    /\ UNCHANGED <<topic, committed>>

\* A worker starts to consume a partition from its committed offset.
Assign(g) ==
    /\ owner' = [owner EXCEPT ![PartitionOf(g)] = WorkerOf(g)]
    /\ marked' = [marked EXCEPT ![PartitionOf(g)] = committed[PartitionOf(g)]]
    /\ next' = [next EXCEPT ![g] = committed[PartitionOf(g)]]
    /\ running' = running \union {g}
    /\ UNCHANGED <<topic, committed>>

\* A rebalance gives the partition to another worker.
TakeOver(g) ==
    /\ ~IsOwner(g)
    /\ g \notin running
    /\ Assign(g)

\* The owner dies and comes back.
Restart(g) == IsOwner(g) /\ Assign(g)

\* The broker has been told that everything was dealt with, and nobody works on
\* behalf of a session that is over.
Consumed ==
    /\ \A p \in Partition : committed[p] = Len(topic[p]) + 1
    /\ \A g \in running : IsOwner(g)

GroupType(M) ==
    /\ topic \in [Partition -> Seq(M)]
    /\ owner \in [Partition -> Worker]
    /\ committed \in [Partition -> Nat \ {0}]
    /\ marked \in [Partition -> Nat \ {0}]
    /\ running \in SUBSET Claims
    /\ next \in [Claims -> Nat \ {0}]

\* A goroutine that handles a message runs, and the message is in its topic.
InHand(g) == g \in running /\ next[g] - 1 \in 1..Len(topic[PartitionOf(g)])
=============================================================================
