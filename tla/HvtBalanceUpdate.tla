-------------------------- MODULE HvtBalanceUpdate ---------------------------
(***************************************************************************)
(* The consumer of HVT credits                                             *)
(* (internal/deliveries/consumer/hvt_balance_update).  Credits to an       *)
(* account share a partition.  For each message a goroutine claims the     *)
(* message's idempotency key in Redis, adds the credit to the account row, *)
(* and marks the message; on an error it gives the key back, gives the     *)
(* message up and marks it all the same.                                   *)
(***************************************************************************)
EXTENDS ConsumerGroup

CONSTANTS
    Trx,         \* wallet transactions that pay an HVT account
    Amount,      \* amounts of credits
    Opening,     \* the account row's actual balance when the model starts
    MaxTopic,    \* bound on the credits of a partition
    FaultKinds,  \* subset of {"crash", "rebalance", "db", "redis",
                 \*            "unanswered", "expiry"}
    MaxFaults    \* bound on the faults of a behaviour

\* An account number is the partition its credits are on.
HvtAssumption ==
    /\ Worker # {}
    /\ Partition \subseteq Int
    /\ Amount \subseteq Int
    /\ Opening \in [Partition -> Int]
    /\ MaxTopic \in Nat
    /\ MaxFaults \in Nat
ASSUME HvtAssumption

Message == [trx : Trx, amount : Amount]

VARIABLES
    actual,   \* account.actualBalance
    keys,     \* idempotency keys in Redis, one per transaction and account
    pc,       \* where a goroutine is with the message it has
    applied,  \* history: the messages added to each account, in order
    nacked,   \* history: keys of the messages given up
    faults    \* faults left to strike

vars == <<group, actual, keys, pc, applied, nacked, faults>>

\* The key of the message a goroutine has fetched.
Key(g) == <<Current(g).trx, PartitionOf(g)>>

Init ==
    /\ GroupInit
    /\ actual = Opening
    /\ keys = {}
    /\ pc = [g \in Claims |-> "polling"]
    /\ applied = [p \in Partition |-> <<>>]
    /\ nacked = {}
    /\ faults = MaxFaults

\* The ledger publishes a credit; a retry of a failed settlement publishes one
\* with the key of an earlier one.
Produce(p, m) ==
    /\ Len(topic[p]) < MaxTopic
    /\ Publish(p, m)
    /\ UNCHANGED <<actual, keys, pc, applied, nacked, faults>>

-----------------------------------------------------------------------------
(***************************************************************************)
(* One message.                                                            *)
(***************************************************************************)
Fetch(g) ==
    /\ pc[g] = "polling"
    /\ Poll(g)
    /\ pc' = [pc EXCEPT ![g] = "fetched"]
    /\ UNCHANGED <<actual, keys, applied, nacked, faults>>

\* Mutant: a Set in place of SetIfNotExists.
ClaimAlways(g) ==
    /\ pc[g] = "fetched"
    /\ keys' = keys \union {Key(g)}
    /\ pc' = [pc EXCEPT ![g] = "claimed"]
    /\ UNCHANGED <<group, actual, applied, nacked, faults>>

\* SetIfNotExists sets the key.
Claim(g) ==
    /\ pc[g] = "fetched"
    /\ Key(g) \notin keys
    /\ keys' = keys \union {Key(g)}
    /\ pc' = [pc EXCEPT ![g] = "claimed"]
    /\ UNCHANGED <<group, actual, applied, nacked, faults>>

\* It is there: whoever set it is trusted to have applied the credit.
AlreadyClaimed(g) ==
    /\ pc[g] = "fetched"
    /\ Key(g) \in keys
    /\ pc' = [pc EXCEPT ![g] = "acking"]
    /\ UNCHANGED <<group, actual, keys, applied, nacked, faults>>

\* AdjustAccountBalance: "actualBalance" + amount, one statement.
AddCredit(g) ==
    /\ pc[g] = "claimed"
    /\ actual' = [actual EXCEPT ![PartitionOf(g)] = @ + Current(g).amount]
    /\ applied' = [applied EXCEPT ![PartitionOf(g)] = Append(@, Current(g))]

Adjust(g) ==
    /\ AddCredit(g)
    /\ pc' = [pc EXCEPT ![g] = "acking"]
    /\ UNCHANGED <<group, keys, nacked, faults>>

\* MarkMessage
Ack(g) ==
    /\ pc[g] = "acking"
    /\ Mark(g)
    /\ pc' = [pc EXCEPT ![g] = "polling"]
    /\ UNCHANGED <<actual, keys, applied, nacked, faults>>

\* The rest of Nack.  A dead-letter queue gets the message if one is enabled; its
\* consumer only notifies people, so to the balance the credit is given up.
GiveUp(g) ==
    /\ nacked' = nacked \union {Key(g)}
    /\ pc' = [pc EXCEPT ![g] = "acking"]

\* Mutant: Nack returns early, as it does for a message that is being processed.
NackMarksOnly(g) ==
    /\ pc[g] = "nacking"
    /\ IsOwner(g)
    /\ pc' = [pc EXCEPT ![g] = "acking"]
    /\ UNCHANGED <<group, actual, keys, applied, nacked, faults>>

NackRelease(g) ==
    /\ pc[g] = "nacking"
    /\ IsOwner(g)
    /\ keys' = keys \ {Key(g)}
    /\ GiveUp(g)
    /\ UNCHANGED <<group, actual, applied, faults>>

CommitOffset(p) ==
    /\ CommitMarked(p)
    /\ UNCHANGED <<actual, keys, pc, applied, nacked, faults>>

LeaveLoop(g) ==
    /\ pc[g] = "polling"
    /\ EndClaim(g)
    /\ UNCHANGED <<actual, keys, pc, applied, nacked, faults>>

\* A session that is over has cancelled the context of whatever its goroutine
\* asks of Redis and the database; Nack's own Del fails for the same reason.
ContextCancelled(g) ==
    /\ pc[g] \in {"fetched", "claimed", "nacking"}
    /\ ~IsOwner(g)
    /\ GiveUp(g)
    /\ UNCHANGED <<group, actual, keys, applied, faults>>

\* The context is cancelled too late to stop the statement.
CancelledLate(g) ==
    /\ ~IsOwner(g)
    /\ AddCredit(g)
    /\ GiveUp(g)
    /\ UNCHANGED <<group, keys, faults>>

-----------------------------------------------------------------------------
(***************************************************************************)
(* Faults.                                                                 *)
(***************************************************************************)
Strike(kind) ==
    /\ kind \in FaultKinds
    /\ faults > 0
    /\ faults' = faults - 1

ClaimFails(g) ==
    /\ Strike("redis")
    /\ pc[g] = "fetched"
    /\ pc' = [pc EXCEPT ![g] = "nacking"]
    /\ UNCHANGED <<group, actual, keys, applied, nacked>>

AdjustFails(g) ==
    /\ Strike("db")
    /\ pc[g] = "claimed"
    /\ pc' = [pc EXCEPT ![g] = "nacking"]
    /\ UNCHANGED <<group, actual, keys, applied, nacked>>

\* The statement takes effect but its answer is lost.
AdjustUnanswered(g) ==
    /\ Strike("unanswered")
    /\ AddCredit(g)
    /\ pc' = [pc EXCEPT ![g] = "nacking"]
    /\ UNCHANGED <<group, keys, nacked>>

\* A key outlives its TTL of one day.
Expire(k) ==
    /\ Strike("expiry")
    /\ k \in keys
    /\ keys' = keys \ {k}
    /\ UNCHANGED <<group, actual, pc, applied, nacked>>

\* Del fails, is logged, and Nack goes on.
ReleaseFails(g) ==
    /\ Strike("redis")
    /\ pc[g] = "nacking"
    /\ GiveUp(g)
    /\ UNCHANGED <<group, actual, keys, applied>>

Rebalance(g) ==
    /\ Strike("rebalance")
    /\ TakeOver(g)
    /\ UNCHANGED <<actual, keys, pc, applied, nacked>>

\* The owner dies between two steps.
Crash(g) ==
    /\ Strike("crash")
    /\ Restart(g)
    /\ pc' = [pc EXCEPT ![g] = "polling"]
    /\ UNCHANGED <<actual, keys, applied, nacked>>

-----------------------------------------------------------------------------
Process(g) ==
    \/ Fetch(g) \/ Claim(g) \/ AlreadyClaimed(g) \/ Adjust(g) \/ Ack(g)
    \/ NackRelease(g) \/ LeaveLoop(g) \/ ContextCancelled(g) \/ CancelledLate(g)

Fault(g) ==
    \/ ClaimFails(g) \/ AdjustFails(g) \/ AdjustUnanswered(g) \/ ReleaseFails(g)
    \/ Rebalance(g) \/ Crash(g)

\* The topic has reached its bound and all of it has been dealt with.
Drained ==
    /\ \A p \in Partition : Len(topic[p]) = MaxTopic
    /\ Consumed
    /\ UNCHANGED vars

Next ==
    \/ \E p \in Partition, m \in Message : Produce(p, m)
    \/ \E g \in Claims : Process(g) \/ Fault(g)
    \/ \E p \in Partition : CommitOffset(p)
    \/ \E k \in keys : Expire(k)
    \/ Drained

Spec == Init /\ [][Next]_vars

\* A goroutine with a message to handle handles it.
FairSpec == Spec /\ \A g \in Claims : WF_vars(Process(g))

-----------------------------------------------------------------------------
(***************************************************************************)
(* Properties.                                                             *)
(***************************************************************************)
Steps == {"polling", "fetched", "claimed", "nacking", "acking"}

\* The type of every variable.
TypeOK ==
    /\ GroupType(Message)
    /\ actual \in [Partition -> Int]
    /\ keys \in SUBSET (Trx \X Partition)
    /\ pc \in [Claims -> Steps]
    /\ applied \in [Partition -> Seq(Message)]
    /\ nacked \in SUBSET (Trx \X Partition)
    /\ faults \in Nat

\* A transaction's credit is added to an account at most once, however often it
\* is published or delivered, across crashes, rebalances and failed updates.
AppliedOnce ==
    \A a \in Partition : \A i, j \in DOMAIN applied[a] :
        applied[a][i].trx = applied[a][j].trx => i = j

Applied(t, a) == \E i \in DOMAIN applied[a] : applied[a][i].trx = t

\* Where a credit may be that is neither added nor given up: on the topic ahead of
\* the committed offset, or with a goroutine.
Waiting(t, a) == \E i \in committed[a]..Len(topic[a]) : topic[a][i].trx = t
Holds(g) == pc[g] \in {"claimed", "nacking"}
Handled(t, a) == \E g \in Claims : Holds(g) /\ Key(g) = <<t, a>>

\* Offsets, keys and acknowledgements lose no credit between them: one that was
\* published is waiting, with a goroutine, added or given up.  A crash may lose one
\* that had its key set, but leaves the key behind for people to find it by.
CreditsKept ==
    \A a \in Partition, t \in Trx :
        (\E i \in DOMAIN topic[a] : topic[a][i].trx = t)
            => \/ Waiting(t, a) \/ Handled(t, a)
               \/ Applied(t, a) \/ <<t, a>> \in nacked
               \/ "crash" \in FaultKinds /\ <<t, a>> \in keys

\* A credit that was published is in the end added or given up, whatever fails; a
\* crash may lose it.
CreditsSettle ==
    \A a \in Partition, t \in Trx :
        (\E i \in DOMAIN topic[a] : topic[a][i].trx = t)
            ~> Applied(t, a) \/ <<t, a>> \in nacked
=============================================================================
