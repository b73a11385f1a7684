---------------------------- MODULE WalletQueue -----------------------------
(***************************************************************************)
(* Wallet transactions of asynchronous clients: CreateTransaction puts the *)
(* request on a topic and answers PENDING (EnqueueTransaction of           *)
(* internal/services/wallet_transaction_service.go); the consumer          *)
(* internal/deliveries/consumer/process_wallet_transaction locks the       *)
(* request's idempotency key in Redis and calls CreateTransaction again,   *)
(* now to execute it.  An error gives the lock back, and Nack sends the    *)
(* request to the dead-letter queue.  What executing does to the accounts  *)
(* is the subject of WalletLedger; here it either commits or it does not.  *)
(***************************************************************************)
EXTENDS ConsumerGroup

CONSTANTS
    Request,         \* requests; a client that repeats one repeats its key and
                     \* its reference number
    Unkeyed,         \* the requests without an X-Idempotency-Key
    Route,           \* the partition that a request's two accounts make
    Relisted,        \* the requests of clients the consumer's configuration lists, too
    CheckReference,  \* the flag lists the requests' transaction type
    MaxTopic,        \* bound on the requests that clients put on a partition
    FaultKinds,      \* subset of {"crash", "rebalance", "redis", "broker", "dlq",
                     \*            "aftercommit", "timeout", "expiry", "month"}
    MaxFaults        \* bound on the faults of a behaviour

QueueAssumption ==
    /\ Worker # {}
    /\ Unkeyed \subseteq Request
    /\ Route \in [Request -> Partition]
    /\ Relisted \subseteq Request
    /\ CheckReference \in BOOLEAN
    /\ MaxTopic \in Nat
    /\ MaxFaults \in Nat
ASSUME QueueAssumption

VARIABLES
    calls,     \* requests the API has checked and not yet put on the topic
    answered,  \* history: requests answered with PENDING
    locks,     \* idempotency keys in Redis
    pc,        \* where a goroutine is with the request it has
    executed,  \* how often the database has committed a request
    old,       \* how many of these were too long ago for the lookup to find
    undone,    \* history: requests rolled back whose handling went on as if committed
    returned,  \* history: how often the consumer has put a request back
    failed,    \* history: requests whose handling ended in Nack
    dead,      \* requests that reached the dead-letter queue
    faults     \* faults left to strike

ledger == <<executed, old, undone, returned, failed, dead>>
vars == <<group, calls, answered, locks, pc, ledger, faults>>

Init ==
    /\ GroupInit
    /\ calls = {}
    /\ answered = {}
    /\ locks = {}
    /\ pc = [g \in Claims |-> "polling"]
    /\ executed = [r \in Request |-> 0]
    /\ old = [r \in Request |-> 0]
    /\ undone = {}
    /\ returned = [r \in Request |-> 0]
    /\ failed = {}
    /\ dead = {}
    /\ faults = MaxFaults

Strike(kind) ==
    /\ kind \in FaultKinds
    /\ faults > 0
    /\ faults' = faults - 1

Goto(g, step) == pc' = [pc EXCEPT ![g] = step]

\* CheckTransactionTypeAndReferenceNumber finds an earlier transaction, of the last
\* thirty days.
Known(r) == CheckReference /\ executed[r] > old[r]

-----------------------------------------------------------------------------
(***************************************************************************)
(* The API.  A known request is answered with the transaction it made.     *)
(***************************************************************************)
CheckRequest(r) ==
    /\ r \notin calls
    /\ ~Known(r)
    /\ calls' = calls \union {r}
    /\ UNCHANGED <<group, answered, locks, pc, ledger, faults>>

Enqueue(r) ==
    /\ r \in calls
    /\ Len(topic[Route[r]]) < MaxTopic
    /\ Publish(Route[r], r)
    /\ calls' = calls \ {r}
    /\ answered' = answered \union {r}
    /\ UNCHANGED <<locks, pc, ledger, faults>>

\* The broker's refusal, or the loss of its answer.
EnqueueFails(r) ==
    /\ Strike("broker")
    /\ r \in calls
    /\ \/ UNCHANGED group
       \/ Len(topic[Route[r]]) < MaxTopic /\ Publish(Route[r], r)
    /\ calls' = calls \ {r}
    /\ UNCHANGED <<answered, locks, pc, ledger>>

-----------------------------------------------------------------------------
(***************************************************************************)
(* One message.                                                            *)
(***************************************************************************)
Fetch(g) ==
    /\ pc[g] = "polling"
    /\ Poll(g)
    /\ Goto(g, "fetched")
    /\ UNCHANGED <<calls, answered, locks, ledger, faults>>

\* Mutant: a request without a key is dropped.
KeyIgnored(g) ==
    /\ pc[g] = "fetched"
    /\ Current(g) \in Unkeyed
    /\ Goto(g, "acking")
    /\ UNCHANGED <<group, calls, answered, locks, ledger, faults>>

\* An empty key is an error, raised before anything is locked.
KeyMissing(g) ==
    /\ pc[g] = "fetched"
    /\ Current(g) \in Unkeyed
    /\ Goto(g, "nacking")
    /\ UNCHANGED <<group, calls, answered, locks, ledger, faults>>

\* Mutant: a Set in place of SetIfNotExists.
LockAlways(g) ==
    /\ pc[g] = "fetched"
    /\ Current(g) \notin Unkeyed
    /\ locks' = locks \union {Current(g)}
    /\ Goto(g, "locked")
    /\ UNCHANGED <<group, calls, answered, ledger, faults>>

\* SetIfNotExists sets the key.
Lock(g) ==
    /\ pc[g] = "fetched"
    /\ Current(g) \notin Unkeyed \union locks
    /\ locks' = locks \union {Current(g)}
    /\ Goto(g, "locked")
    /\ UNCHANGED <<group, calls, answered, ledger, faults>>

\* It is there: whoever set it is trusted to execute the request.
Duplicate(g) ==
    /\ pc[g] = "fetched"
    /\ Current(g) \in locks \ Unkeyed
    /\ Goto(g, "acking")
    /\ UNCHANGED <<group, calls, answered, locks, ledger, faults>>

\* CreateTransaction: a known request succeeds without being executed ...
ReturnKnown(g) ==
    /\ pc[g] = "locked"
    /\ Known(Current(g))
    /\ Goto(g, "acking")
    /\ UNCHANGED <<group, calls, answered, locks, ledger, faults>>

Unknown(g) ==
    /\ pc[g] = "locked"
    /\ ~Known(Current(g))
    /\ Goto(g, "checked")
    /\ UNCHANGED <<group, calls, answered, locks, ledger, faults>>

\* ... and one that validation, the balances or the database refuse does not.
Refuse(g) ==
    /\ pc[g] \in {"locked", "checked"}
    /\ Goto(g, "releasing")
    /\ UNCHANGED <<group, calls, answered, locks, ledger, faults>>

\* Mutant: the lock is given back after success, too.
EnqueueAndRelease(g) ==
    /\ pc[g] = "checked"
    /\ Current(g) \in Relisted
    /\ Publish(Route[Current(g)], Current(g))
    /\ returned' = [returned EXCEPT ![Current(g)] = @ + 1]
    /\ Goto(g, "releasing")
    /\ UNCHANGED <<calls, answered, locks, executed, old, undone, failed, dead, faults>>

\* The client's name travels in the message, so a consumer that has the client
\* on its own list takes the message for a new request.
EnqueueAgain(g) ==
    /\ pc[g] = "checked"
    /\ Current(g) \in Relisted
    /\ Publish(Route[Current(g)], Current(g))
    /\ returned' = [returned EXCEPT ![Current(g)] = @ + 1]
    /\ Goto(g, "acking")
    /\ UNCHANGED <<calls, answered, locks, executed, old, undone, failed, dead, faults>>

Commit(g) ==
    /\ pc[g] = "checked"
    /\ Current(g) \notin Relisted
    /\ executed' = [executed EXCEPT ![Current(g)] = @ + 1]
    /\ UNCHANGED <<old, undone>>

Execute(g) ==
    /\ Commit(g)
    /\ Goto(g, "acking")
    /\ UNCHANGED <<group, calls, answered, locks, returned, failed, dead, faults>>

\* The deferred releaseIdempotency.
Release(g) ==
    /\ pc[g] = "releasing"
    /\ IsOwner(g)
    /\ locks' = locks \ {Current(g)}
    /\ Goto(g, "nacking")
    /\ UNCHANGED <<group, calls, answered, ledger, faults>>

\* Mutant: Nack only marks.
DropFailed(g) ==
    /\ pc[g] = "nacking"
    /\ failed' = failed \union {Current(g)}
    /\ Goto(g, "acking")
    /\ UNCHANGED <<group, calls, answered, locks, executed, old, undone, returned, dead, faults>>

\* Nack
DeadLetter(g) ==
    /\ pc[g] = "nacking"
    /\ failed' = failed \union {Current(g)}
    /\ dead' = dead \union {Current(g)}
    /\ Goto(g, "acking")
    /\ UNCHANGED <<group, calls, answered, locks, executed, old, undone, returned, faults>>

\* MarkMessage, after Nack as after success.
Ack(g) ==
    /\ pc[g] = "acking"
    /\ Mark(g)
    /\ Goto(g, "polling")
    /\ UNCHANGED <<calls, answered, locks, ledger, faults>>

CommitOffset(p) ==
    /\ CommitMarked(p)
    /\ UNCHANGED <<calls, answered, locks, pc, ledger, faults>>

LeaveLoop(g) ==
    /\ pc[g] = "polling"
    /\ EndClaim(g)
    /\ UNCHANGED <<calls, answered, locks, pc, ledger, faults>>

\* A session that is over has cancelled the context of every call to Redis and
\* the database, the deferred release's too; a call may be past stopping.
ContextCancelled(g) ==
    /\ pc[g] \in {"fetched", "locked", "checked", "releasing"}
    /\ ~IsOwner(g)
    /\ Goto(g, "nacking")
    /\ UNCHANGED <<group, calls, answered, locks, ledger, faults>>

LockedLate(g) ==
    /\ pc[g] = "fetched"
    /\ ~IsOwner(g)
    /\ locks' = locks \union ({Current(g)} \ Unkeyed)
    /\ Goto(g, "nacking")
    /\ UNCHANGED <<group, calls, answered, ledger, faults>>

CommittedLate(g) ==
    /\ ~IsOwner(g)
    /\ Commit(g)
    /\ Goto(g, "nacking")
    /\ UNCHANGED <<group, calls, answered, locks, returned, failed, dead, faults>>

-----------------------------------------------------------------------------
(***************************************************************************)
(* Faults.                                                                 *)
(***************************************************************************)
\* SetIfNotExists fails, or its answer is lost: no release is deferred yet.
LockFails(g) ==
    /\ Strike("redis")
    /\ pc[g] = "fetched"
    /\ Current(g) \notin Unkeyed
    /\ locks' \in {locks, locks \union {Current(g)}}
    /\ Goto(g, "nacking")
    /\ UNCHANGED <<group, calls, answered, ledger>>

\* Del fails and is logged.
ReleaseFails(g) ==
    /\ Strike("redis")
    /\ pc[g] = "releasing"
    /\ Goto(g, "nacking")
    /\ UNCHANGED <<group, calls, answered, locks, ledger>>

EnqueueAgainFails(g) ==
    /\ Strike("broker")
    /\ pc[g] = "checked"
    /\ Current(g) \in Relisted
    /\ UNCHANGED group \/ Publish(Route[Current(g)], Current(g))
    /\ Goto(g, "releasing")
    /\ UNCHANGED <<calls, answered, locks, ledger>>

\* An HVT credit or the notification cannot be published after the commit, or
\* the answer to COMMIT is lost: an error for a transaction that stands.
FailAfterCommit(g) ==
    /\ Strike("aftercommit")
    /\ Commit(g)
    /\ Goto(g, "releasing")
    /\ UNCHANGED <<group, calls, answered, locks, returned, failed, dead>>

\* The database context ends ahead of COMMIT, by its timeout or with the session, and
\* the driver has rolled back by then: Atomic takes ErrTxDone for success.  (If the
\* driver has not, COMMIT is an error: Refuse.)
RolledBack(g) ==
    /\ pc[g] = "checked"
    /\ Current(g) \notin Relisted
    /\ Strike("timeout") \/ (~IsOwner(g) /\ UNCHANGED faults)
    /\ undone' = undone \union {Current(g)}
    /\ Goto(g, "acking")
    /\ UNCHANGED <<group, calls, answered, locks, executed, old, returned, failed, dead>>

\* The dead-letter queue refuses the request, which is logged.
DeadLetterFails(g) ==
    /\ Strike("dlq")
    /\ pc[g] = "nacking"
    /\ failed' = failed \union {Current(g)}
    /\ Goto(g, "acking")
    /\ UNCHANGED <<group, calls, answered, locks, executed, old, undone, returned, dead>>

Handles(g, r) ==
    pc[g] \in {"locked", "checked", "releasing", "nacking"} /\ Current(g) = r
Handled(r) == \E g \in Claims : Handles(g, r)

\* A key outlives its seven days.  Handling takes seconds.
Expire(r) ==
    /\ Strike("expiry")
    /\ r \in locks
    /\ ~Handled(r)
    /\ locks' = locks \ {r}
    /\ UNCHANGED <<group, calls, answered, pc, ledger>>

\* Thirty days go by, and the lookup passes over what was executed before.
Age(r) ==
    /\ Strike("month")
    /\ executed[r] > old[r]
    /\ old' = [old EXCEPT ![r] = executed[r]]
    /\ UNCHANGED <<group, calls, answered, locks, pc, executed, undone, returned, failed, dead>>

Rebalance(g) ==
    /\ Strike("rebalance")
    /\ TakeOver(g)
    /\ UNCHANGED <<calls, answered, locks, pc, ledger>>

Crash(g) ==
    /\ Strike("crash")
    /\ Restart(g)
    /\ Goto(g, "polling")
    /\ UNCHANGED <<calls, answered, locks, ledger>>

-----------------------------------------------------------------------------
Process(g) ==
    \/ Fetch(g) \/ KeyMissing(g) \/ Lock(g) \/ Duplicate(g)
    \/ ReturnKnown(g) \/ Unknown(g) \/ Refuse(g)
    \/ EnqueueAgain(g) \/ Execute(g) \/ Release(g) \/ DeadLetter(g) \/ Ack(g)
    \/ LeaveLoop(g) \/ ContextCancelled(g) \/ LockedLate(g) \/ CommittedLate(g)

Fault(g) ==
    \/ LockFails(g) \/ ReleaseFails(g) \/ EnqueueAgainFails(g)
    \/ FailAfterCommit(g) \/ RolledBack(g) \/ DeadLetterFails(g)
    \/ Rebalance(g) \/ Crash(g)

\* The clients have sent all they will and it has been dealt with.
Drained ==
    /\ \A r \in calls : Len(topic[Route[r]]) >= MaxTopic
    /\ \A r \in Request \ calls : Known(r)
    /\ Consumed
    /\ UNCHANGED vars

Next ==
    \/ \E r \in Request : CheckRequest(r) \/ Enqueue(r) \/ EnqueueFails(r) \/ Age(r)
    \/ \E g \in Claims : Process(g) \/ Fault(g)
    \/ \E p \in Partition : CommitOffset(p)
    \/ \E r \in locks : Expire(r)
    \/ Drained

Spec == Init /\ [][Next]_vars

\* A goroutine with a message to handle handles it.
FairSpec == Spec /\ \A g \in Claims : WF_vars(Process(g))

-----------------------------------------------------------------------------
(***************************************************************************)
(* Properties.                                                             *)
(***************************************************************************)
Steps == {"polling", "fetched", "locked", "checked", "releasing", "nacking", "acking"}

\* The type of every variable.
TypeOK ==
    /\ GroupType(Request)
    /\ calls \in SUBSET Request
    /\ answered \in SUBSET Request
    /\ locks \in SUBSET (Request \ Unkeyed)
    /\ pc \in [Claims -> Steps]
    /\ executed \in [Request -> Nat]
    /\ old \in [Request -> Nat]
    /\ undone \in SUBSET Request
    /\ returned \in [Request -> Nat]
    /\ failed \in SUBSET Request
    /\ dead \in SUBSET failed
    /\ faults \in Nat

\* Of the executions that the lookup can still find there is one at most, however
\* often the client repeats a request and the broker delivers it: no request is
\* executed twice within thirty days.
ExecutedOnce == \A r \in Request : executed[r] <= old[r] + 1

\* A consumer that takes requests for new ones puts each back at most once: the
\* lock that it leaves behind stops the copy.
ReturnedOnce == \A r \in Request : returned[r] <= 1

Waiting(r) == \E p \in Partition : \E i \in committed[p]..Len(topic[p]) : topic[p][i] = r

\* A request that was answered with PENDING is still on the topic or in the hands
\* of a goroutine, or it has been executed or sent to the dead-letter queue; all
\* but those that Atomic takes for committed when they were rolled back.
NothingForgotten ==
    \A r \in answered :
        Waiting(r) \/ Handled(r) \/ executed[r] > 0 \/ r \in dead \union undone

\* In the end it is executed or on the dead-letter queue, with the same exception.
RequestsSettle ==
    \A r \in Request : r \in answered ~> executed[r] > 0 \/ r \in dead \union undone
=============================================================================
