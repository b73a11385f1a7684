------------------------- MODULE WalletQueueProofs --------------------------
(***************************************************************************)
(* Type correctness of WalletQueue; that a request is executed at most     *)
(* once while keys live and commits are answered; and that no request is   *)
(* forgotten while processes live and the dead-letter queue answers.       *)
(***************************************************************************)
EXTENDS WalletQueue, ConsumerGroupProofs

-----------------------------------------------------------------------------
(***************************************************************************)
(* Types.  A goroutine that is busy has a request in hand, and one that    *)
(* went past the check of its key has a request with a key.                *)
(***************************************************************************)
Busy(g) == pc[g] # "polling"

HasRequest == \A g \in Claims : Busy(g) => InHand(g)

Types == TypeOK /\ HasRequest

LEMMA RequestType ==
    ASSUME Types, NEW g \in Claims, Busy(g)
    PROVE  Current(g) \in Request
BY CurrentType DEF Types, TypeOK, HasRequest

LEMMA InitTypes == Init => Types
<1>. SUFFICES ASSUME Init PROVE Types
  OBVIOUS
<1>1. GroupType(Request)
  BY GroupInitType, QueueAssumption DEF Init, QueueAssumption
<1>2. /\ pc \in [Claims -> Steps]
      /\ executed \in [Request -> Nat] /\ returned \in [Request -> Nat]
      /\ old \in [Request -> Nat]
  BY DEF Init, Steps
<1>. QED BY <1>1, <1>2, QueueAssumption DEF Init, Types, TypeOK, HasRequest, Busy, QueueAssumption

LEMMA RouteType == ASSUME NEW r \in Request PROVE Route[r] \in Partition
BY QueueAssumption DEF QueueAssumption

LEMMA CommitType ==
    ASSUME Types, NEW g \in Claims, Commit(g)
    PROVE  executed' \in [Request -> Nat]
BY RequestType DEF Commit, Busy, Types, TypeOK

LEMMA PublishTypes ==
    ASSUME Types, NEW r \in Request, Publish(Route[r], r)
    PROVE  /\ GroupType(Request)'
           /\ \A g \in Claims : InHand(g) => InHand(g)' /\ Current(g)' = Current(g)
BY RouteType, PublishStep DEF Types, TypeOK

LEMMA ProcessTypes ==
    ASSUME Types, NEW g \in Claims, Process(g)
    PROVE  Types'
<1>. USE DEF Types, TypeOK, HasRequest, Busy, Steps, ledger, Goto
<1>1. CASE Fetch(g)
  BY <1>1, PollStep DEF Fetch
<1>2. CASE KeyMissing(g)
  BY <1>2, QuietGroup DEF KeyMissing
<1>3. CASE Lock(g)
  BY <1>3, RequestType, QuietGroup DEF Lock
<1>4. CASE Duplicate(g)
  BY <1>4, QuietGroup DEF Duplicate
<1>5. CASE ReturnKnown(g)
  BY <1>5, QuietGroup DEF ReturnKnown
<1>6. CASE Unknown(g)
  BY <1>6, QuietGroup DEF Unknown
<1>7. CASE Refuse(g)
  BY <1>7, QuietGroup DEF Refuse
<1>8. CASE EnqueueAgain(g)
  <2>1. Current(g) \in Request
    BY <1>8, RequestType DEF EnqueueAgain
  <2>2. returned' \in [Request -> Nat]
    BY <1>8, <2>1 DEF EnqueueAgain
  <2>. QED BY <1>8, <2>1, <2>2, PublishTypes DEF EnqueueAgain
<1>9. CASE Execute(g)
  BY <1>9, CommitType, QuietGroup DEF Execute, Commit
<1>10. CASE Release(g)
  BY <1>10, QuietGroup DEF Release
<1>11. CASE DeadLetter(g)
  BY <1>11, RequestType, QuietGroup DEF DeadLetter
<1>12. CASE Ack(g)
  BY <1>12, MarkStep DEF Ack
<1>13. CASE LeaveLoop(g)
  BY <1>13, EndStep DEF LeaveLoop
<1>14. CASE ContextCancelled(g)
  BY <1>14, QuietGroup DEF ContextCancelled
<1>15. CASE LockedLate(g)
  BY <1>15, RequestType, QuietGroup DEF LockedLate
<1>16. CASE CommittedLate(g)
  BY <1>16, CommitType, QuietGroup DEF CommittedLate, Commit
<1>. QED BY <1>1, <1>2, <1>3, <1>4, <1>5, <1>6, <1>7, <1>8, <1>9, <1>10, <1>11,
            <1>12, <1>13, <1>14, <1>15, <1>16 DEF Process

LEMMA FaultTypes ==
    ASSUME Types, NEW g \in Claims, Fault(g)
    PROVE  Types'
<1>. USE DEF Types, TypeOK, HasRequest, Busy, Steps, ledger, Goto, Strike
<1>1. CASE LockFails(g)
  BY <1>1, RequestType, QuietGroup DEF LockFails
<1>2. CASE ReleaseFails(g)
  BY <1>2, QuietGroup DEF ReleaseFails
<1>3. CASE EnqueueAgainFails(g)
  <2>1. Current(g) \in Request
    BY <1>3, RequestType DEF EnqueueAgainFails
  <2>2. CASE UNCHANGED group
    BY <1>3, <2>2, QuietGroup DEF EnqueueAgainFails
  <2>3. CASE Publish(Route[Current(g)], Current(g))
    BY <1>3, <2>1, <2>3, PublishTypes DEF EnqueueAgainFails
  <2>. QED BY <1>3, <2>2, <2>3 DEF EnqueueAgainFails
<1>4. CASE FailAfterCommit(g)
  <2>1. executed' \in [Request -> Nat]
    BY <1>4, CommitType DEF FailAfterCommit
  <2>. QED BY <1>4, <2>1, QuietGroup DEF FailAfterCommit, Commit
<1>5. CASE DeadLetterFails(g)
  BY <1>5, RequestType, QuietGroup DEF DeadLetterFails
<1>6. CASE Rebalance(g)
  <2>1. ~Busy(g)
    BY <1>6 DEF Rebalance, TakeOver, InHand
  <2>. QED BY <1>6, <2>1, AssignStep DEF Rebalance, TakeOver
<1>7. CASE Crash(g)
  BY <1>7, AssignStep DEF Crash, Restart
<1>8. CASE RolledBack(g)
  BY <1>8, RequestType, QuietGroup DEF RolledBack
<1>. QED BY <1>1, <1>2, <1>3, <1>4, <1>5, <1>6, <1>7, <1>8 DEF Fault

LEMMA NextTypes == Types /\ [Next]_vars => Types'
<1>. SUFFICES ASSUME Types, [Next]_vars PROVE Types'
  OBVIOUS
<1>. USE DEF Types, TypeOK, HasRequest, Busy, ledger
<1>1. ASSUME NEW r \in Request, CheckRequest(r) PROVE Types'
  BY <1>1, QuietGroup DEF CheckRequest
<1>2. ASSUME NEW r \in Request, Enqueue(r) PROVE Types'
  BY <1>2, PublishTypes DEF Enqueue
<1>3. ASSUME NEW r \in Request, EnqueueFails(r) PROVE Types'
  BY <1>3, PublishTypes, QuietGroup DEF EnqueueFails, Strike
<1>4. ASSUME NEW p \in Partition, CommitOffset(p) PROVE Types'
  BY <1>4, CommitStep DEF CommitOffset
<1>5. ASSUME NEW r \in locks, Expire(r) PROVE Types'
  BY <1>5, QuietGroup DEF Expire, Strike
<1>6. CASE UNCHANGED vars
  BY <1>6, QuietGroup DEF vars
<1>7. ASSUME NEW r \in Request, Age(r) PROVE Types'
  BY <1>7, QuietGroup DEF Age, Strike
<1>. QED BY <1>1, <1>2, <1>3, <1>4, <1>5, <1>6, <1>7, ProcessTypes, FaultTypes DEF Next, Drained

\* Every variable keeps its type, for any requests, partitions, workers and faults.
THEOREM TypeCorrect == Spec => []TypeOK
<1>1. Types => TypeOK
  BY DEF Types
<1>. QED BY <1>1, InitTypes, NextTypes, PTL DEF Spec

-----------------------------------------------------------------------------
(***************************************************************************)
(* At most once.  While no lock is forgotten and no error follows a        *)
(* commit, the lock of a request that was executed is never free again,    *)
(* and the goroutine that holds a lock holds it alone, for a request that  *)
(* has not been executed.                                                  *)
(***************************************************************************)
Reliable == FaultKinds \intersect {"aftercommit", "expiry"} = {}

Holds(g) == pc[g] \in {"locked", "checked", "releasing"}
Done(r)  == executed[r] + returned[r]

LockTaken == \A g \in Claims : Holds(g) => Current(g) \in locks
LockOwned == \A g, h \in Claims : Holds(g) /\ Holds(h) /\ Current(g) = Current(h) => g = h
DoneTaken == \A r \in Request : Done(r) > 0 => r \in locks
HeldFresh == \A g \in Claims : Holds(g) => Done(Current(g)) = 0
DoneOnce  == \A r \in Request : Done(r) <= 1

OnceInv == LockTaken /\ LockOwned /\ DoneTaken /\ HeldFresh /\ DoneOnce

\* A step that frees no lock, executes nothing and after which no goroutine holds a
\* lock that it did not hold before.
LEMMA QuietStep ==
    ASSUME OnceInv, locks \subseteq locks', UNCHANGED <<executed, returned>>,
           \A g \in Claims : Holds(g)' => Holds(g) /\ Current(g)' = Current(g)
    PROVE  OnceInv'
<1>. USE DEF OnceInv, Done
<1>1. LockTaken' /\ LockOwned'
  BY DEF LockTaken, LockOwned
<1>2. DoneTaken' /\ HeldFresh' /\ DoneOnce'
  BY DEF DoneTaken, HeldFresh, DoneOnce
<1>. QED BY <1>1, <1>2

\* SetIfNotExists: the lock was free, so the request has not been executed.
LEMMA LockOnce ==
    ASSUME Types, OnceInv, NEW g \in Claims, Lock(g)
    PROVE  OnceInv'
<1>. USE DEF OnceInv
<1>1. /\ \A h \in Claims : Current(h)' = Current(h) /\ (Holds(h)' <=> Holds(h) \/ h = g)
      /\ UNCHANGED <<executed, returned>>
  BY DEF Lock, Goto, ledger, group, Types, TypeOK, Current, Holds
<1>2. locks' = locks \union {Current(g)} /\ Current(g) \notin locks
  BY DEF Lock
<1>3. Current(g) \in Request /\ Done(Current(g)) \in Nat
  BY RequestType DEF Lock, Busy, Done, Types, TypeOK
<1>4. Done(Current(g)) = 0
  BY <1>2, <1>3 DEF DoneTaken
<1>5. LockTaken' /\ LockOwned'
  BY <1>1, <1>2 DEF LockTaken, LockOwned
<1>6. DoneTaken' /\ DoneOnce'
  BY <1>1, <1>2 DEF DoneTaken, DoneOnce, Done
<1>7. HeldFresh'
  BY <1>1, <1>4 DEF HeldFresh, Done
<1>. QED BY <1>5, <1>6, <1>7

\* The request of a goroutine that holds its lock is done, once, and the lock is
\* left behind.
LEMMA DoOnce ==
    ASSUME Types, OnceInv, NEW g \in Claims, Holds(g), ~Holds(g)',
           locks' = locks,
           \A r \in Request : Done(r)' = IF r = Current(g) THEN Done(r) + 1 ELSE Done(r),
           \A h \in Claims \ {g} : Holds(h)' => Holds(h) /\ Current(h)' = Current(h)
    PROVE  OnceInv'
<1>. USE DEF OnceInv
<1>1. Current(g) \in Request /\ Current(g) \in locks /\ Done(Current(g)) = 0
  BY RequestType DEF Holds, Busy, LockTaken, HeldFresh
<1>2. LockTaken' /\ LockOwned'
  BY DEF LockTaken, LockOwned
<1>3. DoneTaken' /\ DoneOnce'
  BY <1>1 DEF DoneTaken, DoneOnce
<1>4. ASSUME NEW h \in Claims, Holds(h)'
      PROVE  executed'[Current(h)'] + returned'[Current(h)'] = 0
  <2>1. h # g /\ Holds(h) /\ Current(h)' = Current(h)
    BY <1>4
  <2>2. Current(h) # Current(g) /\ Current(h) \in Request
    BY <2>1, RequestType DEF LockOwned, Holds, Busy
  <2>3. Done(Current(h)) = 0
    BY <2>1 DEF HeldFresh
  <2>. QED BY <2>1, <2>2, <2>3 DEF Done
<1>5. HeldFresh'
  BY <1>4 DEF HeldFresh, Done
<1>. QED BY <1>2, <1>3, <1>5

\* releaseIdempotency frees a lock that the goroutine held alone, of a request that
\* has not been executed.
LEMMA ReleaseOnce ==
    ASSUME Types, OnceInv, NEW g \in Claims, Release(g)
    PROVE  OnceInv'
<1>. USE DEF OnceInv
<1>1. /\ \A h \in Claims : Current(h)' = Current(h) /\ (Holds(h)' <=> Holds(h) /\ h # g)
      /\ UNCHANGED <<executed, returned>>
      /\ Holds(g)
      /\ locks' = locks \ {Current(g)}
  BY DEF Release, Goto, ledger, group, Types, TypeOK, Current, Holds
<1>2. LockTaken' /\ LockOwned'
  BY <1>1 DEF LockTaken, LockOwned
<1>3. DoneTaken' /\ HeldFresh' /\ DoneOnce'
  BY <1>1 DEF DoneTaken, HeldFresh, DoneOnce, Done
<1>. QED BY <1>2, <1>3

LEMMA CommitOnce ==
    ASSUME Types, OnceInv, NEW g \in Claims, Commit(g), NEW step \in {"acking", "nacking"},
           Goto(g, step), UNCHANGED <<group, locks, returned>>
    PROVE  OnceInv'
<1>1. Holds(g) /\ ~Holds(g)'
  BY DEF Commit, Goto, Holds, Types, TypeOK
<1>2. \A r \in Request : Done(r)' = IF r = Current(g) THEN Done(r) + 1 ELSE Done(r)
  BY DEF Commit, Done, Types, TypeOK
<1>3. \A h \in Claims \ {g} : Holds(h)' => Holds(h) /\ Current(h)' = Current(h)
  BY DEF Goto, group, Holds, Current, Types, TypeOK
<1>. QED BY <1>1, <1>2, <1>3, DoOnce

LEMMA AgainOnce ==
    ASSUME Types, OnceInv, NEW g \in Claims, EnqueueAgain(g)
    PROVE  OnceInv'
<1>0. Current(g) \in Request
  BY RequestType DEF EnqueueAgain, Busy
<1>1. Holds(g) /\ ~Holds(g)' /\ locks' = locks
  BY DEF EnqueueAgain, Goto, Holds, Types, TypeOK
<1>2. \A r \in Request : Done(r)' = IF r = Current(g) THEN Done(r) + 1 ELSE Done(r)
  BY DEF EnqueueAgain, Done, Types, TypeOK
<1>3. \A h \in Claims \ {g} : Holds(h)' => Holds(h)
  BY DEF EnqueueAgain, Goto, Holds, Types, TypeOK
<1>4. \A h \in Claims : Holds(h) => Current(h)' = Current(h)
  BY <1>0, PublishTypes DEF EnqueueAgain, Types, HasRequest, Holds, Busy
<1>. QED BY <1>1, <1>2, <1>3, <1>4, DoOnce

LEMMA ProcessOnce ==
    ASSUME Types, OnceInv, NEW g \in Claims, Process(g)
    PROVE  OnceInv'
<1>. USE DEF Types, TypeOK, Holds, Goto, ledger
<1>1. CASE Fetch(g)
  BY <1>1, PollStep, QuietStep DEF Fetch
<1>2. CASE KeyMissing(g)
  BY <1>2, QuietGroup, QuietStep DEF KeyMissing
<1>3. CASE Duplicate(g)
  BY <1>3, QuietGroup, QuietStep DEF Duplicate
<1>4. CASE ReturnKnown(g)
  BY <1>4, QuietGroup, QuietStep DEF ReturnKnown
<1>5. CASE Unknown(g)
  BY <1>5, QuietGroup, QuietStep DEF Unknown
<1>6. CASE Refuse(g)
  BY <1>6, QuietGroup, QuietStep DEF Refuse
<1>7. CASE Execute(g)
  BY <1>7, CommitOnce DEF Execute
<1>8. CASE DeadLetter(g)
  BY <1>8, QuietGroup, QuietStep DEF DeadLetter
<1>9. CASE Ack(g)
  BY <1>9, MarkStep, QuietStep DEF Ack
<1>10. CASE LeaveLoop(g)
  BY <1>10, EndStep, QuietStep DEF LeaveLoop
<1>11. CASE ContextCancelled(g)
  BY <1>11, QuietGroup, QuietStep DEF ContextCancelled
<1>12. CASE LockedLate(g)
  BY <1>12, QuietGroup, QuietStep DEF LockedLate
<1>13. CASE CommittedLate(g)
  BY <1>13, CommitOnce DEF CommittedLate
<1>. QED BY <1>1, <1>2, <1>3, <1>4, <1>5, <1>6, <1>7, <1>8, <1>9, <1>10, <1>11,
            <1>12, <1>13, LockOnce, AgainOnce, ReleaseOnce DEF Process

LEMMA FaultOnce ==
    ASSUME Reliable, Types, OnceInv, NEW g \in Claims, Fault(g)
    PROVE  OnceInv'
<1>. USE DEF Types, TypeOK, Holds, Goto, ledger
<1>1. CASE LockFails(g)
  BY <1>1, QuietGroup, QuietStep DEF LockFails
<1>2. CASE ReleaseFails(g)
  BY <1>2, QuietGroup, QuietStep DEF ReleaseFails
<1>3. CASE EnqueueAgainFails(g)
  <2>0. Current(g) \in Request
    BY <1>3, RequestType DEF EnqueueAgainFails, Busy
  <2>1. \A h \in Claims : Holds(h) => Current(h)' = Current(h)
    <3>1. CASE UNCHANGED group
      BY <3>1, QuietGroup
    <3>2. CASE Publish(Route[Current(g)], Current(g))
      BY <2>0, <3>2, PublishTypes DEF HasRequest, Busy
    <3>. QED BY <1>3, <3>1, <3>2 DEF EnqueueAgainFails
  <2>2. \A h \in Claims : Holds(h)' => Holds(h)
    BY <1>3 DEF EnqueueAgainFails
  <2>. QED BY <1>3, <2>1, <2>2, QuietStep DEF EnqueueAgainFails
<1>4. ~FailAfterCommit(g)
  BY DEF Reliable, FailAfterCommit, Strike
<1>5. CASE DeadLetterFails(g)
  BY <1>5, QuietGroup, QuietStep DEF DeadLetterFails
<1>6. CASE Rebalance(g)
  <2>1. ~Busy(g)
    BY <1>6 DEF Rebalance, TakeOver, HasRequest, InHand
  <2>. QED BY <1>6, <2>1, AssignStep, QuietStep DEF Rebalance, TakeOver, Busy
<1>7. CASE Crash(g)
  BY <1>7, AssignStep, QuietStep DEF Crash, Restart
<1>8. CASE RolledBack(g)
  BY <1>8, QuietGroup, QuietStep DEF RolledBack
<1>. QED BY <1>1, <1>2, <1>3, <1>4, <1>5, <1>6, <1>7, <1>8 DEF Fault

LEMMA NextOnce == Reliable /\ Types /\ OnceInv /\ [Next]_vars => OnceInv'
<1>. SUFFICES ASSUME Reliable, Types, OnceInv, [Next]_vars PROVE OnceInv'
  OBVIOUS
<1>. USE DEF Holds, ledger
<1>0. ASSUME NEW r \in Request, Publish(Route[r], r),
             UNCHANGED <<locks, pc, executed, returned>>
      PROVE  OnceInv'
  BY <1>0, PublishTypes, QuietStep DEF Types, HasRequest, Busy
<1>q. ASSUME UNCHANGED <<group, locks, pc, executed, returned>> PROVE OnceInv'
  BY <1>q, QuietGroup, QuietStep DEF Types, TypeOK
<1>1. ASSUME NEW r \in Request, CheckRequest(r) PROVE OnceInv'
  BY <1>1, <1>q DEF CheckRequest
<1>2. ASSUME NEW r \in Request, Enqueue(r) PROVE OnceInv'
  BY <1>2, <1>0 DEF Enqueue
<1>3. ASSUME NEW r \in Request, EnqueueFails(r) PROVE OnceInv'
  BY <1>3, <1>0, <1>q DEF EnqueueFails
<1>4. ASSUME NEW p \in Partition, CommitOffset(p) PROVE OnceInv'
  BY <1>4, CommitStep, QuietStep DEF CommitOffset, Types, TypeOK
<1>5. ASSUME NEW r \in locks PROVE ~Expire(r)
  BY DEF Reliable, Expire, Strike
<1>6. CASE UNCHANGED vars
  BY <1>6, <1>q DEF vars
<1>7. ASSUME NEW r \in Request, Age(r) PROVE OnceInv'
  BY <1>7, <1>q DEF Age
<1>. QED BY <1>1, <1>2, <1>3, <1>4, <1>5, <1>6, <1>7, ProcessOnce, FaultOnce DEF Next, Drained

LEMMA OnceInvariant == ASSUME Reliable PROVE Spec => [](Types /\ OnceInv)
<1>1. Init => OnceInv
  BY DEF Init, OnceInv, LockTaken, LockOwned, DoneTaken, HeldFresh, DoneOnce, Done, Holds
<1>. QED BY <1>1, InitTypes, NextTypes, NextOnce, PTL DEF Spec

\* A request is executed at most once, for any requests, partitions, workers, crashes,
\* rebalances, timeouts and failures of Redis, the broker and the dead-letter queue,
\* while keys live and no error follows a commit.
THEOREM ExecutedAtMostOnce == ASSUME Reliable PROVE Spec => []ExecutedOnce
<1>1. Types /\ OnceInv => ExecutedOnce
  BY DEF Types, TypeOK, OnceInv, DoneOnce, Done, ExecutedOnce
<1>. QED BY <1>1, OnceInvariant, PTL

\* Under the same assumptions the consumer puts a request back at most once.
THEOREM ReturnedAtMostOnce == ASSUME Reliable PROVE Spec => []ReturnedOnce
<1>1. Types /\ OnceInv => ReturnedOnce
  BY DEF Types, TypeOK, OnceInv, DoneOnce, Done, ReturnedOnce
<1>. QED BY <1>1, OnceInvariant, PTL

-----------------------------------------------------------------------------
(***************************************************************************)
(* At most once, with the lookup.  An error after the commit gives the     *)
(* lock of an executed request back, and so does time; but a goroutine     *)
(* that has found its reference number free still holds the lock alone,    *)
(* and nobody has executed the request since.                              *)
(***************************************************************************)
CheckedFresh ==
    \A g \in Claims : pc[g] = "checked" => executed[Current(g)] = old[Current(g)]
OldExecuted == \A r \in Request : old[r] <= executed[r]

LookupInv == LockTaken /\ LockOwned /\ CheckedFresh /\ OldExecuted /\ ExecutedOnce

\* A step that frees no lock, executes nothing and after which no goroutine holds a
\* lock, or has looked its request up, that had not before.
LEMMA LookupQuiet ==
    ASSUME LookupInv, locks \subseteq locks', UNCHANGED <<executed, old>>,
           \A g \in Claims : Holds(g)' => Holds(g) /\ Current(g)' = Current(g),
           \A g \in Claims : pc'[g] = "checked" => pc[g] = "checked"
    PROVE  LookupInv'
<1>. USE DEF LookupInv
<1>1. LockTaken' /\ LockOwned'
  BY DEF LockTaken, LockOwned
<1>2. CheckedFresh' /\ OldExecuted' /\ ExecutedOnce'
  BY DEF CheckedFresh, OldExecuted, ExecutedOnce, Holds
<1>. QED BY <1>1, <1>2

LEMMA LookupLock ==
    ASSUME Types, LookupInv, NEW g \in Claims, Lock(g)
    PROVE  LookupInv'
<1>. USE DEF LookupInv
<1>1. /\ \A h \in Claims : Current(h)' = Current(h) /\ (Holds(h)' <=> Holds(h) \/ h = g)
      /\ \A h \in Claims : pc'[h] = "checked" => pc[h] = "checked"
      /\ UNCHANGED <<executed, old>>
  BY DEF Lock, Goto, ledger, group, Types, TypeOK, Current, Holds
<1>2. locks' = locks \union {Current(g)} /\ Current(g) \notin locks
  BY DEF Lock
<1>3. LockTaken' /\ LockOwned'
  BY <1>1, <1>2 DEF LockTaken, LockOwned
<1>4. CheckedFresh' /\ OldExecuted' /\ ExecutedOnce'
  BY <1>1 DEF CheckedFresh, OldExecuted, ExecutedOnce
<1>. QED BY <1>3, <1>4

\* CheckTransactionTypeAndReferenceNumber finds no earlier transaction.
LEMMA LookupUnknown ==
    ASSUME CheckReference, Types, LookupInv, NEW g \in Claims, Unknown(g)
    PROVE  LookupInv'
<1>. USE DEF LookupInv
<1>1. /\ \A h \in Claims : Current(h)' = Current(h) /\ (Holds(h)' <=> Holds(h))
      /\ \A h \in Claims : pc'[h] = "checked" => pc[h] = "checked" \/ h = g
      /\ UNCHANGED <<executed, old, locks>>
  BY DEF Unknown, Goto, ledger, group, Types, TypeOK, Current, Holds
<1>2. executed[Current(g)] = old[Current(g)]
  <2>1. /\ Current(g) \in Request
        /\ executed[Current(g)] \in Nat /\ old[Current(g)] \in Nat
    BY RequestType DEF Unknown, Busy, Types, TypeOK
  <2>2. ~(executed[Current(g)] > old[Current(g)])
    BY DEF Unknown, Known
  <2>. QED BY <2>1, <2>2 DEF OldExecuted
<1>3. LockTaken' /\ LockOwned'
  BY <1>1 DEF LockTaken, LockOwned
<1>4. CheckedFresh' /\ OldExecuted' /\ ExecutedOnce'
  BY <1>1, <1>2 DEF CheckedFresh, OldExecuted, ExecutedOnce
<1>. QED BY <1>3, <1>4

LEMMA LookupRelease ==
    ASSUME Types, LookupInv, NEW g \in Claims, Release(g)
    PROVE  LookupInv'
<1>. USE DEF LookupInv
<1>1. /\ \A h \in Claims : Current(h)' = Current(h) /\ (Holds(h)' <=> Holds(h) /\ h # g)
      /\ \A h \in Claims : pc'[h] = "checked" => pc[h] = "checked"
      /\ UNCHANGED <<executed, old>>
      /\ Holds(g)
      /\ locks' = locks \ {Current(g)}
  BY DEF Release, Goto, ledger, group, Types, TypeOK, Current, Holds
<1>2. LockTaken' /\ LockOwned'
  BY <1>1 DEF LockTaken, LockOwned
<1>3. CheckedFresh' /\ OldExecuted' /\ ExecutedOnce'
  BY <1>1 DEF CheckedFresh, OldExecuted, ExecutedOnce
<1>. QED BY <1>2, <1>3

\* Who commits held the lock alone, so no other goroutine has looked the request up.
LEMMA LookupCommit ==
    ASSUME Types, LookupInv, NEW g \in Claims, Commit(g),
           NEW step \in {"acking", "nacking", "releasing"}, Goto(g, step),
           UNCHANGED <<group, locks>>
    PROVE  LookupInv'
<1>. USE DEF LookupInv
<1>1. /\ \A h \in Claims : Current(h)' = Current(h) /\ (Holds(h)' => Holds(h))
      /\ \A h \in Claims : pc'[h] = "checked" => pc[h] = "checked" /\ h # g
      /\ Holds(g) /\ pc[g] = "checked"
  BY DEF Commit, Goto, group, Types, TypeOK, Current, Holds
<1>2. Current(g) \in Request /\ executed[Current(g)] = old[Current(g)]
  BY <1>1, RequestType DEF CheckedFresh, Busy
<1>3. /\ \A r \in Request : executed'[r] = IF r = Current(g) THEN old[r] + 1 ELSE executed[r]
      /\ old' = old /\ old \in [Request -> Nat]
  BY <1>2 DEF Commit, Types, TypeOK
<1>4. LockTaken' /\ LockOwned'
  BY <1>1 DEF LockTaken, LockOwned
<1>5. CheckedFresh'
  <2>. SUFFICES ASSUME NEW h \in Claims, pc'[h] = "checked"
                PROVE  executed'[Current(h)'] = old'[Current(h)']
    BY DEF CheckedFresh
  <2>1. Current(h)' = Current(h) /\ pc[h] = "checked" /\ h # g
    BY <1>1
  <2>2. Current(h) # Current(g) /\ Current(h) \in Request
    BY <1>1, <2>1, RequestType DEF LockOwned, Holds, Busy
  <2>. QED BY <1>3, <2>1, <2>2 DEF CheckedFresh
<1>6. OldExecuted' /\ ExecutedOnce'
  BY <1>3 DEF OldExecuted, ExecutedOnce
<1>. QED BY <1>4, <1>5, <1>6

LEMMA LookupProcess ==
    ASSUME CheckReference, Types, LookupInv, NEW g \in Claims, Process(g)
    PROVE  LookupInv'
<1>. USE DEF Types, TypeOK, Holds, Goto, ledger
<1>1. CASE Fetch(g)
  BY <1>1, PollStep, LookupQuiet DEF Fetch
<1>2. CASE KeyMissing(g)
  BY <1>2, QuietGroup, LookupQuiet DEF KeyMissing
<1>3. CASE Duplicate(g)
  BY <1>3, QuietGroup, LookupQuiet DEF Duplicate
<1>4. CASE ReturnKnown(g)
  BY <1>4, QuietGroup, LookupQuiet DEF ReturnKnown
<1>5. CASE Refuse(g)
  BY <1>5, QuietGroup, LookupQuiet DEF Refuse
<1>6. CASE EnqueueAgain(g)
  <2>1. Current(g) \in Request
    BY <1>6, RequestType DEF EnqueueAgain, Busy
  <2>2. \A h \in Claims : Holds(h) => Current(h)' = Current(h)
    BY <1>6, <2>1, PublishTypes DEF EnqueueAgain, HasRequest, Busy
  <2>3. /\ \A h \in Claims : Holds(h)' => Holds(h)
        /\ \A h \in Claims : pc'[h] = "checked" => pc[h] = "checked"
    BY <1>6 DEF EnqueueAgain
  <2>. QED BY <1>6, <2>2, <2>3, LookupQuiet DEF EnqueueAgain
<1>7. CASE Execute(g)
  BY <1>7, LookupCommit DEF Execute
<1>8. CASE DeadLetter(g)
  BY <1>8, QuietGroup, LookupQuiet DEF DeadLetter
<1>9. CASE Ack(g)
  BY <1>9, MarkStep, LookupQuiet DEF Ack
<1>10. CASE LeaveLoop(g)
  BY <1>10, EndStep, LookupQuiet DEF LeaveLoop
<1>11. CASE ContextCancelled(g)
  BY <1>11, QuietGroup, LookupQuiet DEF ContextCancelled
<1>12. CASE LockedLate(g)
  BY <1>12, QuietGroup, LookupQuiet DEF LockedLate
<1>13. CASE CommittedLate(g)
  BY <1>13, LookupCommit DEF CommittedLate
<1>. QED BY <1>1, <1>2, <1>3, <1>4, <1>5, <1>6, <1>7, <1>8, <1>9, <1>10, <1>11, <1>12,
            <1>13, LookupLock, LookupUnknown, LookupRelease DEF Process

LEMMA LookupFault ==
    ASSUME Types, LookupInv, NEW g \in Claims, Fault(g)
    PROVE  LookupInv'
<1>. USE DEF Types, TypeOK, Holds, Goto, ledger
<1>1. CASE LockFails(g)
  BY <1>1, QuietGroup, LookupQuiet DEF LockFails
<1>2. CASE ReleaseFails(g)
  BY <1>2, QuietGroup, LookupQuiet DEF ReleaseFails
<1>3. CASE EnqueueAgainFails(g)
  <2>0. Current(g) \in Request
    BY <1>3, RequestType DEF EnqueueAgainFails, Busy
  <2>1. \A h \in Claims : Holds(h) => Current(h)' = Current(h)
    <3>1. CASE UNCHANGED group
      BY <3>1, QuietGroup
    <3>2. CASE Publish(Route[Current(g)], Current(g))
      BY <2>0, <3>2, PublishTypes DEF HasRequest, Busy
    <3>. QED BY <1>3, <3>1, <3>2 DEF EnqueueAgainFails
  <2>2. /\ \A h \in Claims : Holds(h)' => Holds(h)
        /\ \A h \in Claims : pc'[h] = "checked" => pc[h] = "checked"
    BY <1>3 DEF EnqueueAgainFails
  <2>. QED BY <1>3, <2>1, <2>2, LookupQuiet DEF EnqueueAgainFails
<1>4. CASE FailAfterCommit(g)
  BY <1>4, LookupCommit DEF FailAfterCommit
<1>5. CASE DeadLetterFails(g)
  BY <1>5, QuietGroup, LookupQuiet DEF DeadLetterFails
<1>6. CASE Rebalance(g)
  <2>1. ~Busy(g)
    BY <1>6 DEF Rebalance, TakeOver, HasRequest, InHand
  <2>. QED BY <1>6, <2>1, AssignStep, LookupQuiet DEF Rebalance, TakeOver, Busy
<1>7. CASE Crash(g)
  BY <1>7, AssignStep, LookupQuiet DEF Crash, Restart
<1>8. CASE RolledBack(g)
  BY <1>8, QuietGroup, LookupQuiet DEF RolledBack
<1>. QED BY <1>1, <1>2, <1>3, <1>4, <1>5, <1>6, <1>7, <1>8 DEF Fault

LEMMA NextLookup == CheckReference /\ Types /\ LookupInv /\ [Next]_vars => LookupInv'
<1>. SUFFICES ASSUME CheckReference, Types, LookupInv, [Next]_vars PROVE LookupInv'
  OBVIOUS
<1>. USE DEF Holds, ledger
<1>0. ASSUME NEW r \in Request, Publish(Route[r], r), UNCHANGED <<locks, pc, executed, old>>
      PROVE  LookupInv'
  BY <1>0, PublishTypes, LookupQuiet DEF Types, HasRequest, Busy
<1>q. ASSUME UNCHANGED <<group, locks, pc, executed, old>> PROVE LookupInv'
  BY <1>q, QuietGroup, LookupQuiet DEF Types, TypeOK
<1>1. ASSUME NEW r \in Request, CheckRequest(r) PROVE LookupInv'
  BY <1>1, <1>q DEF CheckRequest
<1>2. ASSUME NEW r \in Request, Enqueue(r) PROVE LookupInv'
  BY <1>2, <1>0 DEF Enqueue
<1>3. ASSUME NEW r \in Request, EnqueueFails(r) PROVE LookupInv'
  BY <1>3, <1>0, <1>q DEF EnqueueFails
<1>4. ASSUME NEW p \in Partition, CommitOffset(p) PROVE LookupInv'
  BY <1>4, CommitStep, LookupQuiet DEF CommitOffset, Types, TypeOK
<1>5. ASSUME NEW r \in locks, Expire(r) PROVE LookupInv'
  <2>1. /\ \A h \in Claims : Current(h)' = Current(h) /\ (Holds(h)' <=> Holds(h))
        /\ UNCHANGED <<executed, old, pc>>
        /\ locks' = locks \ {r}
    BY <1>5 DEF Expire, group, Current
  <2>2. \A h \in Claims : Holds(h) => Current(h) # r
    BY <1>5 DEF Expire, Handled, Handles
  <2>3. LockTaken' /\ LockOwned'
    BY <2>1, <2>2 DEF LookupInv, LockTaken, LockOwned
  <2>4. CheckedFresh' /\ OldExecuted' /\ ExecutedOnce'
    BY <2>1 DEF LookupInv, CheckedFresh, OldExecuted, ExecutedOnce
  <2>. QED BY <2>3, <2>4 DEF LookupInv
<1>6. CASE UNCHANGED vars
  BY <1>6, <1>q DEF vars
<1>7. ASSUME NEW r \in Request, Age(r) PROVE LookupInv'
  <2>1. /\ \A h \in Claims : Current(h)' = Current(h) /\ (Holds(h)' <=> Holds(h))
        /\ UNCHANGED <<executed, pc, locks>>
        /\ \A q \in Request : old'[q] = IF q = r THEN executed[q] ELSE old[q]
    BY <1>7 DEF Age, group, Current, Types, TypeOK
  <2>2. \A h \in Claims : pc[h] = "checked" => Current(h) \in Request
    BY RequestType DEF Busy
  <2>3. LockTaken' /\ LockOwned'
    BY <2>1 DEF LookupInv, LockTaken, LockOwned
  <2>4. CheckedFresh'
    BY <2>1, <2>2 DEF LookupInv, CheckedFresh
  <2>5. OldExecuted' /\ ExecutedOnce'
    BY <2>1 DEF LookupInv, OldExecuted, ExecutedOnce, Types, TypeOK
  <2>. QED BY <2>3, <2>4, <2>5 DEF LookupInv
<1>. QED BY <1>1, <1>2, <1>3, <1>4, <1>5, <1>6, <1>7, LookupProcess, LookupFault DEF Next, Drained

\* When the reference number is looked up under the lock, a request is executed at most
\* once in the thirty days that the lookup goes back, whatever fails: crashes, timeouts,
\* expired keys and errors after the commit included.
THEOREM ExecutedOnceByLookup == ASSUME CheckReference PROVE Spec => []ExecutedOnce
<1>1. Init => LookupInv
  BY DEF Init, LookupInv, LockTaken, LockOwned, CheckedFresh, OldExecuted, ExecutedOnce, Holds
<1>2. LookupInv => ExecutedOnce
  BY DEF LookupInv
<1>3. CheckReference /\ Types /\ LookupInv /\ [Next]_vars => (Types /\ LookupInv)'
  BY NextTypes, NextLookup
<1>. QED BY <1>1, <1>2, <1>3, InitTypes, PTL DEF Spec

-----------------------------------------------------------------------------
(***************************************************************************)
(* Nothing forgotten.  Once a request is in the hands of a goroutine, was  *)
(* executed or sent to the dead-letter queue, it is one of these for good. *)
(* So is every request whose key is locked, and every request on the topic *)
(* that is committed, marked or behind the owner of its partition.         *)
(***************************************************************************)
Lossless == Relisted = {} /\ FaultKinds \intersect {"crash", "dlq"} = {}

Covered == {r \in Request : executed[r] > 0 \/ r \in dead \union undone \/ Handled(r)}

CoveredTo(p, n) == \A i \in 1..Len(topic[p]) : i < n => topic[p][i] \in Covered

LocksCovered == locks \subseteq Covered
Behind(g) == IF pc[g] = "fetched" THEN next[g] - 1 ELSE next[g]
OwnersCovered == \A g \in Claims : IsOwner(g) => CoveredTo(PartitionOf(g), Behind(g))
MarksCovered == \A p \in Partition : CoveredTo(p, committed[p]) /\ CoveredTo(p, marked[p])
WithinTopic ==
    /\ \A p \in Partition : committed[p] <= Len(topic[p]) + 1 /\ marked[p] <= Len(topic[p]) + 1
    /\ \A g \in Claims : next[g] <= Len(topic[PartitionOf(g)]) + 1
AnsweredOnTopic ==
    \A r \in answered : \E p \in Partition : \E i \in 1..Len(topic[p]) : topic[p][i] = r

Offsets == OwnersCovered /\ MarksCovered /\ WithinTopic
KeptInv == LocksCovered /\ AnsweredOnTopic /\ Offsets

LEMMA TopicType ==
    ASSUME Types, NEW p \in Partition
    PROVE  topic[p] \in Seq(Request) /\ Len(topic[p]) \in Nat
BY DEF Types, TypeOK, GroupType

\* What a goroutine handles after a step is covered then.
LEMMA HandledCovered ==
    ASSUME NEW g \in Claims, Current(g) \in Request, Current(g)' = Current(g),
           pc'[g] \in {"locked", "checked", "releasing", "nacking"}
    PROVE  Current(g) \in Covered'
BY DEF Covered, Handled, Handles

\* The goroutines other than g keep what they handle; what g handled is still in its
\* hands, or was executed or sent to the dead-letter queue.
LEMMA CoverKept ==
    ASSUME Types, NEW g \in Claims,
           \A r \in Request : executed[r] > 0 => executed'[r] > 0,
           dead \subseteq dead', undone \subseteq undone',
           \A h \in Claims \ {g} : Busy(h) => pc'[h] = pc[h] /\ Current(h)' = Current(h),
           pc[g] \in {"locked", "checked", "releasing", "nacking"} =>
               \/ executed'[Current(g)] > 0
               \/ Current(g) \in dead' \union undone'
               \/ /\ pc'[g] \in {"locked", "checked", "releasing", "nacking"}
                  /\ Current(g)' = Current(g)
    PROVE  Covered \subseteq Covered'
<1>. SUFFICES ASSUME NEW r \in Covered PROVE r \in Covered'
  OBVIOUS
<1>1. r \in Request
  BY DEF Covered
<1>2. CASE executed[r] > 0 \/ r \in dead \union undone
  BY <1>1, <1>2 DEF Covered
<1>3. CASE Handled(r)
  <2>1. PICK h \in Claims : Handles(h, r)
    BY <1>3 DEF Handled
  <2>2. CASE h = g
    BY <1>1, <2>1, <2>2 DEF Covered, Handled, Handles
  <2>3. CASE h # g
    <3>1. pc'[h] = pc[h] /\ Current(h)' = Current(h)
      BY <2>1, <2>3 DEF Handles, Busy
    <3>. QED BY <1>1, <2>1, <3>1 DEF Covered, Handled, Handles
  <2>. QED BY <2>2, <2>3
<1>. QED BY <1>2, <1>3 DEF Covered

-----------------------------------------------------------------------------
(***************************************************************************)
(* Offsets, for each step of the group.                                    *)
(***************************************************************************)
\* A goroutine that has a request in hand and moves on has it covered.
LEMMA OffsetsQuiet ==
    ASSUME Types, Offsets, Covered \subseteq Covered', UNCHANGED group,
           NEW g \in Claims,
           \A h \in Claims \ {g} : pc'[h] = pc[h],
           pc[g] = "fetched" => Current(g) \in Covered',
           pc'[g] # "fetched"
    PROVE  Offsets'
<1>. USE DEF group, Offsets
<1>1. WithinTopic'
  BY DEF WithinTopic
<1>2. MarksCovered'
  BY DEF MarksCovered, CoveredTo
<1>3. ASSUME NEW h \in Claims, IsOwner(h)' PROVE CoveredTo(PartitionOf(h), Behind(h))'
  <2>1. IsOwner(h)
    BY <1>3 DEF IsOwner
  <2>2. CASE h # g
    BY <2>1, <2>2 DEF OwnersCovered, CoveredTo, Behind
  <2>3. CASE h = g /\ pc[g] # "fetched"
    BY <2>1, <2>3 DEF OwnersCovered, CoveredTo, Behind
  <2>4. CASE h = g /\ pc[g] = "fetched"
    <3>1. next[g] \in Nat /\ Len(topic[PartitionOf(g)]) \in Nat
      BY TopicType, ClaimParts DEF Types, TypeOK, GroupType
    <3>2. ASSUME NEW i \in 1..Len(topic[PartitionOf(g)]), i < next[g]
          PROVE  topic[PartitionOf(g)][i] \in Covered'
      <4>1. CASE i < next[g] - 1
        BY <2>1, <2>4, <4>1 DEF OwnersCovered, CoveredTo, Behind
      <4>2. CASE i = next[g] - 1
        BY <2>4, <4>2 DEF Current
      <4>. QED BY <3>1, <3>2, <4>1, <4>2
    <3>. QED BY <2>4, <3>2 DEF CoveredTo, Behind
  <2>. QED BY <2>2, <2>3, <2>4
<1>. QED BY <1>1, <1>2, <1>3 DEF OwnersCovered

LEMMA OffsetsPoll ==
    ASSUME Types, Offsets, Covered \subseteq Covered', NEW g \in Claims, Fetch(g)
    PROVE  Offsets'
<1>. USE DEF Offsets
<1>0. /\ next' = [next EXCEPT ![g] = next[g] + 1] /\ next \in [Claims -> Nat \ {0}]
      /\ next[g] <= Len(topic[PartitionOf(g)])
      /\ UNCHANGED <<topic, owner, committed, marked>>
      /\ pc' = [pc EXCEPT ![g] = "fetched"] /\ pc \in [Claims -> Steps]
      /\ pc[g] = "polling"
  BY DEF Fetch, Poll, Goto, Types, TypeOK, GroupType
<1>1. WithinTopic'
  <2>1. Len(topic[PartitionOf(g)]) \in Nat
    BY TopicType, ClaimParts
  <2>. QED BY <1>0, <2>1 DEF WithinTopic
<1>2. MarksCovered'
  BY <1>0 DEF MarksCovered, CoveredTo
<1>3. OwnersCovered'
  <2>1. \A h \in Claims : Behind(h)' = Behind(h)
    BY <1>0 DEF Behind
  <2>. QED BY <1>0, <2>1 DEF OwnersCovered, CoveredTo, IsOwner
<1>. QED BY <1>1, <1>2, <1>3

LEMMA OffsetsMark ==
    ASSUME Types, Offsets, Covered \subseteq Covered', NEW g \in Claims, Ack(g)
    PROVE  Offsets'
<1>. USE DEF Offsets
<1>0. /\ UNCHANGED <<topic, owner, committed, next>>
      /\ marked' = IF IsOwner(g) THEN [marked EXCEPT ![PartitionOf(g)] = next[g]] ELSE marked
      /\ marked \in [Partition -> Nat \ {0}]
      /\ pc[g] = "acking" /\ pc' = [pc EXCEPT ![g] = "polling"] /\ pc \in [Claims -> Steps]
  BY DEF Ack, Mark, Goto, Types, TypeOK, GroupType
<1>1. ASSUME NEW p \in Partition
      PROVE  \/ marked'[p] = marked[p]
             \/ IsOwner(g) /\ p = PartitionOf(g) /\ marked'[p] = next[g]
  BY <1>0
<1>2. WithinTopic'
  BY <1>0, <1>1 DEF WithinTopic
<1>3. \A h \in Claims : Behind(h)' = Behind(h)
  BY <1>0 DEF Behind
<1>4. Behind(g) = next[g]
  BY <1>0 DEF Behind
<1>5. OwnersCovered'
  BY <1>0, <1>3 DEF OwnersCovered, CoveredTo, IsOwner
<1>6. MarksCovered'
  BY <1>0, <1>1, <1>4 DEF MarksCovered, OwnersCovered, CoveredTo
<1>. QED BY <1>2, <1>5, <1>6

LEMMA OffsetsCommit ==
    ASSUME Types, Offsets, Covered \subseteq Covered', UNCHANGED pc,
           NEW p \in Partition, CommitMarked(p)
    PROVE  Offsets'
<1>. USE DEF Offsets, CommitMarked
<1>1. committed' = [committed EXCEPT ![p] = marked[p]] /\ committed \in [Partition -> Nat \ {0}]
  BY DEF Types, TypeOK, GroupType
<1>2. WithinTopic'
  BY <1>1 DEF WithinTopic
<1>3. MarksCovered'
  BY <1>1 DEF MarksCovered, CoveredTo
<1>4. OwnersCovered'
  BY DEF OwnersCovered, CoveredTo, IsOwner, Behind
<1>. QED BY <1>2, <1>3, <1>4

LEMMA OffsetsEnd ==
    ASSUME Types, Offsets, Covered \subseteq Covered', UNCHANGED pc,
           NEW g \in Claims, EndClaim(g)
    PROVE  Offsets'
BY DEF EndClaim, Offsets, WithinTopic, MarksCovered, OwnersCovered, CoveredTo, IsOwner, Behind

\* A worker that takes a partition over starts where all before is covered.
LEMMA OffsetsAssign ==
    ASSUME Types, Offsets, Covered \subseteq Covered', UNCHANGED pc,
           NEW g \in Claims, Assign(g), ~Busy(g)
    PROVE  Offsets'
<1>. USE DEF Offsets
<1>. DEFINE q == PartitionOf(g)
<1>0. /\ UNCHANGED <<topic, committed, pc>>
      /\ owner' = [owner EXCEPT ![q] = WorkerOf(g)] /\ owner \in [Partition -> Worker]
      /\ marked' = [marked EXCEPT ![q] = committed[q]] /\ marked \in [Partition -> Nat \ {0}]
      /\ next' = [next EXCEPT ![g] = committed[q]] /\ next \in [Claims -> Nat \ {0}]
      /\ q \in Partition
  BY ClaimParts DEF Assign, Types, TypeOK, GroupType
<1>1. WithinTopic'
  BY <1>0 DEF WithinTopic
<1>2. MarksCovered'
  BY <1>0 DEF MarksCovered, CoveredTo
<1>3. ASSUME NEW h \in Claims, IsOwner(h)' PROVE CoveredTo(PartitionOf(h), Behind(h))'
  <2>1. CASE h = g
    <3>1. Behind(g)' = committed[q]
      BY <1>0 DEF Behind, Busy
    <3>. QED BY <1>0, <2>1, <3>1 DEF MarksCovered, CoveredTo
  <2>2. CASE h # g /\ PartitionOf(h) = q
    <3>1. WorkerOf(h) # WorkerOf(g)
      BY <2>2 DEF Claims, WorkerOf, PartitionOf
    <3>2. owner'[q] = WorkerOf(g)
      BY <1>0
    <3>. QED BY <1>3, <2>2, <3>1, <3>2 DEF IsOwner
  <2>3. CASE PartitionOf(h) # q
    <3>1. IsOwner(h) /\ Behind(h)' = Behind(h)
      BY <1>0, <1>3, <2>3, ClaimParts DEF IsOwner, Behind
    <3>. QED BY <1>0, <3>1 DEF OwnersCovered, CoveredTo
  <2>. QED BY <2>1, <2>2, <2>3
<1>. QED BY <1>1, <1>2, <1>3 DEF OwnersCovered

\* A request is put behind everything that must be covered.
LEMMA OffsetsPublish ==
    ASSUME Types, Offsets, Covered \subseteq Covered', UNCHANGED pc,
           NEW p \in Partition, NEW r \in Request, Publish(p, r)
    PROVE  Offsets'
<1>. USE DEF Offsets
<1>0. UNCHANGED <<owner, committed, marked, running, next, pc>>
  BY DEF Publish
<1>1. ASSUME NEW q \in Partition
      PROVE  /\ Len(topic[q]) \in Nat /\ Len(topic'[q]) \in Nat
             /\ Len(topic[q]) <= Len(topic'[q])
             /\ \A i \in 1..Len(topic[q]) : topic'[q][i] = topic[q][i]
  <2>1. topic[q] \in Seq(Request) /\ Len(topic[q]) \in Nat
    BY TopicType
  <2>2. topic'[q] = IF q = p THEN Append(topic[q], r) ELSE topic[q]
    BY DEF Publish, Types, TypeOK, GroupType
  <2>. QED BY <2>1, <2>2
<1>2. /\ \A q \in Partition : committed[q] \in Nat /\ marked[q] \in Nat
      /\ \A g \in Claims : next[g] \in Nat
  BY DEF Types, TypeOK, GroupType
<1>3. WithinTopic'
  <2>1. \A q \in Partition : committed'[q] <= Len(topic'[q]) + 1 /\ marked'[q] <= Len(topic'[q]) + 1
    BY <1>0, <1>1, <1>2 DEF WithinTopic
  <2>2. ASSUME NEW g \in Claims PROVE next'[g] <= Len(topic'[PartitionOf(g)]) + 1
    <3>1. PartitionOf(g) \in Partition /\ next[g] <= Len(topic[PartitionOf(g)]) + 1
      BY ClaimParts DEF WithinTopic
    <3>. QED BY <1>0, <1>1, <1>2, <3>1
  <2>. QED BY <2>1, <2>2 DEF WithinTopic
<1>4. ASSUME NEW q \in Partition, NEW n \in Int, n <= Len(topic[q]) + 1, CoveredTo(q, n)
      PROVE  \A i \in 1..Len(topic'[q]) : i < n => topic'[q][i] \in Covered'
  BY <1>1, <1>4 DEF CoveredTo
<1>5. MarksCovered'
  <2>. SUFFICES ASSUME NEW q \in Partition
                PROVE  CoveredTo(q, committed[q])' /\ CoveredTo(q, marked[q])'
    BY DEF MarksCovered
  <2>1. committed[q] <= Len(topic[q]) + 1 /\ CoveredTo(q, committed[q])
    BY DEF WithinTopic, MarksCovered
  <2>2. marked[q] <= Len(topic[q]) + 1 /\ CoveredTo(q, marked[q])
    BY DEF WithinTopic, MarksCovered
  <2>3. committed'[q] = committed[q] /\ marked'[q] = marked[q]
    BY <1>0
  <2>4. \A i \in 1..Len(topic'[q]) : i < committed[q] => topic'[q][i] \in Covered'
    BY <1>2, <1>4, <2>1
  <2>5. \A i \in 1..Len(topic'[q]) : i < marked[q] => topic'[q][i] \in Covered'
    BY <1>2, <1>4, <2>2
  <2>. QED BY <2>3, <2>4, <2>5 DEF CoveredTo
<1>6. OwnersCovered'
  <2>. SUFFICES ASSUME NEW g \in Claims, IsOwner(g)'
                PROVE  CoveredTo(PartitionOf(g), Behind(g))'
    BY DEF OwnersCovered
  <2>1. IsOwner(g) /\ Behind(g)' = Behind(g) /\ PartitionOf(g) \in Partition
    BY <1>0, ClaimParts DEF IsOwner, Behind
  <2>2. Behind(g) \in Int /\ Behind(g) <= Len(topic[PartitionOf(g)]) + 1
    BY <1>1, <1>2, ClaimParts DEF Behind, WithinTopic
  <2>3. CoveredTo(PartitionOf(g), Behind(g))
    BY <2>1 DEF OwnersCovered
  <2>. QED BY <1>4, <2>1, <2>2, <2>3 DEF CoveredTo
<1>. QED BY <1>3, <1>5, <1>6

-----------------------------------------------------------------------------
(***************************************************************************)
(* Every step keeps the invariant.                                         *)
(***************************************************************************)
\* A request that was covered stays so; a key is locked by who handles its request.
LEMMA ProcessCovers ==
    ASSUME Lossless, Types, KeptInv, NEW g \in Claims, Process(g)
    PROVE  /\ Covered \subseteq Covered'
           /\ LocksCovered'
           /\ pc[g] = "fetched" => Current(g) \in Covered'
<1>. DEFINE Handling == {"locked", "checked", "releasing", "nacking"}
<1>0. /\ pc \in [Claims -> Steps]
      /\ executed \in [Request -> Nat] /\ old \in [Request -> Nat]
      /\ locks \subseteq Covered
      /\ pc[g] # "polling" => Current(g) \in Request
  BY RequestType DEF Types, TypeOK, KeptInv, LocksCovered, Busy
<1>1. ASSUME UNCHANGED <<group, executed, dead, undone>>, NEW step,
             pc' = [pc EXCEPT ![g] = step],
             pc[g] \in Handling => step \in Handling
      PROVE  Covered \subseteq Covered'
  BY <1>1, CoverKept, QuietGroup DEF Types, TypeOK
<1>2. ASSUME UNCHANGED <<group, executed, dead, undone>>, pc[g] = "fetched", Goto(g, "nacking") \/ Goto(g, "locked")
      PROVE  Covered \subseteq Covered' /\ Current(g) \in Covered'
  <2>1. Current(g)' = Current(g)
    BY <1>2 DEF group, Current
  <2>2. Current(g) \in Covered'
    BY <1>0, <1>2, <2>1, HandledCovered DEF Goto
  <2>. QED BY <1>1, <1>2, <2>2 DEF Goto
<1>3. ASSUME Commit(g), UNCHANGED <<group, dead, undone>>, NEW step, Goto(g, step)
      PROVE  Covered \subseteq Covered'
  <2>1. Current(g) \in Request
    BY <1>0, <1>3 DEF Commit
  <2>2. /\ \A r \in Request : executed[r] > 0 => executed'[r] > 0
        /\ executed'[Current(g)] > 0
    BY <1>0, <1>3, <2>1 DEF Commit
  <2>3. \A h \in Claims \ {g} : pc'[h] = pc[h] /\ Current(h)' = Current(h)
    BY <1>0, <1>3 DEF Goto, group, Current
  <2>. QED BY <1>3, <2>2, <2>3, CoverKept
<1>. USE DEF ledger, LocksCovered
<1>4. CASE Fetch(g)
  <2>1. Covered \subseteq Covered'
    BY <1>0, <1>4, PollStep, CoverKept DEF Fetch, Goto, ledger, Types, TypeOK
  <2>. QED BY <1>0, <1>4, <2>1 DEF Fetch
<1>5. CASE KeyMissing(g)
  BY <1>0, <1>2, <1>5 DEF KeyMissing
<1>6. CASE Lock(g)
  BY <1>0, <1>2, <1>6 DEF Lock
<1>7. CASE Duplicate(g)
  BY <1>0, <1>1, <1>7 DEF Duplicate, Goto
<1>8. CASE ReturnKnown(g)
  <2>1. Covered \subseteq Covered'
    <3>1. executed'[Current(g)] > 0
      BY <1>0, <1>8 DEF ReturnKnown, Known
    <3>2. \A h \in Claims \ {g} : pc'[h] = pc[h] /\ Current(h)' = Current(h)
      BY <1>0, <1>8 DEF ReturnKnown, Goto, group, Current
    <3>. QED BY <1>8, <3>1, <3>2, CoverKept DEF ReturnKnown
  <2>. QED BY <1>0, <1>8, <2>1 DEF ReturnKnown
<1>9. CASE Unknown(g)
  BY <1>0, <1>1, <1>9 DEF Unknown, Goto
<1>10. CASE Refuse(g)
  BY <1>0, <1>1, <1>10 DEF Refuse, Goto
<1>11. ~EnqueueAgain(g)
  BY DEF Lossless, EnqueueAgain
<1>12. CASE Execute(g)
  BY <1>0, <1>3, <1>12 DEF Execute, Commit
<1>13. CASE Release(g)
  BY <1>0, <1>1, <1>13 DEF Release, Goto
<1>14. CASE DeadLetter(g)
  <2>1. Covered \subseteq Covered'
    <3>1. Current(g) \in dead' /\ dead \subseteq dead' /\ UNCHANGED <<executed, undone>>
      BY <1>14 DEF DeadLetter
    <3>2. \A h \in Claims \ {g} : pc'[h] = pc[h] /\ Current(h)' = Current(h)
      BY <1>0, <1>14 DEF DeadLetter, Goto, group, Current
    <3>. QED BY <3>1, <3>2, CoverKept
  <2>. QED BY <1>0, <1>14, <2>1 DEF DeadLetter
<1>15. CASE Ack(g)
  <2>1. Covered \subseteq Covered'
    BY <1>0, <1>15, MarkStep, CoverKept DEF Ack, Goto, Types, TypeOK
  <2>. QED BY <1>0, <1>15, <2>1 DEF Ack
<1>16. CASE LeaveLoop(g)
  <2>1. Covered \subseteq Covered'
    BY <1>0, <1>16, EndStep, CoverKept DEF LeaveLoop, Types, TypeOK
  <2>. QED BY <1>0, <1>16, <2>1 DEF LeaveLoop
<1>17. CASE ContextCancelled(g)
  BY <1>0, <1>1, <1>2, <1>17 DEF ContextCancelled, Goto
<1>18. CASE LockedLate(g)
  BY <1>0, <1>2, <1>18 DEF LockedLate
<1>19. CASE CommittedLate(g)
  BY <1>0, <1>3, <1>19 DEF CommittedLate, Commit
<1>. QED BY <1>4, <1>5, <1>6, <1>7, <1>8, <1>9, <1>10, <1>11, <1>12, <1>13, <1>14,
            <1>15, <1>16, <1>17, <1>18, <1>19 DEF Process

LEMMA ProcessKept ==
    ASSUME Lossless, Types, KeptInv, NEW g \in Claims, Process(g)
    PROVE  KeptInv'
<1>1. /\ Covered \subseteq Covered'
      /\ LocksCovered'
      /\ pc[g] = "fetched" => Current(g) \in Covered'
  BY ProcessCovers
<1>2. Offsets
  BY DEF KeptInv
<1>3. pc \in [Claims -> Steps]
  BY DEF Types, TypeOK
<1>4. UNCHANGED <<topic, answered>>
  <2>. USE DEF group, Poll, Mark, EndClaim
  <2>1. ~EnqueueAgain(g)
    BY DEF Lossless, EnqueueAgain
  <2>. QED BY <2>1 DEF Process, Fetch, KeyMissing, Lock, Duplicate, ReturnKnown, Unknown,
              Refuse, Execute, Release, DeadLetter, Ack, LeaveLoop, ContextCancelled,
              LockedLate, CommittedLate
<1>5. AnsweredOnTopic'
  BY <1>4 DEF KeptInv, AnsweredOnTopic
<1>6. ASSUME UNCHANGED group, NEW step \in Steps \ {"fetched"}, Goto(g, step)
      PROVE  Offsets'
  BY <1>1, <1>2, <1>3, <1>6, OffsetsQuiet DEF Goto
<1>7. Offsets'
  <2>. USE DEF Steps
  <2>1. CASE Fetch(g)
    BY <1>1, <1>2, <2>1, OffsetsPoll
  <2>2. CASE Ack(g)
    BY <1>1, <1>2, <2>2, OffsetsMark
  <2>3. CASE LeaveLoop(g)
    BY <1>1, <1>2, <2>3, OffsetsEnd DEF LeaveLoop
  <2>4. CASE KeyMissing(g) \/ Lock(g) \/ Duplicate(g)
    BY <1>6, <2>4 DEF KeyMissing, Lock, Duplicate
  <2>5. CASE ReturnKnown(g) \/ Unknown(g) \/ Refuse(g)
    BY <1>6, <2>5 DEF ReturnKnown, Unknown, Refuse
  <2>6. CASE Execute(g) \/ Release(g) \/ DeadLetter(g)
    BY <1>6, <2>6 DEF Execute, Release, DeadLetter
  <2>7. CASE ContextCancelled(g) \/ LockedLate(g) \/ CommittedLate(g)
    BY <1>6, <2>7 DEF ContextCancelled, LockedLate, CommittedLate
  <2>8. ~EnqueueAgain(g)
    BY DEF Lossless, EnqueueAgain
  <2>. QED BY <2>1, <2>2, <2>3, <2>4, <2>5, <2>6, <2>7, <2>8 DEF Process
<1>. QED BY <1>1, <1>5, <1>7 DEF KeptInv

\* Of the faults that lose nothing, only a rebalance moves an offset.
LEMMA FaultKept ==
    ASSUME Lossless, Types, KeptInv, NEW g \in Claims, Fault(g)
    PROVE  KeptInv'
<1>. DEFINE Handling == {"locked", "checked", "releasing", "nacking"}
<1>0. /\ pc \in [Claims -> Steps]
      /\ executed \in [Request -> Nat]
      /\ locks \subseteq Covered
      /\ pc[g] # "polling" => Current(g) \in Request
      /\ Offsets
  BY RequestType DEF Types, TypeOK, KeptInv, LocksCovered, Busy
<1>1. ~EnqueueAgainFails(g) /\ ~DeadLetterFails(g) /\ ~Crash(g)
  BY DEF Lossless, EnqueueAgainFails, DeadLetterFails, Crash, Strike
<1>2. AnsweredOnTopic'
  <2>1. UNCHANGED <<topic, answered>>
    BY <1>1 DEF Fault, LockFails, ReleaseFails, FailAfterCommit, RolledBack, Rebalance, TakeOver, Assign, group
  <2>. QED BY <2>1 DEF KeptInv, AnsweredOnTopic
<1>3. ASSUME UNCHANGED group, Covered \subseteq Covered',
             NEW step \in Steps \ {"fetched"}, Goto(g, step),
             pc[g] = "fetched" => Current(g) \in Covered'
      PROVE  Offsets'
  BY <1>0, <1>3, OffsetsQuiet DEF Goto
<1>4. ASSUME UNCHANGED group
      PROVE  \A h \in Claims : Current(h)' = Current(h)
  BY <1>4 DEF group, Current
<1>. USE DEF Steps, ledger, Strike
<1>5. CASE LockFails(g)
  <2>1. UNCHANGED <<group, executed, dead, undone>> /\ Goto(g, "nacking") /\ pc[g] = "fetched"
    BY <1>5 DEF LockFails
  <2>2. Covered \subseteq Covered'
    BY <1>0, <1>4, <2>1, CoverKept DEF Goto
  <2>3. Current(g) \in Covered'
    BY <1>0, <1>4, <2>1, HandledCovered DEF Goto
  <2>4. LocksCovered'
    BY <1>0, <1>5, <2>2, <2>3 DEF LockFails, LocksCovered
  <2>. QED BY <1>2, <1>3, <2>1, <2>2, <2>3, <2>4 DEF KeptInv
<1>6. CASE ReleaseFails(g)
  <2>1. /\ UNCHANGED <<group, executed, dead, undone, locks>>
        /\ Goto(g, "nacking") /\ pc[g] = "releasing"
    BY <1>6 DEF ReleaseFails
  <2>2. Covered \subseteq Covered'
    BY <1>0, <1>4, <2>1, CoverKept DEF Goto
  <2>. QED BY <1>0, <1>2, <1>3, <2>1, <2>2 DEF KeptInv, LocksCovered
<1>7. CASE FailAfterCommit(g)
  <2>1. /\ UNCHANGED <<group, dead, undone, locks>>
        /\ Goto(g, "releasing") /\ pc[g] = "checked"
    BY <1>7 DEF FailAfterCommit, Commit
  <2>2. \A r \in Request : executed[r] > 0 => executed'[r] > 0
    BY <1>0, <1>7 DEF FailAfterCommit, Commit
  <2>3. Covered \subseteq Covered'
    BY <1>0, <1>4, <2>1, <2>2, CoverKept DEF Goto
  <2>. QED BY <1>0, <1>2, <1>3, <2>1, <2>3 DEF KeptInv, LocksCovered
<1>r. CASE RolledBack(g)
  <2>1. /\ UNCHANGED <<group, executed, dead, locks>> /\ undone' = undone \union {Current(g)}
        /\ Goto(g, "acking") /\ pc[g] = "checked"
    BY <1>r DEF RolledBack
  <2>2. Covered \subseteq Covered'
    BY <1>0, <1>4, <2>1, CoverKept DEF Goto
  <2>. QED BY <1>0, <1>2, <1>3, <2>1, <2>2 DEF KeptInv, LocksCovered
<1>8. CASE Rebalance(g)
  <2>1. ~Busy(g) /\ Assign(g) /\ UNCHANGED <<pc, executed, dead, undone, locks>>
    BY <1>8 DEF Rebalance, TakeOver, Types, HasRequest, InHand
  <2>2. Covered \subseteq Covered'
    BY <1>0, <2>1, AssignStep, CoverKept DEF Busy, Types, TypeOK
  <2>3. Offsets'
    BY <1>0, <2>1, <2>2, OffsetsAssign
  <2>. QED BY <1>0, <1>2, <2>1, <2>2, <2>3 DEF KeptInv, LocksCovered
<1>. QED BY <1>1, <1>5, <1>6, <1>7, <1>r, <1>8 DEF Fault

\* A step of the group that no goroutine notices.
LEMMA Unnoticed ==
    ASSUME Types, UNCHANGED <<pc, executed, dead, undone>>,
           \A g \in Claims : Busy(g) => Current(g)' = Current(g)
    PROVE  Covered \subseteq Covered'
<1>. SUFFICES ASSUME NEW r \in Covered PROVE r \in Covered'
  OBVIOUS
<1>1. CASE executed[r] > 0 \/ r \in dead \union undone
  BY <1>1 DEF Covered
<1>2. CASE Handled(r)
  <2>1. PICK g \in Claims : Handles(g, r)
    BY <1>2 DEF Handled
  <2>2. Current(g)' = r /\ pc'[g] = pc[g]
    BY <2>1 DEF Handles, Busy
  <2>. QED BY <2>1, <2>2 DEF Covered, Handled, Handles
<1>. QED BY <1>1, <1>2 DEF Covered

LEMMA PublishKept ==
    ASSUME Types, KeptInv, NEW r \in Request, Publish(Route[r], r),
           UNCHANGED <<pc, executed, dead, undone, locks>>, answered' \subseteq answered \union {r}
    PROVE  KeptInv'
<1>1. Covered \subseteq Covered'
  BY PublishTypes, Unnoticed DEF Types, HasRequest
<1>2. Offsets'
  BY <1>1, RouteType, OffsetsPublish DEF KeptInv
<1>3. AnsweredOnTopic'
  <2>. SUFFICES ASSUME NEW a \in answered'
                PROVE  \E q \in Partition : \E i \in 1..Len(topic'[q]) : topic'[q][i] = a
    BY DEF AnsweredOnTopic
  <2>0. /\ Route[r] \in Partition /\ topic \in [Partition -> Seq(Request)]
        /\ topic' = [topic EXCEPT ![Route[r]] = Append(topic[Route[r]], r)]
    BY RouteType DEF Publish, Types, TypeOK, GroupType
  <2>1. CASE a = r
    <3>1. /\ Len(topic'[Route[r]]) \in 1..Len(topic'[Route[r]])
          /\ topic'[Route[r]][Len(topic'[Route[r]])] = r
      BY <2>0
    <3>. QED BY <2>0, <2>1, <3>1
  <2>2. CASE a # r
    <3>0. PICK q \in Partition : \E i \in 1..Len(topic[q]) : topic[q][i] = a
      BY <2>2 DEF KeptInv, AnsweredOnTopic
    <3>1. PICK i \in 1..Len(topic[q]) : topic[q][i] = a
      BY <3>0
    <3>2. topic[q] \in Seq(Request)
      BY <2>0
    <3>3. i \in 1..Len(topic'[q]) /\ topic'[q][i] = a
      BY <2>0, <3>1, <3>2
    <3>. QED BY <3>3
  <2>. QED BY <2>1, <2>2
<1>. QED BY <1>1, <1>2, <1>3 DEF KeptInv, LocksCovered

LEMMA NextKept == Lossless /\ Types /\ KeptInv /\ [Next]_vars => KeptInv'
<1>. SUFFICES ASSUME Lossless, Types, KeptInv, [Next]_vars PROVE KeptInv'
  OBVIOUS
<1>. USE DEF ledger
<1>0. ASSUME UNCHANGED <<group, pc, executed, dead, undone, answered>>, locks' \subseteq locks
      PROVE  KeptInv'
  <2>1. \A g \in Claims : Current(g)' = Current(g)
    BY <1>0 DEF group, Current
  <2>2. Covered \subseteq Covered'
    BY <1>0, <2>1, Unnoticed
  <2>3. Offsets'
    BY <1>0, <2>2 DEF KeptInv, Offsets, OwnersCovered, MarksCovered, WithinTopic, CoveredTo,
                      Behind, IsOwner, group
  <2>. QED BY <1>0, <2>2, <2>3 DEF KeptInv, LocksCovered, AnsweredOnTopic, group
<1>1. ASSUME NEW r \in Request, CheckRequest(r) PROVE KeptInv'
  BY <1>0, <1>1 DEF CheckRequest
<1>2. ASSUME NEW r \in Request, Enqueue(r) PROVE KeptInv'
  BY <1>2, PublishKept DEF Enqueue
<1>3. ASSUME NEW r \in Request, EnqueueFails(r) PROVE KeptInv'
  <2>1. CASE UNCHANGED group
    BY <1>0, <1>3, <2>1 DEF EnqueueFails
  <2>2. CASE Publish(Route[r], r)
    BY <1>3, <2>2, PublishKept DEF EnqueueFails
  <2>. QED BY <1>3, <2>1, <2>2 DEF EnqueueFails
<1>4. ASSUME NEW p \in Partition, CommitOffset(p) PROVE KeptInv'
  <2>1. Covered \subseteq Covered'
    BY <1>4, CommitStep, Unnoticed DEF CommitOffset, Types, TypeOK
  <2>2. Offsets'
    BY <1>4, <2>1, OffsetsCommit DEF CommitOffset, KeptInv
  <2>. QED BY <1>4, <2>1, <2>2 DEF CommitOffset, CommitMarked, KeptInv, LocksCovered, AnsweredOnTopic
<1>5. ASSUME NEW r \in locks, Expire(r) PROVE KeptInv'
  BY <1>0, <1>5 DEF Expire
<1>6. CASE UNCHANGED vars
  BY <1>0, <1>6 DEF vars
<1>7. ASSUME NEW r \in Request, Age(r) PROVE KeptInv'
  BY <1>0, <1>7 DEF Age
<1>. QED BY <1>1, <1>2, <1>3, <1>4, <1>5, <1>6, <1>7, ProcessKept, FaultKept DEF Next, Drained

LEMMA InitKept == Init => KeptInv
<1>. SUFFICES ASSUME Init PROVE KeptInv
  OBVIOUS
<1>. USE DEF Init, GroupInit
<1>1. LocksCovered /\ AnsweredOnTopic
  BY DEF LocksCovered, AnsweredOnTopic
<1>2. MarksCovered
  BY DEF MarksCovered, CoveredTo
<1>3. OwnersCovered
  BY ClaimParts DEF OwnersCovered, CoveredTo
<1>4. WithinTopic
  BY ClaimParts DEF WithinTopic
<1>. QED BY <1>1, <1>2, <1>3, <1>4 DEF KeptInv, Offsets

\* A request answered with PENDING is on the topic ahead of the committed offset, in the
\* hands of a goroutine, executed or in the dead-letter queue, or it is one of those that
\* Atomic takes for committed when they were rolled back: for any requests, partitions,
\* workers, rebalances, timeouts, failures of Redis and the broker, errors after a commit
\* and forgotten keys, while no process dies and the dead-letter queue answers.
THEOREM NoneForgotten == ASSUME Lossless PROVE Spec => []NothingForgotten
<1>1. Types /\ KeptInv => NothingForgotten
  <2>. SUFFICES ASSUME Types, KeptInv, NEW r \in answered
                PROVE  Waiting(r) \/ Handled(r) \/ executed[r] > 0 \/ r \in dead \union undone
    BY DEF NothingForgotten
  <2>0. PICK p \in Partition : \E i \in 1..Len(topic[p]) : topic[p][i] = r
    BY DEF KeptInv, AnsweredOnTopic
  <2>1. PICK i \in 1..Len(topic[p]) : topic[p][i] = r
    BY <2>0
  <2>2. committed[p] \in Nat /\ Len(topic[p]) \in Nat
    BY TopicType DEF Types, TypeOK, GroupType
  <2>3. CASE i < committed[p]
    <3>1. r \in Covered
      BY <2>1, <2>3 DEF KeptInv, Offsets, MarksCovered, CoveredTo
    <3>. QED BY <3>1 DEF Covered
  <2>4. CASE committed[p] <= i
    BY <2>1, <2>2, <2>4 DEF Waiting
  <2>. QED BY <2>2, <2>3, <2>4
<1>2. Lossless /\ Types /\ KeptInv /\ [Next]_vars => (Types /\ KeptInv)'
  BY NextTypes, NextKept
<1>. QED BY <1>1, <1>2, InitTypes, InitKept, PTL DEF Spec
=============================================================================
