----------------------- MODULE HvtBalanceUpdateProofs ------------------------
(***************************************************************************)
(* Type correctness of HvtBalanceUpdate; that a credit is applied at most  *)
(* once while Redis and the database keep their word; and that none is     *)
(* forgotten.                                                              *)
(***************************************************************************)
EXTENDS HvtBalanceUpdate, ConsumerGroupProofs

-----------------------------------------------------------------------------
(***************************************************************************)
(* Types.  A goroutine that is busy has a message in hand.                 *)
(***************************************************************************)
Busy(g) == pc[g] # "polling"

HasMessage == \A g \in Claims : Busy(g) => InHand(g)

Types == TypeOK /\ HasMessage

\* The key of the message a busy goroutine has.
LEMMA KeyType ==
    ASSUME Types, NEW g \in Claims, Busy(g)
    PROVE  Current(g) \in Message /\ Key(g) \in Trx \X Partition
<1>1. Current(g) \in Message
  BY CurrentType DEF Types, TypeOK, HasMessage
<1>. QED BY <1>1, ClaimParts DEF Key, Message

LEMMA InitTypes == Init => Types
<1>. SUFFICES ASSUME Init PROVE Types
  OBVIOUS
<1>1. GroupType(Message)
  BY GroupInitType, HvtAssumption DEF Init, HvtAssumption
<1>2. applied \in [Partition -> Seq(Message)] /\ pc \in [Claims -> Steps]
  BY DEF Init, Steps
<1>. QED BY <1>1, <1>2, HvtAssumption DEF Init, Types, TypeOK, HasMessage, Busy, HvtAssumption

\* A credit added to the history of its account.
LEMMA AppliedType ==
    ASSUME Types, NEW g \in Claims, AddCredit(g)
    PROVE  actual' \in [Partition -> Int] /\ applied' \in [Partition -> Seq(Message)]
<1>1. Current(g) \in Message /\ Current(g).amount \in Int
  BY KeyType, HvtAssumption DEF AddCredit, Busy, Message, HvtAssumption
<1>2. applied[PartitionOf(g)] \in Seq(Message)
  BY ClaimParts DEF Types, TypeOK
<1>3. Append(applied[PartitionOf(g)], Current(g)) \in Seq(Message)
  BY <1>1, <1>2
<1>4. applied' \in [Partition -> Seq(Message)]
  BY <1>3 DEF AddCredit, Types, TypeOK
<1>5. actual' \in [Partition -> Int]
  BY <1>1, ClaimParts DEF AddCredit, Types, TypeOK
<1>. QED BY <1>4, <1>5

LEMMA ProcessTypes ==
    ASSUME Types, NEW g \in Claims, Process(g)
    PROVE  Types'
<1>. USE DEF Types, TypeOK, HasMessage, Busy, Steps
<1>1. CASE Fetch(g)
  BY <1>1, PollStep DEF Fetch
<1>2. CASE Claim(g)
  BY <1>2, KeyType, QuietGroup DEF Claim
<1>3. CASE AlreadyClaimed(g)
  BY <1>3, QuietGroup DEF AlreadyClaimed
<1>4. CASE Adjust(g)
  <2>1. actual' \in [Partition -> Int] /\ applied' \in [Partition -> Seq(Message)]
    BY <1>4, AppliedType DEF Adjust
  <2>. QED BY <1>4, <2>1, QuietGroup DEF Adjust, AddCredit
<1>5. CASE Ack(g)
  BY <1>5, MarkStep DEF Ack
<1>6. CASE NackRelease(g)
  BY <1>6, KeyType, QuietGroup DEF NackRelease, GiveUp
<1>7. CASE LeaveLoop(g)
  BY <1>7, EndStep DEF LeaveLoop
<1>8. CASE ContextCancelled(g)
  BY <1>8, KeyType, QuietGroup DEF ContextCancelled, GiveUp
<1>9. CASE CancelledLate(g)
  <2>1. actual' \in [Partition -> Int] /\ applied' \in [Partition -> Seq(Message)]
    BY <1>9, AppliedType DEF CancelledLate
  <2>2. nacked' \in SUBSET (Trx \X Partition)
    BY <1>9, KeyType DEF CancelledLate, AddCredit, GiveUp
  <2>. QED BY <1>9, <2>1, <2>2, QuietGroup DEF CancelledLate, AddCredit, GiveUp
<1>. QED BY <1>1, <1>2, <1>3, <1>4, <1>5, <1>6, <1>7, <1>8, <1>9 DEF Process

LEMMA FaultTypes ==
    ASSUME Types, NEW g \in Claims, Fault(g)
    PROVE  Types'
<1>. USE DEF Types, TypeOK, HasMessage, Busy, Steps, Strike
<1>1. CASE ClaimFails(g)
  BY <1>1, QuietGroup DEF ClaimFails
<1>2. CASE AdjustFails(g)
  BY <1>2, QuietGroup DEF AdjustFails
<1>3. CASE AdjustUnanswered(g)
  <2>1. actual' \in [Partition -> Int] /\ applied' \in [Partition -> Seq(Message)]
    BY <1>3, AppliedType DEF AdjustUnanswered
  <2>. QED BY <1>3, <2>1, QuietGroup DEF AdjustUnanswered, AddCredit
<1>4. CASE ReleaseFails(g)
  <2>1. nacked' \in SUBSET (Trx \X Partition)
    BY <1>4, KeyType DEF ReleaseFails, GiveUp
  <2>. QED BY <1>4, <2>1, QuietGroup DEF ReleaseFails, GiveUp
<1>5. CASE Rebalance(g)
  <2>1. ~Busy(g)
    BY <1>5 DEF Rebalance, TakeOver, InHand
  <2>. QED BY <1>5, <2>1, AssignStep DEF Rebalance, TakeOver
<1>6. CASE Crash(g)
  BY <1>6, AssignStep DEF Crash, Restart
<1>. QED BY <1>1, <1>2, <1>3, <1>4, <1>5, <1>6 DEF Fault

LEMMA NextTypes == Types /\ [Next]_vars => Types'
<1>. SUFFICES ASSUME Types, [Next]_vars PROVE Types'
  OBVIOUS
<1>. USE DEF Types, TypeOK, HasMessage, Busy
<1>1. ASSUME NEW p \in Partition, NEW m \in Message, Produce(p, m) PROVE Types'
  BY <1>1, PublishStep DEF Produce
<1>2. ASSUME NEW p \in Partition, CommitOffset(p) PROVE Types'
  BY <1>2, CommitStep DEF CommitOffset
<1>3. ASSUME NEW k \in keys, Expire(k) PROVE Types'
  BY <1>3, QuietGroup DEF Expire, Strike
<1>4. CASE UNCHANGED vars
  BY <1>4, QuietGroup DEF vars
<1>. QED BY <1>1, <1>2, <1>3, <1>4, ProcessTypes, FaultTypes DEF Next, Drained

\* Every variable keeps its type, for any accounts, workers, credits and faults.
THEOREM TypeCorrect == Spec => []TypeOK
<1>1. Types => TypeOK
  BY DEF Types
<1>. QED BY <1>1, InitTypes, NextTypes, PTL DEF Spec

-----------------------------------------------------------------------------
(***************************************************************************)
(* At most once.  While no key is lost and no answer either, the key of a  *)
(* credit that was added is never free again, and a credit that is being   *)
(* handled has a key that is taken, by one goroutine, and is not added     *)
(* yet.                                                                    *)
(***************************************************************************)
Reliable == FaultKinds \subseteq {"crash", "rebalance", "db"}

KeyTaken == \A g \in Claims : Holds(g) => Key(g) \in keys
KeyOwned == \A g, h \in Claims : Holds(g) /\ Holds(h) /\ Key(g) = Key(h) => g = h
DoneTaken == \A a \in Partition : \A i \in DOMAIN applied[a] : <<applied[a][i].trx, a>> \in keys
DoneFree ==
    \A a \in Partition : \A i \in DOMAIN applied[a] : \A g \in Claims :
        Holds(g) => Key(g) # <<applied[a][i].trx, a>>

OnceInv == KeyTaken /\ KeyOwned /\ DoneTaken /\ DoneFree /\ AppliedOnce

\* A key tells the account of the goroutine that made it.
LEMMA KeyAccount ==
    ASSUME NEW g \in Claims, NEW t, NEW a, Key(g) = <<t, a>>
    PROVE  a = PartitionOf(g) /\ t = Current(g).trx
BY DEF Key

\* A step that touches no key, no history and no busy goroutine's message, after
\* which no more goroutines hold a key than before.
LEMMA QuietStep ==
    ASSUME OnceInv, UNCHANGED <<keys, applied>>,
           \A g \in Claims : Holds(g)' => Holds(g) /\ Key(g)' = Key(g)
    PROVE  OnceInv'
<1>. USE DEF OnceInv
<1>1. KeyTaken'
  BY DEF KeyTaken
<1>2. KeyOwned'
  BY DEF KeyOwned
<1>3. DoneTaken' /\ AppliedOnce'
  BY DEF DoneTaken, AppliedOnce
<1>4. DoneFree'
  BY DEF DoneFree
<1>. QED BY <1>1, <1>2, <1>3, <1>4

\* SetIfNotExists: the key was free, so nobody held it and nothing with it was
\* applied.
LEMMA ClaimOnce ==
    ASSUME Types, OnceInv, NEW g \in Claims, Claim(g)
    PROVE  OnceInv'
<1>. USE DEF OnceInv
<1>1. \A h \in Claims : Key(h)' = Key(h) /\ (Holds(h)' <=> Holds(h) \/ h = g)
  BY DEF Claim, group, Types, TypeOK, Key, Current, Holds
<1>2. keys' = keys \union {Key(g)} /\ Key(g) \notin keys /\ applied' = applied
  BY DEF Claim
<1>3. KeyTaken'
  BY <1>1, <1>2 DEF KeyTaken
<1>4. KeyOwned'
  BY <1>1, <1>2 DEF KeyTaken, KeyOwned
<1>5. DoneTaken' /\ AppliedOnce'
  BY <1>2 DEF DoneTaken, AppliedOnce
<1>6. DoneFree'
  BY <1>1, <1>2 DEF DoneTaken, DoneFree
<1>. QED BY <1>3, <1>4, <1>5, <1>6

\* AdjustAccountBalance: the goroutine held the key, so no credit with it was
\* applied, and it holds the key no longer.
LEMMA AdjustOnce ==
    ASSUME Types, OnceInv, NEW g \in Claims, AddCredit(g),
           pc' = [pc EXCEPT ![g] = "acking"], UNCHANGED <<group, keys>>
    PROVE  OnceInv'
<1>. DEFINE b == PartitionOf(g)
            n == Len(applied[b])
<1>0. /\ Busy(g) /\ Holds(g) /\ b \in Partition
      /\ applied[b] \in Seq(Message) /\ n \in Nat
  BY ClaimParts DEF AddCredit, Busy, Holds, Types, TypeOK
<1>1. /\ \A h \in Claims : Key(h)' = Key(h) /\ (Holds(h)' <=> Holds(h) /\ h # g)
      /\ keys' = keys
  BY DEF group, Types, TypeOK, Key, Current, Holds
<1>2. /\ applied' = [applied EXCEPT ![b] = Append(applied[b], Current(g))]
      /\ applied \in [Partition -> Seq(Message)]
  BY DEF AddCredit, Types, TypeOK
<1>3. /\ \A a \in Partition : a # b => applied'[a] = applied[a]
      /\ DOMAIN applied[b] = 1..n
      /\ DOMAIN applied'[b] = 1..(n + 1)
      /\ \A i \in 1..n : applied'[b][i] = applied[b][i]
      /\ applied'[b][n + 1] = Current(g)
  BY <1>0, <1>2
<1>4. Key(g) = <<Current(g).trx, b>> /\ Key(g) \in keys
  BY <1>0 DEF Key, OnceInv, KeyTaken
<1>. HIDE DEF n, b
<1>5. ASSUME NEW a \in Partition, NEW i \in DOMAIN applied'[a]
      PROVE  \/ i \in DOMAIN applied[a] /\ applied'[a][i] = applied[a][i]
             \/ a = b /\ i = n + 1 /\ applied'[a][i] = Current(g)
  BY <1>0, <1>3
<1>6. KeyTaken' /\ KeyOwned'
  BY <1>1 DEF OnceInv, KeyTaken, KeyOwned
<1>7. DoneTaken'
  BY <1>1, <1>4, <1>5 DEF OnceInv, DoneTaken
<1>8. DoneFree'
  <2>. SUFFICES ASSUME NEW a \in Partition, NEW i \in DOMAIN applied'[a],
                       NEW h \in Claims, Holds(h)'
                PROVE  Key(h) # <<applied'[a][i].trx, a>>
    BY <1>1 DEF DoneFree
  <2>1. Holds(h) /\ h # g
    BY <1>1
  <2>2. CASE i \in DOMAIN applied[a] /\ applied'[a][i] = applied[a][i]
    BY <2>1, <2>2 DEF OnceInv, DoneFree
  <2>3. CASE a = b /\ i = n + 1 /\ applied'[a][i] = Current(g)
    BY <1>0, <1>4, <2>1, <2>3 DEF OnceInv, KeyOwned
  <2>. QED BY <1>5, <2>2, <2>3
<1>9. AppliedOnce'
  <2>. SUFFICES ASSUME NEW a \in Partition, NEW i \in DOMAIN applied'[a],
                       NEW j \in DOMAIN applied'[a],
                       applied'[a][i].trx = applied'[a][j].trx
                PROVE  i = j
    BY DEF AppliedOnce
  <2>1. ASSUME NEW k \in DOMAIN applied[a], a = b
        PROVE  applied[a][k].trx # Current(g).trx
    BY <1>0, <1>4, <2>1 DEF OnceInv, DoneFree
  <2>. QED BY <1>5, <2>1 DEF OnceInv, AppliedOnce
<1>. QED BY <1>6, <1>7, <1>8, <1>9 DEF OnceInv

\* Nack gives back a key that it alone held, and whose credit was not applied.
LEMMA NackOnce ==
    ASSUME Types, OnceInv, NEW g \in Claims, NackRelease(g)
    PROVE  OnceInv'
<1>. USE DEF OnceInv
<1>1. /\ \A h \in Claims : Key(h)' = Key(h) /\ (Holds(h)' <=> Holds(h) /\ h # g)
      /\ Holds(g)
      /\ keys' = keys \ {Key(g)}
      /\ applied' = applied
  BY DEF NackRelease, GiveUp, group, Types, TypeOK, Key, Current, Holds
<1>2. KeyTaken' /\ KeyOwned'
  BY <1>1 DEF KeyTaken, KeyOwned
<1>3. DoneTaken' /\ AppliedOnce'
  BY <1>1 DEF DoneTaken, DoneFree, AppliedOnce
<1>4. DoneFree'
  BY <1>1 DEF DoneFree
<1>. QED BY <1>2, <1>3, <1>4

\* What the other steps of a goroutine do to the keys that are held.
LEMMA ProcessOnce ==
    ASSUME Types, OnceInv, NEW g \in Claims, Process(g)
    PROVE  OnceInv'
<1>. USE DEF Holds, Key, Types, TypeOK
<1>1. CASE Fetch(g)
  BY <1>1, PollStep, QuietStep DEF Fetch
<1>2. CASE AlreadyClaimed(g)
  BY <1>2, QuietGroup, QuietStep DEF AlreadyClaimed
<1>3. CASE Ack(g)
  BY <1>3, MarkStep, QuietStep DEF Ack
<1>4. CASE LeaveLoop(g)
  BY <1>4, EndStep, QuietStep DEF LeaveLoop
<1>5. CASE ContextCancelled(g)
  BY <1>5, QuietGroup, QuietStep DEF ContextCancelled, GiveUp
<1>6. CASE Adjust(g)
  BY <1>6, AdjustOnce DEF Adjust
<1>7. CASE CancelledLate(g)
  BY <1>7, AdjustOnce DEF CancelledLate, GiveUp
<1>. QED BY <1>1, <1>2, <1>3, <1>4, <1>5, <1>6, <1>7, ClaimOnce, NackOnce DEF Process

\* Of the faults a reliable Redis and database leave, a failed update keeps the
\* key for Nack and the others drop what a goroutine held.
LEMMA FaultOnce ==
    ASSUME Reliable, Types, OnceInv, NEW g \in Claims, Fault(g)
    PROVE  OnceInv'
<1>. USE DEF Holds, Key, Types, TypeOK
<1>1. ~ClaimFails(g) /\ ~AdjustUnanswered(g) /\ ~ReleaseFails(g)
  BY DEF Reliable, Strike, ClaimFails, AdjustUnanswered, ReleaseFails
<1>2. CASE AdjustFails(g)
  BY <1>2, QuietGroup, QuietStep DEF AdjustFails
<1>3. CASE Rebalance(g)
  <2>1. ~Busy(g)
    BY <1>3 DEF Rebalance, TakeOver, HasMessage, InHand
  <2>. QED BY <1>3, <2>1, AssignStep, QuietStep DEF Rebalance, TakeOver, Busy
<1>4. CASE Crash(g)
  BY <1>4, AssignStep, QuietStep DEF Crash, Restart
<1>. QED BY <1>1, <1>2, <1>3, <1>4 DEF Fault

LEMMA NextOnce == Reliable /\ Types /\ OnceInv /\ [Next]_vars => OnceInv'
<1>. SUFFICES ASSUME Reliable, Types, OnceInv, [Next]_vars PROVE OnceInv'
  OBVIOUS
<1>1. ASSUME NEW p \in Partition, NEW m \in Message, Produce(p, m) PROVE OnceInv'
  <2>1. \A g \in Claims : Busy(g) => Current(g)' = Current(g)
    BY <1>1, PublishStep DEF Produce, Types, TypeOK, HasMessage
  <2>2. \A g \in Claims : Holds(g)' => Holds(g) /\ Key(g)' = Key(g)
    BY <1>1, <2>1 DEF Produce, Holds, Busy, Key
  <2>. QED BY <1>1, <2>2, QuietStep DEF Produce
<1>2. ASSUME NEW p \in Partition, CommitOffset(p) PROVE OnceInv'
  BY <1>2, CommitStep, QuietStep DEF CommitOffset, Holds, Key, Types, TypeOK
<1>3. ASSUME NEW k \in keys PROVE ~Expire(k)
  BY DEF Reliable, Expire, Strike
<1>4. CASE UNCHANGED vars
  BY <1>4, QuietGroup, QuietStep DEF vars, Holds, Key, Types, TypeOK
<1>. QED BY <1>1, <1>2, <1>3, <1>4, ProcessOnce, FaultOnce DEF Next, Drained

\* A credit is added to an account at most once, for any accounts, workers,
\* credits, crashes, rebalances and failed updates, while Redis keeps its keys and
\* the database its answers.
THEOREM CreditedOnce == ASSUME Reliable PROVE Spec => []AppliedOnce
<1>1. Init => OnceInv
  BY DEF Init, OnceInv, KeyTaken, KeyOwned, DoneTaken, DoneFree, AppliedOnce, Holds
<1>2. Types /\ OnceInv /\ [Next]_vars => (Types /\ OnceInv)'
  BY NextTypes, NextOnce
<1>3. OnceInv => AppliedOnce
  BY DEF OnceInv
<1>. QED BY <1>1, <1>2, <1>3, InitTypes, PTL DEF Spec

-----------------------------------------------------------------------------
(***************************************************************************)
(* Nothing lost.  A credit is dealt with once it was added or given up, or *)
(* is in good hands: its key is set, where a process may die, and a        *)
(* goroutine holds it, where none does.  Every key is that of a credit     *)
(* dealt with, and so is every credit that is committed, marked or behind  *)
(* the owner of its partition.                                             *)
(***************************************************************************)
\* A crash is noticed by the key it leaves, if the key does not expire.
Traceable == ~({"crash", "expiry"} \subseteq FaultKinds)

Dealt(t, a) ==
    \/ Applied(t, a)
    \/ <<t, a>> \in nacked
    \/ IF "crash" \in FaultKinds THEN <<t, a>> \in keys ELSE Handled(t, a)

\* A step leaves what was dealt with so.
DealtStays == \A t : \A a \in Partition : Dealt(t, a) => Dealt(t, a)'
DealtWith(g) == Dealt(Current(g).trx, PartitionOf(g))

DealtTo(p, n) == \A i \in 1..Len(topic[p]) : i < n => Dealt(topic[p][i].trx, p)

AtWork(g) == pc[g] \in {"fetched", "claimed", "nacking"}
Behind(g) == IF AtWork(g) THEN next[g] - 1 ELSE next[g]

KeysDealt == \A t : \A a \in Partition : <<t, a>> \in keys => Dealt(t, a)
OwnersDealt == \A g \in Claims : IsOwner(g) => DealtTo(PartitionOf(g), Behind(g))
MarksDealt == \A p \in Partition : DealtTo(p, committed[p]) /\ DealtTo(p, marked[p])
WithinTopic ==
    /\ \A p \in Partition : committed[p] <= Len(topic[p]) + 1 /\ marked[p] <= Len(topic[p]) + 1
    /\ \A g \in Claims : next[g] <= Len(topic[PartitionOf(g)]) + 1

Offsets == OwnersDealt /\ MarksDealt /\ WithinTopic
KeptInv == KeysDealt /\ Offsets

LEMMA TopicType ==
    ASSUME Types, NEW p \in Partition
    PROVE  topic[p] \in Seq(Message) /\ Len(topic[p]) \in Nat
BY DEF Types, TypeOK, GroupType

\* A credit that is added was not taken from the others, and is there afterwards.
LEMMA AddedStays ==
    ASSUME Types, NEW g \in Claims, AddCredit(g), UNCHANGED group
    PROVE  /\ \A t : \A a \in Partition : Applied(t, a) => Applied(t, a)'
           /\ Applied(Current(g).trx, PartitionOf(g))'
<1>. DEFINE b == PartitionOf(g)
            n == Len(applied[b])
<1>1. b \in Partition /\ applied[b] \in Seq(Message) /\ n \in Nat
  BY ClaimParts DEF Types, TypeOK
<1>2. /\ applied' = [applied EXCEPT ![b] = Append(applied[b], Current(g))]
      /\ applied \in [Partition -> Seq(Message)]
  BY DEF AddCredit, Types, TypeOK
<1>3. /\ \A a \in Partition : a # b => applied'[a] = applied[a]
      /\ DOMAIN applied[b] = 1..n
      /\ DOMAIN applied'[b] = 1..(n + 1)
      /\ \A i \in 1..n : applied'[b][i] = applied[b][i]
      /\ applied'[b][n + 1] = Current(g)
  BY <1>1, <1>2
<1>4. Applied(Current(g).trx, b)'
  <2>1. n + 1 \in DOMAIN applied'[b]
    BY <1>1, <1>3
  <2>2. Current(g)' = Current(g)
    BY DEF group, Current
  <2>. QED BY <1>3, <2>1, <2>2 DEF Applied
<1>5. ASSUME NEW t, NEW a \in Partition, Applied(t, a) PROVE Applied(t, a)'
  <2>1. PICK i \in DOMAIN applied[a] : applied[a][i].trx = t
    BY <1>5 DEF Applied
  <2>2. i \in DOMAIN applied'[a] /\ applied'[a][i] = applied[a][i]
    BY <1>1, <1>3, <2>1
  <2>. QED BY <2>1, <2>2 DEF Applied
<1>. QED BY <1>4, <1>5

\* The goroutines other than g keep what they hold; what g held is still in its hands,
\* or was added or given up.
LEMMA DealtKept ==
    ASSUME Types, NEW g \in Claims,
           \A t : \A a \in Partition : Applied(t, a) => Applied(t, a)',
           nacked \subseteq nacked',
           "crash" \in FaultKinds => keys \ nacked' \subseteq keys',
           \A h \in Claims \ {g} : Busy(h) => pc'[h] = pc[h] /\ Current(h)' = Current(h),
           "crash" \notin FaultKinds /\ Holds(g) =>
               /\ Current(g)' = Current(g)
               /\ \/ Applied(Current(g).trx, PartitionOf(g))'
                  \/ Key(g) \in nacked'
                  \/ Holds(g)'
    PROVE  DealtStays
<1>. SUFFICES ASSUME NEW t, NEW a \in Partition, Dealt(t, a) PROVE Dealt(t, a)'
  BY DEF DealtStays
<1>1. CASE Applied(t, a) \/ <<t, a>> \in nacked
  BY <1>1 DEF Dealt
<1>2. CASE "crash" \in FaultKinds /\ <<t, a>> \in keys
  BY <1>2 DEF Dealt
<1>3. CASE "crash" \notin FaultKinds /\ Handled(t, a)
  <2>1. PICK h \in Claims : Holds(h) /\ Key(h) = <<t, a>>
    BY <1>3 DEF Handled
  <2>2. t = Current(h).trx /\ a = PartitionOf(h)
    BY <2>1, KeyAccount
  <2>3. CASE h # g
    <3>1. pc'[h] = pc[h] /\ Current(h)' = Current(h)
      BY <2>1, <2>3 DEF Holds, Busy
    <3>2. Holds(h)' /\ Key(h)' = <<t, a>>
      BY <2>1, <3>1 DEF Holds, Key
    <3>. QED BY <1>3, <3>2 DEF Dealt, Handled
  <2>4. CASE h = g
    <3>0. Current(g)' = Current(g)
      BY <1>3, <2>1, <2>4
    <3>1. CASE Holds(g)'
      <4>1. Key(g)' = <<t, a>>
        BY <2>1, <2>4, <3>0 DEF Key
      <4>. QED BY <1>3, <3>1, <4>1 DEF Dealt, Handled
    <3>2. CASE Applied(Current(g).trx, PartitionOf(g))'
      <4>1. Applied(t, a)'
        BY <2>2, <2>4, <3>0, <3>2
      <4>. QED BY <4>1 DEF Dealt
    <3>3. CASE Key(g) \in nacked'
      BY <2>1, <2>4, <3>3 DEF Dealt
    <3>. QED BY <1>3, <2>1, <2>4, <3>1, <3>2, <3>3
  <2>. QED BY <2>3, <2>4
<1>. QED BY <1>1, <1>2, <1>3 DEF Dealt

-----------------------------------------------------------------------------
(***************************************************************************)
(* Offsets, for each step of the group.                                    *)
(***************************************************************************)
LEMMA OffsetsStay ==
    ASSUME Offsets, DealtStays, UNCHANGED <<group, pc>>
    PROVE  Offsets'
<1>. USE DEF group, Offsets
<1>1. WithinTopic'
  BY DEF WithinTopic
<1>2. MarksDealt'
  BY DEF MarksDealt, DealtTo, DealtStays
<1>3. ASSUME NEW h \in Claims, IsOwner(h)' PROVE DealtTo(PartitionOf(h), Behind(h))'
  <2>1. IsOwner(h) /\ Behind(h)' = Behind(h) /\ PartitionOf(h) \in Partition
    BY <1>3, ClaimParts DEF IsOwner, Behind, AtWork
  <2>. QED BY <2>1 DEF OwnersDealt, DealtTo, DealtStays
<1>. QED BY <1>1, <1>2, <1>3 DEF OwnersDealt

\* A goroutine that is through with a credit has it dealt with.
LEMMA OffsetsQuiet ==
    ASSUME Types, Offsets, DealtStays, UNCHANGED group,
           NEW g \in Claims,
           \A h \in Claims \ {g} : pc'[h] = pc[h],
           AtWork(g)' => AtWork(g),
           AtWork(g) => AtWork(g)' \/ DealtWith(g)'
    PROVE  Offsets'
<1>. USE DEF group, Offsets
<1>1. WithinTopic'
  BY DEF WithinTopic
<1>2. MarksDealt'
  BY DEF MarksDealt, DealtTo, DealtStays
<1>3. ASSUME NEW h \in Claims, IsOwner(h)' PROVE DealtTo(PartitionOf(h), Behind(h))'
  <2>1. IsOwner(h) /\ PartitionOf(h) \in Partition
    BY <1>3, ClaimParts DEF IsOwner
  <2>2. CASE h # g \/ (AtWork(g) <=> AtWork(g)')
    <3>1. Behind(h)' = Behind(h)
      BY <2>2 DEF Behind, AtWork
    <3>. QED BY <2>1, <3>1 DEF OwnersDealt, DealtTo, DealtStays
  <2>3. CASE h = g /\ AtWork(g) /\ ~AtWork(g)'
    <3>. DEFINE p == PartitionOf(g)
    <3>1. next[g] \in Nat /\ Len(topic[p]) \in Nat
      BY TopicType, ClaimParts DEF Types, TypeOK, GroupType
    <3>2. ASSUME NEW i \in 1..Len(topic[p]), i < next[g]
          PROVE  Dealt(topic[p][i].trx, p)'
      <4>1. CASE i < next[g] - 1
        BY <2>1, <2>3, <4>1 DEF OwnersDealt, DealtTo, DealtStays, Behind
      <4>2. CASE i = next[g] - 1
        BY <2>3, <4>2 DEF DealtWith, Current
      <4>. QED BY <3>1, <3>2, <4>1, <4>2
    <3>. QED BY <2>3, <3>2 DEF DealtTo, Behind
  <2>. QED BY <2>2, <2>3
<1>. QED BY <1>1, <1>2, <1>3 DEF OwnersDealt

LEMMA OffsetsPoll ==
    ASSUME Types, Offsets, DealtStays, NEW g \in Claims, Fetch(g)
    PROVE  Offsets'
<1>. USE DEF Offsets
<1>0. /\ next' = [next EXCEPT ![g] = next[g] + 1] /\ next \in [Claims -> Nat \ {0}]
      /\ next[g] <= Len(topic[PartitionOf(g)])
      /\ UNCHANGED <<topic, owner, committed, marked>>
      /\ pc' = [pc EXCEPT ![g] = "fetched"] /\ pc \in [Claims -> Steps]
      /\ pc[g] = "polling"
  BY DEF Fetch, Poll, Types, TypeOK, GroupType
<1>1. WithinTopic'
  <2>1. Len(topic[PartitionOf(g)]) \in Nat
    BY TopicType, ClaimParts
  <2>. QED BY <1>0, <2>1 DEF WithinTopic
<1>2. MarksDealt'
  BY <1>0 DEF MarksDealt, DealtTo, DealtStays
<1>3. ASSUME NEW h \in Claims, IsOwner(h)' PROVE DealtTo(PartitionOf(h), Behind(h))'
  <2>1. IsOwner(h) /\ Behind(h)' = Behind(h) /\ PartitionOf(h) \in Partition
    BY <1>0, <1>3, ClaimParts DEF IsOwner, Behind, AtWork
  <2>. QED BY <1>0, <2>1 DEF OwnersDealt, DealtTo, DealtStays
<1>. QED BY <1>1, <1>2, <1>3 DEF OwnersDealt

LEMMA OffsetsMark ==
    ASSUME Types, Offsets, DealtStays, NEW g \in Claims, Ack(g)
    PROVE  Offsets'
<1>. USE DEF Offsets
<1>0. /\ UNCHANGED <<topic, owner, committed, next>>
      /\ marked' = IF IsOwner(g) THEN [marked EXCEPT ![PartitionOf(g)] = next[g]] ELSE marked
      /\ marked \in [Partition -> Nat \ {0}]
      /\ pc[g] = "acking" /\ pc' = [pc EXCEPT ![g] = "polling"] /\ pc \in [Claims -> Steps]
  BY DEF Ack, Mark, Types, TypeOK, GroupType
<1>1. ASSUME NEW p \in Partition
      PROVE  \/ marked'[p] = marked[p]
             \/ IsOwner(g) /\ p = PartitionOf(g) /\ marked'[p] = next[g]
  BY <1>0
<1>2. WithinTopic'
  BY <1>0, <1>1 DEF WithinTopic
<1>3. \A h \in Claims : Behind(h)' = Behind(h)
  BY <1>0 DEF Behind, AtWork
<1>4. ASSUME NEW h \in Claims, IsOwner(h)' PROVE DealtTo(PartitionOf(h), Behind(h))'
  <2>1. IsOwner(h) /\ PartitionOf(h) \in Partition
    BY <1>0, <1>4, ClaimParts DEF IsOwner
  <2>. QED BY <1>0, <1>3, <2>1 DEF OwnersDealt, DealtTo, DealtStays
<1>5. ASSUME NEW p \in Partition PROVE DealtTo(p, committed[p])'
  BY <1>0 DEF MarksDealt, DealtTo, DealtStays
<1>6. ASSUME NEW p \in Partition PROVE DealtTo(p, marked[p])'
  <2>1. CASE marked'[p] = marked[p]
    BY <1>0, <2>1 DEF MarksDealt, DealtTo, DealtStays
  <2>2. CASE IsOwner(g) /\ p = PartitionOf(g) /\ marked'[p] = next[g]
    <3>1. Behind(g) = next[g]
      BY <1>0 DEF Behind, AtWork
    <3>. QED BY <1>0, <2>2, <3>1 DEF OwnersDealt, DealtTo, DealtStays
  <2>. QED BY <1>1, <2>1, <2>2
<1>. QED BY <1>2, <1>4, <1>5, <1>6 DEF OwnersDealt, MarksDealt

LEMMA OffsetsCommit ==
    ASSUME Types, Offsets, DealtStays, UNCHANGED pc, NEW p \in Partition, CommitMarked(p)
    PROVE  Offsets'
<1>. USE DEF Offsets
<1>1. /\ committed' = [committed EXCEPT ![p] = marked[p]]
      /\ committed \in [Partition -> Nat \ {0}]
      /\ UNCHANGED <<topic, owner, marked, next, pc>>
  BY DEF CommitMarked, Types, TypeOK, GroupType
<1>2. WithinTopic'
  BY <1>1 DEF WithinTopic
<1>3. MarksDealt'
  BY <1>1 DEF MarksDealt, DealtTo, DealtStays
<1>4. ASSUME NEW h \in Claims, IsOwner(h)' PROVE DealtTo(PartitionOf(h), Behind(h))'
  <2>1. IsOwner(h) /\ Behind(h)' = Behind(h) /\ PartitionOf(h) \in Partition
    BY <1>1, <1>4, ClaimParts DEF IsOwner, Behind, AtWork
  <2>. QED BY <1>1, <2>1 DEF OwnersDealt, DealtTo, DealtStays
<1>. QED BY <1>2, <1>3, <1>4 DEF OwnersDealt

LEMMA OffsetsEnd ==
    ASSUME Offsets, DealtStays, UNCHANGED pc, NEW g \in Claims, EndClaim(g)
    PROVE  Offsets'
<1>. USE DEF Offsets, EndClaim
<1>1. WithinTopic' /\ MarksDealt'
  BY DEF WithinTopic, MarksDealt, DealtTo, DealtStays
<1>2. ASSUME NEW h \in Claims, IsOwner(h)' PROVE DealtTo(PartitionOf(h), Behind(h))'
  <2>1. IsOwner(h) /\ Behind(h)' = Behind(h) /\ PartitionOf(h) \in Partition
    BY <1>2, ClaimParts DEF IsOwner, Behind, AtWork
  <2>. QED BY <2>1 DEF OwnersDealt, DealtTo, DealtStays
<1>. QED BY <1>1, <1>2 DEF OwnersDealt

\* A worker that takes a partition over, or comes back to it, starts where all before
\* is dealt with.
LEMMA OffsetsAssign ==
    ASSUME Types, Offsets, DealtStays, NEW g \in Claims, Assign(g),
           pc' = [pc EXCEPT ![g] = "polling"]
    PROVE  Offsets'
<1>. USE DEF Offsets
<1>. DEFINE q == PartitionOf(g)
<1>0. /\ UNCHANGED <<topic, committed>>
      /\ owner' = [owner EXCEPT ![q] = WorkerOf(g)] /\ owner \in [Partition -> Worker]
      /\ marked' = [marked EXCEPT ![q] = committed[q]] /\ marked \in [Partition -> Nat \ {0}]
      /\ next' = [next EXCEPT ![g] = committed[q]] /\ next \in [Claims -> Nat \ {0}]
      /\ pc \in [Claims -> Steps]
      /\ q \in Partition
  BY ClaimParts DEF Assign, Types, TypeOK, GroupType
<1>1. WithinTopic'
  BY <1>0 DEF WithinTopic
<1>2. MarksDealt'
  BY <1>0 DEF MarksDealt, DealtTo, DealtStays
<1>3. ASSUME NEW h \in Claims, IsOwner(h)' PROVE DealtTo(PartitionOf(h), Behind(h))'
  <2>1. CASE h = g
    <3>1. Behind(g)' = committed[q]
      BY <1>0 DEF Behind, AtWork
    <3>. QED BY <1>0, <2>1, <3>1 DEF MarksDealt, DealtTo, DealtStays
  <2>2. CASE h # g /\ PartitionOf(h) = q
    <3>1. WorkerOf(h) # WorkerOf(g)
      BY <2>2 DEF Claims, WorkerOf, PartitionOf
    <3>2. owner'[q] = WorkerOf(g)
      BY <1>0
    <3>. QED BY <1>3, <2>2, <3>1, <3>2 DEF IsOwner
  <2>3. CASE PartitionOf(h) # q
    <3>1. IsOwner(h) /\ Behind(h)' = Behind(h) /\ PartitionOf(h) \in Partition
      BY <1>0, <1>3, <2>3, ClaimParts DEF IsOwner, Behind, AtWork
    <3>. QED BY <1>0, <3>1 DEF OwnersDealt, DealtTo, DealtStays
  <2>. QED BY <2>1, <2>2, <2>3
<1>. QED BY <1>1, <1>2, <1>3 DEF OwnersDealt

\* A credit is put behind everything that must be dealt with.
LEMMA OffsetsPublish ==
    ASSUME Types, Offsets, DealtStays, UNCHANGED pc,
           NEW p \in Partition, NEW m \in Message, Publish(p, m)
    PROVE  Offsets'
<1>. USE DEF Offsets
<1>0. UNCHANGED <<owner, committed, marked, running, next, pc>>
  BY DEF Publish
<1>1. ASSUME NEW q \in Partition
      PROVE  /\ Len(topic[q]) \in Nat /\ Len(topic'[q]) \in Nat
             /\ Len(topic[q]) <= Len(topic'[q])
             /\ \A i \in 1..Len(topic[q]) : topic'[q][i] = topic[q][i]
  <2>1. topic[q] \in Seq(Message) /\ Len(topic[q]) \in Nat
    BY TopicType
  <2>2. topic'[q] = IF q = p THEN Append(topic[q], m) ELSE topic[q]
    BY DEF Publish, Types, TypeOK, GroupType
  <2>. QED BY <2>1, <2>2
<1>2. /\ \A q \in Partition : committed[q] \in Nat /\ marked[q] \in Nat
      /\ \A g \in Claims : next[g] \in Nat
  BY DEF Types, TypeOK, GroupType
<1>3. WithinTopic'
  <2>1. \A q \in Partition : committed'[q] <= Len(topic'[q]) + 1 /\ marked'[q] <= Len(topic'[q]) + 1
    BY <1>0, <1>1, <1>2 DEF WithinTopic
  <2>2. ASSUME NEW g \in Claims PROVE next'[g] <= Len(topic'[PartitionOf(g)]) + 1
    <3>1. PartitionOf(g) \in Partition /\ next[g] <= Len(topic[PartitionOf(g)]) + 1
      BY ClaimParts DEF WithinTopic
    <3>. QED BY <1>0, <1>1, <1>2, <3>1
  <2>. QED BY <2>1, <2>2 DEF WithinTopic
<1>4. ASSUME NEW q \in Partition, NEW n \in Int, n <= Len(topic[q]) + 1, DealtTo(q, n)
      PROVE  DealtTo(q, n)'
  <2>. SUFFICES ASSUME NEW i \in (1..Len(topic[q]))', i < n
                PROVE  Dealt(topic[q][i].trx, q)'
    BY DEF DealtTo
  <2>1. i \in 1..Len(topic[q]) /\ topic'[q][i] = topic[q][i]
    BY <1>1, <1>4
  <2>2. Dealt(topic[q][i].trx, q)
    BY <1>4, <2>1 DEF DealtTo
  <2>. QED BY <2>1, <2>2 DEF DealtStays
<1>5. ASSUME NEW q \in Partition PROVE DealtTo(q, committed[q])' /\ DealtTo(q, marked[q])'
  <2>1. committed[q] <= Len(topic[q]) + 1 /\ DealtTo(q, committed[q])
    BY DEF WithinTopic, MarksDealt
  <2>2. marked[q] <= Len(topic[q]) + 1 /\ DealtTo(q, marked[q])
    BY DEF WithinTopic, MarksDealt
  <2>. QED BY <1>0, <1>2, <1>4, <2>1, <2>2
<1>6. ASSUME NEW g \in Claims, IsOwner(g)' PROVE DealtTo(PartitionOf(g), Behind(g))'
  <2>1. IsOwner(g) /\ Behind(g)' = Behind(g) /\ PartitionOf(g) \in Partition
    BY <1>0, <1>6, ClaimParts DEF IsOwner, Behind, AtWork
  <2>2. Behind(g) \in Int /\ Behind(g) <= Len(topic[PartitionOf(g)]) + 1
    BY <1>1, <1>2, ClaimParts DEF Behind, WithinTopic
  <2>3. DealtTo(PartitionOf(g), Behind(g))
    BY <2>1 DEF OwnersDealt
  <2>. QED BY <1>4, <2>1, <2>2, <2>3
<1>. QED BY <1>3, <1>5, <1>6 DEF MarksDealt, OwnersDealt

-----------------------------------------------------------------------------
(***************************************************************************)
(* Every step keeps the invariant.                                         *)
(***************************************************************************)
\* A step of a goroutine with its message: keys that are set or given back are those
\* of credits dealt with, and the goroutine is through with one that is.
LEMMA HandlingKept ==
    ASSUME Types, KeptInv, NEW g \in Claims, UNCHANGED group,
           NEW step \in Steps \ {"fetched"}, pc' = [pc EXCEPT ![g] = step],
           DealtStays,
           keys' \subseteq keys \union {Key(g)},
           keys' \subseteq keys \/ DealtWith(g)',
           step \in {"claimed", "nacking"} => AtWork(g),
           AtWork(g) => step \in {"claimed", "nacking"} \/ DealtWith(g)'
    PROVE  KeptInv'
<1>. USE DEF KeptInv
<1>1. pc \in [Claims -> Steps]
  BY DEF Types, TypeOK
<1>2. Offsets'
  <2>1. AtWork(g)' <=> step \in {"claimed", "nacking"}
    BY <1>1 DEF AtWork
  <2>2. \A h \in Claims \ {g} : pc'[h] = pc[h]
    BY <1>1
  <2>. QED BY <2>1, <2>2, OffsetsQuiet
<1>3. ASSUME NEW t, NEW a \in Partition, <<t, a>> \in keys' PROVE Dealt(t, a)'
  <2>1. CASE <<t, a>> \in keys
    BY <2>1 DEF KeysDealt, DealtStays
  <2>2. CASE <<t, a>> \notin keys
    <3>1. Key(g) = <<t, a>> /\ DealtWith(g)'
      BY <1>3, <2>2
    <3>2. t = Current(g).trx /\ a = PartitionOf(g) /\ Current(g)' = Current(g)
      BY <3>1, KeyAccount DEF group, Current
    <3>. QED BY <3>1, <3>2 DEF DealtWith
  <2>. QED BY <2>1, <2>2
<1>. QED BY <1>2, <1>3 DEF KeysDealt

LEMMA ProcessKept ==
    ASSUME Types, KeptInv, NEW g \in Claims, Process(g)
    PROVE  KeptInv'
<1>0. /\ pc \in [Claims -> Steps] /\ GroupType(Message)
      /\ Offsets /\ KeysDealt
  BY DEF Types, TypeOK, KeptInv
<1>1. ASSUME UNCHANGED group PROVE Current(g)' = Current(g) /\ Key(g)' = Key(g)
  BY <1>1 DEF group, Current, Key
\* Neither the history nor the message of another goroutine changes.
<1>2. ASSUME UNCHANGED <<group, applied>>, NEW step, pc' = [pc EXCEPT ![g] = step],
             nacked \subseteq nacked', keys \ nacked' \subseteq keys',
             Holds(g) => step \in {"claimed", "nacking"} \/ Key(g) \in nacked'
      PROVE  DealtStays
  <2>1. \A t : \A a \in Partition : Applied(t, a) => Applied(t, a)'
    BY <1>2 DEF Applied
  <2>2. \A h \in Claims \ {g} : pc'[h] = pc[h] /\ Current(h)' = Current(h)
    BY <1>0, <1>2, QuietGroup
  <2>3. Holds(g) => Current(g)' = Current(g) /\ (Key(g) \in nacked' \/ Holds(g)')
    BY <1>0, <1>1, <1>2 DEF Holds
  <2>. QED BY <1>2, <2>1, <2>2, <2>3, DealtKept
<1>3. ASSUME UNCHANGED group, AddCredit(g), NEW step \in Steps,
             pc' = [pc EXCEPT ![g] = step], nacked \subseteq nacked', UNCHANGED keys
      PROVE  DealtStays /\ DealtWith(g)'
  <2>1. /\ \A t : \A a \in Partition : Applied(t, a) => Applied(t, a)'
        /\ Applied(Current(g).trx, PartitionOf(g))'
    BY <1>3, AddedStays
  <2>2. \A h \in Claims \ {g} : pc'[h] = pc[h] /\ Current(h)' = Current(h)
    BY <1>0, <1>3, QuietGroup
  <2>3. DealtStays
    BY <1>1, <1>3, <2>1, <2>2, DealtKept
  <2>. QED BY <2>1, <2>3 DEF DealtWith, Dealt
<1>4. ASSUME UNCHANGED group, Key(g) \in nacked' PROVE DealtWith(g)'
  BY <1>1, <1>4 DEF DealtWith, Dealt, Key
<1>5. CASE Fetch(g)
  <2>1. DealtStays
    <3>1. \A h \in Claims \ {g} : pc'[h] = pc[h] /\ Current(h)' = Current(h)
      BY <1>0, <1>5, PollStep DEF Fetch
    <3>2. \A t : \A a \in Partition : Applied(t, a) => Applied(t, a)'
      BY <1>5 DEF Fetch, Applied
    <3>. QED BY <1>5, <3>1, <3>2, DealtKept DEF Fetch, Holds
  <2>2. KeysDealt'
    BY <1>0, <1>5, <2>1 DEF Fetch, KeysDealt, DealtStays
  <2>. QED BY <1>0, <1>5, <2>1, <2>2, OffsetsPoll DEF KeptInv
<1>6. CASE Claim(g)
  <2>1. DealtStays
    BY <1>2, <1>6 DEF Claim
  <2>2. DealtWith(g)'
    <3>1. Key(g) \in keys' /\ pc'[g] = "claimed" /\ Key(g)' = Key(g)
      BY <1>0, <1>1, <1>6 DEF Claim
    <3>2. Handled(Current(g).trx, PartitionOf(g))'
      BY <3>1 DEF Handled, Holds, Key
    <3>. QED BY <3>1, <3>2 DEF DealtWith, Dealt, Key
  <2>. QED BY <1>6, <2>1, <2>2, HandlingKept DEF Claim, AtWork, Steps
<1>7. CASE AlreadyClaimed(g)
  <2>1. DealtStays
    BY <1>2, <1>7 DEF AlreadyClaimed, Holds
  <2>2. DealtWith(g)'
    <3>1. DealtWith(g) /\ PartitionOf(g) \in Partition
      BY <1>0, <1>7, ClaimParts DEF AlreadyClaimed, Key, KeysDealt, DealtWith
    <3>2. Current(g)' = Current(g)
      BY <1>1, <1>7 DEF AlreadyClaimed
    <3>. QED BY <2>1, <3>1, <3>2 DEF DealtStays, DealtWith
  <2>. QED BY <1>7, <2>1, <2>2, HandlingKept DEF AlreadyClaimed, Steps
<1>8. CASE Adjust(g)
  <2>1. DealtStays /\ DealtWith(g)'
    BY <1>3, <1>8 DEF Adjust, Steps
  <2>. QED BY <1>8, <2>1, HandlingKept DEF Adjust, Steps
<1>9. CASE Ack(g)
  <2>1. DealtStays
    <3>1. \A h \in Claims \ {g} : pc'[h] = pc[h] /\ Current(h)' = Current(h)
      BY <1>0, <1>9, MarkStep DEF Ack
    <3>2. \A t : \A a \in Partition : Applied(t, a) => Applied(t, a)'
      BY <1>9 DEF Ack, Applied
    <3>. QED BY <1>9, <3>1, <3>2, DealtKept DEF Ack, Holds
  <2>2. KeysDealt'
    BY <1>0, <1>9, <2>1 DEF Ack, KeysDealt, DealtStays
  <2>. QED BY <1>0, <1>9, <2>1, <2>2, OffsetsMark DEF KeptInv
<1>10. CASE NackRelease(g)
  <2>1. DealtStays /\ DealtWith(g)'
    BY <1>2, <1>4, <1>10 DEF NackRelease, GiveUp
  <2>. QED BY <1>10, <2>1, HandlingKept DEF NackRelease, GiveUp, Steps
<1>11. CASE LeaveLoop(g)
  <2>1. DealtStays
    <3>1. \A h \in Claims \ {g} : pc'[h] = pc[h] /\ Current(h)' = Current(h)
      BY <1>0, <1>11, EndStep DEF LeaveLoop
    <3>2. \A t : \A a \in Partition : Applied(t, a) => Applied(t, a)'
      BY <1>11 DEF LeaveLoop, Applied
    <3>. QED BY <1>11, <3>1, <3>2, DealtKept DEF LeaveLoop, Holds
  <2>2. KeysDealt'
    BY <1>0, <1>11, <2>1 DEF LeaveLoop, KeysDealt, DealtStays
  <2>. QED BY <1>0, <1>11, <2>1, <2>2, OffsetsEnd DEF KeptInv, LeaveLoop
<1>12. CASE ContextCancelled(g)
  <2>1. DealtStays /\ DealtWith(g)'
    BY <1>2, <1>4, <1>12 DEF ContextCancelled, GiveUp
  <2>. QED BY <1>12, <2>1, HandlingKept DEF ContextCancelled, GiveUp, Steps
<1>13. CASE CancelledLate(g)
  <2>1. DealtStays /\ DealtWith(g)'
    BY <1>3, <1>13 DEF CancelledLate, GiveUp, Steps
  <2>. QED BY <1>13, <2>1, HandlingKept DEF CancelledLate, GiveUp, Steps
<1>. QED BY <1>5, <1>6, <1>7, <1>8, <1>9, <1>10, <1>11, <1>12, <1>13 DEF Process

\* A fault sends a goroutine with its message to Nack or makes it start again.
LEMMA FaultKept ==
    ASSUME Types, KeptInv, NEW g \in Claims, Fault(g)
    PROVE  KeptInv'
<1>0. /\ pc \in [Claims -> Steps] /\ GroupType(Message)
      /\ Offsets /\ KeysDealt
  BY DEF Types, TypeOK, KeptInv
<1>1. ASSUME UNCHANGED group PROVE Current(g)' = Current(g) /\ Key(g)' = Key(g)
  BY <1>1 DEF group, Current, Key
<1>2. CASE ClaimFails(g) \/ AdjustFails(g) \/ AdjustUnanswered(g)
  <2>1. /\ UNCHANGED <<group, keys, nacked>> /\ AtWork(g)
        /\ pc' = [pc EXCEPT ![g] = "nacking"]
    BY <1>2 DEF ClaimFails, AdjustFails, AdjustUnanswered, AddCredit, AtWork
  <2>2. \A t : \A a \in Partition : Applied(t, a) => Applied(t, a)'
    <3>1. CASE UNCHANGED applied
      BY <3>1 DEF Applied
    <3>2. CASE AddCredit(g)
      BY <2>1, <3>2, AddedStays
    <3>. QED BY <1>2, <3>1, <3>2 DEF ClaimFails, AdjustFails, AdjustUnanswered
  <2>3. \A h \in Claims \ {g} : pc'[h] = pc[h] /\ Current(h)' = Current(h)
    BY <1>0, <2>1, QuietGroup
  <2>4. Holds(g)' /\ Current(g)' = Current(g)
    BY <1>0, <1>1, <2>1 DEF Holds
  <2>5. DealtStays
    BY <2>1, <2>2, <2>3, <2>4, DealtKept
  <2>. QED BY <2>1, <2>5, HandlingKept DEF Steps
<1>3. CASE ReleaseFails(g)
  <2>1. /\ UNCHANGED <<group, applied, keys>> /\ pc' = [pc EXCEPT ![g] = "acking"]
        /\ nacked' = nacked \union {Key(g)}
    BY <1>3 DEF ReleaseFails, GiveUp
  <2>2. \A h \in Claims \ {g} : pc'[h] = pc[h] /\ Current(h)' = Current(h)
    BY <1>0, <2>1, QuietGroup
  <2>3. DealtStays
    BY <1>1, <2>1, <2>2, DealtKept DEF Applied
  <2>4. DealtWith(g)'
    BY <1>1, <2>1 DEF DealtWith, Dealt, Key
  <2>. QED BY <2>1, <2>3, <2>4, HandlingKept DEF Steps
<1>4. CASE Rebalance(g) \/ Crash(g)
  <2>1. /\ Assign(g) /\ pc' = [pc EXCEPT ![g] = "polling"] /\ UNCHANGED <<applied, keys, nacked>>
        /\ "crash" \notin FaultKinds => pc[g] = "polling"
    <3>1. CASE Rebalance(g)
      <4>1. pc[g] = "polling" /\ pc' = pc
        BY <3>1 DEF Rebalance, TakeOver, Types, HasMessage, Busy, InHand
      <4>. QED BY <1>0, <3>1, <4>1 DEF Rebalance, TakeOver
    <3>2. CASE Crash(g)
      BY <3>2 DEF Crash, Restart, Strike
    <3>. QED BY <1>4, <3>1, <3>2
  <2>2. \A h \in Claims \ {g} : pc'[h] = pc[h] /\ Current(h)' = Current(h)
    BY <1>0, <2>1, AssignStep
  <2>3. DealtStays
    BY <2>1, <2>2, DealtKept DEF Applied, Holds
  <2>4. KeysDealt'
    BY <1>0, <2>1, <2>3 DEF KeysDealt, DealtStays
  <2>. QED BY <1>0, <2>1, <2>3, <2>4, OffsetsAssign DEF KeptInv
<1>. QED BY <1>2, <1>3, <1>4 DEF Fault

LEMMA NextKept == Traceable /\ Types /\ KeptInv /\ [Next]_vars => KeptInv'
<1>. SUFFICES ASSUME Traceable, Types, KeptInv, [Next]_vars PROVE KeptInv'
  OBVIOUS
<1>0. GroupType(Message) /\ Offsets /\ KeysDealt
  BY DEF Types, TypeOK, KeptInv
\* Who only moves the topic or the offsets leaves keys and goroutines alone.
<1>1. ASSUME UNCHANGED <<pc, applied, keys, nacked>>,
             \A h \in Claims : Busy(h) => Current(h)' = Current(h)
      PROVE  DealtStays /\ KeysDealt'
  <2>1. ASSUME NEW t, NEW a, Handled(t, a) PROVE Handled(t, a)'
    <3>1. PICK h \in Claims : Holds(h) /\ Key(h) = <<t, a>>
      BY <2>1 DEF Handled
    <3>2. Holds(h)' /\ Key(h)' = <<t, a>>
      BY <1>1, <3>1 DEF Holds, Busy, Key
    <3>. QED BY <3>2 DEF Handled
  <2>2. DealtStays
    BY <1>1, <2>1 DEF DealtStays, Dealt, Applied
  <2>. QED BY <1>0, <1>1, <2>2 DEF KeysDealt, DealtStays
<1>2. ASSUME NEW p \in Partition, NEW m \in Message, Produce(p, m) PROVE KeptInv'
  <2>1. \A h \in Claims : Busy(h) => Current(h)' = Current(h)
    BY <1>0, <1>2, PublishStep DEF Produce, Types, HasMessage
  <2>2. DealtStays /\ KeysDealt'
    BY <1>1, <1>2, <2>1 DEF Produce
  <2>. QED BY <1>0, <1>2, <2>2, OffsetsPublish DEF Produce, KeptInv
<1>3. ASSUME NEW p \in Partition, CommitOffset(p) PROVE KeptInv'
  <2>1. DealtStays /\ KeysDealt'
    BY <1>0, <1>1, <1>3, CommitStep DEF CommitOffset
  <2>. QED BY <1>0, <1>3, <2>1, OffsetsCommit DEF CommitOffset, KeptInv
<1>4. ASSUME NEW k \in keys, Expire(k) PROVE KeptInv'
  <2>1. "crash" \notin FaultKinds /\ UNCHANGED <<group, pc, applied, nacked>> /\ keys' \subseteq keys
    BY <1>4 DEF Traceable, Expire, Strike
  <2>2. \A h \in Claims : Key(h)' = Key(h) /\ (Holds(h)' <=> Holds(h))
    BY <2>1 DEF group, Key, Current, Holds
  <2>3. DealtStays
    BY <2>1, <2>2 DEF DealtStays, Dealt, Applied, Handled
  <2>4. KeysDealt'
    BY <1>0, <2>1, <2>3 DEF KeysDealt, DealtStays
  <2>. QED BY <1>0, <2>1, <2>3, <2>4, OffsetsStay DEF KeptInv
<1>5. CASE UNCHANGED vars
  <2>1. DealtStays /\ KeysDealt'
    BY <1>0, <1>1, <1>5, QuietGroup DEF vars
  <2>. QED BY <1>0, <1>5, <2>1, OffsetsStay DEF KeptInv, vars
<1>. QED BY <1>2, <1>3, <1>4, <1>5, ProcessKept, FaultKept DEF Next, Drained

LEMMA InitKept == Init => KeptInv
<1>. SUFFICES ASSUME Init PROVE KeptInv
  OBVIOUS
<1>1. /\ keys = {} /\ \A p \in Partition : Len(topic[p]) = 0 /\ committed[p] = 1 /\ marked[p] = 1
      /\ \A g \in Claims : next[g] = 1
  BY DEF Init, GroupInit
<1>2. WithinTopic
  BY <1>1, ClaimParts DEF WithinTopic
<1>3. \A p \in Partition : \A n : DealtTo(p, n)
  BY <1>1 DEF DealtTo
<1>. QED BY <1>1, <1>2, <1>3, ClaimParts DEF KeptInv, KeysDealt, Offsets, OwnersDealt, MarksDealt

\* What the invariant says of a credit behind the committed offset.
LEMMA KeptMeans == ASSUME Types, KeptInv PROVE CreditsKept
<1>. SUFFICES ASSUME NEW a \in Partition, NEW t \in Trx,
                     NEW i \in DOMAIN topic[a], topic[a][i].trx = t
              PROVE  \/ Waiting(t, a) \/ Handled(t, a)
                     \/ Applied(t, a) \/ <<t, a>> \in nacked
                     \/ "crash" \in FaultKinds /\ <<t, a>> \in keys
  BY DEF CreditsKept
<1>0. topic[a] \in Seq(Message) /\ committed[a] \in Nat
  BY TopicType DEF Types, TypeOK, GroupType
<1>1. i \in 1..Len(topic[a]) /\ Len(topic[a]) \in Nat /\ committed[a] \in Nat
  BY <1>0
<1>2. CASE i >= committed[a]
  BY <1>1, <1>2 DEF Waiting
<1>3. CASE i < committed[a]
  BY <1>1, <1>3 DEF KeptInv, Offsets, MarksDealt, DealtTo, Dealt
<1>. QED BY <1>1, <1>2, <1>3

\* A credit that was published is on the topic ahead of the committed offset, with a
\* goroutine, added or given up, or was lost in a crash that left its key, for any
\* accounts, workers, credits and faults, unless processes die and keys expire too.
THEOREM NoCreditForgotten == ASSUME Traceable PROVE Spec => []CreditsKept
<1>1. Types /\ KeptInv /\ [Next]_vars => (Types /\ KeptInv)'
  BY NextTypes, NextKept
<1>2. Types /\ KeptInv => CreditsKept
  BY KeptMeans
<1>. QED BY <1>1, <1>2, InitTypes, InitKept, PTL DEF Spec
=============================================================================
