------------------------- MODULE ConsumerGroupProofs -------------------------
(***************************************************************************)
(* What every consumer needs to know of its group: each step of the group  *)
(* keeps its types, and leaves a goroutine the message it has in hand.     *)
(***************************************************************************)
EXTENDS ConsumerGroup, TLAPS

LEMMA ClaimParts ==
    ASSUME NEW g \in Claims
    PROVE  WorkerOf(g) \in Worker /\ PartitionOf(g) \in Partition
BY DEF Claims, WorkerOf, PartitionOf

\* The message in hand is one of the topic's.
LEMMA CurrentType ==
    ASSUME NEW M, GroupType(M), NEW g \in Claims, InHand(g)
    PROVE  Current(g) \in M
<1>1. topic[PartitionOf(g)] \in Seq(M)
  BY ClaimParts DEF GroupType
<1>. QED BY <1>1 DEF InHand, Current

LEMMA GroupInitType ==
    ASSUME NEW M, GroupInit, Worker # {}
    PROVE  GroupType(M)
<1>1. topic \in [Partition -> Seq(M)]
  BY DEF GroupInit
<1>2. running \in SUBSET Claims
  BY DEF GroupInit
<1>. QED BY <1>1, <1>2 DEF GroupInit, GroupType

\* A message is added behind the others: what is in hand stays what it is.
LEMMA PublishStep ==
    ASSUME NEW M, GroupType(M), NEW p \in Partition, NEW m \in M, Publish(p, m)
    PROVE  /\ GroupType(M)'
           /\ \A g \in Claims : InHand(g) => InHand(g)' /\ Current(g)' = Current(g)
<1>1. topic[p] \in Seq(M) /\ Len(topic[p]) \in Nat
  BY DEF GroupType
<1>2. Append(topic[p], m) \in Seq(M) /\ Len(Append(topic[p], m)) = Len(topic[p]) + 1
  BY <1>1
<1>3. topic' \in [Partition -> Seq(M)]
  BY <1>2 DEF Publish, GroupType
<1>4. GroupType(M)'
  BY <1>3 DEF Publish, GroupType
<1>5. ASSUME NEW g \in Claims, InHand(g)
      PROVE  InHand(g)' /\ Current(g)' = Current(g)
  <2>. DEFINE q == PartitionOf(g)
  <2>1. q \in Partition /\ topic[q] \in Seq(M) /\ next[g] - 1 \in 1..Len(topic[q])
    BY <1>5, ClaimParts DEF GroupType, InHand
  <2>2. CASE q = p
    <3>1. topic'[q] = Append(topic[q], m)
      BY <2>1, <2>2 DEF Publish, GroupType
    <3>2. Len(topic'[q]) = Len(topic[q]) + 1 /\ topic'[q][next[g] - 1] = topic[q][next[g] - 1]
      BY <1>1, <1>2, <2>1, <2>2, <3>1
    <3>. QED BY <1>1, <1>5, <2>1, <2>2, <3>2 DEF Publish, InHand, Current
  <2>3. CASE q # p
    <3>1. topic'[q] = topic[q]
      BY <2>1, <2>3 DEF Publish, GroupType
    <3>. QED BY <1>5, <3>1 DEF Publish, InHand, Current
  <2>. QED BY <2>2, <2>3
<1>. QED BY <1>4, <1>5

\* The goroutine that polls gets a message; the others keep theirs.
LEMMA PollStep ==
    ASSUME NEW M, GroupType(M), NEW g \in Claims, Poll(g)
    PROVE  /\ GroupType(M)'
           /\ InHand(g)'
           /\ \A h \in Claims \ {g} :
                  (InHand(h) => InHand(h)') /\ Current(h)' = Current(h)
<1>1. PartitionOf(g) \in Partition /\ topic[PartitionOf(g)] \in Seq(M)
  BY ClaimParts DEF GroupType
<1>2. next[g] \in Nat \ {0} /\ next'[g] = next[g] + 1
  BY DEF Poll, GroupType
<1>3. next[g] \in 1..Len(topic[PartitionOf(g)])
  BY <1>1, <1>2 DEF Poll
<1>4. InHand(g)'
  BY <1>2, <1>3 DEF Poll, InHand
<1>5. next' \in [Claims -> Nat \ {0}]
  BY <1>2 DEF Poll, GroupType
<1>6. GroupType(M)'
  BY <1>5 DEF Poll, GroupType
<1>. QED BY <1>4, <1>6 DEF Poll, GroupType, InHand, Current

LEMMA MarkStep ==
    ASSUME NEW M, GroupType(M), NEW g \in Claims, Mark(g)
    PROVE  /\ GroupType(M)'
           /\ \A h \in Claims : (InHand(h) => InHand(h)') /\ Current(h)' = Current(h)
<1>1. marked' \in [Partition -> Nat \ {0}]
  BY DEF Mark, GroupType
<1>. QED BY <1>1 DEF Mark, GroupType, InHand, Current

LEMMA CommitStep ==
    ASSUME NEW M, GroupType(M), NEW p \in Partition, CommitMarked(p)
    PROVE  /\ GroupType(M)'
           /\ \A h \in Claims : (InHand(h) => InHand(h)') /\ Current(h)' = Current(h)
BY DEF CommitMarked, GroupType, InHand, Current

\* The goroutine that leaves, or starts again, loses what it had.
LEMMA EndStep ==
    ASSUME NEW M, GroupType(M), NEW g \in Claims, EndClaim(g)
    PROVE  /\ GroupType(M)'
           /\ \A h \in Claims \ {g} :
                  (InHand(h) => InHand(h)') /\ Current(h)' = Current(h)
BY DEF EndClaim, GroupType, InHand, Current

LEMMA AssignStep ==
    ASSUME NEW M, GroupType(M), NEW g \in Claims, Assign(g)
    PROVE  /\ GroupType(M)'
           /\ \A h \in Claims \ {g} :
                  (InHand(h) => InHand(h)') /\ Current(h)' = Current(h)
<1>1. committed[PartitionOf(g)] \in Nat \ {0} /\ WorkerOf(g) \in Worker
  BY ClaimParts DEF GroupType
<1>2. owner' \in [Partition -> Worker] /\ marked' \in [Partition -> Nat \ {0}]
  BY <1>1 DEF Assign, GroupType
<1>3. next' \in [Claims -> Nat \ {0}] /\ running' \in SUBSET Claims
  BY <1>1 DEF Assign, GroupType
<1>4. GroupType(M)'
  BY <1>2, <1>3 DEF Assign, GroupType
<1>. QED BY <1>4 DEF Assign, GroupType, InHand, Current

LEMMA QuietGroup ==
    ASSUME NEW M, GroupType(M), UNCHANGED group
    PROVE  /\ GroupType(M)'
           /\ \A h \in Claims : (InHand(h) => InHand(h)') /\ Current(h)' = Current(h)
BY DEF group, GroupType, InHand, Current
=============================================================================
