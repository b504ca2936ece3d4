--------------------------- MODULE SpscRingProofs ---------------------------
(***************************************************************************)
(* Proofs about SpscRing, for every capacity and every bound.              *)
(***************************************************************************)
EXTENDS SpscRing, Laps, TLAPS

\* Positions less than a lap apart have slots of their own.
LEMMA SlotDistinct ==
  ASSUME NEW p \in Nat, NEW q \in Nat, p < q, q < p + Capacity
  PROVE  Slot(p) # Slot(q)
<1>1. Capacity \in Nat /\ Capacity >= 1
  BY CapacityAssumption
<1>2. \A a, b \in Nat : a < b /\ a % Capacity = b % Capacity => a + Capacity <= b
  BY <1>1, LapApart, Zenon
<1>3. Slot(p) = Slot(q) => p + Capacity <= q
  BY <1>2, Zenon DEF Slot
<1> QED BY <1>1, <1>3

\* Every position has a slot.
LEMMA SlotInRange ==
  ASSUME NEW q \in Nat
  PROVE  Slot(q) \in SlotIds
<1>1. Capacity \in Nat /\ Capacity >= 1
  BY CapacityAssumption
<1> QED BY <1>1, LapRange, Zenon DEF Slot, SlotIds

\* The smaller of two numbers is one of them, and below both.
LEMMA LeastBound ==
  ASSUME NEW a \in Nat, NEW b \in Nat
  PROVE  Least(a, b) \in Nat /\ Least(a, b) <= a /\ Least(a, b) <= b
  BY DEF Least

\* A message taken by an acquire load.
LEMMA MessageTypes ==
  ASSUME NEW m \in Messages
  PROVE  m.val \in Nat /\ m.sees \in Nat
  BY DEF Messages

\* A message stored.
LEMMA MessageMade ==
  ASSUME NEW v \in Nat, NEW s \in Nat
  PROVE  /\ Message(v, s) \in Messages
         /\ Message(v, s).val = v /\ Message(v, s).sees = s
  BY DEF Message, Messages

-----------------------------------------------------------------------------
(* One lemma per step that changes more than a program counter. *)

\* A fresh ring.
LEMMA InitInv == Init => RingInv
<1> SUFFICES ASSUME Init PROVE RingInv
  OBVIOUS
<1>1. Message(0, 0) \in Messages /\ Message(0, 0).val = 0 /\ Message(0, 0).sees = 0
  BY MessageMade
<1>2. RingTypeOK
  BY <1>1 DEF Init, RingTypeOK
<1>3. MessagesHonest
  BY <1>1 DEF Init, MessagesHonest
<1>4. IndicesOrdered
  BY CapacityAssumption DEF Init, IndicesOrdered
<1>5. SlotsHold
  BY DEF Init, SlotsHold
<1> QED BY <1>2, <1>3, <1>4, <1>5 DEF RingInv

\* try_push believes there is room only if there is.
LEMMA TryPushInv == RingInv /\ TryPush => RingInv'
<1> SUFFICES ASSUME RingInv, TryPush PROVE RingInv'
  OBVIOUS
<1> USE DEF RingInv, TryPush, producer, consumer
<1>1. RingTypeOK'
  BY DEF RingTypeOK
<1>2. MessagesHonest'
  BY DEF MessagesHonest
<1>3. IndicesOrdered'
  BY CapacityAssumption DEF RingTypeOK, IndicesOrdered, Full
<1>4. SlotsHold'
  BY DEF SlotsHold
<1> QED BY <1>1, <1>2, <1>3, <1>4

\* The index loaded is at most the consumer's own, and leaves room or refuses.
LEMMA RefreshHeadInv == RingInv /\ RefreshHead => RingInv'
<1> SUFFICES ASSUME RingInv, RefreshHead PROVE RingInv'
  OBVIOUS
<1> USE DEF RingInv
<1>1. PICK m \in heads : /\ m.val >= cachedHead
                         /\ cachedHead' = m.val
                         /\ readsKnown' = m.sees
                         /\ pc' = IF Full(m.val) THEN "idle" ELSE "write"
  BY DEF RefreshHead
<1>2. UNCHANGED <<slots, tail, tails, consumer>> /\ pc = "refresh"
  BY DEF RefreshHead
<1>3. m.val \in Nat /\ m.sees \in Nat /\ m.sees = m.val /\ m.val <= head
  BY MessageTypes DEF RingTypeOK, MessagesHonest
<1>4. RingTypeOK'
  BY <1>1, <1>2, <1>3 DEF RingTypeOK, consumer
<1>5. MessagesHonest'
  BY <1>1, <1>2, <1>3 DEF MessagesHonest, consumer
<1>6. IndicesOrdered'
  BY <1>1, <1>2, <1>3, CapacityAssumption DEF RingTypeOK, IndicesOrdered, Full, consumer
<1>7. SlotsHold'
  BY <1>1, <1>2 DEF SlotsHold, consumer
<1> QED BY <1>4, <1>5, <1>6, <1>7

\* The slot written is a lap away from every position still to be read.
LEMMA WriteSlotInv == RingInv /\ WriteSlot => RingInv'
<1> SUFFICES ASSUME RingInv, WriteSlot PROVE RingInv'
  OBVIOUS
<1> USE DEF RingInv
<1>1. /\ pc = "write" /\ pc' = "publish"
      /\ slots' = [slots EXCEPT ![Slot(tail)] = tail]
      /\ UNCHANGED <<tail, tails, cachedHead, readsKnown, consumer>>
  BY DEF WriteSlot
<1>2. Slot(tail) \in SlotIds
  BY SlotInRange DEF RingTypeOK
<1>3. RingTypeOK'
  BY <1>1, <1>2 DEF RingTypeOK, consumer
<1>4. MessagesHonest'
  BY <1>1 DEF MessagesHonest, consumer
<1>5. IndicesOrdered'
  BY <1>1 DEF IndicesOrdered, consumer
<1>6. SlotsHold'
  <2>1. slots'[Slot(tail)] = tail
    BY <1>1, <1>2 DEF RingTypeOK
  <2>2. ASSUME NEW q \in head..(tail - 1)
        PROVE  slots'[Slot(q)] = q
    <3>1. q \in Nat /\ q < tail /\ tail < q + Capacity
      BY <1>1, CapacityAssumption DEF RingTypeOK, IndicesOrdered
    <3>2. Slot(q) # Slot(tail) /\ Slot(q) \in SlotIds
      BY <3>1, SlotDistinct, SlotInRange DEF RingTypeOK
    <3>3. slots[Slot(q)] = q
      BY DEF SlotsHold
    <3> QED BY <3>2, <3>3, <1>1, <1>2 DEF RingTypeOK
  <2> QED BY <1>1, <2>1, <2>2 DEF SlotsHold, consumer
<1> QED BY <1>3, <1>4, <1>5, <1>6

\* The store of tail_ releases the writes of all positions below it.
LEMMA PublishInv == RingInv /\ Publish => RingInv'
<1> SUFFICES ASSUME RingInv, Publish PROVE RingInv'
  OBVIOUS
<1> USE DEF RingInv
<1>1. /\ pc = "publish" /\ pc' = "idle" /\ tail' = tail + 1
      /\ tails' = tails \cup {Message(tail + 1, tail + 1)}
      /\ UNCHANGED <<slots, cachedHead, readsKnown, consumer>>
  BY DEF Publish
<1>2. tail \in Nat /\ tail + 1 \in Nat
  BY DEF RingTypeOK
<1>3. /\ Message(tail + 1, tail + 1) \in Messages
      /\ Message(tail + 1, tail + 1).val = tail + 1
      /\ Message(tail + 1, tail + 1).sees = tail + 1
  BY <1>2, MessageMade
<1>4. RingTypeOK'
  BY <1>1, <1>2, <1>3 DEF RingTypeOK, consumer
<1>5. MessagesHonest'
  <2>1. ASSUME NEW m \in tails' PROVE m.sees = m.val /\ m.val <= tail'
    <3>1. CASE m \in tails
      <4>1. m.val \in Nat
        BY <3>1, MessageTypes DEF RingTypeOK
      <4> QED BY <3>1, <4>1, <1>1, <1>2 DEF MessagesHonest
    <3>2. CASE m = Message(tail + 1, tail + 1)
      BY <3>2, <1>1, <1>2, <1>3
    <3> QED BY <3>1, <3>2, <1>1
  <2> QED BY <2>1, <1>1 DEF MessagesHonest, consumer
<1>6. IndicesOrdered'
  BY <1>1, <1>2, CapacityAssumption DEF RingTypeOK, IndicesOrdered, consumer
<1>7. SlotsHold'
  <2>1. ASSUME NEW q \in head'..(tail' - 1) PROVE slots'[Slot(q)] = q
    <3>1. q \in head..(tail - 1) \/ q = tail
      BY <1>1 DEF RingTypeOK, consumer
    <3> QED BY <3>1, <1>1 DEF SlotsHold
  <2> QED BY <2>1, <1>1 DEF SlotsHold
<1> QED BY <1>4, <1>5, <1>6, <1>7

-----------------------------------------------------------------------------

\* A batch of what the cached tail allows.
LEMMA PopBatchInv == ASSUME NEW max \in 0..MaxItems PROVE RingInv /\ PopBatch(max) => RingInv'
<1> SUFFICES ASSUME RingInv, PopBatch(max) PROVE RingInv'
  OBVIOUS
<1> USE DEF RingInv
<1>1. max \in Nat /\ cachedTail - head \in Nat
  BY BoundsAssumption DEF RingTypeOK, IndicesOrdered
<1>2. /\ n' \in Nat /\ n' <= cachedTail - head /\ copied' = 0 /\ want' = max
      /\ cc' \in {"refresh", "copy"}
      /\ UNCHANGED <<producer, head, heads, cachedTail, writesKnown>>
  BY <1>1, LeastBound DEF PopBatch
<1>3. RingTypeOK'
  BY <1>1, <1>2 DEF RingTypeOK, producer
<1>4. MessagesHonest'
  BY <1>2 DEF MessagesHonest, producer
<1>5. IndicesOrdered'
  <2>1. copied' <= n'
    BY <1>2
  <2>2. \A k \in Nat : k <= cachedTail - head => head + k <= cachedTail
    BY DEF RingTypeOK
  <2>3. head + n' <= cachedTail
    BY <2>2, <1>2
  <2> QED BY <2>1, <2>3, <1>2 DEF IndicesOrdered, producer
<1>6. SlotsHold'
  BY <1>2 DEF SlotsHold, producer
<1> QED BY <1>3, <1>4, <1>5, <1>6

\* The index loaded is at most the producer's own, and the batch within it.
LEMMA RefreshTailInv == RingInv /\ RefreshTail => RingInv'
<1> SUFFICES ASSUME RingInv, RefreshTail PROVE RingInv'
  OBVIOUS
<1> USE DEF RingInv
<1>1. PICK m \in tails : /\ m.val >= cachedTail
                         /\ cachedTail' = m.val
                         /\ writesKnown' = m.sees
                         /\ n' = Least(want, m.val - head)
                         /\ cc' = IF head = m.val THEN "idle" ELSE "copy"
  BY DEF RefreshTail
<1>2. UNCHANGED <<producer, head, heads, want, copied>> /\ cc = "refresh"
  BY DEF RefreshTail
<1>3. m.val \in Nat /\ m.sees \in Nat /\ m.sees = m.val /\ m.val <= tail
  BY MessageTypes DEF RingTypeOK, MessagesHonest
<1>4. n' \in Nat /\ n' <= m.val - head
  <2>1. want \in Nat /\ m.val - head \in Nat
    BY <1>1, <1>3 DEF RingTypeOK, IndicesOrdered
  <2> QED BY <1>1, <2>1, LeastBound
<1>5. RingTypeOK'
  BY <1>1, <1>2, <1>3, <1>4 DEF RingTypeOK, producer
<1>6. MessagesHonest'
  BY <1>1, <1>2, <1>3 DEF MessagesHonest, producer
<1>7. IndicesOrdered'
  <2>1. copied' = 0 /\ copied' <= n'
    BY <1>2, <1>4 DEF IndicesOrdered
  <2>2. head <= m.val /\ head + n' <= m.val
    BY <1>1, <1>3, <1>4 DEF RingTypeOK, IndicesOrdered
  <2> QED BY <2>1, <2>2, <1>1, <1>2, <1>3 DEF IndicesOrdered, producer
<1>8. SlotsHold'
  BY <1>2 DEF SlotsHold, producer
<1> QED BY <1>5, <1>6, <1>7, <1>8

\* Copying moves no index.
LEMMA CopySlotInv == RingInv /\ CopySlot => RingInv'
<1> SUFFICES ASSUME RingInv, CopySlot PROVE RingInv'
  OBVIOUS
<1> USE DEF RingInv, CopySlot
<1>1. RingTypeOK'
  BY DEF RingTypeOK, producer
<1>2. MessagesHonest'
  BY DEF MessagesHonest, producer
<1>3. IndicesOrdered'
  BY DEF RingTypeOK, IndicesOrdered, producer
<1>4. SlotsHold'
  BY DEF SlotsHold, producer
<1> QED BY <1>1, <1>2, <1>3, <1>4

\* The store of head_ releases the reads of all positions below it.
LEMMA FreeSlotsInv == RingInv /\ FreeSlots => RingInv'
<1> SUFFICES ASSUME RingInv, FreeSlots PROVE RingInv'
  OBVIOUS
<1> USE DEF RingInv
<1>1. /\ cc = "copy" /\ copied = n /\ head' = head + n
      /\ heads' = heads \cup {Message(head + n, head + n)}
      /\ n' = 0 /\ copied' = 0 /\ cc' = "idle"
      /\ UNCHANGED <<producer, cachedTail, writesKnown, want>>
  BY DEF FreeSlots
<1>2. head \in Nat /\ n \in Nat /\ head + n \in Nat
  BY DEF RingTypeOK
<1>3. /\ Message(head + n, head + n) \in Messages
      /\ Message(head + n, head + n).val = head + n
      /\ Message(head + n, head + n).sees = head + n
  BY <1>2, MessageMade
<1>4. RingTypeOK'
  BY <1>1, <1>2, <1>3 DEF RingTypeOK, producer
<1>5. MessagesHonest'
  <2>1. ASSUME NEW m \in heads' PROVE m.sees = m.val /\ m.val <= head'
    <3>1. CASE m \in heads
      <4>1. m.val \in Nat
        BY <3>1, MessageTypes DEF RingTypeOK
      <4> QED BY <3>1, <4>1, <1>1, <1>2 DEF MessagesHonest
    <3>2. CASE m = Message(head + n, head + n)
      BY <3>2, <1>1, <1>2, <1>3
    <3> QED BY <3>1, <3>2, <1>1
  <2> QED BY <2>1, <1>1 DEF MessagesHonest, producer
<1>6. IndicesOrdered'
  BY <1>1, <1>2 DEF RingTypeOK, IndicesOrdered, producer
<1>7. SlotsHold'
  <2>1. ASSUME NEW q \in head'..(tail' - 1) PROVE q \in head..(tail - 1)
    BY <1>1, <1>2 DEF RingTypeOK, producer
  <2> QED BY <2>1, <1>1 DEF SlotsHold, producer
<1> QED BY <1>4, <1>5, <1>6, <1>7

\* empty_now refreshes the cached tail and no more.
LEMMA EmptyNowInv == RingInv /\ EmptyNow => RingInv'
<1> SUFFICES ASSUME RingInv, EmptyNow PROVE RingInv'
  OBVIOUS
<1> USE DEF RingInv
<1>1. PICK m \in tails : /\ m.val >= cachedTail
                         /\ cachedTail' = m.val
                         /\ writesKnown' = m.sees
  BY DEF EmptyNow
<1>2. UNCHANGED <<producer, head, heads, cc, want, n, copied>> /\ cc = "idle"
  BY DEF EmptyNow
<1>3. m.val \in Nat /\ m.sees \in Nat /\ m.sees = m.val /\ m.val <= tail
  BY MessageTypes DEF RingTypeOK, MessagesHonest
<1>4. RingTypeOK'
  BY <1>1, <1>2, <1>3 DEF RingTypeOK, producer
<1>5. MessagesHonest'
  BY <1>1, <1>2, <1>3 DEF MessagesHonest, producer
<1>6. IndicesOrdered'
  BY <1>1, <1>2, <1>3 DEF RingTypeOK, IndicesOrdered, producer
<1>7. SlotsHold'
  BY <1>2 DEF SlotsHold, producer
<1> QED BY <1>4, <1>5, <1>6, <1>7

-----------------------------------------------------------------------------

\* The invariant of SpscRing is inductive, whatever the capacity: the indices keep
\* their order and the slots between them their events.
THEOREM SpscRingInvariant == Spec => []RingInv
<1>1. RingInv /\ [Next]_vars => RingInv'
  <2> SUFFICES ASSUME RingInv, [Next]_vars PROVE RingInv'
    OBVIOUS
  <2>1. CASE UNCHANGED vars
    BY <2>1 DEF vars, producer, consumer, RingInv, RingTypeOK, MessagesHonest,
                IndicesOrdered, SlotsHold
  <2>2. CASE \E max \in 0..MaxItems : PopBatch(max)
    BY <2>2, PopBatchInv
  <2> QED BY <2>1, <2>2, TryPushInv, RefreshHeadInv, WriteSlotInv, PublishInv,
             RefreshTailInv, CopySlotInv, FreeSlotsInv, EmptyNowInv DEF Next
<1> QED BY <1>1, InitInv, PTL DEF Spec

\* slots_ has no data race: a slot is overwritten after the read of the lap before
\* and read after its write, by the release and acquire of the two indices.
THEOREM SlotAccessesOrdered == Spec => []SlotsOrdered
<1>1. RingInv => SlotsOrdered
  BY CapacityAssumption DEF RingInv, RingTypeOK, MessagesHonest, IndicesOrdered, SlotsOrdered
<1> QED BY <1>1, SpscRingInvariant, PTL

\* pop_batch copies the event pushed at each position, in order.
THEOREM EventsInOrder == Spec => []CopiesInOrder
<1>1. RingInv => CopiesInOrder
  BY DEF RingInv, RingTypeOK, IndicesOrdered, SlotsHold, CopiesInOrder
<1> QED BY <1>1, SpscRingInvariant, PTL

\* producer_size_hint lies between the ring's size and its capacity.
THEOREM HighWaterBounded == Spec => []HintBrackets
<1>1. RingInv => HintBrackets
  BY CapacityAssumption DEF RingInv, RingTypeOK, IndicesOrdered, HintBrackets
<1> QED BY <1>1, SpscRingInvariant, PTL
=============================================================================
