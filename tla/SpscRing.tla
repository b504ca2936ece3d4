------------------------------ MODULE SpscRing ------------------------------
(***************************************************************************)
(* weir::SpscRing (spsc_ring.hpp): a bounded ring with one producer and    *)
(* one consumer, free-running indices, and a private cached copy of the    *)
(* other side's index on either side.                                      *)
(*                                                                         *)
(* Memory is C++'s release and acquire: every store of an index stays      *)
(* readable as a message, an acquire load takes any message not older than *)
(* the last one its thread took, and with it what the storing thread had   *)
(* done to the slots by then.  An event is the number of its push.         *)
(***************************************************************************)
EXTENDS Integers

CONSTANTS
  Capacity,
  MaxPushes,   \* bound: events pushed
  MaxItems,    \* bound: the largest max_items of a pop_batch
  None         \* a slot never written

ASSUME CapacityAssumption == Capacity \in Nat /\ Capacity >= 2
ASSUME BoundsAssumption == MaxPushes \in Nat /\ MaxItems \in Nat

VARIABLES
  slots,        \* slots_
  tail,         \* tail_ as its only writer has it
  tails,        \* the stores of tail_: value and slot writes it releases
  cachedHead,   \* cached_head_
  readsKnown,   \* the slot reads the producer has synchronised with
  pc,           \* where the producer is
  head,         \* head_ as its only writer has it
  heads,        \* the stores of head_: value and slot reads it releases
  cachedTail,   \* cached_tail_
  writesKnown,  \* the slot writes the consumer has synchronised with
  cc,           \* where the consumer is
  want,         \* pop_batch: max_items
  n, copied     \* pop_batch: events to copy, and copied so far

producer == <<slots, tail, tails, cachedHead, readsKnown, pc>>
consumer == <<head, heads, cachedTail, writesKnown, cc, want, n, copied>>
vars == <<producer, consumer>>

SlotIds == 0..(Capacity - 1)
Slot(q) == q % Capacity
Message(v, s) == [val |-> v, sees |-> s]
Messages == [val : Nat, sees : Nat]

Init ==
  /\ slots = [i \in SlotIds |-> None]
  /\ tail = 0 /\ tails = {Message(0, 0)} /\ cachedHead = 0 /\ readsKnown = 0
  /\ pc = "idle"
  /\ head = 0 /\ heads = {Message(0, 0)} /\ cachedTail = 0 /\ writesKnown = 0
  /\ cc = "idle" /\ want = 0 /\ n = 0 /\ copied = 0

-----------------------------------------------------------------------------
(* The producer: try_push. *)

\* Faulty: one event more than there are slots.
FullOffByOne(h) == tail - h > Capacity

\* The ring is full if its consumer's index is h.
Full(h) == tail - h = Capacity

TryPush ==
  /\ pc = "idle" /\ tail < MaxPushes
  /\ pc' = IF Full(cachedHead) THEN "refresh" ELSE "write"
  /\ UNCHANGED <<slots, tail, tails, cachedHead, readsKnown, consumer>>

\* Believed full: load head_, and return false if it is.
RefreshHead ==
  /\ pc = "refresh"
  /\ \E m \in heads :
       /\ m.val >= cachedHead
       /\ cachedHead' = m.val
       /\ readsKnown' = m.sees
       /\ pc' = IF Full(m.val) THEN "idle" ELSE "write"
  /\ UNCHANGED <<slots, tail, tails, consumer>>

WriteSlot ==
  /\ pc = "write"
  /\ slots' = [slots EXCEPT ![Slot(tail)] = tail]
  /\ pc' = "publish"
  /\ UNCHANGED <<tail, tails, cachedHead, readsKnown, consumer>>

\* Faulty: a relaxed store releases no slot write.
PublishRelaxed ==
  /\ pc = "publish"
  /\ tail' = tail + 1
  /\ tails' = tails \cup {Message(tail + 1, 0)}
  /\ pc' = "idle"
  /\ UNCHANGED <<slots, cachedHead, readsKnown, consumer>>

\* tail_.store(t + 1, release): every slot write so far is visible with it.
Publish ==
  /\ pc = "publish"
  /\ tail' = tail + 1
  /\ tails' = tails \cup {Message(tail + 1, tail + 1)}
  /\ pc' = "idle"
  /\ UNCHANGED <<slots, cachedHead, readsKnown, consumer>>

-----------------------------------------------------------------------------
(* The consumer: pop_batch and empty_now. *)

Least(a, b) == IF a < b THEN a ELSE b

PopBatch(max) ==
  /\ cc = "idle"
  /\ want' = max
  /\ n' = Least(max, cachedTail - head) /\ copied' = 0
  /\ cc' = IF head = cachedTail THEN "refresh" ELSE "copy"
  /\ UNCHANGED <<producer, head, heads, cachedTail, writesKnown>>

\* Faulty: the batch is sized before the tail is loaded, by what there was room for.
RefreshTailUnclamped ==
  /\ cc = "refresh"
  /\ \E m \in tails :
       /\ m.val >= cachedTail
       /\ cachedTail' = m.val
       /\ writesKnown' = m.sees
       /\ n' = want
       /\ cc' = IF head = m.val THEN "idle" ELSE "copy"
  /\ UNCHANGED <<producer, head, heads, want, copied>>

\* Believed empty: load tail_, and return 0 if it is.
RefreshTail ==
  /\ cc = "refresh"
  /\ \E m \in tails :
       /\ m.val >= cachedTail
       /\ cachedTail' = m.val
       /\ writesKnown' = m.sees
       /\ n' = Least(want, m.val - head)
       /\ cc' = IF head = m.val THEN "idle" ELSE "copy"
  /\ UNCHANGED <<producer, head, heads, want, copied>>

CopySlot ==
  /\ cc = "copy" /\ copied < n
  /\ copied' = copied + 1
  /\ UNCHANGED <<producer, head, heads, cachedTail, writesKnown, cc, want, n>>

\* Faulty: the slots are given back while the last one is still to be read.
FreeSlotsEarly ==
  /\ cc = "copy" /\ copied + 1 >= n
  /\ head' = head + n
  /\ heads' = heads \cup {Message(head + n, head + copied)}
  /\ n' = 0 /\ copied' = 0 /\ cc' = "idle"
  /\ UNCHANGED <<producer, cachedTail, writesKnown, want>>

\* head_.store(h + n, release): every slot read so far happened before it.
FreeSlots ==
  /\ cc = "copy" /\ copied = n
  /\ head' = head + n
  /\ heads' = heads \cup {Message(head + n, head + copied)}
  /\ n' = 0 /\ copied' = 0 /\ cc' = "idle"
  /\ UNCHANGED <<producer, cachedTail, writesKnown, want>>

\* empty_now: load tail_ whatever the cached copy says.
EmptyNow ==
  /\ cc = "idle"
  /\ \E m \in tails :
       /\ m.val >= cachedTail
       /\ cachedTail' = m.val
       /\ writesKnown' = m.sees
  /\ UNCHANGED <<producer, head, heads, cc, want, n, copied>>

Next ==
  \/ TryPush \/ RefreshHead \/ WriteSlot \/ Publish
  \/ \E max \in 0..MaxItems : PopBatch(max)
  \/ RefreshTail \/ CopySlot \/ FreeSlots \/ EmptyNow

Spec == Init /\ [][Next]_vars

-----------------------------------------------------------------------------
(* Properties. *)

RingTypeOK ==
  /\ slots \in [SlotIds -> Nat \cup {None}]
  /\ tail \in Nat /\ cachedHead \in Nat /\ readsKnown \in Nat
  /\ pc \in {"idle", "refresh", "write", "publish"}
  /\ head \in Nat /\ cachedTail \in Nat /\ writesKnown \in Nat
  /\ cc \in {"idle", "refresh", "copy"}
  /\ want \in Nat /\ n \in Nat /\ copied \in Nat
  /\ tails \subseteq Messages /\ heads \subseteq Messages

\* The producer overwrites a slot only after the read of the lap before, and the
\* consumer reads one only after its write: slots_ has no data race, by the two
\* release and acquire pairs alone and however stale the indices loaded are.
SlotsOrdered ==
  /\ pc = "write" => tail - Capacity < readsKnown
  /\ cc = "copy" /\ copied < n => head + copied < writesKnown

\* What pop_batch is about to copy is the event pushed at that position: events
\* come out in push order, none twice, none skipped and none overwritten.
CopiesInOrder ==
  cc = "copy" /\ copied < n => slots[Slot(head + copied)] = head + copied

\* producer_size_hint, the high-water statistic, may be stale but never reports
\* less than is in the ring, nor more than fits.
HintBrackets == tail - head <= tail - cachedHead /\ tail - cachedHead <= Capacity

-----------------------------------------------------------------------------
(* The inductive invariant. *)

\* A message releases exactly the slot accesses below its index, and each side's
\* cached copy is the message it last took.
MessagesHonest ==
  /\ \A m \in tails : m.sees = m.val /\ m.val <= tail
  /\ \A m \in heads : m.sees = m.val /\ m.val <= head
  /\ readsKnown = cachedHead /\ writesKnown = cachedTail

\* cachedHead <= head <= cachedTail <= tail <= cachedHead + Capacity, the last one
\* strictly once the producer has found room; a batch ends within cachedTail.
IndicesOrdered ==
  /\ cachedHead <= head /\ head <= cachedTail /\ cachedTail <= tail
  /\ tail <= cachedHead + Capacity
  /\ pc \in {"write", "publish"} => tail < cachedHead + Capacity
  /\ cc = "copy" => head + n <= cachedTail /\ copied <= n
  /\ cc # "copy" => copied = 0

\* The slots between the indices hold the events of their positions.
SlotsHold ==
  /\ \A q \in head..(tail - 1) : slots[Slot(q)] = q
  /\ pc = "publish" => slots[Slot(tail)] = tail

RingInv == RingTypeOK /\ MessagesHonest /\ IndicesOrdered /\ SlotsHold
=============================================================================
