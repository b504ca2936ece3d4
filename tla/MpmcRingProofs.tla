--------------------------- MODULE MpmcRingProofs ---------------------------
(***************************************************************************)
(* What TLC checks of MpmcRing on small rings, for every ring size and any *)
(* number of threads: IInv is inductive, and the ring's properties follow  *)
(* from it.  One lemma per step that changes shared memory, and one each   *)
(* for all the steps with which a producer or a consumer only looks.       *)
(* Then: the ring implements WorkQueue, either way of reserving.           *)
(***************************************************************************)
EXTENDS MpmcRingInvariant, MpmcRingRefinement, Laps, FiniteSetTheorems,
        FunctionTheorems, TLAPS

\* slot(pos) masks a position to an index of the ring.
LEMMA SlotRange == \A q \in Nat : Slot(q) \in 0..(N-1)
  BY SizeAssumption DEF Slot

\* Every position has a slot of the ring.
LEMMA SlotIsSlot == \A q \in Nat : Slot(q) \in Slots
  BY SlotRange DEF Slots

\* Two positions that slot() maps to one slot are at least a lap apart.
LEMMA SlotApart == \A a, b \in Nat : a < b /\ Slot(a) = Slot(b) => a + N <= b
<1>1. N \in Nat /\ N >= 1
  BY SizeAssumption
<1> QED BY <1>1, LapApart, Zenon DEF Slot

\* pos + N, the sequence that release stores, is the same slot a lap on.
LEMMA SlotNext == \A q \in Nat : Slot(q + N) = Slot(q)
<1>1. N \in Nat /\ N >= 1
  BY SizeAssumption
<1> QED BY <1>1, LapNext, Zenon DEF Slot

\* Threads other than t keep their place, position and view.
Others(t) ==
  \A u \in Threads : u # t =>
    pc'[u] = pc[u] /\ pos'[u] = pos[u] /\ seen'[u] = seen[u]

\* The accepted reservations have positions, producers and call numbers.
LEMMA RecordTypes ==
  TypeOK => \A e \in line : /\ e.pos \in Nat /\ e.item \in Items
                            /\ e.item[1] \in Producers /\ e.item[2] \in Nat
  BY BoundAssumption DEF TypeOK, Entries, Items

\* A step of a producer between reservations, which changes no memory.
LEMMA ProducerSearches ==
  ASSUME IInv, NEW p \in Producers, TypeOK', Others(p),
         UNCHANGED <<memory, late, tomb, limit, destroyed, line, log>>,
         pc[p] \in {"idle", "look", "reload", "claim"},
         pc'[p] \in {"idle", "look", "reload", "claim", "ticket"},
         pc'[p] \in {"look", "claim"} => pos'[p] <= tail,
         pc'[p] = "claim" => /\ seq[Slot(pos'[p])] = pos'[p]
                             /\ seen'[p] = carried[Slot(pos'[p])],
         \A r \in Producers : r # p => calls'[r] = calls[r],
         \/ pc[p] # "idle" /\ calls'[p] = calls[p]
         \/ pc[p] = "idle" /\ calls'[p] = calls[p] + 1,
         ~destroyed
  PROVE  IInv'
<1>1. /\ TypeOK /\ Reserving /\ Claiming /\ Views /\ Reservations
      /\ Contents /\ Deliveries /\ Draining
  BY DEF IInv
<1>2. /\ UNCHANGED <<tail, closed, head, seq, dead, storage, touched, carried,
                     late, tomb, limit, destroyed, line, log>>
      /\ \A r \in Producers : r # p =>
           pc'[r] = pc[r] /\ pos'[r] = pos[r] /\ seen'[r] = seen[r]
      /\ \A c \in Consumers :
           pc'[c] = pc[c] /\ pos'[c] = pos[c] /\ seen'[c] = seen[c]
  BY ThreadsAssumption DEF memory, Others, Threads
<1>3. /\ tail \in Nat /\ head \in Nat /\ calls[p] \in Nat
      /\ seq \in [Slots -> Nat] /\ line \in SUBSET Entries
  BY <1>1, BoundAssumption DEF TypeOK
<1>4. pos'[p] \in Nat /\ Slot(pos'[p]) \in Slots
  BY SlotIsSlot DEF TypeOK, Threads
<1>5. Reserving'
  <2>1. ClaimReady'
    BY <1>1, <1>2, <1>3, <1>4 DEF Reserving, ClaimReady, FreeNotDead
  <2>2. OwedFree' /\ OwedOnce'
    BY <1>1, <1>2 DEF Reserving, OwedFree, OwedOnce, Owes
  <2> QED
    BY <1>1, <1>2, <2>1, <2>2 DEF Reserving, Unreserved, FreeNotDead
<1>6. Claiming'
  BY <1>1, <1>2 DEF Claiming, GrabReady, HeldPublished, HeldOnce, Unclaimed, Holds
<1>7. Views'
  BY <1>1, <1>2 DEF Views, ProducerViews, ConsumerViews, CarriedUnlessTouching
<1>8. Reservations'
  <2>1. RecordBounds'
    BY <1>1, <1>2, <1>3, RecordTypes DEF Reservations, RecordBounds
  <2>2. CallBegun'
    <3>1. pc[p] # "idle" => calls[p] >= 1
      BY <1>1 DEF Reservations, CallBegun
    <3> QED
      BY <1>1, <1>2, <1>3, <3>1 DEF Reservations, CallBegun
  <2>3. OwedOnRecord'
    BY <1>1, <1>2 DEF Reservations, OwedOnRecord, Item
  <2> QED
    BY <1>1, <1>2, <2>1, <2>2, <2>3 DEF Reservations, RecordOrder
<1>9. Contents'
  <2>1. BuiltByOwner'
    BY <1>1, <1>2 DEF Contents, BuiltByOwner, Item
  <2>2. EmptiedByHolder'
    BY <1>1, <1>2 DEF Contents, EmptiedByHolder
  <2>3. EmptyUnlessPublished'
    BY <1>1, <1>2 DEF Contents, EmptyUnlessPublished
  <2>4. PublishedIsRecorded' /\ LiveOnRecord'
    BY <1>1, <1>2 DEF Contents, PublishedIsRecorded, LiveOnRecord
  <2> QED
    BY <2>1, <2>2, <2>3, <2>4 DEF Contents
<1>10. Deliveries'
  BY <1>1, <1>2 DEF Deliveries, DeliveredOnRecord, DeliveredInOrder, DeliveredApart, NothingLost
<1>11. Draining'
  BY <1>1, <1>2 DEF Draining, DrainedTakesAll, Quiet
<1> QED
  BY <1>5, <1>6, <1>7, <1>8, <1>9, <1>10, <1>11 DEF IInv

\* A step of a consumer between claims, which changes no memory.
LEMMA ConsumerSearches ==
  ASSUME IInv, NEW c \in Consumers, TypeOK', Others(c),
         UNCHANGED <<memory, late, calls, destroyed, line, log>>,
         pc[c] \in {"idle", "peek", "repeek", "grab", "empty", "drain"},
         pc'[c] \in {"idle", "peek", "repeek", "grab", "empty", "drain", "drained"},
         pc'[c] \in {"peek", "grab"} => pos'[c] <= head,
         pc'[c] = "grab" => /\ seq[Slot(pos'[c])] = pos'[c] + 1
                            /\ dead[Slot(pos'[c])] = tomb'[c]
                            /\ seen'[c] = carried[Slot(pos'[c])],
         \A d \in Consumers : d # c => tomb'[d] = tomb[d] /\ limit'[d] = limit[d],
         pc'[c] = "drain" => closed /\ limit'[c] = tail,
         pc'[c] = "drained" => pc[c] = "drain" /\ head = limit[c],
         ~destroyed
  PROVE  IInv'
<1>1. /\ TypeOK /\ Reserving /\ Claiming /\ Views /\ Reservations
      /\ Contents /\ Deliveries /\ Draining
  BY DEF IInv
<1>2. /\ UNCHANGED <<tail, closed, head, seq, dead, storage, touched, carried,
                     late, calls, destroyed, line, log>>
      /\ \A p \in Producers :
           pc'[p] = pc[p] /\ pos'[p] = pos[p] /\ seen'[p] = seen[p]
      /\ \A d \in Consumers : d # c =>
           pc'[d] = pc[d] /\ pos'[d] = pos[d] /\ seen'[d] = seen[d]
  BY ThreadsAssumption DEF memory, Others, Threads
<1>3. Reserving'
  BY <1>1, <1>2 DEF Reserving, ClaimReady, OwedFree, OwedOnce, Unreserved,
                    FreeNotDead, Owes
<1>4. Claiming'
  <2>1. GrabReady'
    BY <1>1, <1>2 DEF Claiming, GrabReady
  <2>2. HeldPublished' /\ HeldOnce'
    BY <1>1, <1>2 DEF Claiming, HeldPublished, HeldOnce, Holds
  <2> QED
    BY <1>1, <1>2, <2>1, <2>2 DEF Claiming, Unclaimed
<1>5. Views'
  BY <1>1, <1>2 DEF Views, ProducerViews, ConsumerViews, CarriedUnlessTouching
<1>6. Reservations'
  BY <1>1, <1>2, RecordTypes DEF Reservations, RecordBounds, RecordOrder,
                                 CallBegun, OwedOnRecord, Item
<1>7. Contents'
  <2>1. BuiltByOwner' /\ EmptiedByHolder'
    BY <1>1, <1>2 DEF Contents, BuiltByOwner, EmptiedByHolder, Item
  <2>2. EmptyUnlessPublished'
    BY <1>1, <1>2 DEF Contents, EmptyUnlessPublished
  <2>3. PublishedIsRecorded' /\ LiveOnRecord'
    BY <1>1, <1>2 DEF Contents, PublishedIsRecorded, LiveOnRecord
  <2> QED
    BY <2>1, <2>2, <2>3 DEF Contents
<1>8. Deliveries'
  BY <1>1, <1>2 DEF Deliveries, DeliveredOnRecord, DeliveredInOrder,
                    DeliveredApart, NothingLost
<1>9. Draining'
  BY <1>1, <1>2 DEF Draining, DrainedTakesAll, Quiet, Reservations, RecordBounds
<1> QED
  BY <1>3, <1>4, <1>5, <1>6, <1>7, <1>8, <1>9 DEF IInv

\* Who can be in a slot that is free for position q: the producer that owes q.
LEMMA FreeSlot ==
  ASSUME TypeOK, Reserving, Claiming, NEW q \in Nat, seq[Slot(q)] = q
  PROVE  /\ \A r \in Producers :
              Owes(r) /\ pc[r] # "turn" /\ Slot(pos[r]) = Slot(q) => pos[r] = q
         /\ \A c \in Consumers : Holds(c) => Slot(pos[c]) # Slot(q)
<1>1. \A t \in Threads : pos[t] \in Nat
  BY DEF TypeOK
<1>2. \A r \in Producers :
        Owes(r) /\ pc[r] # "turn" /\ Slot(pos[r]) = Slot(q) => pos[r] = q
  BY DEF Reserving, OwedFree
<1>3. \A c \in Consumers : Holds(c) => Slot(pos[c]) # Slot(q)
  BY <1>1, SlotApart, SizeAssumption DEF Claiming, HeldPublished, Threads
<1> QED BY <1>2, <1>3

\* Who can be in a slot that is published for q: the consumer that holds q.
LEMMA PublishedSlot ==
  ASSUME TypeOK, Reserving, Claiming, NEW q \in Nat, seq[Slot(q)] = q + 1
  PROVE  /\ \A r \in Producers :
              Owes(r) /\ pc[r] # "turn" => Slot(pos[r]) # Slot(q)
         /\ \A c \in Consumers : Holds(c) /\ Slot(pos[c]) = Slot(q) => pos[c] = q
<1>1. \A t \in Threads : pos[t] \in Nat
  BY DEF TypeOK
<1>2. \A r \in Producers : Owes(r) /\ pc[r] # "turn" => Slot(pos[r]) # Slot(q)
  BY <1>1, SlotApart, SizeAssumption DEF Reserving, OwedFree, Threads
<1>3. \A c \in Consumers : Holds(c) /\ Slot(pos[c]) = Slot(q) => pos[c] = q
  BY <1>1 DEF Claiming, HeldPublished, Threads
<1> QED BY <1>2, <1>3

\* The compare-exchange of try_push that reserves a position keeps the invariant.
LEMMA ClaimTailStep ==
  ASSUME IInv, NEW p \in Producers, ClaimTail(p), ~destroyed
  PROVE  IInv'
<1>1. /\ TypeOK /\ Reserving /\ Claiming /\ Views /\ Reservations
      /\ Contents /\ Deliveries /\ Draining
  BY DEF IInv
<1>2. /\ UNCHANGED <<closed, head, seq, dead, storage, touched, carried, pos,
                     seen, late, tomb, limit, calls, destroyed, log>>
      /\ pc[p] = "claim" /\ pc'[p] = "construct" /\ pos[p] = tail /\ ~closed
      /\ \A t \in Threads : t # p => pc'[t] = pc[t]
      /\ pc' \in [Threads -> ProducerLabels \cup ConsumerLabels]
      /\ tail' = tail + 1
      /\ line' = line \cup {[pos |-> tail, item |-> Item(p)]}
  BY <1>1 DEF ClaimTail, Step, TypeOK, Threads, ProducerLabels
<1>3. /\ \A r \in Producers : r # p => pc'[r] = pc[r]
      /\ \A c \in Consumers : pc'[c] = pc[c]
  BY <1>2, ThreadsAssumption DEF Threads
<1>4. /\ tail \in Nat /\ head \in Nat /\ Slot(tail) \in Slots
      /\ Item(p) \in Items /\ [pos |-> tail, item |-> Item(p)] \in Entries
      /\ seq \in [Slots -> Nat]
      /\ \A t \in Threads : pos[t] \in Nat
  <2>1. calls[p] \in 0..MaxPushes /\ calls[p] >= 1 /\ tail \in Nat
    BY <1>1, <1>2 DEF TypeOK, Reservations, CallBegun
  <2>2. Item(p) \in Items
    BY <2>1, BoundAssumption DEF Item, Items
  <2> QED
    BY <1>1, <2>1, <2>2, SlotIsSlot DEF TypeOK, Entries
<1>5. TypeOK'
  <2>1. /\ \A r \in Producers : pc'[r] \in ProducerLabels
        /\ \A c \in Consumers : pc'[c] \in ConsumerLabels
    BY <1>1, <1>2, <1>3 DEF TypeOK, ProducerLabels
  <2> QED
    BY <1>1, <1>2, <1>4, <2>1 DEF TypeOK
<1>6. seq[Slot(tail)] = tail /\ ~dead[Slot(tail)]
  BY <1>1, <1>2 DEF Reserving, ClaimReady
<1>7. /\ \A r \in Producers : pc[r] = "publish" => Slot(pos[r]) # Slot(tail)
      /\ \A c \in Consumers : pc[c] = "release" => Slot(pos[c]) # Slot(tail)
  BY <1>1, <1>4, <1>6, FreeSlot DEF Owes, Holds, Reserving, OwedFree
<1>8. Reserving'
  <2>1. ClaimReady'
    BY <1>1, <1>2, <1>3, <1>4 DEF Reserving, ClaimReady, Threads
  <2>2. OwedFree'
    BY <1>1, <1>2, <1>3, <1>4, <1>6 DEF Reserving, OwedFree, Owes, Threads
  <2>3. OwedOnce'
    BY <1>1, <1>2, <1>3, <1>4 DEF Reserving, OwedFree, OwedOnce, Owes, Threads
  <2>4. Unreserved'
    BY <1>1, <1>2, <1>4, <1>6, SlotNext, SizeAssumption DEF Reserving, Unreserved
  <2> QED
    BY <1>1, <1>2, <1>4, <2>1, <2>2, <2>3, <2>4 DEF Reserving, FreeNotDead
<1>9. Claiming'
  BY <1>1, <1>2, <1>3 DEF Claiming, GrabReady, HeldPublished, HeldOnce, Unclaimed, Holds
<1>10. Views'
  <2>1. carried[Slot(tail)] = touched[Slot(tail)]
    BY <1>1, <1>4, <1>7 DEF Views, CarriedUnlessTouching
  <2>2. ProducerViews'
    BY <1>1, <1>2, <1>3, <1>4, <2>1 DEF Views, ProducerViews, Reserving, ClaimReady, Threads
  <2> QED
    BY <1>1, <1>2, <1>3, <2>2 DEF Views, ConsumerViews, CarriedUnlessTouching
<1>11. Reservations'
  <2>1. RecordBounds'
    BY <1>1, <1>2, <1>3, <1>4, RecordTypes DEF Reservations, RecordBounds, Item, Items
  <2>2. RecordOrder'
    BY <1>1, <1>2, <1>4, RecordTypes DEF Reservations, RecordBounds, RecordOrder, Item
  <2>3. CallBegun'
    BY <1>1, <1>2, <1>3 DEF Reservations, CallBegun
  <2>4. OwedOnRecord'
    BY <1>1, <1>2, <1>3, <1>4 DEF Reservations, OwedOnRecord, Item, Reserving, OwedFree, Owes, Threads
  <2> QED
    BY <2>1, <2>2, <2>3, <2>4 DEF Reservations
<1>12. Contents'
  <2>1. BuiltByOwner'
    BY <1>1, <1>2, <1>3, <1>4, <1>6, <1>7 DEF Contents, BuiltByOwner, EmptyUnlessPublished, Item
  <2>2. EmptiedByHolder' /\ EmptyUnlessPublished'
    BY <1>1, <1>2, <1>3 DEF Contents, EmptiedByHolder, EmptyUnlessPublished
  <2>3. PublishedIsRecorded'
    BY <1>1, <1>2, <1>3, <1>4, <1>6 DEF Contents, PublishedIsRecorded
  <2>4. LiveOnRecord'
    BY <1>1, <1>2, <1>4, <1>6 DEF Contents, LiveOnRecord
  <2> QED
    BY <2>1, <2>2, <2>3, <2>4 DEF Contents
<1>13. Deliveries'
  BY <1>1, <1>2, <1>3, <1>4 DEF Deliveries, DeliveredOnRecord, DeliveredInOrder,
                    DeliveredApart, NothingLost, Reserving
<1>14. Draining'
  BY <1>1, <1>2, <1>3 DEF Draining, DrainedTakesAll, Quiet
<1> QED
  BY <1>2, <1>5, <1>8, <1>9, <1>10, <1>11, <1>12, <1>13, <1>14 DEF IInv

\* The fetch_add that takes a ticket keeps the invariant, closed queue or not.
LEMMA TakeTicketStep ==
  ASSUME IInv, NEW p \in Producers, TakeTicket(p), ~destroyed
  PROVE  IInv'
<1>1. /\ TypeOK /\ Reserving /\ Claiming /\ Views /\ Reservations
      /\ Contents /\ Deliveries /\ Draining
  BY DEF IInv
<1>2. /\ UNCHANGED <<closed, head, seq, dead, storage, touched, carried,
                     seen, tomb, limit, calls, destroyed, log>>
      /\ pc[p] = "ticket" /\ pc'[p] = "turn" /\ pos'[p] = tail /\ late'[p] = closed
      /\ \A t \in Threads : t # p => pc'[t] = pc[t] /\ pos'[t] = pos[t]
      /\ \A r \in Producers : r # p => late'[r] = late[r]
      /\ tail' = tail + 1
      /\ line' = IF closed THEN line
                 ELSE line \cup {[pos |-> tail, item |-> Item(p)]}
  BY <1>1 DEF TakeTicket, Step, TypeOK, Threads
<1>3. /\ \A r \in Producers : r # p => pc'[r] = pc[r] /\ pos'[r] = pos[r]
      /\ \A c \in Consumers : pc'[c] = pc[c] /\ pos'[c] = pos[c]
  BY <1>2, ThreadsAssumption DEF Threads
<1>4. /\ tail \in Nat /\ head \in Nat /\ Slot(tail) \in Slots
      /\ Item(p) \in Items /\ [pos |-> tail, item |-> Item(p)] \in Entries
      /\ seq \in [Slots -> Nat] /\ closed \in BOOLEAN
      /\ \A t \in Threads : pos[t] \in Nat
  <2>1. calls[p] \in 0..MaxPushes /\ calls[p] >= 1 /\ tail \in Nat
    BY <1>1, <1>2 DEF TypeOK, Reservations, CallBegun
  <2>2. Item(p) \in Items
    BY <2>1, BoundAssumption DEF Item, Items
  <2> QED
    BY <1>1, <2>1, <2>2, SlotIsSlot DEF TypeOK, Entries
<1>5. TypeOK'
  <2>1. /\ pc' \in [Threads -> ProducerLabels \cup ConsumerLabels]
        /\ pos' \in [Threads -> Nat] /\ late' \in [Producers -> BOOLEAN]
    BY <1>1, <1>4 DEF TypeOK, TakeTicket, Step, ProducerLabels
  <2>2. /\ \A r \in Producers : pc'[r] \in ProducerLabels
        /\ \A c \in Consumers : pc'[c] \in ConsumerLabels
    BY <1>1, <1>2, <1>3 DEF TypeOK, ProducerLabels
  <2> QED
    BY <1>1, <1>2, <1>4, <2>1, <2>2 DEF TypeOK
<1>6. seq[Slot(tail)] <= tail /\ seq[Slot(tail)] \in Nat
  BY <1>1, <1>4, SizeAssumption DEF Reserving, Unreserved
<1>7. Reserving'
  <2>1. ClaimReady'
    BY <1>1, <1>2, <1>3, <1>4 DEF Reserving, ClaimReady, Threads
  <2>2. OwedFree'
    BY <1>1, <1>2, <1>3, <1>4, <1>6 DEF Reserving, OwedFree, Owes, Threads
  <2>3. OwedOnce'
    BY <1>1, <1>2, <1>3, <1>4 DEF Reserving, OwedFree, OwedOnce, Owes, Threads
  <2>4. Unreserved'
    BY <1>1, <1>2, <1>4, <1>6, SlotNext, SizeAssumption DEF Reserving, Unreserved
  <2> QED
    BY <1>1, <1>2, <1>4, <2>1, <2>2, <2>3, <2>4 DEF Reserving, FreeNotDead
<1>8. Claiming'
  BY <1>1, <1>2, <1>3 DEF Claiming, GrabReady, HeldPublished, HeldOnce, Unclaimed, Holds
<1>9. Views'
  <2>1. ProducerViews'
    BY <1>1, <1>2, <1>3, <1>4 DEF Views, ProducerViews, Reserving, ClaimReady, Threads
  <2> QED
    BY <1>1, <1>2, <1>3, <2>1 DEF Views, ConsumerViews, CarriedUnlessTouching
<1>10. Reservations'
  <2>1. RecordBounds'
    BY <1>1, <1>2, <1>3, <1>4, RecordTypes DEF Reservations, RecordBounds, Item, Items
  <2>2. RecordOrder'
    BY <1>1, <1>2, <1>4, RecordTypes DEF Reservations, RecordBounds, RecordOrder, Item
  <2>3. CallBegun'
    BY <1>1, <1>2, <1>3 DEF Reservations, CallBegun
  <2>4. OwedOnRecord'
    <3>1. \A e \in line : e.pos # tail
      BY <1>1, <1>4, RecordTypes DEF Reservations, RecordBounds
    <3>2. \A r \in Producers : r # p /\ Owes(r) => pos[r] # tail
      BY <1>1, <1>4 DEF Reserving, OwedFree, Threads
    <3> QED
      BY <1>1, <1>2, <1>3, <1>4, <3>1, <3>2 DEF Reservations, OwedOnRecord, Item, Owes
  <2> QED
    BY <2>1, <2>2, <2>3, <2>4 DEF Reservations
<1>11. Contents'
  <2>1. BuiltByOwner'
    BY <1>1, <1>2, <1>3 DEF Contents, BuiltByOwner, Item
  <2>2. EmptiedByHolder' /\ EmptyUnlessPublished'
    BY <1>1, <1>2, <1>3 DEF Contents, EmptiedByHolder, EmptyUnlessPublished
  <2>3. PublishedIsRecorded'
    BY <1>1, <1>2, <1>3, <1>4, <1>6 DEF Contents, PublishedIsRecorded
  <2>4. LiveOnRecord'
    BY <1>1, <1>2, <1>4, <1>6 DEF Contents, LiveOnRecord
  <2> QED
    BY <2>1, <2>2, <2>3, <2>4 DEF Contents
<1>12. Deliveries'
  BY <1>1, <1>2, <1>3, <1>4 DEF Deliveries, DeliveredOnRecord, DeliveredInOrder,
                    DeliveredApart, NothingLost, Reserving
<1>13. Draining'
  BY <1>1, <1>2, <1>3, <1>4 DEF Draining, DrainedTakesAll, Quiet
<1> QED
  BY <1>2, <1>5, <1>7, <1>8, <1>9, <1>10, <1>11, <1>12, <1>13 DEF IInv

\* A ticket holder that await_turn lets through keeps the invariant.
LEMMA AwaitTurnStep ==
  ASSUME IInv, NEW p \in Producers, AwaitTurn(p), ~destroyed
  PROVE  IInv'
<1>1. /\ TypeOK /\ Reserving /\ Claiming /\ Views /\ Reservations
      /\ Contents /\ Deliveries /\ Draining
  BY DEF IInv
<1>2. /\ UNCHANGED <<tail, closed, head, seq, dead, storage, touched, carried, pos,
                     late, tomb, limit, calls, destroyed, line, log>>
      /\ pc[p] = "turn" /\ pc'[p] = IF late[p] THEN "bury" ELSE "construct"
      /\ seq[Slot(pos[p])] = pos[p] /\ ~dead[Slot(pos[p])]
      /\ seen'[p] = carried[Slot(pos[p])]
      /\ \A t \in Threads : t # p => pc'[t] = pc[t] /\ seen'[t] = seen[t]
  BY <1>1 DEF AwaitTurn, Step, Acquire, TypeOK, Threads, memory
<1>3. /\ \A r \in Producers : r # p => pc'[r] = pc[r] /\ seen'[r] = seen[r]
      /\ \A c \in Consumers : pc'[c] = pc[c] /\ seen'[c] = seen[c]
  BY <1>2, ThreadsAssumption DEF Threads
<1>4. pos[p] \in Nat /\ Slot(pos[p]) \in Slots /\ late[p] \in BOOLEAN
  BY <1>1, SlotIsSlot DEF TypeOK, Threads
<1>5. TypeOK'
  <2>1. /\ pc' \in [Threads -> ProducerLabels \cup ConsumerLabels]
        /\ seen' \in [Threads -> Nat]
    BY <1>1, <1>4 DEF TypeOK, AwaitTurn, Step, Acquire, ProducerLabels
  <2>2. /\ \A r \in Producers : pc'[r] \in ProducerLabels
        /\ \A c \in Consumers : pc'[c] \in ConsumerLabels
    BY <1>1, <1>2, <1>3 DEF TypeOK, ProducerLabels
  <2> QED
    BY <1>1, <1>2, <2>1, <2>2 DEF TypeOK
<1>6. /\ \A r \in Producers : pc[r] = "publish" => Slot(pos[r]) # Slot(pos[p])
      /\ \A c \in Consumers : pc[c] = "release" => Slot(pos[c]) # Slot(pos[p])
  BY <1>1, <1>2, <1>4, FreeSlot DEF Owes, Holds, Reserving, OwedOnce
<1>7. Reserving'
  <2>1. ClaimReady'
    BY <1>1, <1>2, <1>3, <1>4 DEF Reserving, ClaimReady
  <2>2. OwedFree' /\ OwedOnce'
    BY <1>1, <1>2, <1>3, <1>4 DEF Reserving, OwedFree, OwedOnce, Owes
  <2> QED
    BY <1>1, <1>2, <2>1, <2>2 DEF Reserving, FreeNotDead, Unreserved
<1>8. Claiming'
  BY <1>1, <1>2, <1>3 DEF Claiming, GrabReady, HeldPublished, HeldOnce, Unclaimed, Holds
<1>9. Views'
  <2>1. carried[Slot(pos[p])] = touched[Slot(pos[p])]
    BY <1>1, <1>4, <1>6 DEF Views, CarriedUnlessTouching
  <2>2. ProducerViews'
    BY <1>1, <1>2, <1>3, <1>4, <2>1 DEF Views, ProducerViews
  <2> QED
    BY <1>1, <1>2, <1>3, <2>2 DEF Views, ConsumerViews, CarriedUnlessTouching
<1>10. Reservations'
  <2>1. RecordBounds' /\ RecordOrder' /\ CallBegun'
    BY <1>1, <1>2, <1>3, RecordTypes DEF Reservations, RecordBounds, RecordOrder, CallBegun
  <2>2. OwedOnRecord'
    BY <1>1, <1>2, <1>3, <1>4 DEF Reservations, OwedOnRecord, Item
  <2> QED
    BY <2>1, <2>2 DEF Reservations
<1>11. Contents'
  <2>1. storage[Slot(pos[p])] = None
    BY <1>1, <1>2, <1>4, <1>6 DEF Contents, EmptyUnlessPublished
  <2>2. BuiltByOwner'
    BY <1>1, <1>2, <1>3, <2>1 DEF Contents, BuiltByOwner, Item
  <2> QED
    BY <1>1, <1>2, <1>3, <2>2 DEF Contents, EmptiedByHolder, EmptyUnlessPublished,
                                  PublishedIsRecorded, LiveOnRecord
<1>12. Deliveries'
  BY <1>1, <1>2, <1>3 DEF Deliveries, DeliveredOnRecord, DeliveredInOrder,
                          DeliveredApart, NothingLost
<1>13. Draining'
  BY <1>1, <1>2, <1>3 DEF Draining, DrainedTakesAll, Quiet
<1> QED
  BY <1>2, <1>5, <1>7, <1>8, <1>9, <1>10, <1>11, <1>12, <1>13 DEF IInv

\* Building the object in the reserved slot (publish) keeps the invariant.
LEMMA ConstructStep ==
  ASSUME IInv, NEW p \in Producers, Construct(p), ~destroyed
  PROVE  IInv'
<1>1. /\ TypeOK /\ Reserving /\ Claiming /\ Views /\ Reservations
      /\ Contents /\ Deliveries /\ Draining
  BY DEF IInv
<1> DEFINE i == Slot(pos[p])
<1>2. /\ pos[p] \in Nat /\ i \in Slots /\ p \in Threads /\ Item(p) \in Items
      /\ touched[i] \in Nat /\ seen[p] \in Nat
  <2>1. pc[p] = "construct"
    BY DEF Construct, Step
  <2>2. calls[p] \in 0..MaxPushes /\ calls[p] >= 1
    BY <1>1, <2>1 DEF TypeOK, Reservations, CallBegun
  <2>3. Item(p) \in Items
    BY <2>2, BoundAssumption DEF Item, Items
  <2> QED
    BY <1>1, <2>3, SlotIsSlot DEF TypeOK, Threads
<1>3. /\ UNCHANGED <<tail, closed, head, seq, dead, carried, pos, late, tomb, limit,
                     calls, destroyed, line, log>>
      /\ pc[p] = "construct" /\ pc'[p] = "publish"
      /\ seen'[p] = seen[p] + 1
      /\ \A t \in Threads : t # p => pc'[t] = pc[t] /\ seen'[t] = seen[t]
      /\ storage'[i] = Item(p) /\ touched'[i] = touched[i] + 1
      /\ \A j \in Slots : j # i => storage'[j] = storage[j] /\ touched'[j] = touched[j]
  BY <1>1, <1>2 DEF Construct, Step, Touch, TypeOK
<1> HIDE DEF i
<1>4. /\ \A r \in Producers : r # p => pc'[r] = pc[r] /\ seen'[r] = seen[r]
      /\ \A c \in Consumers : pc'[c] = pc[c] /\ seen'[c] = seen[c]
  BY <1>3, ThreadsAssumption DEF Threads
<1>5. TypeOK'
  <2>1. /\ pc' \in [Threads -> ProducerLabels \cup ConsumerLabels]
        /\ seen' \in [Threads -> Nat]
        /\ storage' \in [Slots -> Items \cup {None}] /\ touched' \in [Slots -> Nat]
    BY <1>1, <1>2 DEF TypeOK, Construct, Step, Touch, ProducerLabels, i
  <2>2. /\ \A r \in Producers : pc'[r] \in ProducerLabels
        /\ \A c \in Consumers : pc'[c] \in ConsumerLabels
    BY <1>1, <1>3, <1>4 DEF TypeOK, ProducerLabels
  <2> QED
    BY <1>1, <1>3, <2>1, <2>2 DEF TypeOK
\* Nobody else is in the slot.
<1>6. /\ seq[i] = pos[p] /\ ~dead[i] /\ pos[p] < tail
      /\ \A r \in Producers : r # p /\ Owes(r) /\ pc[r] # "turn" => Slot(pos[r]) # i
      /\ \A c \in Consumers : Holds(c) => Slot(pos[c]) # i
  <2>1. seq[i] = pos[p] /\ ~dead[i] /\ Owes(p) /\ pos[p] < tail
    BY <1>1, <1>3 DEF Reserving, OwedFree, Owes, i
  <2> QED
    BY <1>1, <1>2, <2>1, FreeSlot DEF Reserving, OwedOnce, i
<1>7. Reserving'
  <2>1. ClaimReady'
    BY <1>1, <1>3, <1>4 DEF Reserving, ClaimReady
  <2>2. OwedFree' /\ OwedOnce'
    BY <1>1, <1>3, <1>4 DEF Reserving, OwedFree, OwedOnce, Owes
  <2> QED
    BY <1>1, <1>3, <2>1, <2>2 DEF Reserving, FreeNotDead, Unreserved
<1>8. Claiming'
  BY <1>1, <1>3, <1>4 DEF Claiming, GrabReady, HeldPublished, HeldOnce, Unclaimed, Holds
<1>9. Views'
  <2>0. \A t \in Threads : Slot(pos[t]) \in Slots
    BY <1>1, SlotIsSlot DEF TypeOK
  <2>1. ProducerViews'
    BY <1>1, <1>2, <1>3, <1>4, <1>6, <2>0 DEF Views, ProducerViews, Owes, Threads, i
  <2>2. ConsumerViews'
    BY <1>1, <1>3, <1>4, <1>6, <2>0 DEF Views, ConsumerViews, Holds, Threads
  <2>3. CarriedUnlessTouching'
    BY <1>1, <1>3, <1>4, <1>6 DEF Views, CarriedUnlessTouching, i
  <2> QED
    BY <2>1, <2>2, <2>3 DEF Views
<1>10. Reservations'
  <2>1. RecordBounds' /\ RecordOrder' /\ CallBegun'
    BY <1>1, <1>3, <1>4, RecordTypes DEF Reservations, RecordBounds, RecordOrder, CallBegun
  <2>2. OwedOnRecord'
    BY <1>1, <1>3, <1>4 DEF Reservations, OwedOnRecord, Item
  <2> QED
    BY <2>1, <2>2 DEF Reservations
<1>11. Contents'
  <2>0. \A t \in Threads : Slot(pos[t]) \in Slots
    BY <1>1, SlotIsSlot DEF TypeOK
  <2>1. BuiltByOwner'
    BY <1>1, <1>3, <1>4, <1>6, <2>0 DEF Contents, BuiltByOwner, Item, Owes, Threads, i
  <2>2. EmptiedByHolder'
    BY <1>1, <1>3, <1>4, <1>6, <2>0 DEF Contents, EmptiedByHolder, Holds, Threads
  <2>3. EmptyUnlessPublished'
    BY <1>1, <1>3, <1>4, <1>6 DEF Contents, EmptyUnlessPublished, i
  <2>4. PublishedIsRecorded'
    <3>1. \A e \in line : seq[Slot(e.pos)] = e.pos + 1 =>
             Slot(e.pos) # i /\ Slot(e.pos) \in Slots
      BY <1>1, <1>2, <1>6, RecordTypes, SlotApart, SlotIsSlot, SizeAssumption DEF i
    <3> QED
      BY <1>1, <1>3, <1>4, <3>1 DEF Contents, PublishedIsRecorded
  <2> QED
    BY <1>1, <1>3, <2>1, <2>2, <2>3, <2>4 DEF Contents, LiveOnRecord
<1>12. Deliveries'
  BY <1>1, <1>3, <1>4 DEF Deliveries, DeliveredOnRecord, DeliveredInOrder,
                          DeliveredApart, NothingLost
<1>13. Draining'
  BY <1>1, <1>3, <1>4 DEF Draining, DrainedTakesAll, Quiet
<1> QED
  BY <1>3, <1>5, <1>7, <1>8, <1>9, <1>10, <1>11, <1>12, <1>13 DEF IInv

\* Both ways a producer pays for its position: the object or a tombstone.
LEMMA PublishStep ==
  ASSUME IInv, NEW p \in Producers, Publish(p) \/ Bury(p), ~destroyed
  PROVE  IInv'
<1>1. /\ TypeOK /\ Reserving /\ Claiming /\ Views /\ Reservations
      /\ Contents /\ Deliveries /\ Draining
  BY DEF IInv
<1> DEFINE i == Slot(pos[p])
           q == pos[p]
<1>2. q \in Nat /\ i \in Slots /\ p \in Threads
  BY <1>1, SlotIsSlot DEF TypeOK, Threads
<1>3. /\ UNCHANGED <<tail, closed, head, storage, touched, tomb, limit, calls,
                     destroyed, line, log>>
      /\ pc[p] \in {"publish", "bury"} /\ pc'[p] = "idle"
      /\ \A t \in Threads : t # p =>
           pc'[t] = pc[t] /\ pos'[t] = pos[t] /\ seen'[t] = seen[t]
      /\ \A r \in Producers : r # p => late'[r] = late[r]
      /\ seq'[i] = q + 1 /\ dead'[i] = (pc[p] = "bury") /\ carried'[i] = seen[p]
      /\ \A j \in Slots : j # i =>
           seq'[j] = seq[j] /\ dead'[j] = dead[j] /\ carried'[j] = carried[j]
  <2>1. CASE Publish(p)
    BY <1>1, <1>2, <2>1 DEF Publish, Step, StoreSeq, Forget, TypeOK
  <2>2. CASE Bury(p)
    BY <1>1, <1>2, <2>2 DEF Bury, Step, StoreSeq, Forget, TypeOK
  <2> QED BY <2>1, <2>2
<1>4. /\ \A r \in Producers : r # p =>
           pc'[r] = pc[r] /\ pos'[r] = pos[r] /\ seen'[r] = seen[r]
      /\ \A c \in Consumers :
           pc'[c] = pc[c] /\ pos'[c] = pos[c] /\ seen'[c] = seen[c]
  BY <1>3, ThreadsAssumption DEF Threads
<1>5. TypeOK'
  <2>1. /\ pc' \in [Threads -> ProducerLabels \cup ConsumerLabels]
        /\ pos' \in [Threads -> Nat] /\ seen' \in [Threads -> Nat]
        /\ seq' \in [Slots -> Nat] /\ dead' \in [Slots -> BOOLEAN]
        /\ carried' \in [Slots -> Nat] /\ late' \in [Producers -> BOOLEAN]
    <3>1. CASE Publish(p)
      BY <1>1, <1>2, <3>1 DEF Publish, Step, StoreSeq, Forget, TypeOK, ProducerLabels
    <3>2. CASE Bury(p)
      BY <1>1, <1>2, <3>2 DEF Bury, Step, StoreSeq, Forget, TypeOK, ProducerLabels
    <3> QED BY <3>1, <3>2
  <2>2. /\ \A r \in Producers : pc'[r] \in ProducerLabels
        /\ \A c \in Consumers : pc'[c] \in ConsumerLabels
    BY <1>1, <1>3, <1>4 DEF TypeOK, ProducerLabels
  <2> QED
    BY <1>1, <1>3, <2>1, <2>2 DEF TypeOK
<1>6. /\ tail \in Nat /\ head \in Nat /\ seq \in [Slots -> Nat]
      /\ \A t \in Threads : pos[t] \in Nat /\ Slot(pos[t]) \in Slots
  BY <1>1, SlotIsSlot DEF TypeOK
\* The slot was free for q, and nobody else is in it.
<1>7. /\ seq[i] = q /\ head <= q /\ q < tail
      /\ \A r \in Producers : r # p /\ Owes(r) /\ pc[r] # "turn" => Slot(pos[r]) # i
      /\ \A c \in Consumers : Holds(c) => Slot(pos[c]) # i
  <2>1. seq[i] = q /\ head <= q /\ q < tail /\ Owes(p)
    BY <1>1, <1>3 DEF Reserving, OwedFree, Owes
  <2> QED
    BY <1>1, <1>2, <2>1, FreeSlot DEF Reserving, OwedOnce
\* Other positions of the slot are at least a lap away.
<1>8. \A r \in Nat : Slot(r) = i => r = q \/ r + N <= q \/ q + N <= r
  BY <1>2, SlotApart
<1> HIDE DEF i, q
<1>9. Reserving'
  <2>1. ClaimReady'
    BY <1>1, <1>3, <1>4, <1>6, <1>7 DEF Reserving, ClaimReady, Threads
  <2>2. OwedFree'
    <3>1. \A r \in Producers : r # p /\ pc[r] = "turn" /\ Slot(pos[r]) = i => q + 1 <= pos[r]
      BY <1>1, <1>2, <1>3, <1>6, <1>7, <1>8, SizeAssumption
         DEF Reserving, OwedFree, OwedOnce, Owes, Threads, q
    <3> QED
      BY <1>1, <1>3, <1>4, <1>6, <1>7, <3>1 DEF Reserving, OwedFree, Owes, Threads
  <2>3. OwedOnce'
    BY <1>1, <1>3, <1>4 DEF Reserving, OwedOnce, Owes
  <2>4. Unreserved'
    BY <1>1, <1>2, <1>3, <1>6, <1>7, <1>8, SlotIsSlot, SizeAssumption DEF Reserving, Unreserved
  <2>5. FreeNotDead'
    BY <1>1, <1>2, <1>3, <1>6, <1>8, SizeAssumption DEF Reserving, FreeNotDead
  <2> QED
    BY <1>1, <1>3, <2>1, <2>2, <2>3, <2>4, <2>5 DEF Reserving
<1>10. Claiming'
  <2>1. GrabReady'
    BY <1>1, <1>2, <1>3, <1>4, <1>6, <1>7, <1>8, SizeAssumption DEF Claiming, GrabReady, Threads
  <2>2. HeldPublished' /\ HeldOnce'
    BY <1>1, <1>3, <1>4, <1>6, <1>7 DEF Claiming, HeldPublished, HeldOnce, Holds, Threads
  <2>3. Unclaimed'
    BY <1>1, <1>2, <1>3, <1>6, <1>7, <1>8, SlotIsSlot, SizeAssumption DEF Claiming, Unclaimed
  <2> QED
    BY <2>1, <2>2, <2>3 DEF Claiming
<1>11. Views'
  <2>1. ProducerViews'
    BY <1>1, <1>3, <1>4, <1>6, <1>7 DEF Views, ProducerViews, Owes, Threads, Reserving, ClaimReady
  <2>2. ConsumerViews'
    BY <1>1, <1>2, <1>3, <1>4, <1>6, <1>7, <1>8, SizeAssumption
       DEF Views, ConsumerViews, Holds, Threads, Claiming, GrabReady
  <2>3. CarriedUnlessTouching'
    BY <1>1, <1>3, <1>4, <1>6 DEF Views, ProducerViews, CarriedUnlessTouching, Threads, i
  <2> QED
    BY <2>1, <2>2, <2>3 DEF Views
<1>12. Reservations'
  <2>1. RecordBounds' /\ RecordOrder' /\ CallBegun'
    BY <1>1, <1>3, <1>4, RecordTypes DEF Reservations, RecordBounds, RecordOrder, CallBegun
  <2>2. OwedOnRecord'
    BY <1>1, <1>3, <1>4 DEF Reservations, OwedOnRecord, Item
  <2> QED
    BY <2>1, <2>2 DEF Reservations
<1>13. Contents'
  <2>1. BuiltByOwner' /\ EmptiedByHolder'
    BY <1>1, <1>3, <1>4 DEF Contents, BuiltByOwner, EmptiedByHolder, Item
  <2>2. EmptyUnlessPublished'
    <3>1. Slot(q + 1) # i
      BY <1>2, <1>8, SizeAssumption
    <3>2. pc[p] = "bury" => storage[i] = None
      BY <1>1 DEF Contents, BuiltByOwner, i
    <3>3. ASSUME NEW j \in Slots, j # i, Slot(seq[j]) = j, storage[j] # None
          PROVE  \E r \in Producers : pc'[r] = "publish" /\ Slot(pos'[r]) = j
      <4>1. PICK r \in Producers : pc[r] = "publish" /\ Slot(pos[r]) = j
        BY <1>1, <3>3 DEF Contents, EmptyUnlessPublished
      <4> QED BY <1>4, <3>3, <4>1 DEF i
    <3>4. \A j \in Slots : dead[j] => storage[j] = None
      BY <1>1 DEF Contents, EmptyUnlessPublished
    <3>5. \A j \in Slots : dead'[j] => storage[j] = None
      BY <1>3, <3>2, <3>4
    <3>6. \A j \in Slots : Slot(seq'[j]) = j => j # i /\ Slot(seq[j]) = j
      BY <1>3, <3>1
    <3> QED
      BY <1>3, <3>3, <3>5, <3>6 DEF EmptyUnlessPublished
  <2>3. \A e \in line : e.pos \in Nat /\ Slot(e.pos) \in Slots
    BY <1>1, RecordTypes, SlotIsSlot
  <2>4. PublishedIsRecorded'
    <3>1. \A e \in line : e.pos = q => pc[p] = "publish" /\ e.item = storage[i]
      <4>1. pc[p] = "bury" => \A e \in line : e.pos # q
        BY <1>1 DEF Reservations, OwedOnRecord, q
      <4>2. pc[p] = "publish" => [pos |-> q, item |-> Item(p)] \in line
        BY <1>1 DEF Reservations, OwedOnRecord, q
      <4>3. pc[p] = "publish" => storage[i] = Item(p)
        BY <1>1 DEF Contents, BuiltByOwner, i
      <4>4. \A e \in line : e.pos = q /\ pc[p] = "publish" =>
               e = [pos |-> q, item |-> Item(p)]
        BY <1>1, <4>2 DEF Reservations, RecordOrder
      <4> QED BY <1>3, <4>1, <4>3, <4>4
    <3>2. \A e \in line : Slot(e.pos) = i /\ q + 1 = e.pos + 1 => e.pos = q
      BY <1>2, <2>3
    <3>3. ASSUME NEW e \in line, Slot(e.pos) = i, seq'[i] = e.pos + 1
          PROVE  ~dead'[i] /\ storage[i] = e.item
      BY <1>2, <1>3, <2>3, <3>1, <3>2, <3>3
    <3>4. ASSUME NEW e \in line, Slot(e.pos) # i, seq[Slot(e.pos)] = e.pos + 1
          PROVE  /\ ~dead[Slot(e.pos)]
                 /\ \/ storage[Slot(e.pos)] = e.item
                    \/ \E c \in Consumers : pc'[c] = "release" /\ pos'[c] = e.pos
      BY <1>1, <1>4, <3>4 DEF Contents, PublishedIsRecorded
    <3> QED
      BY <1>3, <2>3, <3>3, <3>4 DEF PublishedIsRecorded
  <2>5. LiveOnRecord'
    <3>1. pc[p] = "publish" => \E e \in line : e.pos = q
      BY <1>1 DEF Reservations, OwedOnRecord, q
    <3>2. \A r \in 0..(tail - 1) : Slot(r) \in Slots
      BY <1>6, SlotIsSlot
    <3>3. \A r \in 0..(tail - 1) : seq[Slot(r)] = r + 1 /\ ~dead[Slot(r)] =>
             \E e \in line : e.pos = r
      BY <1>1 DEF Contents, LiveOnRecord
    <3>4. \A r \in 0..(tail - 1) :
             Slot(r) = i /\ seq'[i] = r + 1 /\ ~dead'[i] => pc[p] = "publish" /\ r = q
      <4>1. ~dead'[i] => pc[p] = "publish"
        BY <1>3
      <4>2. \A r \in 0..(tail - 1) : seq'[i] = r + 1 => r = q
        BY <1>2, <1>3, <1>6
      <4> QED BY <4>1, <4>2
    <3> QED
      BY <1>3, <3>1, <3>2, <3>3, <3>4 DEF LiveOnRecord
  <2> QED
    BY <2>1, <2>2, <2>4, <2>5 DEF Contents
<1>14. Deliveries'
  BY <1>1, <1>3, <1>4 DEF Deliveries, DeliveredOnRecord, DeliveredInOrder,
                          DeliveredApart, NothingLost
<1>15. Draining'
  BY <1>1, <1>3, <1>4 DEF Draining, DrainedTakesAll, Quiet
<1> QED
  BY <1>3, <1>5, <1>9, <1>10, <1>11, <1>12, <1>13, <1>14, <1>15 DEF IInv

\* The compare-exchange of try_pop that claims a position keeps the invariant.
LEMMA ClaimHeadStep ==
  ASSUME IInv, NEW c \in Consumers, ClaimHead(c), ~destroyed
  PROVE  IInv'
<1>1. /\ TypeOK /\ Reserving /\ Claiming /\ Views /\ Reservations
      /\ Contents /\ Deliveries /\ Draining
  BY DEF IInv
<1>2. /\ UNCHANGED <<tail, closed, seq, dead, storage, touched, carried, pos,
                     seen, late, tomb, limit, calls, destroyed, line, log>>
      /\ pc[c] = "grab" /\ pc'[c] = IF tomb[c] THEN "skip" ELSE "take"
      /\ pos[c] = head /\ head' = head + 1
      /\ \A t \in Threads : t # c => pc'[t] = pc[t]
  BY <1>1 DEF ClaimHead, Step, TypeOK, Threads
<1>3. /\ \A p \in Producers : pc'[p] = pc[p]
      /\ \A d \in Consumers : d # c => pc'[d] = pc[d]
  BY <1>2, ThreadsAssumption DEF Threads
<1>4. /\ tail \in Nat /\ head \in Nat /\ Slot(head) \in Slots
      /\ seq \in [Slots -> Nat] /\ tomb[c] \in BOOLEAN
      /\ \A t \in Threads : pos[t] \in Nat
  BY <1>1, SlotIsSlot DEF TypeOK
<1>5. TypeOK'
  <2>1. pc' \in [Threads -> ProducerLabels \cup ConsumerLabels]
    BY <1>1 DEF TypeOK, ClaimHead, Step, ConsumerLabels
  <2>2. /\ \A p \in Producers : pc'[p] \in ProducerLabels
        /\ \A d \in Consumers : pc'[d] \in ConsumerLabels
    BY <1>1, <1>2, <1>3 DEF TypeOK, ConsumerLabels
  <2> QED
    BY SMTT(30), <1>1, <1>2, <1>4, <2>1, <2>2 DEF TypeOK
\* The head slot is published, so the head is behind the tail, and nobody is in
\* the slot.
<1>6. seq[Slot(head)] = head + 1 /\ dead[Slot(head)] = tomb[c]
  BY <1>1, <1>2 DEF Claiming, GrabReady
<1>7. head < tail
  BY <1>1, <1>4, <1>6, SizeAssumption DEF Reserving, Unreserved
<1>8. /\ \A r \in Producers : pc[r] = "publish" => Slot(pos[r]) # Slot(head)
      /\ \A d \in Consumers : Holds(d) => Slot(pos[d]) # Slot(head)
  <2>1. \A d \in Consumers : Holds(d) => pos[d] # head
    BY <1>1, <1>4 DEF Claiming, HeldPublished, Threads
  <2> QED
    BY <1>1, <1>4, <1>6, <2>1, PublishedSlot DEF Owes
<1>9. Reserving'
  <2>1. OwedFree'
    BY <1>1, <1>2, <1>3, <1>4, <1>6 DEF Reserving, OwedFree, Owes, Threads
  <2> QED
    BY <1>1, <1>2, <1>3, <1>4, <1>7, <2>1
       DEF Reserving, ClaimReady, OwedOnce, Unreserved, FreeNotDead, Owes
<1>10. Claiming'
  <2>1. GrabReady'
    BY <1>1, <1>2, <1>3, <1>4 DEF Claiming, GrabReady, Threads
  <2>2. HeldPublished'
    <3>1. ASSUME NEW d \in Consumers, d # c, Holds(d)
          PROVE  pos[d] < head + 1
      BY <1>1, <1>4, <3>1 DEF Claiming, HeldPublished, Threads
    <3>2. dead[Slot(head)] = (pc'[c] = "skip")
      BY <1>2, <1>4, <1>6
    <3> QED
      BY <1>1, <1>2, <1>3, <1>4, <1>6, <3>1, <3>2 DEF Claiming, HeldPublished, Holds
  <2>3. HeldOnce'
    BY <1>1, <1>2, <1>3, <1>4 DEF Claiming, HeldPublished, HeldOnce, Holds, Threads
  <2>4. Unclaimed'
    BY <1>1, <1>2, <1>4, <1>6, SlotNext, SizeAssumption DEF Claiming, Unclaimed
  <2> QED
    BY <2>1, <2>2, <2>3, <2>4 DEF Claiming
<1>11. Views'
  <2>1. carried[Slot(head)] = touched[Slot(head)]
    BY <1>1, <1>4, <1>8 DEF Views, CarriedUnlessTouching, Holds
  <2>2. ConsumerViews'
    BY <1>1, <1>2, <1>3, <1>4, <2>1 DEF Views, ConsumerViews, Claiming, GrabReady, Threads
  <2> QED
    BY <1>1, <1>2, <1>3, <2>2 DEF Views, ProducerViews, CarriedUnlessTouching
<1>12. Reservations'
  BY <1>1, <1>2, <1>3, RecordTypes DEF Reservations, RecordBounds, RecordOrder,
                                       CallBegun, OwedOnRecord, Item
<1>13. Contents'
  <2>1. EmptiedByHolder'
    <3>1. tomb[c] => storage[Slot(head)] = None
      BY <1>1, <1>4, <1>6 DEF Contents, EmptyUnlessPublished
    <3> QED
      BY <1>1, <1>2, <1>3, <3>1 DEF Contents, EmptiedByHolder
  <2>2. EmptyUnlessPublished' /\ BuiltByOwner'
    BY <1>1, <1>2, <1>3 DEF Contents, EmptyUnlessPublished, BuiltByOwner, Item
  <2>3. PublishedIsRecorded'
    BY <1>1, <1>2, <1>3 DEF Contents, PublishedIsRecorded
  <2> QED
    BY <1>1, <1>2, <2>1, <2>2, <2>3 DEF Contents, LiveOnRecord
<1>14. Deliveries'
  <2>1. \A e \in line : e.pos = head => pc'[c] = "take"
    BY <1>1, <1>2, <1>6 DEF Contents, PublishedIsRecorded
  <2>2. NothingLost'
    <3>1. ASSUME NEW e \in line, e.pos < head'
          PROVE  \/ \E d \in Consumers : pc'[d] = "take" /\ pos[d] = e.pos
                 \/ \E d \in Consumers : \E k \in DOMAIN log[d] : log[d][k] = e
      <4>1. CASE e.pos = head
        BY <1>2, <2>1, <4>1
      <4>2. CASE e.pos < head
        BY <1>1, <1>2, <1>3, <4>2 DEF Deliveries, NothingLost
      <4> QED
        BY <1>1, <1>2, <1>4, <3>1, <4>1, <4>2, RecordTypes
    <3> QED
      BY <1>2, <3>1 DEF NothingLost
  <2>3. \A d \in Consumers : \A k \in DOMAIN log[d] :
           log[d][k] \in line /\ log[d][k].pos \in Nat /\ log[d][k].pos < head
    BY <1>1, RecordTypes DEF Deliveries, DeliveredOnRecord
  <2>4. DeliveredOnRecord'
    BY <1>2, <1>4, <2>3 DEF DeliveredOnRecord
  <2>5. DeliveredInOrder' /\ DeliveredApart'
    BY <1>1, <1>2, <1>3, <1>4, <2>3 DEF Deliveries, DeliveredInOrder, DeliveredApart
  <2> QED
    BY <2>2, <2>4, <2>5 DEF Deliveries
<1>15. Draining'
  BY <1>1, <1>2, <1>3, <1>4, RecordTypes DEF Draining, DrainedTakesAll, Quiet
<1> QED
  BY <1>2, <1>5, <1>9, <1>10, <1>11, <1>12, <1>13, <1>14, <1>15 DEF IInv

\* Moving the object out of the claimed slot (consume) keeps the invariant.
LEMMA TakeStep ==
  ASSUME IInv, NEW c \in Consumers, Take(c), ~destroyed
  PROVE  IInv'
<1>1. /\ TypeOK /\ Reserving /\ Claiming /\ Views /\ Reservations
      /\ Contents /\ Deliveries /\ Draining
  BY DEF IInv
<1> DEFINE i == Slot(pos[c])
           q == pos[c]
           e == [pos |-> pos[c], item |-> storage[Slot(pos[c])]]
<1>2. /\ q \in Nat /\ i \in Slots /\ c \in Threads
      /\ touched[i] \in Nat /\ seen[c] \in Nat /\ log[c] \in Seq(Entries)
  BY <1>1, SlotIsSlot DEF TypeOK, Threads
<1>3. /\ UNCHANGED <<tail, closed, head, seq, dead, carried, pos, late, tomb, limit,
                     calls, destroyed, line>>
      /\ pc[c] = "take" /\ pc'[c] = "release"
      /\ seen'[c] = seen[c] + 1
      /\ \A t \in Threads : t # c => pc'[t] = pc[t] /\ seen'[t] = seen[t]
      /\ storage'[i] = None /\ touched'[i] = touched[i] + 1
      /\ \A j \in Slots : j # i => storage'[j] = storage[j] /\ touched'[j] = touched[j]
      /\ log'[c] = Append(log[c], e)
      /\ \A d \in Consumers : d # c => log'[d] = log[d]
  BY <1>1, <1>2 DEF Take, Step, Touch, TypeOK
<1>4. /\ \A p \in Producers : pc'[p] = pc[p] /\ seen'[p] = seen[p]
      /\ \A d \in Consumers : d # c => pc'[d] = pc[d] /\ seen'[d] = seen[d]
  BY <1>3, ThreadsAssumption DEF Threads
\* The slot is published for q, and nobody else is in it.
<1>5. /\ seq[i] = q + 1 /\ ~dead[i] /\ q < head /\ q < tail
      /\ \A r \in Producers : Owes(r) /\ pc[r] # "turn" => Slot(pos[r]) # i
      /\ \A d \in Consumers : d # c /\ Holds(d) => Slot(pos[d]) # i
  <2>1. seq[i] = q + 1 /\ ~dead[i] /\ q < head /\ Holds(c)
    BY <1>1, <1>3 DEF Claiming, HeldPublished, Holds
  <2>2. head \in Nat /\ tail \in Nat
    BY <1>1 DEF TypeOK
  <2> QED
    BY <1>1, <1>2, <2>1, <2>2, PublishedSlot DEF Claiming, HeldOnce, Reserving
\* What it reads is on record.
<1>6. e \in line /\ e \in Entries
  <2>1. q \in 0..(tail - 1)
    BY <1>1, <1>2, <1>5 DEF TypeOK
  <2>2. PICK f \in line : f.pos = q
    BY <1>1, <1>5, <2>1 DEF Contents, LiveOnRecord
  <2>3. storage[i] = f.item
    BY <1>1, <1>3, <1>5, <2>2 DEF Contents, PublishedIsRecorded, Claiming, HeldOnce, Holds
  <2>4. f \in Entries
    BY <1>1 DEF TypeOK
  <2>5. f = [pos |-> q, item |-> storage[i]]
    BY <2>2, <2>3, <2>4 DEF Entries
  <2> QED BY <2>2, <2>4, <2>5
<1> HIDE DEF i, q, e
<1>7. TypeOK'
  <2>1. /\ pc' \in [Threads -> ProducerLabels \cup ConsumerLabels]
        /\ seen' \in [Threads -> Nat]
        /\ storage' \in [Slots -> Items \cup {None}] /\ touched' \in [Slots -> Nat]
    BY <1>1, <1>2 DEF TypeOK, Take, Step, Touch, ConsumerLabels, i
  <2>2. log' \in [Consumers -> Seq(Entries)]
    <3>1. log' = [log EXCEPT ![c] = Append(log[c], e)]
      BY DEF Take, e
    <3>2. Append(log[c], e) \in Seq(Entries)
      BY <1>2, <1>6
    <3> QED BY <1>1, <3>1, <3>2 DEF TypeOK
  <2>3. /\ \A p \in Producers : pc'[p] \in ProducerLabels
        /\ \A d \in Consumers : pc'[d] \in ConsumerLabels
    BY <1>1, <1>3, <1>4 DEF TypeOK, ConsumerLabels
  <2> QED
    BY <1>1, <1>3, <2>1, <2>2, <2>3 DEF TypeOK
<1>8. Reserving'
  BY <1>1, <1>3, <1>4 DEF Reserving, ClaimReady, OwedFree, OwedOnce, Unreserved,
                          FreeNotDead, Owes
<1>9. Claiming'
  <2>1. GrabReady'
    BY <1>1, <1>3, <1>4 DEF Claiming, GrabReady
  <2>2. HeldPublished' /\ HeldOnce'
    BY <1>1, <1>3, <1>4 DEF Claiming, HeldPublished, HeldOnce, Holds
  <2> QED
    BY <1>1, <1>3, <2>1, <2>2 DEF Claiming, Unclaimed
<1>10. \A t \in Threads : Slot(pos[t]) \in Slots
  BY <1>1, SlotIsSlot DEF TypeOK
<1>11. Views'
  <2>1. ProducerViews'
    BY <1>1, <1>3, <1>4, <1>5, <1>10 DEF Views, ProducerViews, Owes, Threads
  <2>2. ConsumerViews'
    BY <1>1, <1>2, <1>3, <1>4, <1>5, <1>10 DEF Views, ConsumerViews, Holds, Threads, i
  <2>3. CarriedUnlessTouching'
    BY <1>1, <1>3, <1>4, <1>5 DEF Views, CarriedUnlessTouching, i
  <2> QED
    BY <2>1, <2>2, <2>3 DEF Views
<1>12. Reservations'
  BY SMTT(30), <1>1, <1>3, <1>4, RecordTypes DEF Reservations, RecordBounds, RecordOrder,
                                       CallBegun, OwedOnRecord, Item
<1>13. Contents'
  <2>1. BuiltByOwner'
    BY <1>1, <1>3, <1>4, <1>5, <1>10 DEF Contents, BuiltByOwner, Item, Owes, Threads
  <2>2. EmptiedByHolder'
    BY <1>1, <1>3, <1>4, <1>5, <1>10 DEF Contents, EmptiedByHolder, Holds, Threads, i
  <2>3. EmptyUnlessPublished'
    BY <1>1, <1>3, <1>4 DEF Contents, EmptyUnlessPublished
  <2>4. PublishedIsRecorded'
    <3>1. \A f \in line : /\ Slot(f.pos) \in Slots
                          /\ Slot(f.pos) = i /\ seq[i] = f.pos + 1 => f.pos = q
      BY <1>1, <1>2, <1>5, RecordTypes, SlotIsSlot
    <3>2. ASSUME NEW f \in line, seq[Slot(f.pos)] = f.pos + 1
          PROVE  \/ storage'[Slot(f.pos)] = f.item
                 \/ \E d \in Consumers : pc'[d] = "release" /\ pos[d] = f.pos
      <4>1. CASE Slot(f.pos) = i
        BY <1>3, <3>1, <3>2, <4>1 DEF q
      <4>2. CASE Slot(f.pos) # i
        BY <1>1, <1>3, <1>4, <3>1, <3>2, <4>2 DEF Contents, PublishedIsRecorded
      <4> QED BY <4>1, <4>2
    <3> QED
      BY <1>1, <1>3, <3>2 DEF Contents, PublishedIsRecorded
  <2> QED
    BY <1>1, <1>3, <2>1, <2>2, <2>3, <2>4 DEF Contents, LiveOnRecord
<1>14. Deliveries'
  <2>1. /\ Len(log[c]) \in Nat /\ DOMAIN log[c] = 1..Len(log[c])
        /\ DOMAIN log'[c] = 1..(Len(log[c]) + 1)
        /\ \A k \in DOMAIN log[c] : log'[c][k] = log[c][k]
        /\ log'[c][Len(log[c]) + 1] = e
    BY <1>2, <1>3, <1>6
  <2>2. e.pos = q
    BY DEF e, q
  <2>3. \A d \in Consumers : \A k \in DOMAIN log[d] :
           /\ log[d][k] \in line /\ log[d][k].pos \in Nat /\ log[d][k].pos < head
           /\ d # c => log[d][k].pos # q
           /\ d = c => log[d][k].pos < q
    BY <1>1, <1>3, RecordTypes DEF Deliveries, DeliveredOnRecord, DeliveredInOrder,
                                   DeliveredApart, q
  <2>4. DeliveredOnRecord'
    BY <1>3, <1>5, <1>6, <2>1, <2>2, <2>3 DEF DeliveredOnRecord
  <2>5. DeliveredInOrder'
    <3>1. \A d \in Consumers : d # c => \A k \in DOMAIN log[d] :
             /\ \A m \in DOMAIN log[d] : k < m => log[d][k].pos < log[d][m].pos
             /\ pc'[d] = "take" => log[d][k].pos < pos[d]
      BY <1>1, <1>4 DEF Deliveries, DeliveredInOrder
    <3>2. \A k, m \in DOMAIN log[c] : k < m => log[c][k].pos < log[c][m].pos
      BY <1>1 DEF Deliveries, DeliveredInOrder
    <3>3. \A k, m \in DOMAIN log'[c] : k < m => log'[c][k].pos < log'[c][m].pos
      <4> SUFFICES ASSUME NEW k \in DOMAIN log'[c], NEW m \in DOMAIN log'[c], k < m
                   PROVE  log'[c][k].pos < log'[c][m].pos
        OBVIOUS
      <4>1. k \in DOMAIN log[c] /\ log'[c][k] = log[c][k]
        BY <2>1
      <4>2. CASE m \in DOMAIN log[c]
        BY <2>1, <3>2, <4>1, <4>2
      <4>3. CASE m = Len(log[c]) + 1
        BY <2>1, <2>2, <2>3, <4>1, <4>3
      <4> QED BY <2>1, <4>2, <4>3
    <3> QED
      BY <1>3, <3>1, <3>3 DEF DeliveredInOrder
  <2>6. DeliveredApart'
    <3>1. \A a, b \in Consumers : a # b => \A k \in DOMAIN log[a] :
             /\ \A m \in DOMAIN log[b] : log[a][k].pos # log[b][m].pos
             /\ pc[b] = "take" => log[a][k].pos # pos[b]
      BY <1>1 DEF Deliveries, DeliveredApart
    <3>2. \A d \in Consumers : d # c /\ pc[d] = "take" => pos[d] # q
      BY <1>1, <1>3 DEF Claiming, HeldOnce, Holds, q
    <3>3. \A b \in Consumers : c # b => \A k \in DOMAIN log'[c] :
             /\ \A m \in DOMAIN log[b] : log'[c][k].pos # log[b][m].pos
             /\ pc[b] = "take" => log'[c][k].pos # pos[b]
      BY <2>1, <2>2, <2>3, <3>1, <3>2
    <3>4. \A a \in Consumers : a # c => \A k \in DOMAIN log[a], m \in DOMAIN log'[c] :
             log[a][k].pos # log'[c][m].pos
      BY <3>3
    <3>5. ASSUME NEW a \in Consumers, NEW b \in Consumers, a # b,
                 NEW k \in DOMAIN log'[a]
          PROVE  /\ \A m \in DOMAIN log'[b] : log'[a][k].pos # log'[b][m].pos
                 /\ pc'[b] = "take" => log'[a][k].pos # pos[b]
      <4>1. CASE a = c
        <5>1. b # c /\ log'[b] = log[b] /\ (pc'[b] = "take" => pc[b] = "take")
          BY <1>3, <1>4, <3>5, <4>1
        <5>2. /\ \A m \in DOMAIN log[b] : log'[c][k].pos # log[b][m].pos
              /\ pc[b] = "take" => log'[c][k].pos # pos[b]
          BY <3>3, <3>5, <4>1, <5>1, Zenon
        <5> QED BY <4>1, <5>1, <5>2, Zenon
      <4>2. CASE b = c
        <5>1. a # c /\ pc'[b] # "take" /\ log'[a] = log[a]
          BY <1>3, <3>5, <4>2
        <5>2. \A m \in DOMAIN log'[c] : log[a][k].pos # log'[c][m].pos
          BY <3>4, <3>5, <5>1, Zenon
        <5> QED BY <4>2, <5>1, <5>2, Zenon
      <4>3. CASE a # c /\ b # c
        <5>1. /\ log'[a] = log[a] /\ log'[b] = log[b]
              /\ pc'[b] = "take" => pc[b] = "take"
          BY <1>3, <1>4, <3>5, <4>3
        <5>2. k \in DOMAIN log[a]
          BY <3>5, <5>1, Zenon
        <5>3. /\ \A m \in DOMAIN log[b] : log[a][k].pos # log[b][m].pos
              /\ pc[b] = "take" => log[a][k].pos # pos[b]
          BY <3>1, <3>5, <5>2, Zenon
        <5> QED BY <5>1, <5>3, Zenon
      <4> QED BY <4>1, <4>2, <4>3
    <3> QED
      BY <1>3, <3>5 DEF DeliveredApart
  <2>7. NothingLost'
    <3>1. ASSUME NEW f \in line, f.pos < head
          PROVE  \/ \E d \in Consumers : pc'[d] = "take" /\ pos[d] = f.pos
                 \/ \E d \in Consumers : \E k \in DOMAIN log'[d] : log'[d][k] = f
      <4>1. CASE f.pos = q
        <5>1. f = e
          BY <1>1, <1>6, <2>2, <4>1 DEF Reservations, RecordOrder
        <5>2. Len(log[c]) + 1 \in DOMAIN log'[c]
          BY <2>1
        <5> QED BY <2>1, <5>1, <5>2
      <4>2. CASE f.pos # q /\ \E d \in Consumers : pc[d] = "take" /\ pos[d] = f.pos
        BY <1>4, <4>2 DEF q
      <4>3. CASE \E d \in Consumers : \E k \in DOMAIN log[d] : log[d][k] = f
        <5>1. PICK d \in Consumers : \E k \in DOMAIN log[d] : log[d][k] = f
          BY <4>3
        <5>2. PICK k \in DOMAIN log[d] : log[d][k] = f
          BY <5>1
        <5>3. k \in DOMAIN log'[d] /\ log'[d][k] = f
          BY <1>3, <2>1, <5>2
        <5> QED BY <5>3
      <4> QED
        BY <1>1, <3>1, <4>1, <4>2, <4>3 DEF Deliveries, NothingLost
    <3> QED
      BY <1>3, <3>1 DEF NothingLost
  <2> QED
    BY <2>4, <2>5, <2>6, <2>7 DEF Deliveries
<1>15. Draining'
  BY <1>1, <1>3, <1>4 DEF Draining, DrainedTakesAll, Quiet
<1> QED
  BY <1>3, <1>7, <1>8, <1>9, <1>11, <1>12, <1>13, <1>14, <1>15 DEF IInv

\* Both ways a consumer gives its slot back: after a pop, or past a tombstone.
LEMMA ReleaseStep ==
  ASSUME IInv, NEW c \in Consumers, Release(c) \/ SkipTombstone(c), ~destroyed
  PROVE  IInv'
<1>1. /\ TypeOK /\ Reserving /\ Claiming /\ Views /\ Reservations
      /\ Contents /\ Deliveries /\ Draining
  BY DEF IInv
<1> DEFINE i == Slot(pos[c])
           q == pos[c]
<1>2. q \in Nat /\ i \in Slots /\ c \in Threads
  BY <1>1, SlotIsSlot DEF TypeOK, Threads
<1>3. /\ UNCHANGED <<tail, closed, head, storage, touched, late, limit, calls,
                     destroyed, line, log>>
      /\ pc[c] \in {"release", "skip"} /\ pc'[c] \in {"idle", "peek"}
      /\ pc'[c] = "peek" => pos'[c] = q + 1
      /\ \A t \in Threads : t # c =>
           pc'[t] = pc[t] /\ pos'[t] = pos[t] /\ seen'[t] = seen[t]
      /\ \A d \in Consumers : d # c => tomb'[d] = tomb[d]
      /\ seq'[i] = q + N /\ dead'[i] = FALSE /\ carried'[i] = seen[c]
      /\ \A j \in Slots : j # i =>
           seq'[j] = seq[j] /\ dead'[j] = dead[j] /\ carried'[j] = carried[j]
  <2>1. CASE Release(c)
    BY <1>1, <1>2, <2>1 DEF Release, Step, StoreSeq, Forget, TypeOK
  <2>2. CASE SkipTombstone(c)
    BY <1>1, <1>2, <2>2 DEF SkipTombstone, Step, StoreSeq, TypeOK
  <2> QED BY <2>1, <2>2
<1>4. /\ \A p \in Producers :
           pc'[p] = pc[p] /\ pos'[p] = pos[p] /\ seen'[p] = seen[p]
      /\ \A d \in Consumers : d # c =>
           pc'[d] = pc[d] /\ pos'[d] = pos[d] /\ seen'[d] = seen[d]
  BY <1>3, ThreadsAssumption DEF Threads
<1>5. TypeOK'
  <2>1. /\ pc' \in [Threads -> ProducerLabels \cup ConsumerLabels]
        /\ pos' \in [Threads -> Nat] /\ seen' \in [Threads -> Nat]
        /\ seq' \in [Slots -> Nat] /\ dead' \in [Slots -> BOOLEAN]
        /\ carried' \in [Slots -> Nat] /\ tomb' \in [Consumers -> BOOLEAN]
    <3>1. CASE Release(c)
      BY <1>1, <1>2, <3>1, SizeAssumption
         DEF Release, Step, StoreSeq, Forget, TypeOK, ConsumerLabels
    <3>2. CASE SkipTombstone(c)
      BY SMTT(30), <1>1, <1>2, <3>2, SizeAssumption
         DEF SkipTombstone, Step, StoreSeq, TypeOK, ConsumerLabels
    <3> QED BY <3>1, <3>2
  <2>2. /\ \A p \in Producers : pc'[p] \in ProducerLabels
        /\ \A d \in Consumers : pc'[d] \in ConsumerLabels
    BY <1>1, <1>3, <1>4 DEF TypeOK, ConsumerLabels
  <2> QED
    BY <1>1, <1>3, <2>1, <2>2 DEF TypeOK
<1>6. /\ tail \in Nat /\ head \in Nat /\ seq \in [Slots -> Nat]
      /\ \A t \in Threads : pos[t] \in Nat /\ Slot(pos[t]) \in Slots
  BY <1>1, SlotIsSlot DEF TypeOK
\* The slot was published for q, and nobody else is in it.
<1>7. /\ seq[i] = q + 1 /\ q < head
      /\ \A r \in Producers : Owes(r) /\ pc[r] # "turn" => Slot(pos[r]) # i
      /\ \A d \in Consumers : d # c /\ Holds(d) => Slot(pos[d]) # i
  <2>1. seq[i] = q + 1 /\ q < head /\ Holds(c)
    BY <1>1, <1>3 DEF Claiming, HeldPublished, Holds
  <2> QED
    BY <1>1, <1>2, <2>1, PublishedSlot DEF Claiming, HeldOnce
\* Other positions of the slot are at least a lap away.
<1>8. \A r \in Nat : Slot(r) = i => r = q \/ r + N <= q \/ q + N <= r
  BY <1>2, SlotApart
<1>9. head <= tail
  BY <1>1 DEF Reserving
<1> HIDE DEF i, q
<1>10. Reserving'
  <2>1. ClaimReady'
    BY <1>1, <1>2, <1>3, <1>4, <1>6, <1>7, <1>8, <1>9, SizeAssumption
       DEF Reserving, ClaimReady, Threads
  <2>2. OwedFree'
    <3>1. \A r \in Producers : pc[r] = "turn" /\ Slot(pos[r]) = i => q + N <= pos[r]
      BY <1>1, <1>2, <1>6, <1>7, <1>8, SizeAssumption
         DEF Reserving, OwedFree, Owes, Threads
    <3> QED
      BY <1>1, <1>3, <1>4, <1>6, <1>7, <3>1 DEF Reserving, OwedFree, Owes, Threads
  <2>3. OwedOnce'
    BY <1>1, <1>3, <1>4 DEF Reserving, OwedOnce, Owes
  <2>4. Unreserved'
    BY <1>1, <1>2, <1>3, <1>6, <1>7, <1>8, <1>9, SlotIsSlot, SizeAssumption
       DEF Reserving, Unreserved
  <2>5. FreeNotDead'
    BY <1>1, <1>3 DEF Reserving, FreeNotDead
  <2> QED
    BY <1>1, <1>3, <2>1, <2>2, <2>3, <2>4, <2>5 DEF Reserving
<1>11. Claiming'
  <2>1. GrabReady'
    <3>1. \A d \in Consumers : d # c /\ pos[d] = head /\ Slot(pos[d]) = i => pc[d] # "grab"
      BY <1>1, <1>2, <1>6, <1>7 DEF Claiming, GrabReady, Threads
    <3>2. pc'[c] = "peek" => pos'[c] <= head
      BY <1>2, <1>3, <1>6, <1>7
    <3> QED
      BY <1>1, <1>3, <1>4, <1>6, <3>1, <3>2 DEF Claiming, GrabReady, Threads
  <2>2. HeldPublished' /\ HeldOnce'
    BY <1>1, <1>3, <1>4, <1>6, <1>7 DEF Claiming, HeldPublished, HeldOnce, Holds, Threads
  <2>3. Unclaimed'
    BY <1>1, <1>2, <1>3, <1>6, <1>7, <1>8, SlotIsSlot, SizeAssumption DEF Claiming, Unclaimed
  <2> QED
    BY <2>1, <2>2, <2>3 DEF Claiming
<1>12. Views'
  <2>1. ProducerViews'
    <3>1. \A p \in Producers : pc[p] = "claim" /\ pos[p] = tail => Slot(pos[p]) # i
      BY <1>1, <1>2, <1>6, <1>7, <1>8, SizeAssumption DEF Reserving, ClaimReady, Threads
    <3> QED
      BY <1>1, <1>3, <1>4, <1>6, <1>7, <3>1 DEF Views, ProducerViews, Owes, Threads
  <2>2. ConsumerViews'
    <3>1. \A d \in Consumers : pc[d] = "grab" /\ pos[d] = head => Slot(pos[d]) # i
      BY <1>1, <1>2, <1>6, <1>7 DEF Claiming, GrabReady, Threads
    <3> QED
      BY <1>1, <1>3, <1>4, <1>6, <1>7, <3>1 DEF Views, ConsumerViews, Holds, Threads
  <2>3. CarriedUnlessTouching'
    BY <1>1, <1>3, <1>4, <1>6 DEF Views, ConsumerViews, CarriedUnlessTouching, Threads, i
  <2> QED
    BY <2>1, <2>2, <2>3 DEF Views
<1>13. Reservations'
  BY <1>1, <1>3, <1>4, RecordTypes DEF Reservations, RecordBounds, RecordOrder,
                                       CallBegun, OwedOnRecord, Item
<1>14. Contents'
  <2>1. BuiltByOwner' /\ EmptiedByHolder'
    BY <1>1, <1>3, <1>4 DEF Contents, BuiltByOwner, EmptiedByHolder, Item
  <2>2. EmptyUnlessPublished'
    <3>1. storage[i] = None
      BY <1>1, <1>3 DEF Contents, EmptiedByHolder, i
    <3> QED
      BY <1>1, <1>3, <1>4, <3>1 DEF Contents, EmptyUnlessPublished
  <2>3. \A r \in Nat : Slot(r) = i => seq'[i] # r + 1
    BY <1>2, <1>3, <1>8, SizeAssumption
  <2>4. PublishedIsRecorded'
    <3>1. \A e \in line : e.pos \in Nat /\ Slot(e.pos) \in Slots
      BY <1>1, RecordTypes, SlotIsSlot
    <3>2. ASSUME NEW e \in line, Slot(e.pos) # i, seq[Slot(e.pos)] = e.pos + 1
          PROVE  /\ ~dead[Slot(e.pos)]
                 /\ \/ storage[Slot(e.pos)] = e.item
                    \/ \E d \in Consumers : pc'[d] = "release" /\ pos'[d] = e.pos
      BY <1>1, <1>4, <3>2 DEF Contents, PublishedIsRecorded, i
    <3> QED
      BY <1>3, <2>3, <3>1, <3>2 DEF PublishedIsRecorded
  <2>5. LiveOnRecord'
    <3>1. \A r \in 0..(tail - 1) : r \in Nat /\ Slot(r) \in Slots
      BY <1>6, SlotIsSlot
    <3> QED
      BY <1>1, <1>3, <2>3, <3>1 DEF Contents, LiveOnRecord
  <2> QED
    BY <2>1, <2>2, <2>4, <2>5 DEF Contents
<1>15. Deliveries'
  BY <1>1, <1>3, <1>4 DEF Deliveries, DeliveredOnRecord, DeliveredInOrder,
                          DeliveredApart, NothingLost
<1>16. Draining'
  BY <1>1, <1>3, <1>4 DEF Draining, DrainedTakesAll, Quiet
<1> QED
  BY <1>3, <1>5, <1>10, <1>11, <1>12, <1>13, <1>14, <1>15, <1>16 DEF IInv

\* close keeps the invariant.
LEMMA CloseStep ==
  ASSUME IInv, Close
  PROVE  IInv'
<1>1. /\ TypeOK /\ Reserving /\ Claiming /\ Views /\ Reservations
      /\ Contents /\ Deliveries /\ Draining
  BY DEF IInv, Close
<1>2. /\ UNCHANGED <<tail, head, seq, dead, storage, touched, carried, pc, pos, seen,
                     late, tomb, limit, calls, destroyed, line, log>>
      /\ closed' = TRUE
  BY DEF Close, locals
<1>3. TypeOK'
  BY <1>1, <1>2 DEF TypeOK
<1>4. Reserving' /\ Claiming'
  BY <1>1, <1>2 DEF Reserving, ClaimReady, OwedFree, OwedOnce, Unreserved, FreeNotDead,
     Owes, Claiming, GrabReady, HeldPublished, HeldOnce, Unclaimed, Holds
<1>5. Views' /\ Reservations'
  BY <1>1, <1>2 DEF Views, ProducerViews, ConsumerViews, CarriedUnlessTouching,
     Reservations, RecordBounds, RecordOrder, CallBegun, OwedOnRecord, Item
<1>6. Contents'
  BY <1>1, <1>2 DEF Contents, BuiltByOwner, EmptiedByHolder, EmptyUnlessPublished,
     PublishedIsRecorded, LiveOnRecord, Item
<1>7. Deliveries' /\ Draining'
  BY <1>1, <1>2 DEF Deliveries, DeliveredOnRecord, DeliveredInOrder, DeliveredApart,
     NothingLost, Draining, DrainedTakesAll, Quiet
<1> QED BY <1>2, <1>3, <1>4, <1>5, <1>6, <1>7 DEF IInv

\* The destructor keeps the invariant.
LEMMA DestroyStep ==
  ASSUME IInv, Destroy
  PROVE  IInv'
<1>1. /\ TypeOK /\ Reserving /\ Claiming /\ Views /\ Reservations
      /\ Deliveries /\ Draining
  BY DEF IInv
<1>2. /\ UNCHANGED <<tail, closed, head, seq, dead, touched, carried, pc, pos, seen,
                     late, tomb, limit, calls, line, log>>
      /\ destroyed' = TRUE /\ Quiet
      /\ storage' = [i \in Slots |-> IF i \in Remaining THEN None ELSE storage[i]]
  BY DEF Destroy, locals
<1>3. TypeOK'
  <2>1. storage' \in [Slots -> Items \cup {None}]
    BY <1>1, <1>2 DEF TypeOK
  <2> QED
    BY <1>1, <1>2, <2>1 DEF TypeOK
<1>4. Reserving' /\ Claiming'
  BY <1>1, <1>2 DEF Reserving, ClaimReady, OwedFree, OwedOnce, Unreserved, FreeNotDead,
     Owes, Claiming, GrabReady, HeldPublished, HeldOnce, Unclaimed, Holds
<1>5. Views' /\ Reservations'
  BY <1>1, <1>2 DEF Views, ProducerViews, ConsumerViews, CarriedUnlessTouching,
     Reservations, RecordBounds, RecordOrder, CallBegun, OwedOnRecord, Item
<1>6. Deliveries' /\ Draining'
  BY <1>1, <1>2 DEF Deliveries, DeliveredOnRecord, DeliveredInOrder, DeliveredApart,
     NothingLost, Draining, DrainedTakesAll, Quiet
<1> QED BY <1>2, <1>3, <1>4, <1>5, <1>6 DEF IInv

\* A thread in a call keeps the queue from having been destroyed.
LEMMA BusyMeansAlive ==
  ASSUME Draining, NEW t \in Threads, pc[t] \notin {"idle", "drained"}
  PROVE  ~destroyed
  BY DEF Draining, Quiet

\* A producer looking for its position in try_push, or before it takes a ticket,
\* keeps the invariant: it changes no memory.
LEMMA ProducerSearchStep ==
  ASSUME IInv, NEW p \in Producers,
         \/ TryPush(p) \/ LookFree(p) \/ LookFull(p) \/ LookStale(p)
         \/ ReloadTail(p) \/ LoseTail(p) \/ TicketPush(p)
  PROVE  IInv'
<1>1. TypeOK /\ Reserving /\ Draining
  BY DEF IInv
<1>2. /\ p \in Threads /\ p \notin Consumers
      /\ tail \in Nat /\ pos[p] \in Nat /\ Slot(pos[p]) \in Slots
      /\ seen[p] \in Nat /\ calls[p] \in 0..MaxPushes /\ MaxPushes \in Nat
      /\ carried \in [Slots -> Nat]
  BY <1>1, SlotIsSlot, BoundAssumption, ThreadsAssumption DEF TypeOK, Threads
<1>3. pc[p] \in {"look", "claim"} => pos[p] <= tail
  BY <1>1 DEF Reserving, ClaimReady
<1>4. ~destroyed
  BY <1>1, <1>2, BusyMeansAlive
     DEF TryPush, LookFree, LookFull, LookStale, ReloadTail, LoseTail, TicketPush, Step
<1> DEFINE Searching ==
      /\ UNCHANGED <<memory, late, tomb, limit, destroyed, line, log>>
      /\ pc' \in [Threads -> ProducerLabels \cup ConsumerLabels]
      /\ pos' \in [Threads -> Nat] /\ seen' \in [Threads -> Nat]
      /\ calls' \in [Producers -> 0..MaxPushes]
      /\ Others(p)
      /\ pc[p] \in {"idle", "look", "reload", "claim"}
      /\ pc'[p] \in {"idle", "look", "reload", "claim", "ticket"}
      /\ pc'[p] \in {"look", "claim"} => pos'[p] <= tail
      /\ pc'[p] = "claim" => /\ seq[Slot(pos'[p])] = pos'[p]
                             /\ seen'[p] = carried[Slot(pos'[p])]
      /\ \A r \in Producers : r # p => calls'[r] = calls[r]
      /\ \/ pc[p] # "idle" /\ calls'[p] = calls[p]
         \/ pc[p] = "idle" /\ calls'[p] = calls[p] + 1
<1>5. Searching
  <2>1. CASE TryPush(p)
    BY <1>1, <1>2, <2>1 DEF TryPush, Step, Others, TypeOK, ProducerLabels
  <2>2. CASE LookFree(p)
    BY <1>1, <1>2, <1>3, <2>2 DEF LookFree, Step, Acquire, Others, TypeOK, ProducerLabels
  <2>3. CASE LookFull(p)
    BY <1>1, <1>2, <2>3 DEF LookFull, Step, Forget, Others, TypeOK, ProducerLabels
  <2>4. CASE LookStale(p)
    BY <1>1, <1>2, <2>4 DEF LookStale, Step, Others, TypeOK, ProducerLabels
  <2>5. CASE ReloadTail(p)
    BY <1>1, <1>2, <2>5 DEF ReloadTail, Step, Others, TypeOK, ProducerLabels
  <2>6. CASE LoseTail(p)
    BY <1>1, <1>2, <2>6 DEF LoseTail, Step, Others, TypeOK, ProducerLabels
  <2>7. CASE TicketPush(p)
    BY <1>1, <1>2, <2>7 DEF TicketPush, Step, Others, TypeOK, ProducerLabels
  <2> QED BY <2>1, <2>2, <2>3, <2>4, <2>5, <2>6, <2>7
<1>6. TypeOK'
  <2>1. /\ \A r \in Producers : r # p => pc'[r] = pc[r]
        /\ \A c \in Consumers : pc'[c] = pc[c]
    BY <1>2, <1>5 DEF Others, Threads
  <2>2. /\ \A r \in Producers : pc'[r] \in ProducerLabels
        /\ \A c \in Consumers : pc'[c] \in ConsumerLabels
    BY <1>1, <1>5, <2>1 DEF TypeOK, ProducerLabels
  <2> QED
    BY <1>1, <1>5, <2>2 DEF TypeOK, memory
<1> QED
  BY <1>4, <1>5, <1>6, ProducerSearches

\* A consumer looking for a published position in try_pop, or for the end of the
\* queue in pop, keeps the invariant: it changes no memory.
LEMMA ConsumerSearchStep ==
  ASSUME IInv, NEW c \in Consumers,
         \/ TryPop(c) \/ PeekReady(c) \/ PeekEmpty(c) \/ PeekStale(c)
         \/ ReloadHead(c) \/ LoseHead(c) \/ ReturnEmpty(c) \/ CheckClosed(c)
         \/ CheckDrained(c)
  PROVE  IInv'
<1>1. TypeOK /\ Claiming /\ Draining
  BY DEF IInv
<1>2. /\ c \in Threads /\ c \notin Producers
      /\ tail \in Nat /\ head \in Nat /\ pos[c] \in Nat /\ Slot(pos[c]) \in Slots
      /\ seen[c] \in Nat /\ carried \in [Slots -> Nat]
  BY <1>1, SlotIsSlot, ThreadsAssumption DEF TypeOK, Threads
<1>3. pc[c] \in {"peek", "grab"} => pos[c] <= head
  BY <1>1 DEF Claiming, GrabReady
<1>4. ~destroyed
  BY <1>1, <1>2, BusyMeansAlive
     DEF TryPop, PeekReady, PeekEmpty, PeekStale, ReloadHead, LoseHead, ReturnEmpty,
         CheckClosed, CheckDrained, Step
<1> DEFINE Searching ==
      /\ UNCHANGED <<memory, late, calls, destroyed, line, log>>
      /\ pc' \in [Threads -> ProducerLabels \cup ConsumerLabels]
      /\ pos' \in [Threads -> Nat] /\ seen' \in [Threads -> Nat]
      /\ tomb' \in [Consumers -> BOOLEAN] /\ limit' \in [Consumers -> Nat]
      /\ Others(c)
      /\ pc[c] \in {"idle", "peek", "repeek", "grab", "empty", "drain"}
      /\ pc'[c] \in {"idle", "peek", "repeek", "grab", "empty", "drain", "drained"}
      /\ pc'[c] \in {"peek", "grab"} => pos'[c] <= head
      /\ pc'[c] = "grab" => /\ seq[Slot(pos'[c])] = pos'[c] + 1
                            /\ dead[Slot(pos'[c])] = tomb'[c]
                            /\ seen'[c] = carried[Slot(pos'[c])]
      /\ \A d \in Consumers : d # c => tomb'[d] = tomb[d] /\ limit'[d] = limit[d]
      /\ pc'[c] = "drain" => closed /\ limit'[c] = tail
      /\ pc'[c] = "drained" => pc[c] = "drain" /\ head = limit[c]
<1>5. Searching
  <2>1. CASE TryPop(c)
    BY <1>1, <1>2, <2>1 DEF TryPop, Step, Others, TypeOK, ConsumerLabels
  <2>2. CASE PeekReady(c)
    BY <1>1, <1>2, <1>3, <2>2 DEF PeekReady, Step, Acquire, Others, TypeOK, ConsumerLabels
  <2>3. CASE PeekEmpty(c)
    BY <1>1, <1>2, <2>3 DEF PeekEmpty, Step, Forget, Others, TypeOK, ConsumerLabels
  <2>4. CASE PeekStale(c)
    BY <1>1, <1>2, <2>4 DEF PeekStale, Step, Others, TypeOK, ConsumerLabels
  <2>5. CASE ReloadHead(c)
    BY <1>1, <1>2, <2>5 DEF ReloadHead, Step, Others, TypeOK, ConsumerLabels
  <2>6. CASE LoseHead(c)
    BY <1>1, <1>2, <2>6 DEF LoseHead, Step, Others, TypeOK, ConsumerLabels
  <2>7. CASE ReturnEmpty(c)
    BY <1>1, <1>2, <2>7 DEF ReturnEmpty, Step, Others, TypeOK, ConsumerLabels
  <2>8. CASE CheckClosed(c)
    BY <1>1, <1>2, <2>8 DEF CheckClosed, Step, Others, TypeOK, ConsumerLabels
  <2>9. CASE CheckDrained(c)
    BY <1>1, <1>2, <2>9 DEF CheckDrained, Step, Others, TypeOK, ConsumerLabels
  <2> QED BY <2>1, <2>2, <2>3, <2>4, <2>5, <2>6, <2>7, <2>8, <2>9
<1>6. TypeOK'
  <2>1. /\ \A p \in Producers : pc'[p] = pc[p]
        /\ \A d \in Consumers : d # c => pc'[d] = pc[d]
    BY <1>2, <1>5 DEF Others, Threads
  <2>2. /\ \A p \in Producers : pc'[p] \in ProducerLabels
        /\ \A d \in Consumers : pc'[d] \in ConsumerLabels
    BY <1>1, <1>5, <2>1 DEF TypeOK, ConsumerLabels
  <2> QED
    BY <1>1, <1>5, <2>2 DEF TypeOK, memory
<1> QED
  BY <1>4, <1>5, <1>6, ConsumerSearches

\* The constructor's state satisfies the invariant: every slot is free for its own
\* first position, and nobody is in a call.
LEMMA InitIInv == Init => IInv
<1> SUFFICES ASSUME Init PROVE IInv
  OBVIOUS
<1>1. \A q \in 0..(N - 1) : Slot(q) = q
  BY SizeAssumption DEF Slot
<1>2. TypeOK
  <2>1. /\ tail \in Nat /\ closed \in BOOLEAN /\ head \in Nat
        /\ storage \in [Slots -> Items \cup {None}]
        /\ touched \in [Slots -> Nat] /\ carried \in [Slots -> Nat]
    BY DEF Init
  <2>2. dead \in [Slots -> BOOLEAN]
    BY Zenon DEF Init
  <2>3. seq \in [Slots -> Nat]
    <3>1. \A i \in Slots : i \in Nat
      BY SizeAssumption DEF Slots
    <3> QED BY <3>1 DEF Init
  <2>4. /\ pc \in [Threads -> ProducerLabels \cup ConsumerLabels]
        /\ \A p \in Producers : pc[p] \in ProducerLabels
        /\ \A c \in Consumers : pc[c] \in ConsumerLabels
    BY DEF Init, Threads, ProducerLabels, ConsumerLabels
  <2>5. /\ pos \in [Threads -> Nat] /\ seen \in [Threads -> Nat]
        /\ late \in [Producers -> BOOLEAN] /\ tomb \in [Consumers -> BOOLEAN]
        /\ limit \in [Consumers -> Nat] /\ destroyed \in BOOLEAN
    BY DEF Init
  <2>6. calls \in [Producers -> 0..MaxPushes]
    BY BoundAssumption DEF Init
  <2>7. line \in SUBSET Entries
    BY DEF Init
  <2>8. log \in [Consumers -> Seq(Entries)]
    BY DEF Init
  <2> QED
    BY <2>1, <2>2, <2>3, <2>4, <2>5, <2>6, <2>7, <2>8 DEF TypeOK
<1>3. /\ tail = 0 /\ head = 0 /\ ~destroyed /\ line = {}
      /\ \A t \in Threads : pc[t] = "idle"
      /\ \A c \in Consumers : log[c] = <<>> /\ DOMAIN log[c] = {}
      /\ \A i \in Slots : /\ seq[i] = i /\ ~dead[i] /\ storage[i] = None
                          /\ touched[i] = 0 /\ carried[i] = 0
  BY DEF Init
<1>4. /\ \A p \in Producers : pc[p] = "idle"
      /\ \A c \in Consumers : pc[c] = "idle"
  BY <1>3 DEF Threads
<1>5. Reserving
  <2>1. Unreserved
    BY <1>1, <1>3, SizeAssumption DEF Unreserved, Slots
  <2> QED
    BY <1>3, <1>4, <2>1
       DEF Reserving, ClaimReady, OwedFree, OwedOnce, FreeNotDead, Owes
<1>6. Claiming
  <2>1. Unclaimed
    BY <1>1, <1>3, SizeAssumption DEF Unclaimed, Slots
  <2> QED
    BY <1>3, <1>4, <2>1 DEF Claiming, GrabReady, HeldPublished, HeldOnce, Holds
<1>7. Views
  BY <1>3, <1>4 DEF Views, ProducerViews, ConsumerViews, CarriedUnlessTouching
<1>8. Reservations
  BY <1>3, <1>4 DEF Reservations, RecordBounds, RecordOrder, CallBegun, OwedOnRecord
<1>9. Contents
  <2>1. LiveOnRecord
    BY <1>3 DEF LiveOnRecord
  <2> QED
    BY <1>3, <1>4, <2>1 DEF Contents, BuiltByOwner, EmptiedByHolder,
       EmptyUnlessPublished, PublishedIsRecorded
<1>10. Deliveries
  BY <1>3 DEF Deliveries, DeliveredOnRecord, DeliveredInOrder, DeliveredApart, NothingLost
<1>11. Draining
  BY <1>3, <1>4 DEF Draining, DrainedTakesAll
<1> QED
  BY <1>2, <1>5, <1>6, <1>7, <1>8, <1>9, <1>10, <1>11 DEF IInv

\* The invariant only speaks of the queue's variables.
LEMMA StutterIInv == IInv /\ UNCHANGED vars => IInv'
<1> SUFFICES ASSUME IInv, UNCHANGED vars PROVE IInv'
  OBVIOUS
<1>1. UNCHANGED <<tail, closed, head, seq, dead, storage, touched, carried, pc, pos, seen,
                  late, tomb, limit, calls, destroyed, line, log>>
  BY DEF vars, memory, locals
<1>2. TypeOK' /\ Reserving' /\ Claiming'
  BY <1>1 DEF IInv, TypeOK, Reserving, ClaimReady, OwedFree, OwedOnce, Unreserved,
     FreeNotDead, Owes, Claiming, GrabReady, HeldPublished, HeldOnce, Unclaimed, Holds
<1>3. Views' /\ Reservations'
  BY <1>1 DEF IInv, Views, ProducerViews, ConsumerViews, CarriedUnlessTouching,
     Reservations, RecordBounds, RecordOrder, CallBegun, OwedOnRecord, Item
<1>4. (~destroyed => Contents)'
  BY <1>1 DEF IInv, Contents, BuiltByOwner, EmptiedByHolder, EmptyUnlessPublished,
     PublishedIsRecorded, LiveOnRecord, Item
<1>5. Deliveries' /\ Draining'
  BY <1>1 DEF IInv, Deliveries, DeliveredOnRecord, DeliveredInOrder, DeliveredApart,
     NothingLost, Draining, DrainedTakesAll, Quiet
<1> QED BY <1>2, <1>3, <1>4, <1>5 DEF IInv

\* Every step of a producer keeps the invariant.
LEMMA ProducerKeepsIInv ==
  ASSUME IInv, NEW p \in Producers, ProducerStep(p)
  PROVE  IInv'
<1>1. p \in Threads /\ Draining
  BY DEF Threads, IInv
<1>2. CASE \/ TryPush(p) \/ LookFree(p) \/ LookFull(p) \/ LookStale(p)
           \/ ReloadTail(p) \/ LoseTail(p) \/ TicketPush(p)
  BY <1>2, ProducerSearchStep
<1>3. CASE ClaimTail(p)
  <2>1. ~destroyed
    BY <1>1, <1>3, BusyMeansAlive DEF ClaimTail, Step
  <2> QED BY <1>3, <2>1, ClaimTailStep
<1>4. CASE TakeTicket(p)
  <2>1. ~destroyed
    BY <1>1, <1>4, BusyMeansAlive DEF TakeTicket, Step
  <2> QED BY <1>4, <2>1, TakeTicketStep
<1>5. CASE AwaitTurn(p)
  <2>1. ~destroyed
    BY <1>1, <1>5, BusyMeansAlive DEF AwaitTurn, Step
  <2> QED BY <1>5, <2>1, AwaitTurnStep
<1>6. CASE Construct(p)
  <2>1. ~destroyed
    BY <1>1, <1>6, BusyMeansAlive DEF Construct, Step
  <2> QED BY <1>6, <2>1, ConstructStep
<1>7. CASE Publish(p) \/ Bury(p)
  <2>1. ~destroyed
    BY <1>1, <1>7, BusyMeansAlive DEF Publish, Bury, Step
  <2> QED BY <1>7, <2>1, PublishStep
<1> QED
  BY <1>2, <1>3, <1>4, <1>5, <1>6, <1>7 DEF ProducerStep

\* Every step of a consumer keeps the invariant.
LEMMA ConsumerKeepsIInv ==
  ASSUME IInv, NEW c \in Consumers, ConsumerStep(c)
  PROVE  IInv'
<1>1. c \in Threads /\ Draining
  BY DEF Threads, IInv
<1>2. CASE \/ TryPop(c) \/ PeekReady(c) \/ PeekEmpty(c) \/ PeekStale(c)
           \/ ReloadHead(c) \/ LoseHead(c) \/ ReturnEmpty(c) \/ CheckClosed(c)
           \/ CheckDrained(c)
  BY <1>2, ConsumerSearchStep
<1>3. CASE ClaimHead(c)
  <2>1. ~destroyed
    BY <1>1, <1>3, BusyMeansAlive DEF ClaimHead, Step
  <2> QED BY <1>3, <2>1, ClaimHeadStep
<1>4. CASE Take(c)
  <2>1. ~destroyed
    BY <1>1, <1>4, BusyMeansAlive DEF Take, Step
  <2> QED BY <1>4, <2>1, TakeStep
<1>5. CASE Release(c) \/ SkipTombstone(c)
  <2>1. ~destroyed
    BY <1>1, <1>5, BusyMeansAlive DEF Release, SkipTombstone, Step
  <2> QED BY <1>5, <2>1, ReleaseStep
<1> QED
  BY <1>2, <1>3, <1>4, <1>5 DEF ConsumerStep

\* The invariant holds in every state of the ring, for any number of producers
\* and consumers, any ring size and both ways of reserving a position.
THEOREM RingInvariant == Spec => []IInv
<1>1. Init => IInv
  BY InitIInv
<1>2. IInv /\ [Next \/ Done]_vars => IInv'
  <2> SUFFICES ASSUME IInv, [Next \/ Done]_vars PROVE IInv'
    OBVIOUS
  <2>1. CASE \E p \in Producers : ProducerStep(p)
    BY <2>1, ProducerKeepsIInv
  <2>2. CASE \E c \in Consumers : ConsumerStep(c)
    BY <2>2, ConsumerKeepsIInv
  <2>3. CASE Close
    BY <2>3, CloseStep
  <2>4. CASE Destroy
    BY <2>4, DestroyStep
  <2>5. CASE UNCHANGED vars
    BY <2>5, StutterIInv
  <2> QED
    BY <2>1, <2>2, <2>3, <2>4, <2>5 DEF Next, Done
<1> QED
  BY <1>1, <1>2, PTL DEF Spec

\* publish and consume never race on a slot's storage: each access happens after
\* the one before it, through the acquire and release of the slot's sequence.
THEOREM StorageAccessesOrdered == Spec => []NoDataRace
<1>1. IInv => NoDataRace
  BY DEF IInv, Views, ProducerViews, ConsumerViews, NoDataRace, TypeOK, Threads,
         ProducerLabels, ConsumerLabels
<1> QED
  BY <1>1, RingInvariant, PTL

\* publish never builds over a live object, and consume reads the object that was
\* accepted at the position it claimed.
THEOREM SlotsHandedOver == Spec => []SlotHandoff
<1>1. IInv => SlotHandoff
  <2> SUFFICES ASSUME IInv PROVE SlotHandoff
    OBVIOUS
  <2>1. ASSUME NEW p \in Producers, pc[p] = "construct"
        PROVE  storage[Slot(pos[p])] = None
    <3>1. ~destroyed
      BY <2>1, BusyMeansAlive DEF IInv, Threads
    <3> QED
      BY <2>1, <3>1 DEF IInv, Contents, BuiltByOwner
  <2>2. ASSUME NEW c \in Consumers, pc[c] = "take"
        PROVE  [pos |-> pos[c], item |-> storage[Slot(pos[c])]] \in line
    <3>1. ~destroyed
      BY <2>2, BusyMeansAlive DEF IInv, Threads
    <3>2. /\ TypeOK /\ Reserving /\ Claiming /\ Contents
      BY <3>1 DEF IInv
    <3>3. /\ pos[c] \in Nat /\ pos[c] < head /\ seq[Slot(pos[c])] = pos[c] + 1
          /\ ~dead[Slot(pos[c])] /\ head <= tail /\ tail \in Nat /\ head \in Nat
      BY <2>2, <3>2 DEF TypeOK, Threads, Claiming, HeldPublished, Holds, Reserving
    <3>4. pos[c] \in 0..(tail - 1)
      BY <3>3
    <3>5. PICK e \in line : e.pos = pos[c]
      BY <3>2, <3>3, <3>4 DEF Contents, LiveOnRecord
    <3>6. ~ \E d \in Consumers : pc[d] = "release" /\ pos[d] = pos[c]
      BY <2>2, <3>2 DEF Claiming, HeldOnce, Holds
    <3>7. storage[Slot(pos[c])] = e.item
      BY <3>2, <3>3, <3>5, <3>6 DEF Contents, PublishedIsRecorded
    <3>8. e = [pos |-> e.pos, item |-> e.item]
      BY <3>2 DEF TypeOK, Entries
    <3> QED BY <3>5, <3>7, <3>8
  <2> QED BY <2>1, <2>2 DEF SlotHandoff
<1> QED
  BY <1>1, RingInvariant, PTL

\* No object a push accepted is returned by two pops, and no pop returns anything
\* else.
THEOREM DeliveredExactlyOnce == Spec => []ExactlyOnce
<1>1. IInv => ExactlyOnce
  <2> SUFFICES ASSUME IInv PROVE ExactlyOnce
    OBVIOUS
  <2>1. /\ TypeOK /\ DeliveredOnRecord /\ DeliveredInOrder /\ DeliveredApart
        /\ RecordOrder
    BY DEF IInv, Deliveries, Reservations
  <2>2. \A c \in Consumers : \A i \in DOMAIN log[c] : log[c][i] \in line
    BY <2>1 DEF DeliveredOnRecord
  <2>3. \A e, f \in line : e.item = f.item => e.pos = f.pos
    BY <2>1, RecordTypes DEF RecordOrder
  <2>4. ASSUME NEW c \in Consumers, NEW d \in Consumers,
               NEW i \in DOMAIN log[c], NEW j \in DOMAIN log[d],
               log[c][i].item = log[d][j].item
        PROVE  c = d /\ i = j
    <3>1. log[c][i].pos = log[d][j].pos
      BY <2>2, <2>3, <2>4
    <3>2. c = d
      BY <2>1, <3>1 DEF DeliveredApart
    <3>3. i \in Nat /\ j \in Nat /\ log[c][i].pos \in Nat
      BY SMTT(30), <2>1, <2>2, RecordTypes DEF TypeOK
    <3>4. ~(i < j) /\ ~(j < i)
      BY <2>1, <3>1, <3>2, <3>3 DEF DeliveredInOrder
    <3> QED BY <3>2, <3>3, <3>4
  <2> QED BY <2>2, <2>4 DEF ExactlyOnce
<1> QED
  BY <1>1, RingInvariant, PTL

\* Every accepted object whose position was claimed has been returned, or its
\* consumer is about to read it: a claim loses nothing.
THEOREM ClaimLosesNothing == Spec => []NothingLost
<1>1. IInv => NothingLost
  BY DEF IInv, Deliveries
<1> QED
  BY <1>1, RingInvariant, PTL

\* A consumer's pops return one producer's objects in the order it pushed them.
THEOREM ProducerOrderKept == Spec => []PerProducerOrder
<1>1. IInv => PerProducerOrder
  <2> SUFFICES ASSUME IInv,
                      NEW c \in Consumers, NEW i \in DOMAIN log[c], NEW j \in DOMAIN log[c],
                      i < j, log[c][i].item[1] = log[c][j].item[1]
               PROVE  log[c][i].item[2] < log[c][j].item[2]
    BY DEF PerProducerOrder
  <2>1. log[c][i].pos < log[c][j].pos
    BY DEF IInv, Deliveries, DeliveredInOrder
  <2>2. log[c][i] \in line /\ log[c][j] \in line
    BY DEF IInv, Deliveries, DeliveredOnRecord
  <2> QED
    BY <2>1, <2>2 DEF IInv, Reservations, RecordOrder
<1> QED
  BY <1>1, RingInvariant, PTL

\* pop says drained only when every object ever accepted has been claimed, and no
\* push is accepted after that.
THEOREM DrainedMeansClaimed == Spec => []DrainedTakesAll
<1>1. IInv => DrainedTakesAll
  BY DEF IInv, Draining
<1> QED
  BY <1>1, RingInvariant, PTL

\* Every slot is free for a position or published for one, and release is owed by
\* the consumer that claimed it.
LEMMA StagedInvariant == Spec => []Staged
<1>1. Init => Staged
  <2>1. \A i \in Slots : Slot(i) = i
    BY SizeAssumption DEF Slot, Slots
  <2> QED BY <2>1 DEF Init, Staged
<1>2. IInv /\ Staged /\ [Next \/ Done]_vars => Staged'
  <2> SUFFICES ASSUME IInv, Staged, [Next \/ Done]_vars PROVE Staged'
    OBVIOUS
  <2>1. /\ TypeOK /\ Reserving /\ Claiming
        /\ tail \in Nat /\ head \in Nat /\ seq \in [Slots -> Nat]
        /\ \A t \in Threads : pos[t] \in Nat /\ Slot(pos[t]) \in Slots
    BY SlotIsSlot DEF IInv, TypeOK
  \* Steps that leave the sequences alone, and take no claimed slot from its holder.
  <2>2. ASSUME seq' = seq, tail' \in Nat, tail <= tail', head' = head,
               \A c \in Consumers : Holds(c) =>
                 pos'[c] = pos[c] /\ pc'[c] \in {"take", "release", "skip"}
        PROVE  Staged'
    BY <2>1, <2>2 DEF Staged, Holds
  <2>3. ASSUME NEW p \in Producers, ProducerStep(p)
        PROVE  Staged'
    <3>1. \A c \in Consumers : pc'[c] = pc[c] /\ pos'[c] = pos[c]
      BY <2>1, <2>3, ThreadsAssumption
         DEF TypeOK, Threads, ProducerStep, TryPush, LookFree, LookFull, LookStale,
             ReloadTail, ClaimTail, LoseTail, Construct, Publish, TicketPush,
             TakeTicket, AwaitTurn, Bury, Step, Forget
    <3>2. CASE Publish(p) \/ Bury(p)
      <4> DEFINE i == Slot(pos[p])
      <4>1. /\ tail' = tail /\ head' = head /\ p \in Threads
            /\ pos[p] \in Nat /\ i \in Slots
            /\ seq' = [seq EXCEPT ![i] = pos[p] + 1]
        BY <2>1, <3>2 DEF Publish, Bury, StoreSeq, Threads
      <4>2. head <= pos[p] /\ pos[p] < tail
        BY <2>1, <3>2 DEF Publish, Bury, Step, Reserving, OwedFree, Owes
      <4> HIDE DEF i
      <4>3. /\ seq'[i] = pos[p] + 1
            /\ \A j \in Slots : j # i => seq'[j] = seq[j]
        BY <2>1, <4>1
      <4>4. pos[p] + 1 >= 1 /\ (pos[p] + 1) - 1 = pos[p] /\ ~(pos[p] < head)
        BY <2>1, <4>1, <4>2
      <4>5. ASSUME NEW j \in Slots, Slot(seq'[j]) # j
            PROVE  /\ seq'[j] >= 1 /\ Slot(seq'[j] - 1) = j /\ seq'[j] - 1 < tail
                   /\ seq'[j] - 1 < head =>
                        \E c \in Consumers : Holds(c) /\ pos[c] = seq'[j] - 1
        <5>1. CASE j = i
          BY <4>2, <4>3, <4>4, <5>1 DEF i
        <5>2. CASE j # i
          BY <4>3, <4>5, <5>2 DEF Staged
        <5> QED BY <5>1, <5>2
      <4> QED BY <3>1, <4>1, <4>5 DEF Staged, Holds
    <3>3. CASE ~(Publish(p) \/ Bury(p))
      <4>1. /\ seq' = seq /\ head' = head /\ (tail' = tail \/ tail' = tail + 1)
        BY <2>3, <3>3
           DEF memory, ProducerStep, TryPush, LookFree, LookFull, LookStale, ReloadTail,
               ClaimTail, LoseTail, Construct, TicketPush, TakeTicket, AwaitTurn
      <4> QED BY <2>1, <2>2, <3>1, <4>1 DEF Holds
    <3> QED BY <3>2, <3>3
  <2>4. ASSUME NEW c \in Consumers, ConsumerStep(c)
        PROVE  Staged'
    <3>1. c \in Threads /\ pc \in [Threads -> ProducerLabels \cup ConsumerLabels]
          /\ pos \in [Threads -> Nat]
      BY <2>1 DEF TypeOK, Threads
    <3>2. \A d \in Consumers : d # c => pc'[d] = pc[d] /\ pos'[d] = pos[d]
      BY <2>4, <3>1
         DEF Threads, ConsumerStep, TryPop, PeekReady, PeekEmpty, PeekStale, ReloadHead,
             ClaimHead, LoseHead, Take, Release, SkipTombstone, ReturnEmpty,
             CheckClosed, CheckDrained, Step, Forget
    <3>3. CASE ClaimHead(c)
      <4>1. /\ seq' = seq /\ tail' = tail /\ head' = head + 1 /\ pos' = pos
            /\ pos[c] = head /\ pc'[c] \in {"take", "skip"} /\ pc[c] = "grab"
        BY <3>1, <3>3 DEF ClaimHead, Step
      <4>2. ASSUME NEW j \in Slots, Slot(seq[j]) # j, seq[j] - 1 < head + 1
            PROVE  \E d \in Consumers : Holds(d)' /\ pos[d] = seq[j] - 1
        <5>1. CASE seq[j] - 1 = head
          BY <4>1, <5>1 DEF Holds
        <5>2. CASE seq[j] - 1 < head
          <6>1. PICK d \in Consumers : Holds(d) /\ pos[d] = seq[j] - 1
            BY <4>2, <5>2 DEF Staged
          <6> QED BY <3>2, <4>1, <6>1 DEF Holds
        <5>3. seq[j] \in Nat
          BY <2>1
        <5> QED BY <2>1, <4>2, <5>1, <5>2, <5>3
      <4> QED BY <4>1, <4>2 DEF Staged
    <3>4. CASE Release(c) \/ SkipTombstone(c)
      <4> DEFINE i == Slot(pos[c])
      <4>1. /\ tail' = tail /\ head' = head /\ pos[c] \in Nat /\ i \in Slots
            /\ seq' = [seq EXCEPT ![i] = pos[c] + N]
        BY <2>1, <3>1, <3>4 DEF Release, SkipTombstone, StoreSeq
      <4>2. Slot(pos[c] + N) = i
        BY <4>1, SlotNext
      <4> HIDE DEF i
      <4>3. /\ seq'[i] = pos[c] + N
            /\ \A j \in Slots : j # i => seq'[j] = seq[j]
        BY <2>1, <4>1
      <4>4. ASSUME NEW j \in Slots, j # i, Slot(seq[j]) # j, seq[j] - 1 < head
            PROVE  \E d \in Consumers : Holds(d)' /\ pos'[d] = seq[j] - 1
        <5>1. Slot(seq[j] - 1) = j
          BY <4>4 DEF Staged
        <5>2. PICK d \in Consumers : Holds(d) /\ pos[d] = seq[j] - 1
          BY <4>4 DEF Staged
        <5>3. d # c
          BY <4>4, <5>1, <5>2 DEF i
        <5> QED BY <3>2, <5>2, <5>3 DEF Holds
      <4> QED BY <4>1, <4>2, <4>3, <4>4 DEF Staged
    <3>5. CASE ~(ClaimHead(c) \/ Release(c) \/ SkipTombstone(c))
      <4>1. /\ seq' = seq /\ head' = head /\ tail' = tail
            /\ Holds(c) => pos'[c] = pos[c] /\ pc'[c] \in {"take", "release", "skip"}
        BY <2>4, <3>1, <3>5
           DEF memory, Holds, Step, Forget, ConsumerStep, TryPop, PeekReady, PeekEmpty,
               PeekStale, ReloadHead, LoseHead, Take, ReturnEmpty, CheckClosed,
               CheckDrained
      <4> QED BY <2>1, <2>2, <3>2, <4>1 DEF Holds
    <3> QED BY <3>3, <3>4, <3>5
  <2>5. CASE Close \/ Destroy \/ UNCHANGED vars
    <3>1. /\ seq' = seq /\ head' = head /\ tail' = tail /\ pc' = pc /\ pos' = pos
      BY <2>5 DEF Close, Destroy, vars, locals, memory
    <3> QED BY <2>1, <2>2, <3>1 DEF Holds
  <2> QED
    BY <2>3, <2>4, <2>5 DEF Next, Done
<1> QED
  BY <1>1, <1>2, RingInvariant, PTL DEF Spec

\* ~Queue walks from head to tail and destroys exactly the objects that are alive.
THEOREM DestructorExact == Spec => []DestructorFindsLiveObjects
<1>1. IInv /\ Staged => DestructorFindsLiveObjects
  <2> SUFFICES ASSUME IInv, Staged, Quiet, ~destroyed, NEW i \in Slots
               PROVE  i \in Remaining <=> storage[i] # None
    BY DEF DestructorFindsLiveObjects, Remaining
  <2>1. /\ TypeOK /\ Reserving /\ Contents /\ head \in Nat /\ tail \in Nat
        /\ head <= tail /\ seq[i] \in Nat
    BY DEF IInv, TypeOK, Reserving
  <2>2. /\ \A c \in Consumers : pc[c] \in {"idle", "drained"}
        /\ \A p \in Producers : pc[p] \in {"idle", "drained"}
    BY DEF Quiet, Threads
  <2>3. ASSUME i \in Remaining PROVE storage[i] # None
    <3>1. PICK q \in head..(tail - 1) : Slot(q) = i /\ seq[i] = q + 1 /\ ~dead[i]
      BY <2>3 DEF Remaining
    <3>2. q \in 0..(tail - 1)
      BY <2>1, <3>1
    <3>3. PICK e \in line : e.pos = q
      BY <2>1, <3>1, <3>2 DEF Contents, LiveOnRecord
    <3>4. storage[i] = e.item
      BY <2>1, <2>2, <3>1, <3>3 DEF Contents, PublishedIsRecorded
    <3> QED
      BY <2>1, <3>4, RecordTypes, NoneAssumption DEF Items
  <2>4. ASSUME storage[i] # None PROVE i \in Remaining
    <3>1. Slot(seq[i]) # i /\ ~dead[i]
      BY <2>1, <2>2, <2>4 DEF Contents, EmptyUnlessPublished
    <3>2. /\ seq[i] >= 1 /\ Slot(seq[i] - 1) = i /\ seq[i] - 1 < tail
          /\ ~(seq[i] - 1 < head)
      BY <2>2, <3>1 DEF Staged, Holds
    <3>3. seq[i] - 1 \in head..(tail - 1) /\ seq[i] = (seq[i] - 1) + 1
      BY <2>1, <3>2
    <3> QED BY <3>1, <3>2, <3>3 DEF Remaining
  <2> QED BY <2>3, <2>4
<1> QED
  BY <1>1, RingInvariant, StagedInvariant, PTL

-----------------------------------------------------------------------------
(* The ring implements WorkQueue.  The line of the abstract queue is the set  *)
(* of the reservations on record that no pop has claimed, in the order of     *)
(* their positions.  The first lemmas say what InOrder makes of a finite set  *)
(* of reservations, and of the set with one more at its end or one less at    *)
(* its front.  The others map a step to a step: reserving a position accepts, *)
(* claiming one gives, and the invariants say that there is room for the one  *)
(* and that the slot holds the object first in line for the other.            *)

\* The reservations of a set that come before e.
Before(entries, e) == {f \in entries : f.pos < e.pos}

\* Reservations have positions, and no two of the set have the same one.
Apart(entries) ==
  /\ IsFiniteSet(entries)
  /\ \A e \in entries : e.pos \in Nat
  /\ \A e, f \in entries : e.pos = f.pos => e = f

\* The number of reservations before it is different for every reservation of a
\* set, and takes every value below the size of the set.
LEMMA RanksApart ==
  ASSUME NEW E, Apart(E)
  PROVE  /\ Cardinality(E) \in Nat
         /\ \A e \in E : Cardinality(Before(E, e)) \in 0..(Cardinality(E) - 1)
         /\ \A e, f \in E :
              Cardinality(Before(E, e)) = Cardinality(Before(E, f)) => e = f
         /\ \A k \in 0..(Cardinality(E) - 1) :
              \E e \in E : Cardinality(Before(E, e)) = k
<1>1. IsFiniteSet(E) /\ Cardinality(E) \in Nat
  BY FS_CardinalityType DEF Apart
<1>2. ASSUME NEW S \in SUBSET E, NEW T \in SUBSET S, S # T
      PROVE  Cardinality(T) \in Nat /\ Cardinality(T) < Cardinality(S)
  <2>1. IsFiniteSet(S) /\ IsFiniteSet(T)
    BY <1>1, FS_Subset
  <2>2. Cardinality(S) \in Nat /\ Cardinality(T) \in Nat
    BY <2>1, FS_CardinalityType
  <2>3. Cardinality(T) <= Cardinality(S) /\ Cardinality(S) # Cardinality(T)
    BY <1>2, <2>1, FS_Subset
  <2> QED BY <2>2, <2>3
<1>3. ASSUME NEW e \in E
      PROVE  Cardinality(Before(E, e)) \in 0..(Cardinality(E) - 1)
  <2>1. Before(E, e) \in SUBSET E /\ e \notin Before(E, e)
    BY DEF Before, Apart
  <2>2. Cardinality(Before(E, e)) \in Nat /\ Cardinality(Before(E, e)) < Cardinality(E)
    BY <1>2, <2>1
  <2> QED BY <1>1, <2>2
<1>4. ASSUME NEW e \in E, NEW f \in E, e.pos < f.pos
      PROVE  Cardinality(Before(E, e)) # Cardinality(Before(E, f))
  <2>1. /\ Before(E, f) \in SUBSET E /\ Before(E, e) \in SUBSET Before(E, f)
        /\ e \in Before(E, f) /\ e \notin Before(E, e)
    BY <1>4 DEF Before, Apart
  <2>2. /\ Cardinality(Before(E, e)) \in Nat
        /\ Cardinality(Before(E, e)) < Cardinality(Before(E, f))
    BY <1>2, <2>1
  <2> QED BY <1>3, <2>2
<1>5. ASSUME NEW e \in E, NEW f \in E,
             Cardinality(Before(E, e)) = Cardinality(Before(E, f))
      PROVE  e = f
  <2>1. ~(e.pos < f.pos) /\ ~(f.pos < e.pos)
    BY <1>4, <1>5
  <2>2. e.pos \in Nat /\ f.pos \in Nat /\ (e.pos = f.pos => e = f)
    BY DEF Apart
  <2> QED BY <2>1, <2>2
<1>6. ASSUME NEW k \in 0..(Cardinality(E) - 1)
      PROVE  \E e \in E : Cardinality(Before(E, e)) = k
  <2> DEFINE Ranks == 0..(Cardinality(E) - 1)
             rank == [e \in E |-> Cardinality(Before(E, e))]
  <2>1. rank \in [E -> Ranks] /\ \A e, f \in E : rank[e] = rank[f] => e = f
    BY <1>3, <1>5
  <2>2. rank \in Injection(E, Ranks)
    BY <2>1, Fun_IsInj
  <2>3. IsFiniteSet(Ranks) /\ Cardinality(Ranks) = Cardinality(E)
    BY <1>1, FS_Interval
  <2>4. rank \in Surjection(E, Ranks)
    BY <2>2, <2>3, FS_Injection
  <2>5. k \in Ranks
    BY <1>6
  <2> HIDE DEF rank, Ranks
  <2>6. \E e \in E : rank[e] = k
    BY <2>4, <2>5, Fun_SurjectionProperties
  <2> QED BY <2>6 DEF rank
<1> QED BY <1>1, <1>3, <1>5, <1>6

\* InOrder is as long as the set, and has a reservation's object where as many
\* come before it.
LEMMA InOrderPlaces ==
  ASSUME NEW E, Apart(E)
  PROVE  /\ Cardinality(E) \in Nat
         /\ InOrder(E) = [k \in 1..Cardinality(E) |-> InOrder(E)[k]]
         /\ \A k \in 1..Cardinality(E) :
              \E e \in E : Cardinality(Before(E, e)) + 1 = k
         /\ \A e \in E : /\ Cardinality(Before(E, e)) + 1 \in 1..Cardinality(E)
                         /\ InOrder(E)[Cardinality(Before(E, e)) + 1] = e.item
<1>1. Cardinality(E) \in Nat
  BY RanksApart
<1>2. InOrder(E) = [k \in 1..Cardinality(E) |-> InOrder(E)[k]]
  BY DEF InOrder
<1>3. ASSUME NEW k \in 1..Cardinality(E)
      PROVE  \E e \in E : Cardinality(Before(E, e)) + 1 = k
  <2>1. k - 1 \in 0..(Cardinality(E) - 1) /\ (k - 1) + 1 = k
    BY <1>1
  <2>2. PICK e \in E : Cardinality(Before(E, e)) = k - 1
    BY <2>1, RanksApart
  <2> QED BY <2>1, <2>2
<1>4. ASSUME NEW e \in E
      PROVE  /\ Cardinality(Before(E, e)) + 1 \in 1..Cardinality(E)
             /\ InOrder(E)[Cardinality(Before(E, e)) + 1] = e.item
  <2>1. Cardinality(Before(E, e)) \in 0..(Cardinality(E) - 1)
    BY RanksApart
  <2>2. PICK k : k = Cardinality(Before(E, e)) + 1
    OBVIOUS
  <2>3. k \in 1..Cardinality(E) /\ Cardinality(Before(E, e)) = k - 1
    BY <1>1, <2>1, <2>2
  <2>4. InOrder(E)[k] = (CHOOSE d \in E : Cardinality(Before(E, d)) = k - 1).item
    BY <2>3, Zenon DEF InOrder, Before
  <2>5. (CHOOSE d \in E : Cardinality(Before(E, d)) = k - 1) = e
    <3> DEFINE d == CHOOSE d \in E : Cardinality(Before(E, d)) = k - 1
    <3>1. d \in E /\ Cardinality(Before(E, d)) = k - 1
      BY <2>3, Zenon
    <3>2. Cardinality(Before(E, d)) = Cardinality(Before(E, e))
      BY <3>1, <2>3, Zenon
    <3>3. \A f, g \in E : Cardinality(Before(E, f)) = Cardinality(Before(E, g)) => f = g
      BY RanksApart, Zenon
    <3> QED BY <3>1, <3>2, <3>3, Zenon
  <2> QED BY <2>2, <2>3, <2>4, <2>5
<1> QED BY <1>1, <1>2, <1>3, <1>4

\* A reservation behind all others makes its object the last in order.
LEMMA InOrderBehind ==
  ASSUME NEW E, Apart(E), NEW x, x.pos \in Nat, \A e \in E : e.pos < x.pos
  PROVE  InOrder(E \cup {x}) = Append(InOrder(E), x.item)
<1> DEFINE F == E \cup {x}
           n == Cardinality(E)
<1>1. x \notin E /\ IsFiniteSet(E) /\ \A e \in E : e.pos \in Nat
  BY DEF Apart
<1>2. IsFiniteSet(F) /\ Cardinality(F) = n + 1
  BY <1>1, FS_AddElement
<1>3. Apart(F)
  BY <1>1, <1>2 DEF Apart
<1>4. Before(F, x) = E /\ \A e \in E : Before(F, e) = Before(E, e)
  BY <1>1 DEF Before
<1>5. n \in Nat /\ InOrder(E) = [k \in 1..n |-> InOrder(E)[k]]
  BY InOrderPlaces
<1>6. InOrder(F) = [k \in 1..(n + 1) |-> InOrder(F)[k]]
  BY <1>2, <1>3, InOrderPlaces
<1>7. InOrder(F)[n + 1] = x.item
  <2>1. InOrder(F)[Cardinality(Before(F, x)) + 1] = x.item
    BY <1>3, InOrderPlaces
  <2> QED BY <2>1, <1>4
<1>8. ASSUME NEW k \in 1..n
      PROVE  InOrder(F)[k] = InOrder(E)[k]
  <2>1. PICK e \in E : Cardinality(Before(E, e)) + 1 = k
    BY InOrderPlaces
  <2>2. InOrder(E)[Cardinality(Before(E, e)) + 1] = e.item
    BY InOrderPlaces
  <2>3. InOrder(F)[Cardinality(Before(F, e)) + 1] = e.item
    BY <1>3, InOrderPlaces
  <2>4. Before(F, e) = Before(E, e)
    BY <1>4
  <2> QED BY <2>1, <2>2, <2>3, <2>4, Zenon
<1> HIDE DEF F, n
<1>9. PICK s : s = InOrder(E)
  OBVIOUS
<1>10. PICK t : t = InOrder(F)
  OBVIOUS
<1>11. Append(s, x.item) = [k \in 1..(n + 1) |-> IF k = n + 1 THEN x.item ELSE s[k]]
  BY <1>5, <1>9
<1>12. \A k \in 1..(n + 1) : t[k] = IF k = n + 1 THEN x.item ELSE s[k]
  <2> SUFFICES ASSUME NEW k \in 1..(n + 1)
               PROVE  t[k] = IF k = n + 1 THEN x.item ELSE s[k]
    OBVIOUS
  <2>1. CASE k = n + 1
    BY <2>1, <1>7, <1>10
  <2>2. CASE k # n + 1
    <3>1. k \in 1..n
      BY <1>5, <2>2
    <3> QED BY <2>2, <3>1, <1>8, <1>9, <1>10, Zenon
  <2> QED BY <2>1, <2>2
<1>13. t = [k \in 1..(n + 1) |-> IF k = n + 1 THEN x.item ELSE s[k]]
  <2>1. t = [k \in 1..(n + 1) |-> t[k]]
    BY <1>6, <1>10, Zenon
  <2> QED BY <1>12, <2>1
<1> QED BY <1>9, <1>10, <1>11, <1>13 DEF F

\* The object of the reservation before all others is the first in order, and
\* without that reservation the others keep their order.
LEMMA InOrderFront ==
  ASSUME NEW E, Apart(E), NEW x \in E, \A e \in E : e = x \/ x.pos < e.pos
  PROVE  /\ InOrder(E) # <<>>
         /\ Head(InOrder(E)) = x.item
         /\ InOrder(E \ {x}) = Tail(InOrder(E))
<1> DEFINE F == E \ {x}
           n == Cardinality(F)
<1>1. IsFiniteSet(E) /\ \A e \in E : e.pos \in Nat
  BY DEF Apart
<1>2. Cardinality(E) \in Nat
  BY InOrderPlaces
<1>3. IsFiniteSet(F) /\ n = Cardinality(E) - 1
  BY <1>1, FS_RemoveElement
<1>4. Apart(F)
  BY <1>1, <1>3 DEF Apart
<1>5. Before(E, x) = {} /\ \A e \in F : /\ Before(E, e) = Before(F, e) \cup {x}
                                        /\ x \notin Before(F, e)
  BY <1>1 DEF Before
<1>6. n \in Nat /\ InOrder(F) = [k \in 1..n |-> InOrder(F)[k]]
  BY <1>4, InOrderPlaces
<1>7. InOrder(E) = [k \in 1..(n + 1) |-> InOrder(E)[k]]
  <2>1. Cardinality(E) = n + 1
    BY <1>2, <1>3
  <2> QED BY <2>1, InOrderPlaces
<1>8. InOrder(E)[1] = x.item
  <2>1. InOrder(E)[Cardinality(Before(E, x)) + 1] = x.item
    BY InOrderPlaces
  <2>2. Cardinality(Before(E, x)) = 0
    BY <1>5, FS_EmptySet
  <2> QED BY <2>1, <2>2
<1>9. ASSUME NEW k \in 1..n
      PROVE  InOrder(E)[k + 1] = InOrder(F)[k]
  <2>1. PICK e \in F : Cardinality(Before(F, e)) + 1 = k
    BY <1>4, InOrderPlaces
  <2>2. InOrder(F)[Cardinality(Before(F, e)) + 1] = e.item
    BY <1>4, InOrderPlaces
  <2>3. InOrder(E)[Cardinality(Before(E, e)) + 1] = e.item
    BY InOrderPlaces
  <2>4. Cardinality(Before(E, e)) = k
    <3>1. Before(F, e) \in SUBSET F
      BY DEF Before
    <3>2. IsFiniteSet(Before(F, e))
      BY <1>3, <3>1, FS_Subset
    <3>3. Cardinality(Before(F, e) \cup {x}) = Cardinality(Before(F, e)) + 1
      BY <1>5, <3>2, FS_AddElement
    <3>4. Before(E, e) = Before(F, e) \cup {x}
      BY <1>5
    <3> QED BY <2>1, <3>3, <3>4
  <2> QED BY <2>1, <2>2, <2>3, <2>4, Zenon
<1> HIDE DEF F, n
<1>10. PICK s : s = InOrder(E)
  OBVIOUS
<1>11. PICK t : t = InOrder(F)
  OBVIOUS
<1>12. s = [k \in 1..(n + 1) |-> s[k]] /\ n + 1 >= 1 /\ n \in Nat
  BY <1>6, <1>7, <1>10
<1>13. Len(s) = n + 1
  BY <1>12
<1>14. s # <<>> /\ Head(s) = s[1]
  BY <1>12, <1>13
<1>15. Tail(s) = [k \in 1..n |-> s[k + 1]]
  BY <1>12, <1>13
<1>16. t = [k \in 1..n |-> s[k + 1]]
  BY <1>6, <1>9, <1>10, <1>11
<1> QED BY <1>8, <1>10, <1>11, <1>14, <1>15, <1>16 DEF F

\* Nothing in order is the empty sequence.
LEMMA InOrderNone == InOrder({}) = <<>>
<1>1. Cardinality({}) = 0
  BY FS_EmptySet
<1>2. PICK s : s = InOrder({})
  OBVIOUS
<1>3. s = [k \in 1..0 |-> s[k]]
  BY <1>1, <1>2 DEF InOrder
<1> QED BY <1>2, <1>3

-----------------------------------------------------------------------------
(* The line and its length. *)

\* The accepted objects that no pop has claimed are at different positions.
LEMMA WaitingApart ==
  ASSUME IInv
  PROVE  /\ Apart(Waiting)
         /\ InLine = [k \in 1..Cardinality(Waiting) |-> InLine[k]]
         /\ Cardinality(Waiting) \in Nat /\ Len(InLine) = Cardinality(Waiting)
         /\ \A e \in Waiting : e \in line /\ e.pos \in head..(tail - 1)
<1>1. /\ TypeOK /\ RecordBounds /\ RecordOrder /\ head \in Nat /\ tail \in Nat
      /\ \A e \in line : e.pos \in Nat
  BY RecordTypes DEF IInv, Reservations, TypeOK
<1>2. /\ \A e \in Waiting : e \in line /\ e.pos \in head..(tail - 1)
      /\ \A e, f \in Waiting : e.pos = f.pos => e = f
  BY <1>1 DEF Waiting, RecordBounds, RecordOrder
<1>3. IsFiniteSet(Waiting)
  <2> DEFINE f == [e \in Waiting |-> e.pos]
  <2>1. f \in Injection(Waiting, head..(tail - 1))
    BY <1>2, Fun_IsInj
  <2>2. IsFiniteSet(head..(tail - 1))
    BY <1>1, FS_Interval
  <2> QED BY <2>1, <2>2, FS_Injection
<1>4. Apart(Waiting)
  BY <1>1, <1>2, <1>3 DEF Apart
<1>5. /\ Cardinality(Waiting) \in Nat
      /\ InLine = [k \in 1..Cardinality(Waiting) |-> InLine[k]]
  BY <1>4, InOrderPlaces DEF InLine
<1>6. PICK s : s = InLine
  OBVIOUS
<1>7. Len(s) = Cardinality(Waiting)
  BY <1>5, <1>6
<1> QED BY <1>2, <1>4, <1>5, <1>6, <1>7

\* A producer whose compare-exchange on the tail succeeds has a free slot, so that
\* fewer than N positions are reserved and unclaimed.
LEMMA RoomToClaim ==
  ASSUME IInv, NEW p \in Producers, pc[p] = "claim", pos[p] = tail
  PROVE  Len(InLine) < N
<1>1. /\ TypeOK /\ Reserving /\ Claiming /\ head \in Nat /\ tail \in Nat
      /\ head <= tail /\ N \in Nat /\ N >= 2
  BY SizeAssumption DEF IInv, TypeOK, Reserving
<1>2. seq[Slot(tail)] = tail
  BY <1>1 DEF Reserving, ClaimReady
<1>3. tail - head < N
  <2> SUFFICES ASSUME head + N <= tail PROVE FALSE
    BY <1>1
  <2>1. PICK q \in head..(head + N - 1) : Slot(q) = Slot(tail)
    <3>1. PICK i \in 0..(N - 1) : i = Slot(tail)
      BY <1>1, SlotRange
    <3>2. \E q \in head..(head + N - 1) : q % N = i
      <4>1. N \in Nat /\ N >= 1 /\ head \in Nat
        BY <1>1
      <4> QED BY <4>1, LapCover, Zenon
    <3>3. \A q : Slot(q) = q % N
      BY DEF Slot
    <3> QED BY <3>1, <3>2, <3>3, Zenon
  <2>2. seq[Slot(q)] <= q + 1
    BY <1>1, <2>1 DEF Claiming, Unclaimed
  <2>3. q \in Nat /\ q < tail
    BY <1>1, <2>1
  <2>4. q + N <= tail
    BY <1>1, <2>1, <2>3, SlotApart
  <2> QED BY <1>1, <1>2, <2>1, <2>2, <2>3, <2>4
<1>4. Cardinality(Waiting) <= Cardinality(head..(tail - 1))
  <2> DEFINE f == [e \in Waiting |-> e.pos]
  <2>1. f \in Injection(Waiting, head..(tail - 1))
    BY WaitingApart, Fun_IsInj DEF Apart
  <2>2. IsFiniteSet(head..(tail - 1))
    BY <1>1, FS_Interval
  <2> QED BY <2>1, <2>2, FS_Injection
<1>5. Cardinality(head..(tail - 1)) = tail - head
  BY <1>1, FS_Interval
<1> QED BY <1>1, <1>3, <1>4, <1>5, WaitingApart

\* A position that is reserved and unclaimed is published, and there are N slots to
\* be published, or owed by a producer, and not by one that is still to take its
\* ticket.
LEMMA RoomToTicket ==
  ASSUME IInv, Accounted, NEW p \in Producers, pc[p] = "ticket"
  PROVE  /\ Cardinality(Producers) \in Nat
         /\ Len(InLine) < N + Cardinality(Producers)
<1> DEFINE Published == {e \in Waiting : seq[Slot(e.pos)] = e.pos + 1}
           Owed == {e \in Waiting : \E r \in Producers : Owes(r) /\ pos[r] = e.pos}
<1>1. /\ TypeOK /\ N \in Nat /\ N >= 2 /\ head \in Nat /\ tail \in Nat
      /\ Apart(Waiting) /\ Len(InLine) = Cardinality(Waiting)
      /\ \A e \in Waiting : e.pos \in Nat /\ e.pos \in head..(tail - 1)
  BY WaitingApart, SizeAssumption DEF IInv, TypeOK, Apart
<1>2. Waiting = Published \cup Owed
  BY <1>1 DEF Accounted
<1>3. IsFiniteSet(Published) /\ Cardinality(Published) <= N
  <2> DEFINE f == [e \in Published |-> Slot(e.pos)]
  <2>1. f \in [Published -> Slots]
    BY <1>1, SlotIsSlot
  <2>2. ASSUME NEW d \in Published, NEW e \in Published, f[d] = f[e]
        PROVE  d = e
    <3>1. d.pos + 1 = e.pos + 1
      BY <2>2
    <3>2. d.pos = e.pos
      BY <1>1, <3>1
    <3> QED BY <1>1, <3>2 DEF Apart
  <2>3. f \in Injection(Published, Slots)
    BY <2>1, <2>2, Fun_IsInj
  <2>4. IsFiniteSet(Slots) /\ Cardinality(Slots) = N
    BY <1>1, FS_Interval DEF Slots
  <2> QED BY <2>3, <2>4, FS_Injection
<1>4. IsFiniteSet(Owed) /\ Cardinality(Owed) <= Cardinality(Producers) - 1
  <2> DEFINE Owner(e) == CHOOSE r \in Producers : Owes(r) /\ pos[r] = e.pos
             f == [e \in Owed |-> Owner(e)]
  <2>1. \A e \in Owed : /\ Owner(e) \in Producers
                        /\ Owes(Owner(e)) /\ pos[Owner(e)] = e.pos
    BY Zenon
  <2>2. ~Owes(p)
    BY DEF Owes
  <2> HIDE DEF Owner
  <2>3. f \in [Owed -> Producers \ {p}]
    BY <2>1, <2>2
  <2>4. ASSUME NEW d \in Owed, NEW e \in Owed, f[d] = f[e]
        PROVE  d = e
    <3>1. d.pos = e.pos
      BY <2>1, <2>4
    <3> QED BY <1>1, <3>1 DEF Apart
  <2>5. f \in Injection(Owed, Producers \ {p})
    BY <2>3, <2>4, Fun_IsInj
  <2>6. /\ IsFiniteSet(Producers \ {p})
        /\ Cardinality(Producers \ {p}) = Cardinality(Producers) - 1
    BY FiniteAssumption, FS_RemoveElement
  <2> QED BY <2>5, <2>6, FS_Injection
<1>5. /\ Cardinality(Published) \in Nat /\ Cardinality(Owed) \in Nat
      /\ Cardinality(Published \cap Owed) \in Nat /\ Cardinality(Producers) \in Nat
  <2>1. IsFiniteSet(Published \cap Owed)
    BY <1>3, FS_Subset
  <2> QED BY <1>3, <1>4, <2>1, FiniteAssumption, FS_CardinalityType
<1>6. Cardinality(Published \cup Owed) =
        Cardinality(Published) + Cardinality(Owed) - Cardinality(Published \cap Owed)
  BY <1>3, <1>4, FS_Union
<1> HIDE DEF Published, Owed
<1> QED BY <1>1, <1>2, <1>3, <1>4, <1>5, <1>6

-----------------------------------------------------------------------------
(* Every reserved position is accounted for. *)

\* Every reserved and unclaimed position is owed by a producer or published, and
\* tickets are only taken where they are how a push reserves.
LEMMA AccountedInvariant == Spec => [](Accounted /\ TicketsReserve)
<1>1. Init => Accounted /\ TicketsReserve
  BY DEF Init, Accounted, TicketsReserve, Threads
<1>2. IInv /\ Accounted /\ TicketsReserve /\ [Next \/ Done]_vars
        => Accounted' /\ TicketsReserve'
  <2> SUFFICES ASSUME IInv, Accounted, TicketsReserve, [Next \/ Done]_vars
               PROVE  Accounted' /\ TicketsReserve'
    OBVIOUS
  <2>1. /\ TypeOK /\ Reserving /\ Claiming /\ N \in Nat /\ N >= 2
        /\ tail \in Nat /\ head \in Nat /\ seq \in [Slots -> Nat]
        /\ \A t \in Threads : pos[t] \in Nat /\ Slot(pos[t]) \in Slots
    BY SlotIsSlot, SizeAssumption DEF IInv, TypeOK
  \* Steps that leave the sequences and what is owed alone.
  <2>2. ASSUME seq' = seq, tail' = tail, head' \in Nat, head <= head',
               \A p \in Producers : /\ Owes(p) => Owes(p)' /\ pos'[p] = pos[p]
                                    /\ pc'[p] = "ticket" => pc[p] = "ticket"
        PROVE  Accounted' /\ TicketsReserve'
    <3>1. ASSUME NEW q \in head'..(tail' - 1)
          PROVE  \/ \E p \in Producers : Owes(p)' /\ pos'[p] = q
                 \/ seq'[Slot(q)] = q + 1
      <4>1. q \in head..(tail - 1)
        BY <2>1, <2>2
      <4> QED BY <2>2, <4>1 DEF Accounted
    <3> QED BY <2>2, <3>1 DEF Accounted, TicketsReserve
  <2>3. ASSUME NEW p \in Producers, ProducerStep(p)
        PROVE  Accounted' /\ TicketsReserve'
    <3>1. /\ p \in Threads /\ head' = head
          /\ \A r \in Producers : r # p => pc'[r] = pc[r] /\ pos'[r] = pos[r]
      BY <2>1, <2>3
         DEF TypeOK, Threads, memory, ProducerStep, TryPush, LookFree, LookFull, LookStale,
             ReloadTail, ClaimTail, LoseTail, Construct, Publish, TicketPush,
             TakeTicket, AwaitTurn, Bury, Step, Forget
    <3>2. CASE ClaimTail(p) \/ TakeTicket(p)
      <4>1. /\ seq' = seq /\ tail' = tail + 1 /\ ~Owes(p) /\ Owes(p)' /\ pos'[p] = tail
            /\ pc'[p] # "ticket"
        BY <2>1, <3>1, <3>2 DEF ClaimTail, TakeTicket, Step, Owes, TypeOK
      <4>2. ASSUME NEW q \in head'..(tail' - 1)
            PROVE  \/ \E r \in Producers : Owes(r)' /\ pos'[r] = q
                   \/ seq'[Slot(q)] = q + 1
        <5>1. CASE q = tail
          BY <4>1, <5>1
        <5>2. CASE q # tail
          <6>1. q \in head..(tail - 1)
            BY <2>1, <3>1, <4>1, <5>2
          <6>2. CASE seq[Slot(q)] = q + 1
            BY <4>1, <6>2
          <6>3. CASE \E r \in Producers : Owes(r) /\ pos[r] = q
            BY <3>1, <4>1, <6>3 DEF Owes
          <6> QED BY <6>1, <6>2, <6>3 DEF Accounted
        <5> QED BY <5>1, <5>2
      <4> QED BY <3>1, <4>1, <4>2 DEF Accounted, TicketsReserve
    <3>3. CASE Publish(p) \/ Bury(p)
      <4> DEFINE i == Slot(pos[p])
      <4>1. /\ tail' = tail /\ pos[p] \in Nat /\ i \in Slots /\ pc'[p] = "idle"
            /\ seq' = [seq EXCEPT ![i] = pos[p] + 1]
        BY <2>1, <3>1, <3>3 DEF Publish, Bury, StoreSeq, Step, TypeOK
      <4>2. seq[i] = pos[p]
        BY <2>1, <3>3 DEF Publish, Bury, Step, Reserving, OwedFree, Owes
      <4> HIDE DEF i
      <4>3. seq'[i] = pos[p] + 1 /\ \A j \in Slots : j # i => seq'[j] = seq[j]
        BY <2>1, <4>1
      <4>4. ASSUME NEW q \in head'..(tail' - 1)
            PROVE  \/ \E r \in Producers : Owes(r)' /\ pos'[r] = q
                   \/ seq'[Slot(q)] = q + 1
        <5>1. q \in head..(tail - 1) /\ q \in Nat /\ Slot(q) \in Slots
          BY <2>1, <3>1, <4>1, SlotIsSlot
        <5>2. CASE q = pos[p]
          BY <4>3, <5>2 DEF i
        <5>3. CASE q # pos[p] /\ \E r \in Producers : Owes(r) /\ pos[r] = q
          BY <3>1, <5>3 DEF Owes
        <5>4. CASE q # pos[p] /\ seq[Slot(q)] = q + 1
          <6>1. CASE Slot(q) # i
            BY <4>3, <5>1, <5>4, <6>1
          <6>2. CASE Slot(q) = i
            <7>1. q < pos[p] /\ pos[p] = q + 1
              BY <4>1, <4>2, <5>1, <5>4, <6>2
            <7>2. q + N <= pos[p]
              BY <4>1, <5>1, <6>2, <7>1, SlotApart DEF i
            <7> QED BY <2>1, <5>1, <7>1, <7>2
          <6> QED BY <6>1, <6>2
        <5> QED BY <5>1, <5>2, <5>3, <5>4 DEF Accounted
      <4> QED BY <3>1, <4>1, <4>4 DEF Accounted, TicketsReserve
    <3>4. CASE TicketPush(p)
      <4>1. /\ seq' = seq /\ tail' = tail /\ Reserve = "ticket" /\ ~Owes(p)
        BY <3>4 DEF TicketPush, Step, memory, Owes
      <4>2. Accounted'
        BY <3>1, <4>1 DEF Accounted, Owes
      <4> QED BY <4>1, <4>2 DEF TicketsReserve
    <3>5. CASE ~(ClaimTail(p) \/ TakeTicket(p) \/ Publish(p) \/ Bury(p) \/ TicketPush(p))
      <4>1. /\ seq' = seq /\ tail' = tail /\ pc'[p] # "ticket"
            /\ Owes(p) => Owes(p)' /\ pos'[p] = pos[p]
        BY <2>1, <2>3, <3>1, <3>5
           DEF memory, ProducerStep, TryPush, LookFree, LookFull, LookStale, ReloadTail,
               LoseTail, Construct, AwaitTurn, Step, Forget, TypeOK, Owes
      <4> QED BY <2>1, <2>2, <3>1, <4>1 DEF Owes
    <3> QED BY <3>2, <3>3, <3>4, <3>5
  <2>4. ASSUME NEW c \in Consumers, ConsumerStep(c)
        PROVE  Accounted' /\ TicketsReserve'
    <3>1. c \in Threads /\ tail' = tail /\ head' \in Nat /\ head <= head'
      <4>1. tail' = tail /\ (head' = head \/ head' = head + 1)
        BY <2>4
           DEF memory, ConsumerStep, TryPop, PeekReady, PeekEmpty, PeekStale, ReloadHead,
               ClaimHead, LoseHead, Take, Release, SkipTombstone, ReturnEmpty,
               CheckClosed, CheckDrained
      <4> QED BY <2>1, <4>1 DEF Threads
    <3>2. \A p \in Producers : pc'[p] = pc[p] /\ pos'[p] = pos[p]
      BY <2>1, <2>4, ThreadsAssumption
         DEF TypeOK, Threads, ConsumerStep, TryPop, PeekReady, PeekEmpty, PeekStale,
             ReloadHead, ClaimHead, LoseHead, Take, Release, SkipTombstone, ReturnEmpty,
             CheckClosed, CheckDrained, Step, Forget
    <3>3. CASE Release(c) \/ SkipTombstone(c)
      <4> DEFINE i == Slot(pos[c])
      <4>1. /\ head' = head /\ pos[c] \in Nat /\ i \in Slots
            /\ seq' = [seq EXCEPT ![i] = pos[c] + N]
        BY <2>1, <3>1, <3>3 DEF Release, SkipTombstone, StoreSeq
      <4>2. pos[c] < head /\ seq[i] = pos[c] + 1
        BY <2>1, <3>3 DEF Release, SkipTombstone, Step, Claiming, HeldPublished, Holds
      <4> HIDE DEF i
      <4>3. \A j \in Slots : j # i => seq'[j] = seq[j]
        BY <2>1, <4>1
      <4>4. ASSUME NEW q \in head'..(tail' - 1)
            PROVE  \/ \E r \in Producers : Owes(r)' /\ pos'[r] = q
                   \/ seq'[Slot(q)] = q + 1
        <5>1. q \in head..(tail - 1) /\ q \in Nat /\ Slot(q) \in Slots
          BY <2>1, <3>1, <4>1, SlotIsSlot
        <5>2. CASE \E r \in Producers : Owes(r) /\ pos[r] = q
          BY <3>2, <5>2 DEF Owes
        <5>3. CASE seq[Slot(q)] = q + 1
          <6>1. Slot(q) # i
            BY <2>1, <4>1, <4>2, <5>1, <5>3
          <6> QED BY <4>3, <5>1, <5>3, <6>1
        <5> QED BY <5>1, <5>2, <5>3 DEF Accounted
      <4> QED BY <3>2, <4>4 DEF Accounted, TicketsReserve
    <3>4. CASE ~(Release(c) \/ SkipTombstone(c))
      <4>1. seq' = seq
        BY <2>4, <3>4
           DEF memory, ConsumerStep, TryPop, PeekReady, PeekEmpty, PeekStale, ReloadHead,
               ClaimHead, LoseHead, Take, ReturnEmpty, CheckClosed, CheckDrained
      <4> QED BY <2>2, <3>1, <3>2, <4>1 DEF Owes
    <3> QED BY <3>3, <3>4
  <2>5. CASE Close \/ Destroy \/ UNCHANGED vars
    <3>1. seq' = seq /\ head' = head /\ tail' = tail /\ pc' = pc /\ pos' = pos
      BY <2>5 DEF Close, Destroy, vars, locals, memory
    <3> QED BY <2>1, <2>2, <3>1 DEF Owes
  <2> QED
    BY <2>3, <2>4, <2>5 DEF Next, Done
<1> QED
  BY <1>1, <1>2, RingInvariant, PTL DEF Spec

-----------------------------------------------------------------------------
(* The steps. *)

\* What the abstract queue sees of a state.
view == <<InLine, ~closed, Given, Told>>

\* A step that leaves the record, the head and the deliveries alone is a stutter,
\* unless a consumer comes to take an object, no longer has the same one in its
\* slot, or is told drained.
LEMMA Stutters ==
  ASSUME line' = line, head' = head, closed' = closed, log' = log,
         \A c \in Consumers :
           /\ pc'[c] = "drained" <=> pc[c] = "drained"
           /\ pc'[c] = "take" <=> pc[c] = "take"
           /\ pc[c] = "take" => storage'[Slot(pos'[c])] = storage[Slot(pos[c])]
  PROVE  UNCHANGED view
<1>1. InLine' = InLine
  BY DEF InLine, Waiting
<1>2. Given' = Given
  <2>1. ASSUME NEW c \in Consumers PROVE Claimed(c)' = Claimed(c)
    <3>1. CASE pc[c] = "take"
      BY <3>1 DEF Claimed
    <3>2. CASE pc[c] # "take"
      BY <3>2 DEF Claimed
    <3> QED BY <3>1, <3>2
  <2> QED BY <2>1 DEF Given
<1>3. Told' = Told
  BY DEF Told
<1> QED BY <1>1, <1>2, <1>3 DEF view

\* Reserving a position while the queue is open puts the object in line.
LEMMA ReservingAccepts ==
  ASSUME IInv, NEW p \in Producers, pc[p] \in {"claim", "ticket"}, ~closed,
         Len(InLine) < IF Reserve = "cas" THEN N ELSE N + Cardinality(Producers),
         line' = line \cup {[pos |-> tail, item |-> Item(p)]},
         head' = head, closed' = closed, log' = log, storage' = storage,
         \A c \in Consumers : pc'[c] = pc[c] /\ pos'[c] = pos[c]
  PROVE  Queue!Accept
<1> DEFINE x == [pos |-> tail, item |-> Item(p)]
<1>1. TypeOK /\ head \in Nat /\ tail \in Nat /\ head <= tail
  BY DEF IInv, TypeOK, Reserving
<1>2. Item(p) \in Items
  <2>1. calls[p] \in 0..MaxPushes /\ calls[p] >= 1
    BY DEF IInv, TypeOK, Reservations, CallBegun
  <2> QED BY <2>1, BoundAssumption DEF Item, Items
<1>3. Waiting' = Waiting \cup {x}
  BY <1>1 DEF Waiting
<1>4. InOrder(Waiting \cup {x}) = Append(InLine, Item(p))
  <2>1. Apart(Waiting) /\ \A e \in Waiting : e.pos < x.pos
    BY <1>1, WaitingApart
  <2>2. x.pos \in Nat /\ x.item = Item(p)
    BY <1>1
  <2> HIDE DEF x
  <2> QED BY <2>1, <2>2, InOrderBehind DEF InLine
<1>5. InLine' = Append(InLine, Item(p))
  BY <1>3, <1>4 DEF InLine
<1>6. Given' = Given /\ Told' = Told
  BY DEF Given, Told, Claimed
<1> QED BY <1>2, <1>5, <1>6 DEF Queue!Accept

\* An object waits at the head exactly if its slot is published without a tombstone,
\* and then the slot holds that object.
LEMMA HeadHoldsFirst ==
  ASSUME IInv, ~destroyed, NEW c \in Consumers, pc[c] = "grab", pos[c] = head
  PROVE  /\ tomb[c] => \A e \in Waiting : e.pos > head
         /\ ~tomb[c] => \E e \in Waiting : e.pos = head /\ storage[Slot(head)] = e.item
<1>1. /\ TypeOK /\ Reserving /\ Claiming /\ Contents /\ head \in Nat /\ tail \in Nat
      /\ \A e \in line : e.pos \in Nat
  BY RecordTypes DEF IInv, TypeOK
<1>2. seq[Slot(head)] = head + 1 /\ dead[Slot(head)] = tomb[c]
  BY <1>1 DEF Claiming, GrabReady
<1>3. CASE tomb[c]
  <2>1. \A e \in line : e.pos # head
    BY <1>1, <1>2, <1>3 DEF Contents, PublishedIsRecorded
  <2> QED BY <1>1, <1>3, <2>1 DEF Waiting
<1>4. CASE ~tomb[c]
  <2>1. head < tail
    <3> SUFFICES ASSUME ~(head < tail) PROVE FALSE
      OBVIOUS
    <3>1. tail = head /\ head \in tail..(tail + N - 1)
      BY <1>1, SizeAssumption DEF Reserving
    <3> QED BY <1>1, <1>2, <3>1 DEF Reserving, Unreserved
  <2>2. head \in 0..(tail - 1)
    BY <1>1, <2>1
  <2>3. PICK e \in line : e.pos = head
    BY <1>1, <1>2, <1>4, <2>2 DEF Contents, LiveOnRecord
  <2>4. ~ \E d \in Consumers : pc[d] = "release" /\ pos[d] = head
    BY <1>1 DEF Claiming, HeldPublished, Holds
  <2>5. storage[Slot(head)] = e.item
    BY <1>1, <1>2, <2>3, <2>4 DEF Contents, PublishedIsRecorded
  <2> QED BY <1>1, <1>4, <2>3, <2>5 DEF Waiting
<1> QED BY <1>1, <1>3, <1>4 DEF TypeOK

\* Claiming a position gives out the object that is first in line, or skips a
\* tombstone, which was never in line.
LEMMA ClaimHeadGives ==
  ASSUME IInv, ~destroyed, NEW c \in Consumers, ClaimHead(c)
  PROVE  UNCHANGED view \/ Queue!Give(c)
<1>1. /\ TypeOK /\ head \in Nat /\ c \in Threads /\ tomb[c] \in BOOLEAN
      /\ \A e \in line : e.pos \in Nat
  BY RecordTypes DEF IInv, TypeOK, Threads
<1>2. /\ pc[c] = "grab" /\ pos[c] = head /\ head' = head + 1
      /\ pc' = [pc EXCEPT ![c] = IF tomb[c] THEN "skip" ELSE "take"]
      /\ UNCHANGED <<closed, storage, pos, line, log>>
  BY DEF ClaimHead, Step
<1>3. /\ \A d \in Consumers : d # c => pc'[d] = pc[d]
      /\ pc'[c] = IF tomb[c] THEN "skip" ELSE "take"
  BY <1>1, <1>2 DEF TypeOK, Threads
<1>4. Told' = Told /\ c \notin Told
  BY <1>2, <1>3 DEF Told
<1>5. CASE tomb[c]
  <2>1. Waiting' = Waiting
    <3>1. \A e \in line : e.pos >= head => e.pos > head
      BY <1>2, <1>5, HeadHoldsFirst DEF Waiting
    <3>2. \A e \in line : e.pos >= head + 1 <=> e.pos >= head
      BY <1>1, <3>1
    <3> QED BY <1>2, <3>2 DEF Waiting
  <2>2. InLine' = InLine
    BY <2>1 DEF InLine
  <2>3. Given' = Given
    <3>1. ASSUME NEW d \in Consumers PROVE Claimed(d)' = Claimed(d)
      BY <1>2, <1>3, <1>5 DEF Claimed
    <3> QED BY <3>1 DEF Given
  <2> QED BY <1>2, <1>4, <2>2, <2>3 DEF view
<1>6. CASE ~tomb[c]
  <2>1. PICK x \in Waiting : x.pos = head /\ storage[Slot(head)] = x.item
    BY <1>2, <1>6, HeadHoldsFirst
  <2>2. Apart(Waiting)
    BY WaitingApart
  <2>3. \A e \in Waiting : e = x \/ x.pos < e.pos
    BY <1>1, <2>1, <2>2 DEF Apart, Waiting
  <2>4. Waiting' = Waiting \ {x}
    <3>1. \A e \in line : e.pos >= head + 1 <=> (e.pos >= head /\ e # x)
      BY <1>1, <2>1, <2>3 DEF Waiting
    <3> QED BY <1>2, <3>1 DEF Waiting
  <2>5. /\ InLine # <<>> /\ Head(InLine) = storage[Slot(head)]
        /\ InOrder(Waiting \ {x}) = Tail(InLine)
    BY <2>1, <2>2, <2>3, InOrderFront DEF InLine
  <2>6. InLine' = Tail(InLine)
    BY <2>4, <2>5 DEF InLine
  <2>7. Given' = [Given EXCEPT ![c] = Append(Given[c], Head(InLine))]
    <3>1. Claimed(c)' = Append(Claimed(c), Head(InLine))
      BY <1>2, <1>3, <1>6, <2>5 DEF Claimed
    <3>2. ASSUME NEW d \in Consumers, d # c PROVE Claimed(d)' = Claimed(d)
      BY <1>2, <1>3, <3>2 DEF Claimed
    <3> QED BY <3>1, <3>2 DEF Given
  <2>8. Queue!Give(c)
    BY <1>2, <1>4, <2>5, <2>6, <2>7 DEF Queue!Give
  <2> QED BY <2>8
<1> QED BY <1>1, <1>5, <1>6

\* Moving the object out of its slot is when the claim is delivered: nothing that
\* the claim had not given already.
LEMMA TakeDelivers ==
  ASSUME IInv, NEW c \in Consumers, Take(c)
  PROVE  UNCHANGED view
<1>1. /\ TypeOK /\ Claiming /\ c \in Threads
      /\ \A t \in Threads : pos[t] \in Nat /\ Slot(pos[t]) \in Slots
  BY SlotIsSlot DEF IInv, TypeOK, Threads
<1>2. /\ pc[c] = "take" /\ pc'[c] = "release"
      /\ \A d \in Consumers : d # c => pc'[d] = pc[d] /\ log'[d] = log[d]
      /\ log'[c] = Append(log[c], [pos |-> pos[c], item |-> storage[Slot(pos[c])]])
      /\ \A i \in Slots : i # Slot(pos[c]) => storage'[i] = storage[i]
      /\ UNCHANGED <<closed, head, pos, line>>
  BY <1>1 DEF Take, Touch, Step, TypeOK, Threads
<1>3. InLine' = InLine /\ Told' = Told
  <2>1. InLine' = InLine
    BY <1>2 DEF InLine, Waiting
  <2>2. Told' = Told
    BY <1>2 DEF Told
  <2> QED BY <2>1, <2>2
<1>4. Claimed(c)' = Claimed(c)
  <2>1. PICK s \in Seq(Entries) : s = log[c]
    BY <1>1 DEF TypeOK
  <2>2. PICK e : e = [pos |-> pos[c], item |-> storage[Slot(pos[c])]]
    OBVIOUS
  <2>3. e.item = storage[Slot(pos[c])]
    BY <2>2
  <2>4. [i \in DOMAIN Append(s, e) |-> Append(s, e)[i].item] =
          Append([i \in DOMAIN s |-> s[i].item], e.item)
    OBVIOUS
  <2>5. Claimed(c) = Append([i \in DOMAIN s |-> s[i].item], e.item)
    BY <1>2, <2>1, <2>3 DEF Claimed
  <2>6. Claimed(c)' = [i \in DOMAIN Append(s, e) |-> Append(s, e)[i].item]
    BY <1>2, <2>1, <2>2 DEF Claimed
  <2> QED BY <2>4, <2>5, <2>6
<1>5. ASSUME NEW d \in Consumers, d # c PROVE Claimed(d)' = Claimed(d)
  <2>1. CASE pc[d] = "take"
    <3>1. Slot(pos[d]) # Slot(pos[c])
      <4>1. d \in Threads /\ Holds(c) /\ Holds(d) /\ pos[c] \in Nat /\ pos[d] \in Nat
        BY <1>1, <1>2, <2>1 DEF Holds, Threads
      <4>2. /\ seq[Slot(pos[c])] = pos[c] + 1 /\ seq[Slot(pos[d])] = pos[d] + 1
            /\ pos[c] # pos[d]
        BY <1>1, <1>5, <4>1 DEF Claiming, HeldPublished, HeldOnce
      <4> QED BY <4>1, <4>2
    <3>2. storage'[Slot(pos[d])] = storage[Slot(pos[d])]
      BY <1>1, <1>2, <3>1 DEF Threads
    <3> QED BY <1>2, <1>5, <3>2 DEF Claimed
  <2>2. CASE pc[d] # "take"
    BY <1>2, <1>5, <2>2 DEF Claimed
  <2> QED BY <2>1, <2>2
<1>6. Given' = Given
  BY <1>4, <1>5 DEF Given
<1> QED BY <1>2, <1>3, <1>6 DEF view

\* Every step of a producer is a stutter or accepts an object.
LEMMA ProducerImplements ==
  ASSUME IInv, Accounted, TicketsReserve, NEW p \in Producers, ProducerStep(p)
  PROVE  UNCHANGED view \/ Queue!Accept
<1>1. /\ TypeOK /\ Reserving /\ Claiming /\ p \in Threads /\ p \notin Consumers
      /\ \A t \in Threads : pos[t] \in Nat /\ Slot(pos[t]) \in Slots
  BY SlotIsSlot, ThreadsAssumption DEF IInv, TypeOK, Threads
<1>2. /\ head' = head /\ closed' = closed /\ log' = log
      /\ \A c \in Consumers : pc'[c] = pc[c] /\ pos'[c] = pos[c]
  BY <1>1
     DEF TypeOK, Threads, memory, ProducerStep, TryPush, LookFree, LookFull, LookStale,
         ReloadTail, ClaimTail, LoseTail, Construct, Publish, TicketPush, TakeTicket,
         AwaitTurn, Bury, Step, Forget
<1>3. CASE ClaimTail(p)
  <2>1. /\ pc[p] = "claim" /\ pos[p] = tail /\ ~closed /\ storage' = storage
        /\ line' = line \cup {[pos |-> tail, item |-> Item(p)]}
    BY <1>3 DEF ClaimTail, Step
  <2>2. Len(InLine) < IF Reserve = "cas" THEN N ELSE N + Cardinality(Producers)
    <3>1. Cardinality(Producers) \in Nat /\ N \in Nat
      BY FiniteAssumption, FS_CardinalityType, SizeAssumption
    <3>2. Len(InLine) < N /\ Len(InLine) \in Nat
      BY <2>1, RoomToClaim, WaitingApart
    <3> QED BY <3>1, <3>2
  <2> QED BY <1>2, <2>1, <2>2, ReservingAccepts
<1>4. CASE TakeTicket(p) /\ ~closed
  <2>1. /\ pc[p] = "ticket" /\ storage' = storage /\ Reserve # "cas"
        /\ line' = line \cup {[pos |-> tail, item |-> Item(p)]}
    BY <1>4 DEF TakeTicket, Step, TicketsReserve
  <2>2. Len(InLine) < IF Reserve = "cas" THEN N ELSE N + Cardinality(Producers)
    BY <2>1, RoomToTicket
  <2> QED BY <1>2, <1>4, <2>1, <2>2, ReservingAccepts
<1>5. CASE Construct(p)
  <2>1. /\ line' = line /\ pc[p] = "construct"
        /\ \A i \in Slots : i # Slot(pos[p]) => storage'[i] = storage[i]
    BY <1>1, <1>5 DEF Construct, Touch, Step, TypeOK
  <2>2. ASSUME NEW c \in Consumers, pc[c] = "take"
        PROVE  storage'[Slot(pos[c])] = storage[Slot(pos[c])]
    <3>1. seq[Slot(pos[p])] = pos[p] /\ pos[p] \in Nat
      BY <1>1, <2>1 DEF Reserving, OwedFree, Owes
    <3>2. Slot(pos[c]) # Slot(pos[p])
      BY <1>1, <2>2, <3>1, FreeSlot DEF Holds
    <3> QED BY <1>1, <2>1, <3>2 DEF Threads
  <2> QED BY <1>2, <2>1, <2>2, Stutters
<1>6. CASE ~(ClaimTail(p) \/ (TakeTicket(p) /\ ~closed) \/ Construct(p))
  <2>1. line' = line /\ storage' = storage
    BY <1>6
       DEF memory, ProducerStep, TryPush, LookFree, LookFull, LookStale, ReloadTail,
           LoseTail, Publish, TicketPush, TakeTicket, AwaitTurn, Bury
  <2> QED BY <1>2, <2>1, Stutters
<1> QED BY <1>3, <1>4, <1>5, <1>6

\* Every step of a consumer is a stutter, gives out an object or says drained.
LEMMA ConsumerImplements ==
  ASSUME IInv, NEW c \in Consumers, ConsumerStep(c)
  PROVE  UNCHANGED view \/ Queue!Give(c) \/ Queue!SayDrained(c)
<1>1. TypeOK /\ Draining /\ c \in Threads
  BY DEF IInv, Threads
<1>2. \A d \in Consumers : d # c => pc'[d] = pc[d] /\ pos'[d] = pos[d]
  BY <1>1
     DEF TypeOK, Threads, ConsumerStep, TryPop, PeekReady, PeekEmpty, PeekStale,
         ReloadHead, ClaimHead, LoseHead, Take, Release, SkipTombstone, ReturnEmpty,
         CheckClosed, CheckDrained, Step, Forget
<1>3. CASE ClaimHead(c)
  <2>1. ~destroyed
    BY <1>1, <1>3, BusyMeansAlive DEF ClaimHead, Step
  <2> QED BY <1>3, <2>1, ClaimHeadGives
<1>4. CASE Take(c)
  BY <1>4, TakeDelivers
<1>5. CASE CheckDrained(c) /\ head = limit[c]
  <2>1. /\ pc[c] = "drain" /\ pc'[c] = "drained"
        /\ UNCHANGED <<closed, storage, pos, line, log, head>>
    BY <1>1, <1>5 DEF CheckDrained, Step, memory, TypeOK
  <2>2. closed /\ \A e \in line : e.pos < head
    BY <1>1, <1>5, <2>1 DEF Draining
  <2>3. head \in Nat /\ \A e \in line : e.pos \in Nat
    BY <1>1, RecordTypes DEF TypeOK
  <2>4. Waiting = {}
    BY <2>2, <2>3 DEF Waiting
  <2>5. InLine = <<>>
    BY <2>4, InOrderNone DEF InLine
  <2>6. InLine' = InLine
    BY <2>1 DEF InLine, Waiting
  <2>7. Given' = Given
    <3>1. ASSUME NEW d \in Consumers PROVE Claimed(d)' = Claimed(d)
      BY <1>2, <2>1 DEF Claimed
    <3> QED BY <3>1 DEF Given
  <2>8. Told' = Told \cup {c}
    BY <1>2, <2>1 DEF Told
  <2> QED BY <2>1, <2>2, <2>5, <2>6, <2>7, <2>8 DEF Queue!SayDrained
<1>6. CASE ~(ClaimHead(c) \/ Take(c) \/ (CheckDrained(c) /\ head = limit[c]))
  <2>1. /\ line' = line /\ storage' = storage /\ head' = head /\ closed' = closed
        /\ log' = log
    BY <1>6
       DEF memory, ConsumerStep, TryPop, PeekReady, PeekEmpty, PeekStale, ReloadHead,
           LoseHead, Release, SkipTombstone, ReturnEmpty, CheckClosed, CheckDrained
  <2>2. pc[c] \notin {"take", "drained"} /\ pc'[c] \notin {"take", "drained"}
    BY <1>1, <1>6
       DEF TypeOK, ConsumerStep, TryPop, PeekReady, PeekEmpty, PeekStale, ReloadHead,
           LoseHead, Release, SkipTombstone, ReturnEmpty, CheckClosed, CheckDrained, Step
  <2> QED BY <1>2, <2>1, <2>2, Stutters
<1> QED BY <1>3, <1>4, <1>5, <1>6

\* At the start the line is empty and open.
LEMMA InitView == Init => Queue!Init
<1> SUFFICES ASSUME Init PROVE Queue!Init
  OBVIOUS
<1>1. InLine = <<>>
  <2>1. Waiting = {}
    BY DEF Init, Waiting
  <2> QED BY <2>1, InOrderNone DEF InLine
<1>2. Given = [c \in Consumers |-> <<>>]
  <2>1. ASSUME NEW c \in Consumers PROVE Claimed(c) = <<>>
    <3>1. pc[c] = "idle" /\ log[c] = <<>>
      BY DEF Init, Threads
    <3> QED BY <3>1 DEF Claimed
  <2> QED BY <2>1 DEF Given
<1>3. Told = {}
  BY DEF Init, Told, Threads
<1> QED BY <1>1, <1>2, <1>3 DEF Init, Queue!Init

\* The lock-free ring is a first-in first-out queue that is closed once: every
\* behaviour of its compare-exchanges, tickets, sequences and tombstones is one of
\* WorkQueue, for any number of threads and slots.
THEOREM QueueImplemented == Spec => ImplementsQueue
<1>1. Init => Queue!Init
  BY InitView
<1>2. IInv /\ Accounted /\ TicketsReserve /\ [Next \/ Done]_vars => [Queue!Next]_view
  <2> SUFFICES ASSUME IInv, Accounted, TicketsReserve, [Next \/ Done]_vars
               PROVE  [Queue!Next]_view
    OBVIOUS
  <2>1. ASSUME NEW p \in Producers, ProducerStep(p) PROVE [Queue!Next]_view
    BY <2>1, ProducerImplements DEF Queue!Next
  <2>2. ASSUME NEW c \in Consumers, ConsumerStep(c) PROVE [Queue!Next]_view
    BY <2>2, ConsumerImplements DEF Queue!Next
  <2>3. CASE Close
    <3>1. /\ ~closed /\ closed' = TRUE
          /\ UNCHANGED <<head, storage, pc, pos, line, log>>
      BY <2>3 DEF Close, locals
    <3>2. InLine' = InLine /\ Given' = Given /\ Told' = Told
      BY <3>1 DEF InLine, Waiting, Given, Claimed, Told
    <3>3. Queue!Shut
      BY <3>1, <3>2 DEF Queue!Shut
    <3> QED BY <3>3 DEF Queue!Next
  <2>4. CASE Destroy
    <3>1. /\ UNCHANGED <<head, closed, pc, pos, line, log>>
          /\ \A c \in Consumers : pc[c] # "take"
      BY <2>4 DEF Destroy, locals, Quiet, Threads
    <3>2. UNCHANGED view
      BY <3>1, Stutters
    <3> QED BY <3>2
  <2>5. CASE UNCHANGED vars
    <3>1. UNCHANGED <<head, closed, storage, pc, pos, line, log>>
      BY <2>5 DEF vars, memory, locals
    <3>2. UNCHANGED view
      BY <3>1, Stutters
    <3> QED BY <3>2
  <2> QED BY <2>1, <2>2, <2>3, <2>4, <2>5 DEF Next, Done
<1> QED
  BY <1>1, <1>2, RingInvariant, AccountedInvariant, PTL
     DEF Spec, ImplementsQueue, Queue!Spec, view
=============================================================================
