------------------------- MODULE MpmcRingInvariant -------------------------
(***************************************************************************)
(* The inductive invariant behind the properties of MpmcRing: who owns a   *)
(* position at each stage of its life, what that says about the sequence   *)
(* of its slot, and what is in the slot's storage meanwhile.               *)
(***************************************************************************)
EXTENDS MpmcRing

\* p has reserved pos[p] and owes its publication.
Owes(p) == pc[p] \in {"turn", "construct", "publish", "bury"}

\* c has claimed pos[c] and owes its release.
Holds(c) == pc[c] \in {"take", "release", "skip"}

\* The producers' half.  A tail that was read is not ahead of the tail, and a
\* claimant whose read is current has a free slot.
ClaimReady ==
  \A p \in Producers :
    /\ pc[p] \in {"look", "claim"} => pos[p] <= tail
    /\ pc[p] = "claim" /\ pos[p] = tail =>
         seq[Slot(pos[p])] = pos[p] /\ ~dead[Slot(pos[p])]

\* An owed position is reserved and unclaimed, its slot has not gone past it, and
\* its slot is free once the producer has had its turn.
OwedFree ==
  \A p \in Producers : Owes(p) =>
    /\ head <= pos[p] /\ pos[p] < tail
    /\ seq[Slot(pos[p])] <= pos[p]
    /\ pc[p] # "turn" => seq[Slot(pos[p])] = pos[p] /\ ~dead[Slot(pos[p])]

\* No two producers owe one position.
OwedOnce ==
  \A p, r \in Producers : p # r /\ Owes(p) /\ Owes(r) => pos[p] # pos[r]

\* A slot's sequence has not reached the positions still to be reserved.
Unreserved == \A q \in tail..(tail + N - 1) : seq[Slot(q)] <= q

\* Only a published sequence carries the tombstone bit.
FreeNotDead == \A i \in Slots : Slot(seq[i]) = i => ~dead[i]

Reserving ==
  head <= tail /\ ClaimReady /\ OwedFree /\ OwedOnce /\ Unreserved /\ FreeNotDead

\* The consumers' half.  A head that was read is not ahead of the head, and a
\* claimant whose read is current has a published slot.
GrabReady ==
  \A c \in Consumers :
    /\ pc[c] \in {"peek", "grab"} => pos[c] <= head
    /\ pc[c] = "grab" /\ pos[c] = head =>
         seq[Slot(pos[c])] = pos[c] + 1 /\ dead[Slot(pos[c])] = tomb[c]

\* A held position is claimed, and its slot still published.
HeldPublished ==
  \A c \in Consumers : Holds(c) =>
    /\ pos[c] < head
    /\ seq[Slot(pos[c])] = pos[c] + 1
    /\ dead[Slot(pos[c])] = (pc[c] = "skip")

\* No two consumers hold one position.
HeldOnce ==
  \A c, d \in Consumers : c # d /\ Holds(c) /\ Holds(d) => pos[c] # pos[d]

\* A slot is at most published for the positions still to be claimed.
Unclaimed == \A q \in head..(head + N - 1) : seq[Slot(q)] <= q + 1

Claiming == GrabReady /\ HeldPublished /\ HeldOnce /\ Unclaimed

\* What a producer in a slot has synchronised with.
ProducerViews ==
  \A p \in Producers :
    /\ pc[p] = "claim" /\ pos[p] = tail => seen[p] = carried[Slot(pos[p])]
    /\ pc[p] \in {"construct", "bury"} =>
         /\ seen[p] = touched[Slot(pos[p])]
         /\ seen[p] = carried[Slot(pos[p])]
    /\ pc[p] = "publish" => seen[p] = touched[Slot(pos[p])]

\* What a consumer in a slot has synchronised with.
ConsumerViews ==
  \A c \in Consumers :
    /\ pc[c] = "grab" /\ pos[c] = head => seen[c] = carried[Slot(pos[c])]
    /\ pc[c] \in {"take", "skip"} =>
         /\ seen[c] = touched[Slot(pos[c])]
         /\ seen[c] = carried[Slot(pos[c])]
    /\ pc[c] = "release" => seen[c] = touched[Slot(pos[c])]

\* A slot's sequence carries every access to its storage, except between a
\* thread's access and its store.
CarriedUnlessTouching ==
  \A i \in Slots :
    \/ carried[i] = touched[i]
    \/ \E p \in Producers : pc[p] = "publish" /\ Slot(pos[p]) = i
    \/ \E c \in Consumers : pc[c] = "release" /\ Slot(pos[c]) = i

Views == ProducerViews /\ ConsumerViews /\ CarriedUnlessTouching

\* The reservations on record name reserved positions and calls already made.
RecordBounds ==
  \A e \in line :
    /\ e.pos < tail
    /\ e.item[2] <= calls[e.item[1]]
    /\ pc[e.item[1]] \in {"look", "reload", "claim", "ticket"} =>
         e.item[2] < calls[e.item[1]]

\* There is one per position, and a producer's are in the order of its calls.
RecordOrder ==
  \A e, f \in line :
    /\ e.pos = f.pos => e = f
    /\ e.item[1] = f.item[1] /\ e.pos < f.pos => e.item[2] < f.item[2]

\* A producer that is in a call has begun one.
CallBegun == \A p \in Producers : pc[p] # "idle" => calls[p] >= 1

\* A position owed an object is on record, one owed a tombstone is not.
OwedOnRecord ==
  \A p \in Producers :
    /\ pc[p] \in {"construct", "publish"} \/ (pc[p] = "turn" /\ ~late[p]) =>
         [pos |-> pos[p], item |-> Item(p)] \in line
    /\ pc[p] = "bury" \/ (pc[p] = "turn" /\ late[p]) =>
         \A e \in line : e.pos # pos[p]

Reservations == RecordBounds /\ RecordOrder /\ CallBegun /\ OwedOnRecord

\* A producer's slot is empty until it has built its object there.
BuiltByOwner ==
  \A p \in Producers :
    /\ pc[p] \in {"construct", "bury"} => storage[Slot(pos[p])] = None
    /\ pc[p] = "publish" => storage[Slot(pos[p])] = Item(p)

\* A consumer about to release its slot leaves it empty.
EmptiedByHolder ==
  \A c \in Consumers :
    pc[c] \in {"release", "skip"} => storage[Slot(pos[c])] = None

\* A slot that is free, or published with a tombstone, holds no object, except
\* while a producer is about to publish the one it has built.
EmptyUnlessPublished ==
  \A i \in Slots :
    /\ Slot(seq[i]) = i =>
         \/ storage[i] = None
         \/ \E p \in Producers : pc[p] = "publish" /\ Slot(pos[p]) = i
    /\ dead[i] => storage[i] = None

\* A published slot holds the object on record for its position, until the
\* consumer that claimed it has moved it out.
PublishedIsRecorded ==
  \A e \in line : seq[Slot(e.pos)] = e.pos + 1 =>
    /\ ~dead[Slot(e.pos)]
    /\ \/ storage[Slot(e.pos)] = e.item
       \/ \E c \in Consumers : pc[c] = "release" /\ pos[c] = e.pos

\* A position published without a tombstone is on record.
LiveOnRecord ==
  \A q \in 0..(tail - 1) : seq[Slot(q)] = q + 1 /\ ~dead[Slot(q)] =>
    \E e \in line : e.pos = q

\* What is in the storage of a slot at each stage, until the destructor runs.
Contents ==
  /\ BuiltByOwner /\ EmptiedByHolder /\ EmptyUnlessPublished
  /\ PublishedIsRecorded /\ LiveOnRecord

\* A delivery on record is of a reservation on record, at a claimed position.
DeliveredOnRecord ==
  \A c \in Consumers : \A i \in DOMAIN log[c] :
    log[c][i] \in line /\ log[c][i].pos < head

\* A consumer's deliveries are in the order it claimed them, and so is the one
\* it is about to make.
DeliveredInOrder ==
  \A c \in Consumers : \A i \in DOMAIN log[c] :
    /\ \A j \in DOMAIN log[c] : i < j => log[c][i].pos < log[c][j].pos
    /\ pc[c] = "take" => log[c][i].pos < pos[c]

\* Two consumers deliver, and are about to deliver, different positions.
DeliveredApart ==
  \A c, d \in Consumers : c # d => \A i \in DOMAIN log[c] :
    /\ \A j \in DOMAIN log[d] : log[c][i].pos # log[d][j].pos
    /\ pc[d] = "take" => log[c][i].pos # pos[d]

Deliveries ==
  DeliveredOnRecord /\ DeliveredInOrder /\ DeliveredApart /\ NothingLost

\* What a consumer that has seen the closed bit knows.
Draining ==
  /\ \A c \in Consumers :
       /\ pc[c] \in {"drain", "drained"} => closed
       /\ pc[c] = "drain" => \A e \in line : e.pos < limit[c]
  /\ DrainedTakesAll
  /\ destroyed => Quiet

\* Everything the ring relies on, in one inductive invariant: each stage of a
\* position's life has one owner, and the slot's sequence, its storage and the
\* records of what was accepted and delivered agree with that stage.
IInv ==
  /\ TypeOK
  /\ Reserving
  /\ Claiming
  /\ Views
  /\ Reservations
  /\ (~destroyed => Contents)
  /\ Deliveries
  /\ Draining

\* A slot's sequence is either free for one of its positions or published for
\* one, and a published position that has been claimed is held by its consumer.
Staged ==
  \A i \in Slots : Slot(seq[i]) # i =>
    /\ seq[i] >= 1 /\ Slot(seq[i] - 1) = i /\ seq[i] - 1 < tail
    /\ seq[i] - 1 < head => \E c \in Consumers : Holds(c) /\ pos[c] = seq[i] - 1

\* A reserved position that nobody has claimed is owed by a producer, or published.
Accounted ==
  \A q \in head..(tail - 1) :
    (\E p \in Producers : Owes(p) /\ pos[p] = q) \/ seq[Slot(q)] = q + 1

\* Tickets are only taken where they are how a push reserves.
TicketsReserve == \A p \in Producers : pc[p] = "ticket" => Reserve = "ticket"
=============================================================================
