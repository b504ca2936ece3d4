------------------------------ MODULE MpmcRing ------------------------------
(***************************************************************************)
(* The lock-free ring of turnstile::Queue (mpmc_queue.hpp), one action per *)
(* atomic access of the code.  A thread is a producer inside try_push or   *)
(* the ticket push, or a consumer inside try_pop / the non-parking part of *)
(* pop.  Sleeping and waking are not here: a blocked thread polls.         *)
(*                                                                         *)
(* The interleaving is sequentially consistent except for the one thing    *)
(* the ring's memory orders exist for: whether an access to a slot's       *)
(* storage happens after the previous access to it.  Every storage access  *)
(* of slot i bumps touched[i]; a release store of seq[i] publishes how     *)
(* many of them its thread has seen (carried[i]) and an acquire load of    *)
(* seq[i] takes that over (seen[t]).                                       *)
(***************************************************************************)
EXTENDS Integers, Sequences

CONSTANTS
  Producers, Consumers,
  N,            \* slots in the ring
  Reserve,      \* "cas" or "ticket": Options::reserve
  MaxPushes,    \* bound: push calls per producer
  None          \* no object in a slot's storage

ASSUME ThreadsAssumption == Producers \cap Consumers = {}
ASSUME SizeAssumption == N \in Nat /\ N >= 2
ASSUME BoundAssumption == MaxPushes \in Nat
ASSUME ReserveAssumption == Reserve \in {"cas", "ticket"}
ASSUME NoneAssumption == None \notin Producers \X (1..MaxPushes)

VARIABLES
  tail,      \* tail_ >> 1: next position to reserve
  closed,    \* tail_ & kClosed, always read and written with tail
  head,      \* head_: next position to claim
  seq,       \* Slot::seq without its kDead bit
  dead,      \* the kDead bit of Slot::seq
  storage,   \* Slot::storage: the object alive in it, or None
  touched,   \* accesses made to a slot's storage so far
  carried,   \* the accesses the last store to the slot's seq makes visible
  pc, pos,   \* where each thread is, and the position it works on
  seen,      \* the accesses to its slot that a thread has synchronised with
  late,      \* ticket producer: was the closed bit set in the word it took
  tomb,      \* consumer: did the sequence it loaded carry kDead
  limit,     \* consumer: the tail of the closed word it loaded
  calls,     \* push calls begun by each producer
  destroyed, \* the destructor has run
  line,      \* history: the accepted reservations, [pos, item]
  log        \* history: what each consumer's pops returned, in order

locals == <<pc, pos, seen, late, tomb, limit, calls>>
memory == <<tail, closed, head, seq, dead, storage, touched, carried>>
vars == <<memory, locals, destroyed, line, log>>

Threads == Producers \cup Consumers
Slots == 0..(N - 1)
Items == Producers \X (1..MaxPushes)
ProducerLabels == {"idle", "look", "reload", "claim", "construct", "publish",
                   "ticket", "turn", "bury"}
ConsumerLabels == {"idle", "peek", "repeek", "grab", "take", "release", "skip",
                   "empty", "drain", "drained"}
Entries == [pos : Nat, item : Items]

\* slot(pos): positions map to slots by masking.
Slot(q) == q % N

\* The object the current push call of p carries.
Item(p) == <<p, calls[p]>>

Init ==
  /\ tail = 0 /\ closed = FALSE /\ head = 0
  /\ seq = [i \in Slots |-> i]
  /\ dead = [i \in Slots |-> FALSE]
  /\ storage = [i \in Slots |-> None]
  /\ touched = [i \in Slots |-> 0]
  /\ carried = [i \in Slots |-> 0]
  /\ pc = [t \in Threads |-> "idle"]
  /\ pos = [t \in Threads |-> 0]
  /\ seen = [t \in Threads |-> 0]
  /\ late = [p \in Producers |-> FALSE]
  /\ tomb = [c \in Consumers |-> FALSE]
  /\ limit = [c \in Consumers |-> 0]
  /\ calls = [p \in Producers |-> 0]
  /\ destroyed = FALSE
  /\ line = {}
  /\ log = [c \in Consumers |-> <<>>]

-----------------------------------------------------------------------------
(* Steps shared by the operations. *)

\* t is at from and goes on to to; a thread whose call returned forgets its
\* position and its view of the slot.
Step(t, from, to) ==
  /\ pc[t] = from
  /\ pc' = [pc EXCEPT ![t] = to]

Forget(t) ==
  /\ pos' = [pos EXCEPT ![t] = 0]
  /\ seen' = [seen EXCEPT ![t] = 0]

\* Faulty: a relaxed load of the sequence (Bug::relaxed_seq_load) takes over no
\* access.
AcquireRelaxed(t, q) == seen' = seen

\* slot(q).seq.load(acquire)
Acquire(t, q) == seen' = [seen EXCEPT ![t] = carried[Slot(q)]]

\* Faulty: a relaxed store of the sequence (Bug::relaxed_seq_store) makes no
\* access visible.
StoreSeqRelaxed(t, q, s, d) ==
  /\ seq' = [seq EXCEPT ![Slot(q)] = s]
  /\ dead' = [dead EXCEPT ![Slot(q)] = d]
  /\ carried' = [carried EXCEPT ![Slot(q)] = 0]

\* slot(q).seq.store(s | d, release)
StoreSeq(t, q, s, d) ==
  /\ seq' = [seq EXCEPT ![Slot(q)] = s]
  /\ dead' = [dead EXCEPT ![Slot(q)] = d]
  /\ carried' = [carried EXCEPT ![Slot(q)] = seen[t]]

\* construct_at / destroy_at on the storage of t's slot: x is in it afterwards.
Touch(t, x) ==
  LET i == Slot(pos[t]) IN
  /\ storage' = [storage EXCEPT ![i] = x]
  /\ touched' = [touched EXCEPT ![i] = @ + 1]
  /\ seen' = [seen EXCEPT ![t] = @ + 1]

-----------------------------------------------------------------------------
(* Producers: try_push. *)

\* The call begins: load the tail word, give up if it says closed.
TryPush(p) ==
  /\ ~destroyed
  /\ calls[p] < MaxPushes
  /\ calls' = [calls EXCEPT ![p] = @ + 1]
  /\ Step(p, "idle", IF closed THEN "idle" ELSE "look")
  /\ pos' = [pos EXCEPT ![p] = IF closed THEN 0 ELSE tail]
  /\ UNCHANGED <<memory, seen, late, tomb, limit, destroyed, line, log>>

\* Faulty: a slot of the previous lap is taken for a free one
\* (Bug::no_full_check).
LookFreeNoFullCheck(p) ==
  /\ seq[Slot(pos[p])] <= pos[p]
  /\ Step(p, "look", "claim")
  /\ Acquire(p, pos[p])
  /\ UNCHANGED <<memory, pos, late, tomb, limit, calls, destroyed, line, log>>

\* Load the sequence of the slot at the tail read.  It is free for this
\* position: go and claim it.
LookFree(p) ==
  /\ seq[Slot(pos[p])] = pos[p]
  /\ Step(p, "look", "claim")
  /\ Acquire(p, pos[p])
  /\ UNCHANGED <<memory, pos, late, tomb, limit, calls, destroyed, line, log>>

\* It still holds the previous lap: the push returns full.
LookFull(p) ==
  /\ seq[Slot(pos[p])] < pos[p]
  /\ Step(p, "look", "idle")
  /\ Forget(p)
  /\ UNCHANGED <<memory, late, tomb, limit, calls, destroyed, line, log>>

\* Another producer has used the position: the tail read is stale.
LookStale(p) ==
  /\ seq[Slot(pos[p])] > pos[p]
  /\ Step(p, "look", "reload")
  /\ UNCHANGED <<memory, pos, seen, late, tomb, limit, calls, destroyed, line, log>>

\* word = tail_.load() after a stale read, and the closed test it loops to.
ReloadTail(p) ==
  /\ Step(p, "reload", IF closed THEN "idle" ELSE "look")
  /\ pos' = [pos EXCEPT ![p] = IF closed THEN 0 ELSE tail]
  /\ UNCHANGED <<memory, seen, late, tomb, limit, calls, destroyed, line, log>>

\* Faulty: a store of the next tail instead of the compare-exchange.
ClaimTailByStore(p) ==
  /\ Step(p, "claim", "construct")
  /\ ~closed
  /\ tail' = pos[p] + 1
  /\ line' = line \cup {[pos |-> pos[p], item |-> Item(p)]}
  /\ UNCHANGED <<closed, head, seq, dead, storage, touched, carried, pos, seen,
                 late, tomb, limit, calls, destroyed, log>>

\* Faulty: the closed bit kept apart from the position the exchange compares.
ClaimTailClosed(p) ==
  /\ Step(p, "claim", "construct")
  /\ tail = pos[p]
  /\ tail' = tail + 1
  /\ line' = line \cup {[pos |-> tail, item |-> Item(p)]}
  /\ UNCHANGED <<closed, head, seq, dead, storage, touched, carried, pos, seen,
                 late, tomb, limit, calls, destroyed, log>>

\* The compare-exchange on the tail word succeeds: position and closed bit are
\* what was loaded.
ClaimTail(p) ==
  /\ Step(p, "claim", "construct")
  /\ tail = pos[p] /\ ~closed
  /\ tail' = tail + 1
  /\ line' = line \cup {[pos |-> tail, item |-> Item(p)]}
  /\ UNCHANGED <<closed, head, seq, dead, storage, touched, carried, pos, seen,
                 late, tomb, limit, calls, destroyed, log>>

\* It fails, because the word changed or spuriously (it is the weak form), and
\* the loop starts over with the word it found.
LoseTail(p) ==
  /\ Step(p, "claim", IF closed THEN "idle" ELSE "look")
  /\ pos' = [pos EXCEPT ![p] = IF closed THEN 0 ELSE tail]
  /\ seen' = [seen EXCEPT ![p] = 0]
  /\ UNCHANGED <<memory, late, tomb, limit, calls, destroyed, line, log>>

\* publish: build the object in the slot's storage ...
Construct(p) ==
  /\ Step(p, "construct", "publish")
  /\ Touch(p, Item(p))
  /\ UNCHANGED <<tail, closed, head, seq, dead, carried, pos, late, tomb, limit,
                 calls, destroyed, line, log>>

\* ... and store pos + 1 for the consumers to see.  The push returns ok.
Publish(p) ==
  /\ Step(p, "publish", "idle")
  /\ StoreSeq(p, pos[p], pos[p] + 1, FALSE)
  /\ Forget(p)
  /\ UNCHANGED <<tail, closed, head, storage, touched, late, tomb, limit, calls,
                 destroyed, line, log>>

-----------------------------------------------------------------------------
(* Producers: push with Reserve::ticket. *)

\* The pre-check of the closed bit.
TicketPush(p) ==
  /\ Reserve = "ticket"
  /\ ~destroyed
  /\ calls[p] < MaxPushes
  /\ calls' = [calls EXCEPT ![p] = @ + 1]
  /\ Step(p, "idle", IF closed THEN "idle" ELSE "ticket")
  /\ UNCHANGED <<memory, pos, seen, late, tomb, limit, destroyed, line, log>>

\* Faulty: acceptance decided by the pre-check instead of the word the ticket
\* was taken from.
TakeTicketPrechecked(p) ==
  /\ Step(p, "ticket", "turn")
  /\ pos' = [pos EXCEPT ![p] = tail]
  /\ tail' = tail + 1
  /\ line' = line \cup {[pos |-> tail, item |-> Item(p)]}
  /\ UNCHANGED <<closed, head, seq, dead, storage, touched, carried, seen, late,
                 tomb, limit, calls, destroyed, log>>

\* tail_.fetch_add(2): the position is taken whatever the word says.
TakeTicket(p) ==
  /\ Step(p, "ticket", "turn")
  /\ pos' = [pos EXCEPT ![p] = tail]
  /\ late' = [late EXCEPT ![p] = closed]
  /\ tail' = tail + 1
  /\ line' = IF closed THEN line
             ELSE line \cup {[pos |-> tail, item |-> Item(p)]}
  /\ UNCHANGED <<closed, head, seq, dead, storage, touched, carried, seen, tomb,
                 limit, calls, destroyed, log>>

\* await_turn returns: the slot has been handed to this position.
AwaitTurn(p) ==
  /\ seq[Slot(pos[p])] = pos[p] /\ ~dead[Slot(pos[p])]
  /\ Step(p, "turn", IF late[p] THEN "bury" ELSE "construct")
  /\ Acquire(p, pos[p])
  /\ UNCHANGED <<memory, pos, late, tomb, limit, calls, destroyed, line, log>>

\* A ticket taken from a closed queue is paid with a tombstone and refused.
Bury(p) ==
  /\ Step(p, "bury", "idle")
  /\ StoreSeq(p, pos[p], pos[p] + 1, TRUE)
  /\ Forget(p)
  /\ late' = [late EXCEPT ![p] = FALSE]
  /\ UNCHANGED <<tail, closed, head, storage, touched, tomb, limit, calls,
                 destroyed, line, log>>

-----------------------------------------------------------------------------
(* Consumers: try_pop, and the end-of-queue test of pop. *)

TryPop(c) ==
  /\ ~destroyed
  /\ Step(c, "idle", "peek")
  /\ pos' = [pos EXCEPT ![c] = head]
  /\ UNCHANGED <<memory, seen, late, tomb, limit, calls, destroyed, line, log>>

\* Load the head slot's sequence.  It is published: claim it.
PeekReady(c) ==
  /\ seq[Slot(pos[c])] = pos[c] + 1
  /\ Step(c, "peek", "grab")
  /\ Acquire(c, pos[c])
  /\ tomb' = [tomb EXCEPT ![c] = dead[Slot(pos[c])]]
  /\ UNCHANGED <<memory, pos, late, limit, calls, destroyed, line, log>>

\* Not yet published for this lap: empty, or a hole.
PeekEmpty(c) ==
  /\ seq[Slot(pos[c])] < pos[c] + 1
  /\ Step(c, "peek", "empty")
  /\ Forget(c)
  /\ UNCHANGED <<memory, late, tomb, limit, calls, destroyed, line, log>>

\* Released since: the head read is stale.
PeekStale(c) ==
  /\ seq[Slot(pos[c])] > pos[c] + 1
  /\ Step(c, "peek", "repeek")
  /\ UNCHANGED <<memory, pos, seen, late, tomb, limit, calls, destroyed, line, log>>

\* pos = head_.load() after a stale read.
ReloadHead(c) ==
  /\ Step(c, "repeek", "peek")
  /\ pos' = [pos EXCEPT ![c] = head]
  /\ UNCHANGED <<memory, seen, late, tomb, limit, calls, destroyed, line, log>>

\* Faulty: a store of the next head instead of the compare-exchange.
ClaimHeadByStore(c) ==
  /\ Step(c, "grab", IF tomb[c] THEN "skip" ELSE "take")
  /\ head' = pos[c] + 1
  /\ UNCHANGED <<tail, closed, seq, dead, storage, touched, carried, pos, seen,
                 late, tomb, limit, calls, destroyed, line, log>>

\* Faulty: the head advanced by two, as the tail word is.
ClaimHeadByTwo(c) ==
  /\ head = pos[c]
  /\ Step(c, "grab", IF tomb[c] THEN "skip" ELSE "take")
  /\ head' = head + 2
  /\ UNCHANGED <<tail, closed, seq, dead, storage, touched, carried, pos, seen,
                 late, tomb, limit, calls, destroyed, line, log>>

\* The compare-exchange on the head succeeds: the position is this consumer's.
ClaimHead(c) ==
  /\ head = pos[c]
  /\ Step(c, "grab", IF tomb[c] THEN "skip" ELSE "take")
  /\ head' = head + 1
  /\ UNCHANGED <<tail, closed, seq, dead, storage, touched, carried, pos, seen,
                 late, tomb, limit, calls, destroyed, line, log>>

\* It fails (the head moved, or spuriously) and leaves the head it found.
LoseHead(c) ==
  /\ Step(c, "grab", "peek")
  /\ pos' = [pos EXCEPT ![c] = head]
  /\ seen' = [seen EXCEPT ![c] = 0]
  /\ tomb' = [tomb EXCEPT ![c] = FALSE]
  /\ UNCHANGED <<memory, late, limit, calls, destroyed, line, log>>

\* consume: move the object out of the storage and destroy it ...
Take(c) ==
  /\ Step(c, "take", "release")
  /\ Touch(c, None)
  /\ log' = [log EXCEPT ![c] =
               Append(@, [pos |-> pos[c], item |-> storage[Slot(pos[c])]])]
  /\ UNCHANGED <<tail, closed, head, seq, dead, carried, pos, late, tomb, limit,
                 calls, destroyed, line>>

\* ... and hand the slot to the producer one lap on.  The pop returns ok.
Release(c) ==
  /\ Step(c, "release", "idle")
  /\ StoreSeq(c, pos[c], pos[c] + N, FALSE)
  /\ Forget(c)
  /\ UNCHANGED <<tail, closed, head, storage, touched, late, tomb, limit, calls,
                 destroyed, line, log>>

\* A tombstone is released unread, and the loop goes on at the next position.
SkipTombstone(c) ==
  /\ Step(c, "skip", "peek")
  /\ StoreSeq(c, pos[c], pos[c] + N, FALSE)
  /\ pos' = [pos EXCEPT ![c] = @ + 1]
  /\ seen' = [seen EXCEPT ![c] = 0]
  /\ tomb' = [tomb EXCEPT ![c] = FALSE]
  /\ UNCHANGED <<tail, closed, head, storage, touched, late, limit, calls,
                 destroyed, line, log>>

\* try_pop called on its own returns empty.
ReturnEmpty(c) ==
  /\ Step(c, "empty", "idle")
  /\ UNCHANGED <<memory, pos, seen, late, tomb, limit, calls, destroyed, line, log>>

\* Called by pop, it has pop look at the tail word: open, so pop times out or
\* tries again; closed, so it compares the head with the tail it read.
CheckClosed(c) ==
  /\ Step(c, "empty", IF closed THEN "drain" ELSE "idle")
  /\ limit' = [limit EXCEPT ![c] = IF closed THEN tail ELSE 0]
  /\ UNCHANGED <<memory, pos, seen, late, tomb, calls, destroyed, line, log>>

\* pop returns drained for good if every position it knows of is claimed, and
\* otherwise yields and tries again, or times out.
CheckDrained(c) ==
  /\ Step(c, "drain", IF head = limit[c] THEN "drained" ELSE "idle")
  /\ limit' = [limit EXCEPT ![c] = 0]
  /\ UNCHANGED <<memory, pos, seen, late, tomb, calls, destroyed, line, log>>

-----------------------------------------------------------------------------
(* Shutdown. *)

\* close: the fetch_or of the closed bit.  A second close changes nothing.
Close ==
  /\ ~destroyed /\ ~closed
  /\ closed' = TRUE
  /\ UNCHANGED <<tail, head, seq, dead, storage, touched, carried, locals,
                 destroyed, line, log>>

\* Every call on the queue has returned.
Quiet == \A t \in Threads : pc[t] \in {"idle", "drained"}

\* Faulty: the walk masks the tombstone bit off before it compares.
RemainingWithTombs ==
  {i \in Slots : \E q \in head..(tail - 1) : Slot(q) = i /\ seq[i] = q + 1}

\* The slots whose object the destructor's walk from head to tail destroys.
Remaining ==
  {i \in Slots : \E q \in head..(tail - 1) :
                   Slot(q) = i /\ seq[i] = q + 1 /\ ~dead[i]}

\* ~Queue, single-threaded by contract.
Destroy ==
  /\ ~destroyed /\ Quiet
  /\ destroyed' = TRUE
  /\ storage' = [i \in Slots |-> IF i \in Remaining THEN None ELSE storage[i]]
  /\ UNCHANGED <<tail, closed, head, seq, dead, touched, carried, locals, line,
                 log>>

ProducerStep(p) ==
  \/ TryPush(p) \/ LookFree(p) \/ LookFull(p) \/ LookStale(p) \/ ReloadTail(p)
  \/ ClaimTail(p) \/ LoseTail(p) \/ Construct(p) \/ Publish(p)
  \/ TicketPush(p) \/ TakeTicket(p) \/ AwaitTurn(p) \/ Bury(p)

ConsumerStep(c) ==
  \/ TryPop(c) \/ PeekReady(c) \/ PeekEmpty(c) \/ PeekStale(c) \/ ReloadHead(c)
  \/ ClaimHead(c) \/ LoseHead(c) \/ Take(c) \/ Release(c) \/ SkipTombstone(c)
  \/ ReturnEmpty(c) \/ CheckClosed(c) \/ CheckDrained(c)

Next ==
  \/ \E p \in Producers : ProducerStep(p)
  \/ \E c \in Consumers : ConsumerStep(c)
  \/ Close
  \/ Destroy

\* After the destructor there is nothing left to do.
Done == destroyed /\ UNCHANGED vars

Spec == Init /\ [][Next \/ Done]_vars

-----------------------------------------------------------------------------
(* Properties. *)

TypeOK ==
  /\ tail \in Nat /\ closed \in BOOLEAN /\ head \in Nat
  /\ seq \in [Slots -> Nat]
  /\ dead \in [Slots -> BOOLEAN]
  /\ storage \in [Slots -> Items \cup {None}]
  /\ touched \in [Slots -> Nat]
  /\ carried \in [Slots -> Nat]
  /\ pc \in [Threads -> ProducerLabels \cup ConsumerLabels]
  /\ \A p \in Producers : pc[p] \in ProducerLabels
  /\ \A c \in Consumers : pc[c] \in ConsumerLabels
  /\ pos \in [Threads -> Nat]
  /\ seen \in [Threads -> Nat]
  /\ late \in [Producers -> BOOLEAN]
  /\ tomb \in [Consumers -> BOOLEAN]
  /\ limit \in [Consumers -> Nat]
  /\ calls \in [Producers -> 0..MaxPushes]
  /\ destroyed \in BOOLEAN
  /\ line \in SUBSET Entries
  /\ log \in [Consumers -> Seq(Entries)]

\* publish and consume touch a slot's storage only after synchronising, through
\* the slot's seq, with the access before theirs: no two accesses race.
NoDataRace ==
  \A t \in Threads : pc[t] \in {"construct", "take"} =>
    seen[t] = touched[Slot(pos[t])]

\* publish never builds over a live object, and consume only ever reads the
\* object that was accepted at the very position it claimed.
SlotHandoff ==
  /\ \A p \in Producers : pc[p] = "construct" => storage[Slot(pos[p])] = None
  /\ \A c \in Consumers : pc[c] = "take" =>
       [pos |-> pos[c], item |-> storage[Slot(pos[c])]] \in line

\* Every pop returned an accepted object, and no object was returned twice.
ExactlyOnce ==
  /\ \A c \in Consumers : \A i \in DOMAIN log[c] : log[c][i] \in line
  /\ \A c, d \in Consumers : \A i \in DOMAIN log[c], j \in DOMAIN log[d] :
       log[c][i].item = log[d][j].item => c = d /\ i = j

\* Every accepted object whose position has been claimed has been returned by
\* a pop, or a consumer is about to read it.
NothingLost ==
  \A e \in line : e.pos < head =>
    \/ \E c \in Consumers : pc[c] = "take" /\ pos[c] = e.pos
    \/ \E c \in Consumers : \E i \in DOMAIN log[c] : log[c][i] = e

\* A consumer sees any one producer's objects in the order of its push calls.
PerProducerOrder ==
  \A c \in Consumers : \A i, j \in DOMAIN log[c] :
    i < j /\ log[c][i].item[1] = log[c][j].item[1] =>
      log[c][i].item[2] < log[c][j].item[2]

\* Once a pop has said drained, every object ever accepted has been claimed,
\* and none is accepted afterwards, whatever tickets raced with the close.
DrainedTakesAll ==
  (\E c \in Consumers : pc[c] = "drained") => \A e \in line : e.pos < head

\* When every call has returned, the walk of ~Queue finds exactly the objects
\* that are alive: none leaks, and none is destroyed twice.
DestructorFindsLiveObjects ==
  Quiet /\ ~destroyed => Remaining = {i \in Slots : storage[i] # None}
=============================================================================
