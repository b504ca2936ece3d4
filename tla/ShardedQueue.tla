---------------------------- MODULE ShardedQueue ----------------------------
(***************************************************************************)
(* turnstile::ShardedQueue (sharded_queue.hpp): one ring per producer, each*)
(* read by the one consumer that owns it.  A push writes its slot and      *)
(* publishes by compare-exchange on the tail word, which also carries the  *)
(* closed bit.  A consumer looks at its rings one after another, so every  *)
(* decision it takes about all of them is made of looks at different times.*)
(*                                                                         *)
(* The store of a ring's head is plain: it waits in the store buffer until *)
(* the next fence, which only every kFullWakeEvery-th pop has.             *)
(***************************************************************************)
EXTENDS EventCount, SequencesExt

CONSTANTS
  P, C,       \* producers and consumers
  kRing,      \* slots in each ring
  Pushes,     \* bound: push calls of each producer
  Deadlines   \* may a push or a pop run out of time

Rings == 0..(P - 1)
Owners == 0..(C - 1)
Slots == 0..(kRing - 1)
kOwned == P \div C
kFullWakeEvery == IF kRing >= 128 THEN 64 ELSE kRing \div 2

\* The threads.  Each sleeps on an event count of its own, named by the thread:
\* Ring::not_full or Consumer::not_empty.
Producer(r) == <<"producer", r>>
Consumer(c) == <<"consumer", c>>
Closer == <<"closer", 0>>
Sleepers == {Producer(r) : r \in Rings} \cup {Consumer(c) : c \in Owners}
Threads == Sleepers \cup {Closer}

ASSUME ShardsAssumption ==
  /\ P \in Nat \ {0} /\ C \in Nat \ {0} /\ P % C = 0
  /\ kRing \in Nat /\ kRing >= 2 /\ Pushes \in [Rings -> Nat]
  /\ Waiters = Threads /\ Counts = Sleepers

VARIABLES
  tail, closed,              \* Ring::tail, the position and the bit of one word
  head,                      \* Ring::head
  cached_head, cached_tail,  \* each side's copy of the other's index
  slots,                     \* the event in each slot, or 0
  next,                      \* Consumer::next
  calls,                     \* push calls of each producer; names its event
  sent, got,                 \* history: the events accepted into and taken from a ring
  skipped                    \* history: pops from others since a ring had an event

rings == <<tail, closed, head, cached_head, cached_tail, slots>>
history == <<calls, sent, got, skipped>>
vars == <<Outline, counts, buffer, stack, rings, next, history>>

\* The rings a consumer owns, and the owner of a ring.
RingOf(c, k) == c + C * k
Owner(r) == Consumer(r % C)
Top == << <<"scan", 0, "top">> >>

Init ==
  /\ EventCountInit /\ Outline = {}
  /\ stack = [t \in Threads |-> IF t[1] = "consumer" THEN Top ELSE << <<"idle">> >>]
  /\ tail = [r \in Rings |-> 0] /\ closed = [r \in Rings |-> FALSE]
  /\ head = [r \in Rings |-> 0]
  /\ cached_head = [r \in Rings |-> 0] /\ cached_tail = [r \in Rings |-> 0]
  /\ slots = [r \in Rings |-> [i \in Slots |-> 0]]
  /\ next = [c \in Owners |-> 0]
  /\ calls = [r \in Rings |-> 0]
  /\ sent = [r \in Rings |-> <<>>] /\ got = [r \in Rings |-> <<>>]
  /\ skipped = [r \in Rings |-> 0]

\* The hardware writes t's oldest store to memory.
Flush(t) ==
  \/ FlushClear(t) /\ UNCHANGED <<rings, next, history>>
  \/ /\ ~Fenced(t) /\ ~IsClear(Head(buffer[t]))
     /\ head' = [head EXCEPT ![Head(buffer[t]).ring] = Head(buffer[t]).head]
     /\ buffer' = [buffer EXCEPT ![t] = Tail(@)]
     /\ UNCHANGED <<counts, stack, tail, closed, cached_head, cached_tail, slots, next, history>>

Notifying(t) == NotifySteps(t) /\ UNCHANGED <<rings, next, history>>
Waiting(t) == WaitSteps(t, t, Deadlines) /\ UNCHANGED <<rings, next, history>>

-----------------------------------------------------------------------------
(* push and try_push *)

BeginPush(r) ==
  /\ At(Producer(r), "idle") /\ calls[r] < Pushes[r]
  /\ calls' = [calls EXCEPT ![r] = @ + 1]
  /\ stack' = [stack EXCEPT ![Producer(r)] = << <<"push">> >> \o @]
  /\ UNCHANGED <<counts, buffer, rings, next, sent, got, skipped>>

\* r's producer is about to call try_push, for the first time or in the re-check.
Trying(r) == Doing(Producer(r))[1] \in {"push", "recheck"} /\ Fenced(Producer(r))
Withdraw(r) == IF At(Producer(r), "recheck") THEN << <<"cancel">> >> ELSE <<>>

\* Faulty: the cached head is believed although it may be a lap old.
KnownHeadStale(r) == cached_head[r] + 1

\* The head as the producer knows it: it reads the consumer's line only when
\* its own copy says full.
KnownHead(r) == IF tail[r] - cached_head[r] = kRing THEN head[r] ELSE cached_head[r]
Full(r) == tail[r] - KnownHead(r) = kRing

PushClosed(r) ==
  /\ Trying(r) /\ closed[r]
  /\ Then(Producer(r), Withdraw(r))
  /\ UNCHANGED <<counts, buffer, rings, next, history>>

\* Full: prepare to sleep; in the re-check sleep, or give up at the deadline.
PushFull(r) ==
  /\ Trying(r) /\ ~closed[r] /\ Full(r)
  /\ cached_head' = [cached_head EXCEPT ![r] = KnownHead(r)]
  /\ IF At(Producer(r), "push")
       THEN Then(Producer(r), << <<"key">>, <<"recheck">> >>)
       ELSE \/ Then(Producer(r), << <<"wait">>, <<"push">> >>)
            \/ Deadlines /\ Then(Producer(r), << <<"cancel">> >>)
  /\ UNCHANGED <<counts, buffer, tail, closed, head, cached_tail, slots, next, history>>

\* Write the slot ...
PushWrite(r) ==
  /\ Trying(r) /\ ~closed[r] /\ ~Full(r)
  /\ cached_head' = [cached_head EXCEPT ![r] = KnownHead(r)]
  /\ slots' = [slots EXCEPT ![r][tail[r] % kRing] = calls[r]]
  /\ Then(Producer(r), << <<"publish">> >> \o Withdraw(r))
  /\ UNCHANGED <<counts, buffer, tail, closed, head, cached_tail, next, history>>

\* Faulty: a plain store publishes, and undoes a close that came in between.
PublishByStore(r) ==
  /\ At(Producer(r), "publish")
  /\ tail' = [tail EXCEPT ![r] = @ + 1]
  /\ closed' = [closed EXCEPT ![r] = FALSE]
  /\ sent' = [sent EXCEPT ![r] = Append(@, calls[r])]
  /\ Then(Producer(r), <<Notify(Owner(r), "one")>>)
  /\ UNCHANGED <<counts, buffer, head, cached_head, cached_tail, slots, next, calls, got, skipped>>

\* ... and publish, unless close set the bit since.
Publish(r) ==
  /\ At(Producer(r), "publish")
  /\ IF closed[r]
       THEN Then(Producer(r), <<>>) /\ UNCHANGED <<tail, sent>>
       ELSE /\ tail' = [tail EXCEPT ![r] = @ + 1]
            /\ sent' = [sent EXCEPT ![r] = Append(@, calls[r])]
            /\ Then(Producer(r), <<Notify(Owner(r), "one")>>)
  /\ UNCHANGED <<counts, buffer, closed, head, cached_head, cached_tail, slots, next,
                 calls, got, skipped>>

-----------------------------------------------------------------------------
(* pop.  A worker pops until it is told drained, so a pop that returns is    *)
(* followed by the next one.  The first of pop's two scans and the spin      *)
(* between them change nothing: they only make the second one start later.   *)

\* Its own stores are visible to the consumer at once, the newest of them.
OwnHead(c, r) ==
  LET stores == buffer[Consumer(c)]
      mine == {i \in DOMAIN stores : ~IsClear(stores[i]) /\ stores[i].ring = r}
  IN IF mine = {} THEN head[r] ELSE stores[Max(mine)].head

KnownTail(c, r) == IF OwnHead(c, r) = cached_tail[r] THEN tail[r] ELSE cached_tail[r]

\* c looks into the k-th of its rings, counted from next; the fence that ends
\* prepare_wait and wait is behind it.
Scanning(c) == At(Consumer(c), "scan") /\ \A i \in DOMAIN buffer[Consumer(c)] :
                                             ~IsClear(buffer[Consumer(c)][i])
Index(c) == (next[c] + Doing(Consumer(c))[2]) % kOwned
InRecheck(c) == Doing(Consumer(c))[3] = "recheck"

\* Faulty: the ring just served is looked at first again.
NextAfterSame(i) == i

\* The ring to look at first after ring i was served.
NextAfter(i) == (i + 1) % kOwned

\* A wake for the blocked producer, once per batch of releases.
FreesRoom(r, h) ==
  IF h % kFullWakeEvery = 0 THEN <<Notify(Producer(r), "one")>> ELSE <<>>

\* pop_ring takes the event at the head and moves the head.
PopRing(c) ==
  LET r == RingOf(c, Index(c))  h == OwnHead(c, r)  t == Consumer(c) IN
  /\ Scanning(c) /\ h # KnownTail(c, r)
  /\ cached_tail' = [cached_tail EXCEPT ![r] = KnownTail(c, r)]
  /\ buffer' = [buffer EXCEPT ![t] = Append(@, [ring |-> r, head |-> h + 1])]
  /\ next' = [next EXCEPT ![c] = NextAfter(Index(c))]
  /\ Then(t, FreesRoom(r, h) \o (IF InRecheck(c) THEN << <<"cancel">> >> ELSE <<>>) \o Top)
  /\ got' = [got EXCEPT ![r] = Append(@, slots[r][h % kRing])]
  /\ skipped' = [s \in Rings |-> IF Owner(s) # t THEN skipped[s]
                                ELSE IF s = r \/ OwnHead(c, s) = tail[s] THEN 0
                                ELSE skipped[s] + 1]
  /\ UNCHANGED <<counts, tail, closed, head, cached_head, slots, calls, sent>>

\* Nothing in this ring: the next one, or after the last a look at the closed bits.
PopMiss(c) ==
  LET r == RingOf(c, Index(c))  k == Doing(Consumer(c))[2]  where == Doing(Consumer(c))[3] IN
  /\ Scanning(c) /\ OwnHead(c, r) = KnownTail(c, r)
  /\ cached_tail' = [cached_tail EXCEPT ![r] = KnownTail(c, r)]
  /\ Then(Consumer(c), << IF k + 1 < kOwned THEN <<"scan", k + 1, where>>
                          ELSE <<"any_closed", 0, where>> >>)
  /\ UNCHANGED <<counts, buffer, tail, closed, head, cached_head, slots, next, history>>

\* Faulty: the re-check looks for events only.
SeesClosedAtTop(c, k) == ~InRecheck(c) /\ closed[RingOf(c, k)]

SeesClosed(c, k) == closed[RingOf(c, k)]

\* any_closed, and what pop does with the answer.  Deadlines only shorten the way
\* back to the top.
AnyClosed(c) ==
  LET k == Doing(Consumer(c))[2]  where == Doing(Consumer(c))[3]  t == Consumer(c) IN
  /\ At(t, "any_closed")
  /\ IF SeesClosed(c, k)
       THEN Then(t, IF InRecheck(c) THEN << <<"cancel">> >> \o Top ELSE << <<"drained?", 0>> >>)
       ELSE IF k + 1 < kOwned THEN Then(t, << <<"any_closed", k + 1, where>> >>)
       ELSE IF where = "top" THEN Then(t, << <<"key">>, <<"scan", 0, "recheck">> >>)
       ELSE \/ Then(t, << <<"wait">> >> \o Top)
            \/ Deadlines /\ Then(t, << <<"cancel">> >> \o Top)
  /\ UNCHANGED <<counts, buffer, rings, next, history>>

RingDrained(c, r) == closed[r] /\ OwnHead(c, r) = tail[r]

\* drained: all rings closed and empty, or from the top.
Drained(c) ==
  LET k == Doing(Consumer(c))[2] IN
  /\ At(Consumer(c), "drained?")
  /\ Then(Consumer(c), IF ~RingDrained(c, RingOf(c, k)) THEN Top
                       ELSE IF k + 1 < kOwned THEN << <<"drained?", k + 1>> >>
                       ELSE << <<"drained">> >>)
  /\ UNCHANGED <<counts, buffer, rings, next, history>>

-----------------------------------------------------------------------------
(* close: the bits one at a time, then everybody is woken. *)

CloseSteps ==
  [i \in 1..P |-> <<"bit", i - 1>>] \o [i \in 1..C |-> Notify(Consumer(i - 1), "all")]
  \o [i \in 1..P |-> Notify(Producer(i - 1), "all")]

BeginClose ==
  /\ At(Closer, "idle")
  /\ Then(Closer, CloseSteps \o << <<"closed">> >>)
  /\ UNCHANGED <<counts, buffer, rings, next, history>>

SetClosed ==
  /\ At(Closer, "bit")
  /\ closed' = [closed EXCEPT ![Doing(Closer)[2]] = TRUE]
  /\ Then(Closer, <<>>)
  /\ UNCHANGED <<counts, buffer, tail, head, cached_head, cached_tail, slots, next, history>>

Pushing(r) ==
  \/ PushClosed(r) \/ PushFull(r) \/ PushWrite(r) \/ Publish(r)
  \/ Waiting(Producer(r)) \/ Notifying(Producer(r))
Popping(c) ==
  \/ PopRing(c) \/ PopMiss(c) \/ AnyClosed(c) \/ Drained(c)
  \/ Waiting(Consumer(c)) \/ Notifying(Consumer(c))
Closing == SetClosed \/ Notifying(Closer)

Next ==
  /\ \/ \E r \in Rings : BeginPush(r) \/ Pushing(r)
     \/ \E c \in Owners : Popping(c)
     \/ BeginClose \/ Closing
     \/ \E t \in Threads : Flush(t)
  /\ UNCHANGED Outline

\* Every push has returned, and every worker was told drained.
Over ==
  /\ \A t \in Threads : Doing(t)[1] \in {"idle", "drained", "closed"} /\ Fenced(t)
  /\ At(Closer, "closed")
  /\ UNCHANGED vars

Spec == Init /\ [][Next \/ Over]_vars

-----------------------------------------------------------------------------
(* Properties. *)

TypeOK ==
  /\ tail \in [Rings -> Nat] /\ closed \in [Rings -> BOOLEAN]
  /\ head \in [Rings -> Nat] /\ next \in [Owners -> 0..(kOwned - 1)]
  /\ slots \in [Rings -> [Slots -> Nat]]
  /\ \A r \in Rings :
       /\ cached_head[r] \in 0..head[r] /\ cached_tail[r] \in 0..tail[r]
       /\ calls[r] \in 0..Pushes[r]

\* What a worker takes from a ring is what its producer was told had been accepted,
\* in that order, and no event still in the ring has been written over, although
\* either side trusts a cached copy of the other's index.
RingsInOrder ==
  /\ TypeOK
  /\ \A r \in Rings :
       /\ IsPrefix(got[r], sent[r])
       /\ \A q \in Len(got[r])..(tail[r] - 1) : slots[r][q % kRing] = sent[r][q + 1]

\* A worker is told drained only when none of its rings holds an event or can
\* still accept one, although it looks at them one at a time, close closes them
\* one at a time, and pushes are in flight.
DrainedForGood ==
  \A c \in Owners : At(Consumer(c), "drained") =>
    \A k \in 0..(kOwned - 1) :
      closed[RingOf(c, k)] /\ got[RingOf(c, k)] = sent[RingOf(c, k)]

\* Every thread has returned or is blocked in the kernel, and every store is out.
AtRest ==
  \A t \in Threads :
    /\ Fenced(t)
    /\ \/ Doing(t)[1] \in {"idle", "drained", "closed"}
       \/ At(t, "wait") /\ t \in sleepers[t]

\* Nobody sleeps through a publication, a release or a close: at rest, a sleeping
\* worker has only empty open rings, and no producer sleeps at all, because a full
\* ring keeps its worker busy and one release of each batch wakes the producer.
NobodySleepsThrough ==
  AtRest => /\ \A r \in Rings : Producer(r) \notin sleepers[Producer(r)]
            /\ \A c \in Owners : Consumer(c) \in sleepers[Consumer(c)] =>
                 \A k \in 0..(kOwned - 1) :
                   LET r == RingOf(c, k) IN tail[r] = head[r] /\ ~closed[r]

\* A busy ring cannot starve the rest: while a ring has an event, its owner takes
\* at most one from each of the others.
NoRingStarves == \A r \in Rings : skipped[r] <= kOwned - 1
=============================================================================
