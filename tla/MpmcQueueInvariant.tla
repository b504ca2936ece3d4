------------------------- MODULE MpmcQueueInvariant -------------------------
(***************************************************************************)
(* The inductive invariant behind the safety of MpmcQueue: where a thread  *)
(* may be inside its call, what the words of the ring say in memory and in *)
(* the store buffers, what the event counts' books say of the sleepers,    *)
(* and who is still going to look when a slot is ready and a thread sleeps.*)
(***************************************************************************)
EXTENDS MpmcQueue, Integers

(* ------------------------- inside the calls ------------------------------ *)
\* f is a step of the notification of e.
IsNotice(f, e, how) ==
  \/ f = <<"advance", e, how>>
  \/ f = <<"wake", e, how>> /\ how = "one"
  \/ f = <<"look", e, how>> /\ how # "all" /\ e \notin Outline
  \/ f = <<"claim", e, how>> /\ how = "one" /\ e \notin Outline

Publishing(f) == IsNotice(f, "not_empty", "one")
Releasing(f) == IsNotice(f, "not_full", IF Reserve = "ticket" THEN "waiting" ELSE "one")

Idle == <<"idle">>

InPush(s) ==
  \/ s \in {<<Idle>>, << <<"push">>, Idle>>, << <<"cancel">>, Idle>>, << <<"chain">>, Idle>>,
           << <<"cancel">>, <<"chain">>, Idle>>,
           << <<"key">>, <<"recheck">>, Idle>>, << <<"announce">>, <<"recheck">>, Idle>>,
           << <<"recheck">>, Idle>>, << <<"wait">>, <<"push">>, Idle>>}
  \/ LET f == Head(s) IN
     \/ /\ Publishing(f)
        /\ s \in {<<f, Idle>>, <<f, <<"cancel">>, Idle>>, <<f, <<"chain">>, Idle>>,
                 <<f, <<"cancel">>, <<"chain">>, Idle>>}
     \/ IsNotice(f, "not_full", "one") /\ s = <<f, Idle>>

InTicketPush(s) ==
  \/ s \in {<<Idle>>, << <<"precheck">>, Idle>>, << <<"ticket">>, Idle>>, << <<"turn">>, Idle>>,
           << <<"cancel">>, <<"turn">>, Idle>>,
           << <<"key">>, <<"recheck">>, Idle>>, << <<"announce">>, <<"recheck">>, Idle>>,
           << <<"recheck">>, Idle>>, << <<"wait">>, <<"turn">>, Idle>>}
  \/ Publishing(Head(s)) /\ s = <<Head(s), Idle>>

InPop(s) ==
  \/ s \in {<< <<"try">> >>, << <<"recheck">> >>, << <<"left">> >>, << <<"drained">> >>,
           << <<"key">>, <<"recheck">> >>, << <<"wait">>, <<"left">> >>,
           << <<"cancel">>, <<"try">> >>, << <<"chain">>, <<"try">> >>}
  \/ s = << <<"announce">>, <<"recheck">> >> /\ "not_empty" \notin Outline
  \/ LET f == Head(s) IN
     \/ /\ Releasing(f)
        /\ s \in {<<f, <<"try">> >>, <<f, <<"recheck">> >>, <<f, <<"left">> >>,
                 <<f, <<"cancel">>, <<"try">> >>, <<f, <<"chain">>, <<"try">> >>}
     \/ Publishing(f) /\ s = <<f, <<"try">> >>

InClose(s) ==
  s \in {<<Idle>>, << <<"closed">> >>, << <<"advance", "not_full", "all">>, <<"closed">> >>,
        << <<"advance", "not_empty", "all">>, <<"advance", "not_full", "all">>, <<"closed">> >>}

InCalls ==
  /\ \A p \in Producers : /\ Reserve = "cas" => InPush(stack[p])
                          /\ Reserve = "ticket" => InTicketPush(stack[p])
  /\ \A c \in Consumers : InPop(stack[c])
  /\ InClose(stack[Closer])

\* A push that sleeps remembers that it did.
Remembers == \A p \in Producers : At(p, "wait") /\ Reserve = "cas" => parked[p]

(* ------------------------------ the types -------------------------------- *)
Clears(t) == buffer[t] # <<>> /\ IsClear(Head(buffer[t]))
Stores(t) == buffer[t] # <<>> /\ ~IsClear(Head(buffer[t]))
StoredSlot(t) == Head(buffer[t]).slot
Stored(t) == Head(buffer[t]).word

AnyWord == [n : Nat, dead : BOOLEAN]

RingTypes ==
  /\ tail \in Nat /\ head \in Nat /\ closed \in BOOLEAN
  /\ seq \in [Slots -> AnyWord]

CountTypes ==
  /\ epoch \in [Counts -> Nat] /\ pending \in [Counts -> BOOLEAN]
  /\ waiters \in [Counts -> Int]
  /\ sleepers \in [Counts -> SUBSET Waiters]
  /\ key \in [Waiters -> Nat]

\* A buffer holds one store at most.
BufferTypes ==
  /\ buffer = [t \in Waiters |-> buffer[t]]
  /\ \A t \in Waiters :
       \/ buffer[t] = <<>>
       \/ \E e \in Counts : buffer[t] = <<ClearPending(e)>>
       \/ /\ StoredSlot(t) \in Slots /\ Stored(t) \in AnyWord
          /\ buffer[t] = <<[slot |-> StoredSlot(t), word |-> Stored(t)]>>

StateTypes ==
  /\ Reserve \in {"cas", "ticket"} /\ Outline \in SUBSET {"not_empty"}
  /\ RingTypes /\ CountTypes /\ BufferTypes
  /\ DOMAIN stack = Waiters /\ stack = [t \in Waiters |-> stack[t]]
  /\ pos \in [Producers -> Nat] /\ late \in [Producers -> BOOLEAN]
  /\ parked \in [Producers -> BOOLEAN] /\ budget \in 0..MaxPushes

Calls == StateTypes /\ InCalls /\ Remembers

(* ------------------------------ the ring --------------------------------- *)
\* No two stores to one slot are under way.
OneStore ==
  \A t, u \in Waiters : Stores(t) /\ Stores(u) /\ StoredSlot(t) = StoredSlot(u) => t = u

\* The slot of each position that head may come to in this lap is free for it (q) or
\* published (q + 1), in memory or in a buffer.
Window == head..(head + N - 1)
SlotsInTurn ==
  /\ head <= tail
  /\ \A q \in Window :
       /\ \/ seq[Slot(q)] = Word(q, FALSE)
          \/ seq[Slot(q)].n = q + 1 /\ q < tail
          \/ /\ seq[Slot(q)].n = q - N + 1
             /\ \E t \in Consumers : Stores(t) /\ StoredSlot(t) = Slot(q)
       /\ \A t \in Waiters : Stores(t) /\ StoredSlot(t) = Slot(q) =>
            \/ t \in Consumers /\ Stored(t) = Word(q, FALSE) /\ seq[Slot(q)].n = q - N + 1
            \/ /\ t \in Producers /\ Stored(t).n = q + 1 /\ q < tail
               /\ seq[Slot(q)] = Word(q, FALSE)

\* A producer in the middle of a ticket push holds a position.
Holds(p) == Reserve = "ticket" /\ Has(stack[p], {"turn", "recheck"})

\* Nobody else has that position, nor is its slot published.
TicketsHeld ==
  \A p \in Producers : Holds(p) =>
    /\ head <= pos[p] /\ pos[p] < tail
    /\ late[p] => closed
    /\ seq[Slot(pos[p])].n # pos[p] + 1
    /\ ~\E t \in Producers : Stores(t) /\ Stored(t).n = pos[p] + 1
    /\ \A q \in Producers : Holds(q) /\ pos[q] = pos[p] => q = p

\* Whoever publishes or releases has yet to notify when the store arrives.
Tells(t, e) == Doing(t)[1] \in {"look", "advance"} /\ Doing(t)[2] = e
StoresAnnounced ==
  \A t \in Waiters : Stores(t) =>
    /\ t \in Producers => Tells(t, "not_empty") \/ closed
    /\ t \in Consumers /\ FullWakeEvery = 1 => Tells(t, "not_full")

(* --------------------------- the event counts ---------------------------- *)
\* Who sleeps is in wait, and nobody has a key from the future.
SleepersWait ==
  /\ \A e \in Counts : \A t \in sleepers[e] : SleepsOn(t) = e /\ At(t, "wait")
  /\ \A t \in Waiters : key[t] <= epoch[SleepsOn(t)]

\* pending_ is cleared between prepare_wait and the re-check, and after a wait.
ClearsInTime ==
  \A t \in Waiters : Clears(t) =>
    /\ Head(buffer[t]).count = SleepsOn(t) /\ SleepsOn(t) \notin Outline
    /\ Doing(t)[1] \in {"recheck", "left", "push", "turn"}
    /\ At(t, "push") => parked[t]

\* Somebody is about to advance the epoch of e.
Advancing(e) == \E t \in Waiters : Doing(t) = <<"advance", e, "one">>

\* A wake claimed since t announced itself has yet to move the epoch on, or has: t will
\* not sleep through a wake that it did not clear.
ClaimsReach ==
  \A t \in Waiters :
    LET e == SleepsOn(t) IN
    Announced(t) /\ e \notin Outline /\ ~Clears(t) /\ key[t] = epoch[e] /\ pending[e] =>
      Advancing(e)

\* t waits with the key it has, or sleeps.
Settled(t) == At(t, "wait") /\ (key[t] = epoch[SleepsOn(t)] \/ t \in sleepers[SleepsOn(t)])

\* t has been told that the epoch moved, and is on its way to look.
Woken(t) ==
  \/ At(t, "wait") /\ ~Settled(t)
  \/ Clears(t) /\ Doing(t)[1] \in {"left", "push"}

\* A wake in flight still has somebody to carry it.
WakesCarried ==
  \A e \in Counts : pending[e] =>
    /\ e \notin Outline /\ (e = "not_full" => Reserve = "cas")
    /\ sleepers[e] # {} => \/ \E t \in Waiters : Doing(t)[1] \in {"advance", "wake"} /\ Doing(t)[2] = e
                           \/ \E t \in Waiters : SleepsOn(t) = e /\ Woken(t)

(* ------------------------------ the wakes -------------------------------- *)
\* close has yet to wake the sleepers of e.
Closing(e) == \E i \in DOMAIN stack[Closer] : stack[Closer][i] = <<"advance", e, "all">>

\* A close wakes all that settle before it; only tickets settle after it.
CloseReaches ==
  /\ closed <=> ~At(Closer, "idle")
  /\ \A t \in Waiters : closed /\ Settled(t) /\ (t \in Consumers \/ Reserve = "cas") =>
       Closing(SleepsOn(t))

\* A notification of e that nothing has been lost of yet.
Noticing(e) == \E t \in Waiters : Doing(t)[1] \in {"look", "claim", "advance"} /\ Doing(t)[2] = e
Waking(e) == \E t \in Waiters : Doing(t) = <<"wake", e, "one">>

\* A worker that will look at the head again before it sleeps.
WillPop(c) == ~At(c, "drained") /\ ~Settled(c)

\* A producer that has slept and will look at the tail again before it sleeps or
\* returns.
WillPush(p) == parked[p] /\ ~Settled(p) /\ Has(stack[p], {"push", "recheck", "chain"})

\* A thread that sleeps on its count now and then, and will look before it does again.
WillLook(t) == (t \in Consumers /\ WillPop(t)) \/ (t \in Producers /\ WillPush(t))

Somebody(e) == Noticing(e) \/ \E t \in Waiters : SleepsOn(t) = e /\ WillLook(t)

\* Who waits on e with the newest key has somebody who will look or move the epoch on;
\* who sleeps with an older one may also count on a wake under way.
Attended(e) ==
  /\ \A t \in Waiters : SleepsOn(t) = e /\ At(t, "wait") /\ key[t] = epoch[e] => Somebody(e)
  /\ sleepers[e] # {} => Somebody(e) \/ Waking(e)

\* While a slot is ready the consumers are attended to, while the tail's slot is free
\* the producers.
EventsNoticed == seq[Slot(head)].n = head + 1 /\ ~closed => Attended("not_empty")
RoomNoticed ==
  FullWakeEvery = 1 /\ Reserve = "cas" /\ seq[Slot(tail)].n = tail /\ ~closed =>
    Attended("not_full")

\* Wakes of ticket holders reach all of them.
TurnsNoticed ==
  FullWakeEvery = 1 /\ Reserve = "ticket" =>
    \A p \in Producers : At(p, "wait") =>
      /\ p \in sleepers["not_full"] => key[p] = epoch["not_full"]
      /\ key[p] = epoch["not_full"] /\ seq[Slot(pos[p])] = Word(pos[p], FALSE) =>
           Noticing("not_full")

RingInv == SlotsInTurn /\ OneStore /\ TicketsHeld /\ StoresAnnounced
CountsInv == SleepersWait /\ ClearsInTime /\ WaitersCounted /\ ClaimsReach /\ WakesCarried
WakesInv == CloseReaches /\ EventsNoticed /\ RoomNoticed /\ TurnsNoticed
QueueInv == Calls /\ RingInv /\ CountsInv /\ WakesInv
=============================================================================
