------------------------ MODULE ShardedQueueInvariant ------------------------
(***************************************************************************)
(* The inductive invariant behind the safety of ShardedQueue: where each   *)
(* thread may be inside its call, what the books of a ring say although    *)
(* either side reads a copy of the other's index and the head's stores are *)
(* late, what the looks a consumer has taken so far still tell it, and who *)
(* is going to wake a thread that waits with the newest key.               *)
(***************************************************************************)
EXTENDS ShardedQueue, Integers

(* --------------------------- inside the calls ---------------------------- *)
Idle == <<"idle">>

\* A consumer's rings, counted from any of them.
Shares == 0..(kOwned - 1)

\* f is a step of a notification of one waiter of e.
IsNotice(f, e) ==
  f \in {<<"look", e, "one">>, <<"claim", e, "one">>, <<"advance", e, "one">>, <<"wake", e, "one">>}

InPush(s, r) ==
  \/ s \in {<<Idle>>, << <<"push">>, Idle>>, << <<"key">>, <<"recheck">>, Idle>>,
            << <<"announce">>, <<"recheck">>, Idle>>, << <<"recheck">>, Idle>>,
            << <<"wait">>, <<"push">>, Idle>>, << <<"cancel">>, Idle>>,
            << <<"publish">>, Idle>>, << <<"publish">>, <<"cancel">>, Idle>>}
  \/ LET f == Head(s) IN
       IsNotice(f, Owner(r)) /\ s \in {<<f, Idle>>, <<f, <<"cancel">>, Idle>>}

InPop(s, c) ==
  LET f == Head(s)  top == <<"scan", 0, "top">> IN
  \/ s \in {<< <<"drained">> >>, << <<"wait">>, top>>, << <<"cancel">>, top>>,
            << <<"key">>, <<"scan", 0, "recheck">> >>, << <<"announce">>, <<"scan", 0, "recheck">> >>}
  \/ \E k \in Shares : s \in {<< <<"scan", k, "top">> >>, << <<"scan", k, "recheck">> >>,
                              << <<"any_closed", k, "top">> >>, << <<"any_closed", k, "recheck">> >>,
                              << <<"drained?", k>> >>}
  \/ \E r \in Rings : /\ Owner(r) = Consumer(c) /\ IsNotice(f, Producer(r))
                      /\ s \in {<<f, top>>, <<f, <<"cancel">>, top>>}

\* What close has still to do: the bits first, then the wakes.
CloseFrames ==
  {<<"closed">>} \cup {<<"bit", r>> : r \in Rings} \cup {<<"advance", e, "all">> : e \in Sleepers}
InClose(s) ==
  \/ s = <<Idle>>
  \/ /\ s \in Seq(CloseFrames) /\ s # <<>>
     /\ \A i \in 1..Len(s) : s[i][1] = "closed" <=> i = Len(s)
     /\ \A i, j \in 1..Len(s) : i < j /\ s[j][1] = "bit" => s[i][1] = "bit"

InCalls ==
  /\ \A r \in Rings : InPush(stack[Producer(r)], r)
  /\ \A c \in Owners : InPop(stack[Consumer(c)], c)
  /\ InClose(stack[Closer])

(* ------------------------------- the types ------------------------------- *)
HeadStore == [ring : Rings, head : Nat]
Clears(t) == buffer[t] = <<ClearPending(t)>>

RingTypes ==
  /\ tail \in [Rings -> Nat] /\ closed \in [Rings -> BOOLEAN] /\ head \in [Rings -> Nat]
  /\ cached_head \in [Rings -> Nat] /\ cached_tail \in [Rings -> Nat]
  /\ slots \in [Rings -> [Slots -> Nat]] /\ next \in [Owners -> Shares]
  /\ calls \in [Rings -> Nat] /\ \A r \in Rings : calls[r] <= Pushes[r]
  /\ sent \in [Rings -> Seq(Nat)] /\ got \in [Rings -> Seq(Nat)] /\ skipped \in [Rings -> Nat]

CountTypes ==
  /\ epoch \in [Sleepers -> Nat] /\ waiters \in [Sleepers -> Int]
  /\ pending \in [Sleepers -> BOOLEAN] /\ sleepers \in [Sleepers -> SUBSET Threads]
  /\ key \in [Threads -> Nat]

\* A pending_ is cleared alone; what else waits in a buffer are a consumer's heads.
BufferTypes ==
  /\ DOMAIN buffer = Threads /\ buffer = [t \in Threads |-> buffer[t]]
  /\ \A r \in Rings : Fenced(Producer(r)) \/ Clears(Producer(r))
  /\ Fenced(Closer)
  /\ \A c \in Owners : \/ Clears(Consumer(c))
                       \/ /\ buffer[Consumer(c)] \in Seq(HeadStore)
                          /\ \A i \in DOMAIN buffer[Consumer(c)] :
                               Owner(buffer[Consumer(c)][i].ring) = Consumer(c)

StateTypes ==
  /\ Outline = {} /\ RingTypes /\ CountTypes /\ BufferTypes
  /\ DOMAIN stack = Threads /\ stack = [t \in Threads |-> stack[t]]

Calls == StateTypes /\ InCalls

(* ------------------------------- the rings ------------------------------- *)
\* What one side believes of the other is old, never wrong.
IndicesInTurn(r) ==
  /\ cached_head[r] <= head[r] /\ head[r] <= Len(got[r])
  /\ Len(got[r]) <= cached_tail[r] /\ cached_tail[r] <= tail[r]
  /\ tail[r] = Len(sent[r]) /\ tail[r] <= cached_head[r] + kRing
  /\ At(Producer(r), "publish") =>
       tail[r] < cached_head[r] + kRing /\ slots[r][tail[r] % kRing] = calls[r]

EventsInTurn(r) ==
  /\ \A i \in 1..Len(got[r]) : got[r][i] = sent[r][i]
  /\ \A q \in Len(got[r])..(tail[r] - 1) : slots[r][q % kRing] = sent[r][q + 1]

\* The i-th store that is under way in the buffer of r's owner is one of r's head.
Moves(i, r) == LET stores == buffer[Owner(r)] IN
  i \in DOMAIN stores /\ ~IsClear(stores[i]) /\ stores[i].ring = r

\* The newest of them is where the consumer is.
HeadsInTurn(r) ==
  LET stores == buffer[Owner(r)] IN
  /\ \A i \in DOMAIN stores : Moves(i, r) =>
       /\ head[r] <= stores[i].head /\ stores[i].head <= Len(got[r])
       /\ \A j \in DOMAIN stores : Moves(j, r) /\ i < j => stores[i].head <= stores[j].head
  /\ \/ head[r] = Len(got[r]) /\ ~\E i \in DOMAIN stores : Moves(i, r)
     \/ \E i \in DOMAIN stores :
          /\ Moves(i, r) /\ stores[i].head = Len(got[r])
          /\ \A j \in DOMAIN stores : Moves(j, r) => j <= i

RingsInv == \A r \in Rings : IndicesInTurn(r) /\ EventsInTurn(r) /\ HeadsInTurn(r)

(* ------------------------ the looks of a consumer ------------------------ *)
Empty(r) == Len(got[r]) = tail[r]
Done(r) == closed[r] /\ Empty(r)

\* drained has found the rings before the one it looks at closed and empty.
DrainedSoFar ==
  \A c \in Owners :
    LET t == Consumer(c) IN
    /\ At(t, "drained?") => \A k \in Shares : k < Doing(t)[2] => Done(RingOf(c, k))
    /\ At(t, "drained") => \A k \in Shares : Done(RingOf(c, k))

\* How many rings c looks at before its i-th.
Ahead(c, i) == IF i >= next[c] THEN i - next[c] ELSE i + kOwned - next[c]

\* A ring with an event has been passed over no more often than its turn has come closer.
TurnsComeCloser ==
  \A c \in Owners : \A i \in Shares :
    LET r == RingOf(c, i) IN
    /\ skipped[r] + Ahead(c, i) <= kOwned - 1
    /\ Empty(r) => skipped[r] = 0
    /\ At(Consumer(c), "scan") /\ Ahead(c, i) < Doing(Consumer(c))[2] => skipped[r] = 0

(* --------------------------- the event counts ---------------------------- *)
\* Between prepare_wait and cancel_wait or wait's end.
Rechecks(f) ==
  f[1] \in {"recheck", "cancel", "wait"} \/ (f[1] \in {"scan", "any_closed"} /\ f[3] = "recheck")
Announced(t) ==
  /\ Doing(t)[1] \notin {"key", "announce"}
  /\ \E i \in DOMAIN stack[t] : Rechecks(stack[t][i])

WaitersCounted == \A e \in Sleepers : waiters[e] = IF Announced(e) THEN 1 ELSE 0

\* Each thread sleeps on its own count, in wait, and nobody has a key from the future.
SleepersWait ==
  \A e \in Sleepers :
    /\ \A t \in sleepers[e] : t = e /\ At(t, "wait")
    /\ key[e] <= epoch[e]

\* pending_ is cleared before anything is looked at.
ClearsInTime ==
  \A t \in Sleepers : Clears(t) =>
    \/ Doing(t)[1] \in {"recheck", "push"}
    \/ Doing(t)[1] = "scan" /\ Doing(t)[2] = 0

\* Somebody is about to advance the epoch of e.
Advancing(e) == \E t \in Threads : Doing(t) = <<"advance", e, "one">>

\* A wake claimed since e announced itself has moved the epoch on, or is about to.
ClaimsReach ==
  \A e \in Sleepers :
    Announced(e) /\ ~Clears(e) /\ key[e] = epoch[e] /\ pending[e] => Advancing(e)

(* ------------------------------- the wakes ------------------------------- *)
\* A notification of e that nothing has been lost of yet.
Noticing(e) == \E t \in Threads : Doing(t)[1] \in {"look", "claim", "advance"} /\ Doing(t)[2] = e
Waking(e) == \E t \in Threads : Doing(t) = <<"wake", e, "one">>

\* close has yet to wake e.
ClosesYet(e) == \E i \in DOMAIN stack[Closer] : stack[Closer][i] = <<"advance", e, "all">>

\* Before all the bits are set, nobody has been woken.
BitsBeforeWakes ==
  (\E i \in DOMAIN stack[Closer] : stack[Closer][i][1] = "bit") => \A e \in Sleepers : ClosesYet(e)

\* What the re-check has seen so far stays true unless somebody moves the epoch on.
SeenEmpty(c, r) == Empty(r) \/ Noticing(Consumer(c))
SeenOpen(e, r) == closed[r] => ClosesYet(e)

WaitingWorkers ==
  \A c \in Owners : \A k \in Shares :
    LET t == Consumer(c)  f == Doing(t)  r == RingOf(c, k) IN
    key[t] = epoch[t] =>
      /\ f[1] = "scan" /\ f[3] = "recheck" /\ Ahead(c, k) < f[2] => SeenEmpty(c, r)
      /\ f[1] = "any_closed" /\ f[3] = "recheck" =>
           SeenEmpty(c, r) /\ (k < f[2] => SeenOpen(t, r))
      /\ f[1] = "wait" => SeenEmpty(c, r) /\ SeenOpen(t, r)

\* A producer that waits has not been given a batch of free slots, or is being told.
WaitingProducers ==
  \A r \in Rings :
    LET t == Producer(r) IN
    At(t, "wait") =>
      /\ kRing <= tail[r]
      /\ key[t] = epoch[t] =>
           /\ SeenOpen(t, r)
           /\ \/ Noticing(t)
              \/ \A q \in 0..(head[r] - 1) : tail[r] <= q + kRing => q % kFullWakeEvery # 0

\* The head of a batch reaches memory before the look for a waiter.
ReleasesTold ==
  \A r \in Rings : \A q \in head[r]..(Len(got[r]) - 1) :
    q % kFullWakeEvery = 0 => Doing(Owner(r)) = <<"look", Producer(r), "one">>

\* Who sleeps with an old key is about to be woken.
SleepersKnow == \A e \in Sleepers : e \in sleepers[e] => key[e] = epoch[e] \/ Waking(e)

LooksInv == DrainedSoFar /\ TurnsComeCloser
CountsInv == WaitersCounted /\ SleepersWait /\ ClearsInTime /\ ClaimsReach
WakesInv == BitsBeforeWakes /\ WaitingWorkers /\ WaitingProducers /\ ReleasesTold /\ SleepersKnow
ShardsInv == Calls /\ RingsInv /\ LooksInv /\ CountsInv /\ WakesInv
=============================================================================
