------------------------- MODULE ShardedQueueProofs -------------------------
(***************************************************************************)
(* ShardedQueue is safe, for every number of producers and consumers and   *)
(* every ring and batch size: ShardsInv is an invariant.  The proof goes   *)
(* in layers, each of which needs only those before it: where the threads  *)
(* are in their calls (Calls), the books of the rings (ShardsRings), the   *)
(* looks of a worker (ShardsLooks), the books of the event counts          *)
(* (ShardsCounts), and the wakes (ShardsInvariant).  Each property of the  *)
(* module follows from the layers that it is about.                        *)
(***************************************************************************)
EXTENDS ShardedQueueInvariant, Laps, TLAPS

(* --------------------------- threads and rings --------------------------- *)
\* Each thread has one name.
LEMMA Names ==
  /\ \A r, s \in Rings : Producer(r) = Producer(s) => r = s
  /\ \A c, d \in Owners : Consumer(c) = Consumer(d) => c = d
  /\ \A r \in Rings : \A c \in Owners : Producer(r) # Consumer(c)
  /\ \A r \in Rings : Producer(r) # Closer /\ Producer(r) \in Sleepers /\ Producer(r) \in Threads
  /\ \A c \in Owners : Consumer(c) # Closer /\ Consumer(c) \in Sleepers /\ Consumer(c) \in Threads
  /\ \A t \in Sleepers : (\E r \in Rings : t = Producer(r)) \/ (\E c \in Owners : t = Consumer(c))
  /\ \A t \in Threads : t \in Sleepers \/ t = Closer
  /\ \A t \in Sleepers : t \in Threads /\ t # Closer
  /\ Closer \in Threads /\ Sleepers \subseteq Threads
  /\ Waiters = Threads /\ Counts = Sleepers
<1>1. /\ \A r, s \in Rings : Producer(r) = Producer(s) => r = s
      /\ \A c, d \in Owners : Consumer(c) = Consumer(d) => c = d
      /\ \A r \in Rings : \A c \in Owners : Producer(r) # Consumer(c)
      /\ \A r \in Rings : Producer(r) # Closer
      /\ \A c \in Owners : Consumer(c) # Closer
  BY DEF Producer, Consumer, Closer
<1>2. /\ \A r \in Rings : Producer(r) \in Sleepers /\ Producer(r) \in Threads
      /\ \A c \in Owners : Consumer(c) \in Sleepers /\ Consumer(c) \in Threads
      /\ \A t \in Sleepers : (\E r \in Rings : t = Producer(r)) \/ (\E c \in Owners : t = Consumer(c))
      /\ \A t \in Threads : t \in Sleepers \/ t = Closer
      /\ Closer \in Threads /\ Sleepers \subseteq Threads
  BY DEF Sleepers, Threads
<1> QED BY <1>1, <1>2, ShardsAssumption

\* Every ring is one of its owner's shares, and of no other's.
LEMMA Sharing ==
  /\ kOwned \in Nat /\ kOwned >= 1 /\ P \in Nat /\ C \in Nat /\ C >= 1
  /\ \A c \in Owners : \A k \in Shares : RingOf(c, k) \in Rings /\ Owner(RingOf(c, k)) = Consumer(c)
  /\ \A r \in Rings : \E c \in Owners : \E k \in Shares : r = RingOf(c, k) /\ Owner(r) = Consumer(c)
  /\ \A c \in Owners : \A k, j \in Shares : RingOf(c, k) = RingOf(c, j) => k = j
<1>1. P \in Nat /\ P >= 1 /\ C \in Nat /\ C >= 1 /\ P % C = 0 /\ kOwned = P \div C
  BY ShardsAssumption DEF kOwned
<1>2. kOwned \in Int /\ P = C * kOwned + 0
  BY <1>1, LapDivision
<1>3. kOwned >= 1
  BY <1>1, <1>2
<1>4. ASSUME NEW c \in Owners, NEW k \in Shares
      PROVE  RingOf(c, k) \in Rings /\ RingOf(c, k) % C = c
  <2>1. C * k + c \in Nat /\ (C * k + c) % C = c
    BY <1>1, <1>2, <1>3, LapSlot DEF Owners, Shares
  <2>2. C * k <= C * (kOwned - 1)
    BY <1>1, <1>2, <1>3 DEF Shares
  <2>3. C * (kOwned - 1) = P - C
    BY <1>1, <1>2, <1>3
  <2>4. C * k \in Int
    BY <1>1, <1>2 DEF Shares
  <2>5. c + C * k = C * k + c /\ C * k + c < P
    BY <1>1, <2>2, <2>3, <2>4 DEF Owners
  <2> QED BY <1>1, <2>1, <2>5 DEF RingOf, Rings
<1>5. ASSUME NEW r \in Rings
      PROVE  \E c \in Owners : \E k \in Shares : r = RingOf(c, k) /\ Owner(r) = Consumer(c)
  <2> DEFINE c == r % C  k == r \div C
  <2>1. r \in Nat /\ r < P
    BY <1>1 DEF Rings
  <2>2. c \in Owners
    BY <1>1, <2>1, LapRange DEF Owners
  <2>3. k \in Int /\ r = C * k + c
    BY <1>1, <2>1, LapDivision
  <2>4. c \in Nat /\ c < C
    BY <1>1, <2>2 DEF Owners
  <2> HIDE DEF c, k
  <2>5. k >= 0
    <3>1. SUFFICES ASSUME k <= -1 PROVE FALSE
      BY <2>3
    <3>2. C * k <= C * (-1)
      BY <1>1, <2>3, <3>1
    <3>3. C * k \in Int /\ C * (-1) = -C
      BY <1>1, <2>3
    <3> QED BY <1>1, <2>1, <2>3, <2>4, <3>2, <3>3
  <2>6. k <= kOwned - 1
    <3>1. SUFFICES ASSUME k >= kOwned PROVE FALSE
      BY <1>2, <2>3
    <3>2. C * k >= C * kOwned
      BY <1>1, <1>2, <2>3, <3>1
    <3>3. C * k \in Int
      BY <1>1, <2>3
    <3> QED BY <1>1, <1>2, <2>1, <2>3, <2>4, <3>2, <3>3
  <2>7. k \in Shares
    BY <1>2, <1>3, <2>3, <2>5, <2>6 DEF Shares
  <2>8. r = RingOf(c, k)
    BY <1>1, <2>3, <2>4 DEF RingOf
  <2>9. Owner(r) = Consumer(c)
    BY DEF Owner, c
  <2> QED BY <2>2, <2>7, <2>8, <2>9
<1>6. ASSUME NEW c \in Owners, NEW k \in Shares, NEW j \in Shares, RingOf(c, k) = RingOf(c, j)
      PROVE  k = j
  <2>1. k \in Int /\ j \in Int /\ c \in Int
    BY <1>1, <1>2 DEF Shares, Owners
  <2>2. C * k = C * j
    BY <1>1, <1>6, <2>1 DEF RingOf
  <2> QED BY <1>1, <2>1, <2>2
<1>7. \A c \in Owners : \A k \in Shares : Owner(RingOf(c, k)) = Consumer(c)
  BY <1>4 DEF Owner
<1> QED BY <1>1, <1>2, <1>3, <1>4, <1>5, <1>6, <1>7

\* What the code needs of the sizes.
LEMMA Sizes ==
  /\ kRing \in Nat /\ kRing >= 2
  /\ kFullWakeEvery \in Nat /\ kFullWakeEvery >= 1 /\ kFullWakeEvery <= kRing
<1>1. kRing \in Nat /\ kRing >= 2
  BY ShardsAssumption
<1>2. kRing \div 2 \in Nat /\ kRing \div 2 >= 1 /\ kRing \div 2 <= kRing
  BY <1>1
<1> QED BY <1>1, <1>2 DEF kFullWakeEvery

(* ------------------------------ the stacks ------------------------------- *)
\* Then changes the stack of one thread.
OthersStay(t) ==
  /\ \A u \in Threads : u # t => stack'[u] = stack[u]
  /\ DOMAIN stack' = Threads /\ stack' = [u \in Threads |-> stack'[u]]
Goes(t, from, to) == stack[t] = from /\ stack'[t] = to

\* Then puts what is to do in the place of the first frame.
LEMMA ThenMoves ==
  ASSUME Calls, NEW t \in Threads, NEW todo, Then(t, todo)
  PROVE  stack'[t] = todo \o Tail(stack[t]) /\ OthersStay(t)
  BY DEF Calls, StateTypes, Then, OthersStay

\* What Then leaves of a stack of one frame.
LEMMA ThenOnOne ==
  ASSUME Calls, NEW t \in Threads, NEW a, stack[t] = <<a>>
  PROVE  /\ \A x : Then(t, <<x>>) => stack'[t] = <<x>>
         /\ \A x, y : Then(t, <<x, y>>) => stack'[t] = <<x, y>>
         /\ \A x, y, z : Then(t, <<x, y, z>>) => stack'[t] = <<x, y, z>>
<1>1. ASSUME NEW x, Then(t, <<x>>) PROVE stack'[t] = <<x>>
  BY <1>1 DEF Calls, StateTypes, Then
<1>2. ASSUME NEW x, NEW y, Then(t, <<x, y>>) PROVE stack'[t] = <<x, y>>
  BY <1>2 DEF Calls, StateTypes, Then
<1>3. ASSUME NEW x, NEW y, NEW z, Then(t, <<x, y, z>>) PROVE stack'[t] = <<x, y, z>>
  BY <1>3 DEF Calls, StateTypes, Then
<1> QED BY <1>1, <1>2, <1>3

\* What Then leaves of a stack of two frames.
LEMMA ThenOnTwo ==
  ASSUME Calls, NEW t \in Threads, NEW a, NEW b, stack[t] = <<a, b>>
  PROVE  /\ Then(t, <<>>) => stack'[t] = <<b>>
         /\ \A x : Then(t, <<x>>) => stack'[t] = <<x, b>>
         /\ \A x, y : Then(t, <<x, y>>) => stack'[t] = <<x, y, b>>
<1>1. ASSUME Then(t, <<>>) PROVE stack'[t] = <<b>>
  BY <1>1 DEF Calls, StateTypes, Then
<1>2. ASSUME NEW x, Then(t, <<x>>) PROVE stack'[t] = <<x, b>>
  <2>1. stack'[t] = <<x>> \o <<b>>
    BY <1>2 DEF Calls, StateTypes, Then
  <2> QED BY <2>1, Onto11
<1>3. ASSUME NEW x, NEW y, Then(t, <<x, y>>) PROVE stack'[t] = <<x, y, b>>
  <2>1. stack'[t] = <<x, y>> \o <<b>>
    BY <1>3 DEF Calls, StateTypes, Then
  <2> QED BY <2>1, Onto21
<1> QED BY <1>1, <1>2, <1>3

\* What Then leaves of a stack of three frames.
LEMMA ThenOnThree ==
  ASSUME Calls, NEW t \in Threads, NEW a, NEW b, NEW c, stack[t] = <<a, b, c>>
  PROVE  /\ Then(t, <<>>) => stack'[t] = <<b, c>>
         /\ \A x : Then(t, <<x>>) => stack'[t] = <<x, b, c>>
<1>1. ASSUME Then(t, <<>>) PROVE stack'[t] = <<b, c>>
  BY <1>1 DEF Calls, StateTypes, Then
<1>2. ASSUME NEW x, Then(t, <<x>>) PROVE stack'[t] = <<x, b, c>>
  <2>1. stack'[t] = <<x>> \o <<b, c>>
    BY <1>2 DEF Calls, StateTypes, Then
  <2> QED BY <2>1, Onto12
<1> QED BY <1>1, <1>2

Noticed == {"look", "claim", "advance", "wake"}
Scan(k, where) == <<"scan", k, where>>
AnyOf(k, where) == <<"any_closed", k, where>>
From == Scan(0, "top")

\* Where a label puts a producer.
LEMMA ProducerAt ==
  ASSUME Calls, NEW r \in Rings, NEW t, t = Producer(r)
  PROVE  LET f == Doing(t) IN
         /\ At(t, "idle") => stack[t] = <<Idle>>
         /\ At(t, "push") => stack[t] = << <<"push">>, Idle>>
         /\ At(t, "recheck") => stack[t] = << <<"recheck">>, Idle>>
         /\ At(t, "key") => stack[t] = << <<"key">>, <<"recheck">>, Idle>>
         /\ At(t, "announce") => stack[t] = << <<"announce">>, <<"recheck">>, Idle>>
         /\ At(t, "wait") => stack[t] = << <<"wait">>, <<"push">>, Idle>>
         /\ At(t, "cancel") => stack[t] = << <<"cancel">>, Idle>>
         /\ At(t, "publish") => stack[t] \in {<< <<"publish">>, Idle>>, << <<"publish">>, <<"cancel">>, Idle>>}
         /\ f[1] \in Noticed =>
              IsNotice(f, Owner(r)) /\ stack[t] \in {<<f, Idle>>, <<f, <<"cancel">>, Idle>>}
         /\ f[1] \in {"idle", "push", "recheck", "key", "announce", "wait", "cancel", "publish"} \cup Noticed
<1>1. InPush(stack[t], r)
  BY DEF Calls, InCalls
<1> QED BY <1>1 DEF InPush, IsNotice, At, Doing, Idle, Noticed

\* Where a label puts a worker.
LEMMA WorkerAt ==
  ASSUME Calls, NEW c \in Owners, NEW t, t = Consumer(c)
  PROVE  LET f == Doing(t) IN
         /\ At(t, "drained") => stack[t] = << <<"drained">> >>
         /\ At(t, "wait") => stack[t] = << <<"wait">>, From>>
         /\ At(t, "cancel") => stack[t] = << <<"cancel">>, From>>
         /\ At(t, "key") => stack[t] = << <<"key">>, Scan(0, "recheck")>>
         /\ At(t, "announce") => stack[t] = << <<"announce">>, Scan(0, "recheck")>>
         /\ At(t, "scan") => /\ stack[t] = <<f>> /\ f[2] \in Shares /\ f[3] \in {"top", "recheck"}
                             /\ f = Scan(f[2], f[3])
         /\ At(t, "any_closed") => /\ stack[t] = <<f>> /\ f[2] \in Shares /\ f[3] \in {"top", "recheck"}
                                   /\ f = AnyOf(f[2], f[3])
         /\ At(t, "drained?") => stack[t] = <<f>> /\ f[2] \in Shares /\ f = <<"drained?", f[2]>>
         /\ f[1] \in Noticed =>
              /\ \E r \in Rings : Owner(r) = t /\ IsNotice(f, Producer(r))
              /\ stack[t] \in {<<f, From>>, <<f, <<"cancel">>, From>>}
         /\ f[1] \in {"drained", "wait", "cancel", "key", "announce", "scan", "any_closed", "drained?"} \cup Noticed
<1>1. InPop(stack[t], c)
  BY DEF Calls, InCalls
<1>2. CASE \E k \in Shares : stack[t] \in {<< <<"scan", k, "top">> >>, << <<"scan", k, "recheck">> >>,
                              << <<"any_closed", k, "top">> >>, << <<"any_closed", k, "recheck">> >>,
                              << <<"drained?", k>> >>}
  BY <1>2 DEF At, Doing, Noticed, Scan, AnyOf
<1>3. CASE \E r \in Rings : /\ Owner(r) = Consumer(c) /\ IsNotice(Head(stack[t]), Producer(r))
                      /\ stack[t] \in {<<Head(stack[t]), From>>, <<Head(stack[t]), <<"cancel">>, From>>}
  BY <1>3 DEF At, Doing, Noticed, IsNotice
<1>4. CASE stack[t] \in {<< <<"drained">> >>, << <<"wait">>, From>>, << <<"cancel">>, From>>,
                         << <<"key">>, Scan(0, "recheck")>>, << <<"announce">>, Scan(0, "recheck")>>}
  BY <1>4 DEF At, Doing, Noticed
<1> QED BY <1>1, <1>2, <1>3, <1>4 DEF InPop, From, Scan

\* Where a label puts the closer.
LEMMA CloserAt ==
  ASSUME Calls
  PROVE  LET f == Doing(Closer) IN
         /\ At(Closer, "idle") => stack[Closer] = <<Idle>>
         /\ At(Closer, "closed") => Len(stack[Closer]) = 1
         /\ At(Closer, "bit") => \E r \in Rings : f = <<"bit", r>>
         /\ f[1] \in Noticed => \E e \in Sleepers : f = <<"advance", e, "all">>
         /\ ~At(Closer, "idle") => InClose(stack[Closer]) /\ stack[Closer] # <<Idle>>
         /\ f[1] \in {"idle", "closed", "bit", "advance"}
<1> DEFINE s == stack[Closer]  f == Doing(Closer)
<1>1. InClose(s)
  BY DEF Calls, InCalls
<1>2. CASE s = <<Idle>>
  BY <1>2 DEF At, Doing, Noticed, Idle
<1>3. CASE s # <<Idle>>
  <2>1. s \in Seq(CloseFrames) /\ s # <<>> /\ \A i \in 1..Len(s) : s[i][1] = "closed" <=> i = Len(s)
    BY <1>1, <1>3 DEF InClose
  <2>2. f = s[1] /\ 1 \in 1..Len(s) /\ s[1] \in CloseFrames
    BY <2>1 DEF Doing
  <2>3. f = <<"closed">> \/ (\E r \in Rings : f = <<"bit", r>>) \/ (\E e \in Sleepers : f = <<"advance", e, "all">>)
    BY <2>2 DEF CloseFrames
  <2>4. f[1] = "closed" => Len(s) = 1
    BY <2>1, <2>2
  <2> QED BY <1>1, <1>3, <2>3, <2>4 DEF At, Noticed
<1> QED BY <1>2, <1>3

(* ---------------------- what each step does: push ------------------------ *)
Look(e) == <<"look", e, "one">>
Cancel == <<"cancel">>

\* A push begins.
LEMMA BeginPushMoves ==
  ASSUME Calls, NEW r \in Rings, NEW t, t = Producer(r), BeginPush(r)
  PROVE  OthersStay(t) /\ Goes(t, <<Idle>>, << <<"push">>, Idle>>)
<1>1. t \in Threads /\ stack[t] = <<Idle>>
  BY Names, ProducerAt DEF BeginPush
<1>2. stack' = [stack EXCEPT ![t] = << <<"push">> >> \o @]
  BY DEF BeginPush
<1>3. OthersStay(t) /\ stack'[t] = << <<"push">> >> \o <<Idle>>
  BY <1>1, <1>2 DEF Calls, StateTypes, OthersStay
<1> QED BY <1>1, <1>3, Onto11 DEF Goes

\* try_push is called at the top of the loop or in the re-check.
LEMMA TryingPlaces ==
  ASSUME Calls, NEW r \in Rings, NEW t, t = Producer(r), Trying(r)
  PROVE  /\ t \in Threads /\ Fenced(t)
         /\ \/ At(t, "push") /\ ~At(t, "recheck") /\ stack[t] = << <<"push">>, Idle>> /\ Withdraw(r) = <<>>
            \/ At(t, "recheck") /\ ~At(t, "push") /\ stack[t] = << <<"recheck">>, Idle>> /\ Withdraw(r) = <<Cancel>>
<1>1. Doing(t)[1] \in {"push", "recheck"} /\ Fenced(t)
  BY DEF Trying
<1>2. CASE At(t, "push")
  BY <1>1, <1>2, Names, ProducerAt DEF At, Withdraw
<1>3. CASE At(t, "recheck")
  BY <1>1, <1>3, Names, ProducerAt DEF At, Withdraw, Cancel
<1> QED BY <1>1, <1>2, <1>3 DEF At

\* A push that finds its ring closed returns, from the re-check through cancel_wait.
LEMMA PushClosedMoves ==
  ASSUME Calls, NEW r \in Rings, NEW t, t = Producer(r), PushClosed(r)
  PROVE  /\ OthersStay(t)
         /\ \/ Goes(t, << <<"push">>, Idle>>, <<Idle>>)
            \/ Goes(t, << <<"recheck">>, Idle>>, <<Cancel, Idle>>)
<1>1. Trying(r) /\ Then(t, Withdraw(r))
  BY DEF PushClosed
<1>2. t \in Threads /\ OthersStay(t)
  BY <1>1, Names, ThenMoves
<1>3. CASE stack[t] = << <<"push">>, Idle>> /\ Withdraw(r) = <<>>
  BY <1>1, <1>2, <1>3, ThenOnTwo DEF Goes
<1>4. CASE stack[t] = << <<"recheck">>, Idle>> /\ Withdraw(r) = <<Cancel>>
  BY <1>1, <1>2, <1>4, ThenOnTwo DEF Goes
<1> QED BY <1>1, <1>2, <1>3, <1>4, TryingPlaces

\* A push that finds its ring full prepares to sleep, sleeps or gives up.
LEMMA PushFullMoves ==
  ASSUME Calls, NEW r \in Rings, NEW t, t = Producer(r), PushFull(r)
  PROVE  /\ OthersStay(t)
         /\ \/ Goes(t, << <<"push">>, Idle>>, << <<"key">>, <<"recheck">>, Idle>>)
            \/ Goes(t, << <<"recheck">>, Idle>>, << <<"wait">>, <<"push">>, Idle>>)
            \/ Goes(t, << <<"recheck">>, Idle>>, <<Cancel, Idle>>)
<1>1. Trying(r)
  BY DEF PushFull
<1>2. /\ At(t, "push") => Then(t, << <<"key">>, <<"recheck">> >>)
      /\ ~At(t, "push") => \/ Then(t, << <<"wait">>, <<"push">> >>)
                           \/ Then(t, <<Cancel>>)
  BY DEF PushFull, Cancel
<1>3. t \in Threads
  BY Names
<1>4. OthersStay(t)
  <2>1. \E todo : Then(t, todo)
    BY <1>2
  <2> QED BY <1>3, <2>1, ThenMoves
<1>5. CASE At(t, "push") /\ stack[t] = << <<"push">>, Idle>>
  BY <1>2, <1>3, <1>4, <1>5, ThenOnTwo DEF Goes
<1>6. CASE ~At(t, "push") /\ stack[t] = << <<"recheck">>, Idle>>
  BY <1>2, <1>3, <1>4, <1>6, ThenOnTwo DEF Goes
<1> QED BY <1>1, <1>5, <1>6, TryingPlaces

\* A push that finds room has a slot to write, and then publishes.
LEMMA PushWriteMoves ==
  ASSUME Calls, NEW r \in Rings, NEW t, t = Producer(r), PushWrite(r)
  PROVE  /\ OthersStay(t)
         /\ \/ Goes(t, << <<"push">>, Idle>>, << <<"publish">>, Idle>>)
            \/ Goes(t, << <<"recheck">>, Idle>>, << <<"publish">>, Cancel, Idle>>)
<1>1. Trying(r) /\ Then(t, << <<"publish">> >> \o Withdraw(r))
  BY DEF PushWrite
<1>2. t \in Threads /\ OthersStay(t)
  BY <1>1, Names, ThenMoves
<1>3. CASE stack[t] = << <<"push">>, Idle>> /\ Withdraw(r) = <<>>
  <2>1. Then(t, << <<"publish">> >>)
    BY <1>1, <1>3
  <2> QED BY <1>2, <1>3, <2>1, ThenOnTwo DEF Goes
<1>4. CASE stack[t] = << <<"recheck">>, Idle>> /\ Withdraw(r) = <<Cancel>>
  <2>1. Then(t, << <<"publish">>, Cancel>>)
    BY <1>1, <1>4, Onto11
  <2> QED BY <1>2, <1>4, <2>1, ThenOnTwo DEF Goes
<1> QED BY <1>1, <1>2, <1>3, <1>4, TryingPlaces

\* Who publishes notifies; who finds the bit set does not.
LEMMA PublishMoves ==
  ASSUME Calls, NEW r \in Rings, NEW t, t = Producer(r), Publish(r)
  PROVE  /\ OthersStay(t)
         /\ IF closed[r]
            THEN \/ Goes(t, << <<"publish">>, Idle>>, <<Idle>>)
                 \/ Goes(t, << <<"publish">>, Cancel, Idle>>, <<Cancel, Idle>>)
            ELSE \/ Goes(t, << <<"publish">>, Idle>>, <<Look(Owner(r)), Idle>>)
                 \/ Goes(t, << <<"publish">>, Cancel, Idle>>, <<Look(Owner(r)), Cancel, Idle>>)
<1>1. At(t, "publish") /\ t \in Threads
  BY Names DEF Publish
<1>2. stack[t] \in {<< <<"publish">>, Idle>>, << <<"publish">>, Cancel, Idle>>}
  BY <1>1, ProducerAt DEF Cancel
<1>3. Notify(Owner(r), "one") = Look(Owner(r))
  BY DEF Calls, StateTypes, Notify, Look
<1>4. CASE closed[r]
  <2>1. Then(t, <<>>)
    BY <1>4 DEF Publish
  <2>2. OthersStay(t)
    BY <1>1, <2>1, ThenMoves
  <2> QED BY <1>1, <1>2, <1>4, <2>1, <2>2, ThenOnTwo, ThenOnThree DEF Goes
<1>5. CASE ~closed[r]
  <2>1. Then(t, <<Look(Owner(r))>>)
    BY <1>3, <1>5 DEF Publish
  <2>2. OthersStay(t)
    BY <1>1, <2>1, ThenMoves
  <2> QED BY <1>1, <1>2, <1>5, <2>1, <2>2, ThenOnTwo, ThenOnThree DEF Goes
<1> QED BY <1>4, <1>5

\* prepare_wait, cancel_wait and wait of a producer.
LEMMA ProducerWaits ==
  ASSUME Calls, NEW r \in Rings, NEW t, t = Producer(r), WaitSteps(t, t, Deadlines)
  PROVE  \/ OthersStay(t) /\ Goes(t, << <<"key">>, <<"recheck">>, Idle>>, << <<"announce">>, <<"recheck">>, Idle>>) /\ ReadKey(t, t)
         \/ OthersStay(t) /\ Goes(t, << <<"announce">>, <<"recheck">>, Idle>>, << <<"recheck">>, Idle>>) /\ Announce(t, t)
         \/ OthersStay(t) /\ Goes(t, <<Cancel, Idle>>, <<Idle>>) /\ CancelWait(t, t)
         \/ UNCHANGED stack /\ stack[t] = << <<"wait">>, <<"push">>, Idle>> /\ Sleep(t, t)
         \/ OthersStay(t) /\ Goes(t, << <<"wait">>, <<"push">>, Idle>>, << <<"push">>, Idle>>) /\ LeaveWait(t, t, Deadlines)
<1>0. t \in Threads
  BY Names
<1>1. CASE At(t, "key") /\ ReadKey(t, t) /\ Then(t, IF t \in Outline THEN <<>> ELSE << <<"announce">> >>)
  <2>1. Then(t, << <<"announce">> >>)
    BY <1>1 DEF Calls, StateTypes
  <2> QED BY <1>0, <1>1, <2>1, ThenMoves, ProducerAt, ThenOnThree DEF Goes
<1>2. CASE At(t, "announce") /\ Announce(t, t) /\ Then(t, <<>>)
  BY <1>0, <1>2, ThenMoves, ProducerAt, ThenOnThree DEF Goes
<1>3. CASE At(t, "cancel") /\ CancelWait(t, t) /\ Then(t, <<>>)
  BY <1>0, <1>3, ThenMoves, ProducerAt, ThenOnTwo DEF Goes, Cancel
<1>4. CASE At(t, "wait") /\ Sleep(t, t) /\ UNCHANGED stack
  BY <1>4, ProducerAt
<1>5. CASE At(t, "wait") /\ LeaveWait(t, t, Deadlines) /\ Then(t, <<>>)
  BY <1>0, <1>5, ThenMoves, ProducerAt, ThenOnThree DEF Goes
<1> QED BY <1>1, <1>2, <1>3, <1>4, <1>5 DEF WaitSteps

\* A step of a notification leads to its next, or back to what is below it.
LEMMA NotifyMoves ==
  ASSUME Calls, NEW t \in Sleepers, NotifySteps(t)
  PROVE  LET f == Doing(t) IN
         /\ OthersStay(t) /\ f = <<f[1], f[2], "one">> /\ f[2] \in Sleepers
         /\ \/ /\ f[1] = "look" /\ Fenced(t) /\ waiters[f[2]] = 0
               /\ Then(t, <<>>) /\ UNCHANGED <<counts, buffer>>
            \/ /\ f[1] = "look" /\ Fenced(t) /\ waiters[f[2]] # 0
               /\ Then(t, << <<"claim", f[2], "one">> >>) /\ UNCHANGED <<counts, buffer>>
            \/ f[1] = "claim" /\ pending[f[2]] /\ Then(t, <<>>) /\ UNCHANGED <<counts, buffer>>
            \/ f[1] = "claim" /\ ClaimWake(t, f[2]) /\ Then(t, << <<"advance", f[2], "one">> >>)
            \/ f[1] = "advance" /\ Advance(t, f[2]) /\ Then(t, << <<"wake", f[2], "one">> >>)
            \/ f[1] = "wake" /\ WakeOne(f[2]) /\ Then(t, <<>>)
<1> DEFINE f == Doing(t)
<1>1. t \in Threads
  BY Names
<1>2. f[1] \in Noticed
  BY DEF NotifySteps, NotifyLook, NotifyClaim, NotifyAdvance, NotifyWake, NotifyAll, Noticed, At
<1>3. \E e \in Sleepers : IsNotice(f, e)
  <2>1. CASE \E r \in Rings : t = Producer(r)
    <3>1. PICK r \in Rings : t = Producer(r)
      BY <2>1
    <3> QED BY <1>2, <3>1, ProducerAt, Names, Sharing
  <2>2. CASE \E c \in Owners : t = Consumer(c)
    <3>1. PICK c \in Owners : t = Consumer(c)
      BY <2>2
    <3> QED BY <1>2, <3>1, WorkerAt, Names
  <2> QED BY <2>1, <2>2, Names
<1>4. PICK e \in Sleepers : IsNotice(f, e)
  BY <1>3
<1>5. f[2] = e /\ f[3] = "one" /\ f = <<f[1], f[2], "one">>
  BY <1>4 DEF IsNotice
<1> HIDE DEF f
<1>6. CASE NotifyLook(t)
  <2>1. At(t, "look") /\ Fenced(t) /\ UNCHANGED <<counts, buffer>> /\ f[1] = "look"
    BY <1>6 DEF NotifyLook, f, At
  <2>2. Then(t, IF ~AnyWaiter(f[2]) THEN <<>> ELSE << <<"claim", f[2], "one">> >>)
    BY <1>5, <1>6 DEF NotifyLook, f
  <2>3. OthersStay(t)
    BY <1>1, <2>2, ThenMoves
  <2>4. CASE AnyWaiter(f[2])
    <3>1. Then(t, << <<"claim", f[2], "one">> >>)
      BY <2>2, <2>4
    <3> QED BY <1>4, <1>5, <2>1, <2>3, <2>4, <3>1 DEF AnyWaiter, f
  <2>5. CASE ~AnyWaiter(f[2])
    <3>1. Then(t, <<>>)
      BY <2>2, <2>5
    <3> QED BY <1>4, <1>5, <2>1, <2>3, <2>5, <3>1 DEF AnyWaiter, f
  <2> QED BY <2>4, <2>5
<1>7. CASE NotifyClaim(t)
  <2>1. f[1] = "claim"
    BY <1>7 DEF NotifyClaim, f, At
  <2>2. \/ pending[f[2]] /\ Then(t, <<>>) /\ UNCHANGED <<counts, buffer>>
        \/ ClaimWake(t, f[2]) /\ Then(t, << <<"advance", f[2], "one">> >>)
    BY <1>7 DEF NotifyClaim, f, WakeInFlight
  <2>3. OthersStay(t)
    BY <1>1, <2>2, ThenMoves
  <2> QED BY <1>4, <1>5, <2>1, <2>2, <2>3 DEF f
<1>8. CASE NotifyAdvance(t)
  <2>1. f[1] = "advance" /\ Advance(t, f[2]) /\ Then(t, << <<"wake", f[2], "one">> >>)
    BY <1>8 DEF NotifyAdvance, f, At
  <2>2. OthersStay(t)
    BY <1>1, <2>1, ThenMoves
  <2> QED BY <1>4, <1>5, <2>1, <2>2 DEF f
<1>9. CASE NotifyWake(t)
  <2>1. f[1] = "wake" /\ WakeOne(f[2]) /\ Then(t, <<>>)
    BY <1>9 DEF NotifyWake, f, At
  <2>2. OthersStay(t)
    BY <1>1, <2>1, ThenMoves
  <2> QED BY <1>4, <1>5, <2>1, <2>2 DEF f
<1>10. CASE NotifyAll(t)
  BY <1>5, <1>10 DEF NotifyAll, f
<1> QED BY <1>6, <1>7, <1>8, <1>9, <1>10 DEF NotifySteps

(* ----------------------- what each step does: pop ------------------------ *)
\* The head as its consumer knows it, in the newest of its stores if any is under way.
LEMMA MaxIs ==
  ASSUME NEW S \in SUBSET Nat, NEW m \in S, \A x \in S : x <= m
  PROVE  Max(S) = m
<1>1. \E x \in S : \A y \in S : x >= y
  OBVIOUS
<1>2. Max(S) \in S /\ \A y \in S : Max(S) >= y
  <2> DEFINE M == CHOOSE x \in S : \A y \in S : x >= y
  <2>1. M \in S /\ \A y \in S : M >= y
    BY <1>1
  <2> QED BY <2>1 DEF Max
<1>3. Max(S) \in Nat /\ m \in Nat
  BY <1>2
<1>4. Max(S) <= m /\ m <= Max(S)
  BY <1>2, <1>3
<1> QED BY <1>3, <1>4

\* A head's store is not a clear.
LEMMA Stores ==
  ASSUME NEW s \in HeadStore
  PROVE  ~IsClear(s) /\ s.ring \in Rings /\ s.head \in Nat
  BY DEF HeadStore, IsClear

\* What the buffers may hold.
LEMMA Buffers ==
  ASSUME Calls
  PROVE  /\ \A t \in Threads : Clears(t) => ~Fenced(t) /\ IsClear(Head(buffer[t])) /\ t # Closer
         /\ \A c \in Owners : ~Clears(Consumer(c)) =>
              /\ buffer[Consumer(c)] \in Seq(HeadStore)
              /\ \A i \in DOMAIN buffer[Consumer(c)] :
                   /\ ~IsClear(buffer[Consumer(c)][i])
                   /\ Owner(buffer[Consumer(c)][i].ring) = Consumer(c)
         /\ \A c \in Owners : \A r \in Rings : \A i \in DOMAIN buffer[Consumer(c)] :
              Clears(Consumer(c)) => ~(~IsClear(buffer[Consumer(c)][i]) /\ buffer[Consumer(c)][i].ring = r)
<1>1. ASSUME NEW t \in Threads, Clears(t)
      PROVE  /\ ~Fenced(t) /\ IsClear(Head(buffer[t]))
             /\ \A i \in DOMAIN buffer[t] : IsClear(buffer[t][i])
  BY <1>1 DEF Clears, Fenced, IsClear, ClearPending
<1>2. ASSUME NEW c \in Owners, ~Clears(Consumer(c)), NEW i \in DOMAIN buffer[Consumer(c)]
      PROVE  ~IsClear(buffer[Consumer(c)][i])
  <2>1. buffer[Consumer(c)] \in Seq(HeadStore)
    BY <1>2 DEF Calls, StateTypes, BufferTypes
  <2>2. buffer[Consumer(c)][i] \in HeadStore
    BY <1>2, <2>1
  <2> QED BY <2>2, Stores
<1>3. \A c \in Owners : ~Clears(Consumer(c)) =>
              /\ buffer[Consumer(c)] \in Seq(HeadStore)
              /\ \A i \in DOMAIN buffer[Consumer(c)] : Owner(buffer[Consumer(c)][i].ring) = Consumer(c)
  BY DEF Calls, StateTypes, BufferTypes
<1>4. Fenced(Closer)
  BY DEF Calls, StateTypes, BufferTypes
<1>5. \A c \in Owners : Consumer(c) \in Threads
  BY Names
<1> QED BY <1>1, <1>2, <1>3, <1>4, <1>5

\* A consumer that scans is not in the middle of clearing pending_.
LEMMA ScanningMeans ==
  ASSUME Calls, NEW c \in Owners, NEW t, t = Consumer(c), Scanning(c)
  PROVE  /\ At(t, "scan") /\ ~Clears(t) /\ t \in Threads
         /\ Doing(t)[2] \in Shares /\ Doing(t)[3] \in {"top", "recheck"}
         /\ stack[t] = <<Doing(t)>> /\ Doing(t) = Scan(Doing(t)[2], Doing(t)[3])
<1>1. At(t, "scan") /\ \A i \in DOMAIN buffer[t] : ~IsClear(buffer[t][i])
  BY DEF Scanning
<1>2. ~Clears(t)
  BY <1>1 DEF Clears, IsClear, ClearPending
<1> QED BY <1>1, <1>2, WorkerAt, Names

\* A pop that takes an event wakes the blocked producer once per batch, withdraws if it
\* has announced itself, and starts anew.
LEMMA PopRingMoves ==
  ASSUME Calls, NEW c \in Owners, NEW t, t = Consumer(c), PopRing(c),
         NEW r, r = RingOf(c, Index(c)), NEW h, h = OwnHead(c, r)
  PROVE  /\ OthersStay(t) /\ stack[t] = <<Doing(t)>>
         /\ LET below == IF Doing(t)[3] = "recheck" THEN <<Cancel, From>> ELSE <<From>> IN
            \/ h % kFullWakeEvery # 0 /\ stack'[t] = below
            \/ /\ h % kFullWakeEvery = 0 /\ Doing(t)[3] = "recheck"
               /\ stack'[t] = <<Look(Producer(r)), Cancel, From>>
            \/ /\ h % kFullWakeEvery = 0 /\ Doing(t)[3] # "recheck"
               /\ stack'[t] = <<Look(Producer(r)), From>>
<1> DEFINE w == IF InRecheck(c) THEN <<Cancel>> ELSE <<>>
<1>1. /\ Scanning(c)
      /\ Then(t, FreesRoom(r, h) \o w \o <<From>>)
  BY DEF PopRing, Cancel, From, Top, Scan
<1>2. t \in Threads /\ stack[t] = <<Doing(t)>>
  BY <1>1, ScanningMeans
<1>3. OthersStay(t)
  BY <1>1, <1>2, ThenMoves
<1>4. h % kFullWakeEvery = 0 => FreesRoom(r, h) = <<Look(Producer(r))>>
  BY DEF FreesRoom, Calls, StateTypes, Notify, Look
<1>5. h % kFullWakeEvery # 0 => FreesRoom(r, h) = <<>>
  BY DEF FreesRoom
<1>6. InRecheck(c) <=> Doing(t)[3] = "recheck"
  BY DEF InRecheck
<1> DEFINE l == Look(Producer(r))  fr == FreesRoom(r, h)
<1>7. CASE Doing(t)[3] = "recheck"
  <2>1. w = <<Cancel>>
    BY <1>6, <1>7
  <2> HIDE DEF w, l, fr
  <2>2. CASE h % kFullWakeEvery = 0
    <3>1. fr = <<l>>
      BY <1>4, <2>2 DEF fr, l
    <3>2. Then(t, <<l>> \o <<Cancel>> \o <<From>>)
      BY <1>1, <2>1, <3>1 DEF fr
    <3>3. Then(t, <<l, Cancel>> \o <<From>>)
      BY <3>2, Onto11
    <3>4. Then(t, <<l, Cancel, From>>)
      BY <3>3, Onto21
    <3> QED BY <1>2, <1>3, <1>7, <2>2, <3>4, ThenOnOne DEF l
  <2>3. CASE h % kFullWakeEvery # 0
    <3>1. fr = <<>>
      BY <1>5, <2>3 DEF fr
    <3>2. Then(t, <<>> \o <<Cancel>> \o <<From>>)
      BY <1>1, <2>1, <3>1 DEF fr
    <3>3. Then(t, <<Cancel>> \o <<From>>)
      BY <3>2
    <3>4. Then(t, <<Cancel, From>>)
      BY <3>3, Onto11
    <3> QED BY <1>2, <1>3, <1>7, <2>3, <3>4, ThenOnOne
  <2> QED BY <2>2, <2>3
<1>8. CASE Doing(t)[3] # "recheck"
  <2>1. w = <<>>
    BY <1>6, <1>8
  <2> HIDE DEF w, l, fr
  <2>2. CASE h % kFullWakeEvery = 0
    <3>1. fr = <<l>>
      BY <1>4, <2>2 DEF fr, l
    <3>2. Then(t, <<l>> \o <<>> \o <<From>>)
      BY <1>1, <2>1, <3>1 DEF fr
    <3>3. Then(t, <<l>> \o <<From>>)
      BY <3>2
    <3>4. Then(t, <<l, From>>)
      BY <3>3, Onto11
    <3> QED BY <1>2, <1>3, <1>8, <2>2, <3>4, ThenOnOne DEF l
  <2>3. CASE h % kFullWakeEvery # 0
    <3>1. fr = <<>>
      BY <1>5, <2>3 DEF fr
    <3>2. Then(t, <<>> \o <<>> \o <<From>>)
      BY <1>1, <2>1, <3>1 DEF fr
    <3>3. Then(t, <<From>>)
      BY <3>2
    <3> QED BY <1>2, <1>3, <1>8, <2>3, <3>3, ThenOnOne
  <2> QED BY <2>2, <2>3
<1> QED BY <1>7, <1>8

\* A miss leads to the next ring, or to a look at the closed bits.
LEMMA PopMissMoves ==
  ASSUME Calls, NEW c \in Owners, NEW t, t = Consumer(c), PopMiss(c)
  PROVE  LET k == Doing(t)[2]  where == Doing(t)[3] IN
         /\ OthersStay(t) /\ stack[t] = <<Doing(t)>>
         /\ \/ k + 1 < kOwned /\ stack'[t] = <<Scan(k + 1, where)>>
            \/ ~(k + 1 < kOwned) /\ stack'[t] = <<AnyOf(0, where)>>
<1> DEFINE k == Doing(t)[2]  where == Doing(t)[3]
<1>1. /\ Scanning(c)
      /\ Then(t, << IF k + 1 < kOwned THEN Scan(k + 1, where) ELSE AnyOf(0, where) >>)
  BY DEF PopMiss, Scan, AnyOf
<1>2. t \in Threads /\ stack[t] = <<Doing(t)>>
  BY <1>1, ScanningMeans
<1>3. OthersStay(t)
  BY <1>1, <1>2, ThenMoves
<1> HIDE DEF k, where
<1>4. stack'[t] = << IF k + 1 < kOwned THEN Scan(k + 1, where) ELSE AnyOf(0, where) >>
  BY <1>1, <1>2, ThenOnOne
<1> QED BY <1>2, <1>3, <1>4 DEF k, where

\* What pop does with what any_closed says.
LEMMA AnyClosedMoves ==
  ASSUME Calls, NEW c \in Owners, NEW t, t = Consumer(c), AnyClosed(c)
  PROVE  LET k == Doing(t)[2]  where == Doing(t)[3] IN
         /\ OthersStay(t) /\ stack[t] = <<Doing(t)>>
         /\ \/ closed[RingOf(c, k)] /\ where = "recheck" /\ stack'[t] = <<Cancel, From>>
            \/ closed[RingOf(c, k)] /\ where = "top" /\ stack'[t] = << <<"drained?", 0>> >>
            \/ ~closed[RingOf(c, k)] /\ k + 1 < kOwned /\ stack'[t] = <<AnyOf(k + 1, where)>>
            \/ /\ ~closed[RingOf(c, k)] /\ ~(k + 1 < kOwned)
               /\ \/ where = "top" /\ stack'[t] = << <<"key">>, Scan(0, "recheck")>>
                  \/ where = "recheck" /\ stack'[t] = << <<"wait">>, From>>
                  \/ where = "recheck" /\ stack'[t] = <<Cancel, From>>
<1> DEFINE k == Doing(t)[2]  where == Doing(t)[3]  shut == closed[RingOf(c, k)]
<1>1. At(t, "any_closed") /\ t \in Threads
  BY Names DEF AnyClosed
<1>2. stack[t] = <<Doing(t)>> /\ k \in Shares /\ where \in {"top", "recheck"}
  BY <1>1, WorkerAt
<1>3. << <<"wait">> >> \o <<From>> = << <<"wait">>, From>> /\ <<Cancel>> \o <<From>> = <<Cancel, From>>
  BY Onto11
<1>4. /\ shut /\ where = "recheck" => Then(t, <<Cancel, From>>)
      /\ shut /\ where # "recheck" => Then(t, << <<"drained?", 0>> >>)
      /\ ~shut /\ k + 1 < kOwned => Then(t, <<AnyOf(k + 1, where)>>)
      /\ ~shut /\ ~(k + 1 < kOwned) /\ where = "top" => Then(t, << <<"key">>, Scan(0, "recheck")>>)
      /\ ~shut /\ ~(k + 1 < kOwned) /\ where # "top" =>
           Then(t, << <<"wait">>, From>>) \/ Then(t, <<Cancel, From>>)
  BY <1>3 DEF AnyClosed, SeesClosed, InRecheck, Top, From, Cancel, AnyOf, Scan
<1> HIDE DEF k, where, shut
<1>5. OthersStay(t)
  <2>1. \E todo : Then(t, todo)
    BY <1>2, <1>4
  <2> QED BY <1>1, <2>1, ThenMoves
<1>6. /\ shut /\ where = "recheck" => stack'[t] = <<Cancel, From>>
      /\ shut /\ where # "recheck" => stack'[t] = << <<"drained?", 0>> >>
      /\ ~shut /\ k + 1 < kOwned => stack'[t] = <<AnyOf(k + 1, where)>>
      /\ ~shut /\ ~(k + 1 < kOwned) /\ where = "top" => stack'[t] = << <<"key">>, Scan(0, "recheck")>>
      /\ ~shut /\ ~(k + 1 < kOwned) /\ where # "top" =>
           stack'[t] = << <<"wait">>, From>> \/ stack'[t] = <<Cancel, From>>
  BY <1>1, <1>2, <1>4, ThenOnOne
<1> QED BY <1>2, <1>5, <1>6 DEF k, where, shut

\* What drained says after one more ring.
LEMMA DrainedMoves ==
  ASSUME Calls, NEW c \in Owners, NEW t, t = Consumer(c), Drained(c)
  PROVE  LET k == Doing(t)[2]  over == RingDrained(c, RingOf(c, k)) IN
         /\ OthersStay(t) /\ stack[t] = <<Doing(t)>> /\ At(t, "drained?")
         /\ \/ ~over /\ stack'[t] = <<From>>
            \/ over /\ k + 1 < kOwned /\ stack'[t] = << <<"drained?", k + 1>> >>
            \/ over /\ ~(k + 1 < kOwned) /\ stack'[t] = << <<"drained">> >>
<1> DEFINE k == Doing(t)[2]  over == RingDrained(c, RingOf(c, k))
<1>1. At(t, "drained?") /\ t \in Threads
  BY Names DEF Drained
<1>2. stack[t] = <<Doing(t)>>
  BY <1>1, WorkerAt
<1>3. /\ ~over => Then(t, <<From>>)
      /\ over /\ k + 1 < kOwned => Then(t, << <<"drained?", k + 1>> >>)
      /\ over /\ ~(k + 1 < kOwned) => Then(t, << <<"drained">> >>)
  BY DEF Drained, From, Top, Scan
<1> HIDE DEF k, over
<1>4. OthersStay(t)
  <2>1. \E todo : Then(t, todo)
    BY <1>3
  <2> QED BY <1>1, <2>1, ThenMoves
<1> QED BY <1>1, <1>2, <1>3, <1>4, ThenOnOne DEF k, over

\* prepare_wait, cancel_wait and wait of a consumer.
LEMMA WorkerWaits ==
  ASSUME Calls, NEW c \in Owners, NEW t, t = Consumer(c), WaitSteps(t, t, Deadlines)
  PROVE  \/ OthersStay(t) /\ Goes(t, << <<"key">>, Scan(0, "recheck")>>, << <<"announce">>, Scan(0, "recheck")>>) /\ ReadKey(t, t)
         \/ OthersStay(t) /\ Goes(t, << <<"announce">>, Scan(0, "recheck")>>, <<Scan(0, "recheck")>>) /\ Announce(t, t)
         \/ OthersStay(t) /\ Goes(t, <<Cancel, From>>, <<From>>) /\ CancelWait(t, t)
         \/ UNCHANGED stack /\ stack[t] = << <<"wait">>, From>> /\ Sleep(t, t)
         \/ OthersStay(t) /\ Goes(t, << <<"wait">>, From>>, <<From>>) /\ LeaveWait(t, t, Deadlines)
<1>0. t \in Threads
  BY Names
<1>1. CASE At(t, "key") /\ ReadKey(t, t) /\ Then(t, IF t \in Outline THEN <<>> ELSE << <<"announce">> >>)
  <2>1. Then(t, << <<"announce">> >>)
    BY <1>1 DEF Calls, StateTypes
  <2> QED BY <1>0, <1>1, <2>1, ThenMoves, WorkerAt, ThenOnTwo DEF Goes
<1>2. CASE At(t, "announce") /\ Announce(t, t) /\ Then(t, <<>>)
  BY <1>0, <1>2, ThenMoves, WorkerAt, ThenOnTwo DEF Goes
<1>3. CASE At(t, "cancel") /\ CancelWait(t, t) /\ Then(t, <<>>)
  BY <1>0, <1>3, ThenMoves, WorkerAt, ThenOnTwo DEF Goes, Cancel
<1>4. CASE At(t, "wait") /\ Sleep(t, t) /\ UNCHANGED stack
  BY <1>4, WorkerAt
<1>5. CASE At(t, "wait") /\ LeaveWait(t, t, Deadlines) /\ Then(t, <<>>)
  BY <1>0, <1>5, ThenMoves, WorkerAt, ThenOnTwo DEF Goes
<1> QED BY <1>1, <1>2, <1>3, <1>4, <1>5 DEF WaitSteps

(* ---------------------- what each step does: close ----------------------- *)
\* The frames of a close.
LEMMA Frames ==
  /\ <<"closed">> \in CloseFrames
  /\ \A r \in Rings : <<"bit", r>> \in CloseFrames
  /\ \A e \in Sleepers : <<"advance", e, "all">> \in CloseFrames
  /\ \A f \in CloseFrames : \/ f = <<"closed">> \/ \E r \in Rings : f = <<"bit", r>>
                            \/ \E e \in Sleepers : f = <<"advance", e, "all">>
  BY DEF CloseFrames

\* What is where in a concatenation.
LEMMA Joined ==
  ASSUME NEW S, NEW s \in Seq(S), NEW u \in Seq(S), NEW w, w = s \o u
  PROVE  /\ w \in Seq(S) /\ Len(w) = Len(s) + Len(u)
         /\ \A i \in 1..Len(s) : w[i] = s[i]
         /\ \A i \in 1..Len(u) : w[Len(s) + i] = u[i]
<1>1. w \in Seq(S) /\ Len(w) = Len(s) + Len(u)
  OBVIOUS
<1>2. \A i \in 1..Len(s) : w[i] = s[i]
  OBVIOUS
<1>3. ASSUME NEW i \in 1..Len(u) PROVE w[Len(s) + i] = u[i]
  <2>1. Len(s) \in Nat /\ Len(u) \in Nat /\ Len(s) + i \in 1..(Len(s) + Len(u)) /\ Len(s) + i > Len(s)
    OBVIOUS
  <2> QED BY <2>1
<1> QED BY <1>1, <1>2, <1>3

\* A close has all its bits before it, then a wake for everybody.
LEMMA Plan ==
  ASSUME Outline = {}, NEW s, s = CloseSteps \o << <<"closed">> >>
  PROVE  /\ InClose(s) /\ s # <<Idle>>
         /\ \A e \in Sleepers : \E i \in DOMAIN s : s[i] = <<"advance", e, "all">>
<1> DEFINE bits == [i \in 1..P |-> <<"bit", i - 1>>]
           workers == [i \in 1..C |-> Notify(Consumer(i - 1), "all")]
           producers == [i \in 1..P |-> Notify(Producer(i - 1), "all")]
           end == << <<"closed">> >>
<1>0. P \in Nat /\ C \in Nat /\ P >= 1
  BY ShardsAssumption
<1>1. \A e : Notify(e, "all") = <<"advance", e, "all">>
  BY DEF Notify
<1>2. /\ \A i \in 1..P : i - 1 \in Rings /\ Producer(i - 1) \in Sleepers
      /\ \A i \in 1..C : i - 1 \in Owners /\ Consumer(i - 1) \in Sleepers
  BY <1>0, Names DEF Rings, Owners
<1>3. bits \in Seq(CloseFrames) /\ Len(bits) = P /\ \A i \in 1..P : bits[i] = <<"bit", i - 1>>
  BY <1>0, <1>2, Frames
<1>4. /\ workers \in Seq(CloseFrames) /\ Len(workers) = C
      /\ \A i \in 1..C : workers[i] = <<"advance", Consumer(i - 1), "all">>
  BY <1>0, <1>1, <1>2, Frames
<1>5. /\ producers \in Seq(CloseFrames) /\ Len(producers) = P
      /\ \A i \in 1..P : producers[i] = <<"advance", Producer(i - 1), "all">>
  BY <1>0, <1>1, <1>2, Frames
<1>6. end \in Seq(CloseFrames) /\ Len(end) = 1 /\ end[1] = <<"closed">>
  BY Frames
<1>7. s = bits \o workers \o producers \o end
  BY DEF CloseSteps
<1> HIDE DEF bits, workers, producers, end
<1> DEFINE s2 == bits \o workers  s3 == s2 \o producers
<1>8. /\ s2 \in Seq(CloseFrames) /\ Len(s2) = P + C
      /\ \A i \in 1..P : s2[i] = bits[i]
      /\ \A i \in 1..C : s2[P + i] = workers[i]
  <2>1. /\ s2 \in Seq(CloseFrames) /\ Len(s2) = Len(bits) + Len(workers)
        /\ \A i \in 1..Len(bits) : s2[i] = bits[i]
        /\ \A i \in 1..Len(workers) : s2[Len(bits) + i] = workers[i]
    <3>1. bits \in Seq(CloseFrames) /\ workers \in Seq(CloseFrames) /\ s2 = bits \o workers
      BY <1>3, <1>4
    <3> HIDE DEF s2, s3
    <3> QED BY <3>1, Joined
  <2> HIDE DEF s2, s3
  <2> QED BY <1>0, <2>1, <1>3, <1>4
<1> HIDE DEF s2
<1>9. /\ s3 \in Seq(CloseFrames) /\ Len(s3) = P + C + P
      /\ \A i \in 1..(P + C) : s3[i] = s2[i]
      /\ \A i \in 1..P : s3[P + C + i] = producers[i]
  <2>1. /\ s3 \in Seq(CloseFrames) /\ Len(s3) = Len(s2) + Len(producers)
        /\ \A i \in 1..Len(s2) : s3[i] = s2[i]
        /\ \A i \in 1..Len(producers) : s3[Len(s2) + i] = producers[i]
    <3>1. s2 \in Seq(CloseFrames) /\ producers \in Seq(CloseFrames) /\ s3 = s2 \o producers
      BY <1>5, <1>8
    <3> HIDE DEF s2, s3
    <3> QED BY <3>1, Joined
  <2> HIDE DEF s2, s3
  <2> QED BY <1>0, <2>1, <1>5, <1>8
<1>10. s = s3 \o end
  BY <1>7 DEF s2
<1> HIDE DEF s3
<1>11. /\ s \in Seq(CloseFrames) /\ Len(s) = P + C + P + 1
       /\ \A i \in 1..(P + C + P) : s[i] = s3[i]
       /\ s[P + C + P + 1] = end[1]
  <2>1. /\ s \in Seq(CloseFrames) /\ Len(s) = Len(s3) + Len(end)
        /\ \A i \in 1..Len(s3) : s[i] = s3[i]
        /\ \A i \in 1..Len(end) : s[Len(s3) + i] = end[i]
    <3>1. s3 \in Seq(CloseFrames) /\ end \in Seq(CloseFrames) /\ s = s3 \o end
      BY <1>6, <1>9, <1>10
    <3> DEFINE w == s3 \o end
    <3>2. /\ w \in Seq(CloseFrames) /\ Len(w) = Len(s3) + Len(end)
          /\ \A i \in 1..Len(s3) : w[i] = s3[i]
          /\ \A i \in 1..Len(end) : w[Len(s3) + i] = end[i]
      BY <3>1, Joined
    <3>3. s = w
      BY <3>1
    <3> HIDE DEF w
    <3> QED BY <3>2, <3>3
  <2> QED BY <1>0, <2>1, <1>6, <1>9, <1>10
<1>12. \A i \in 1..P : s[i] = <<"bit", i - 1>>
  <2> TAKE i \in 1..P
  <2>1. i \in 1..(P + C) /\ i \in 1..(P + C + P)
    BY <1>0
  <2>2. s[i] = s3[i] /\ s3[i] = s2[i] /\ s2[i] = bits[i]
    BY <2>1, <1>8, <1>9, <1>11
  <2> QED BY <2>2, <1>3
<1>13. \A i \in 1..C : s[P + i] = <<"advance", Consumer(i - 1), "all">>
  <2> TAKE i \in 1..C
  <2>1. P + i \in 1..(P + C) /\ P + i \in 1..(P + C + P)
    BY <1>0
  <2> QED BY SMTT(30), <2>1, <1>4, <1>8, <1>9, <1>11
<1>14. \A i \in 1..P : s[P + C + i] = <<"advance", Producer(i - 1), "all">>
  <2> TAKE i \in 1..P
  <2>1. P + C + i \in 1..(P + C + P)
    BY <1>0
  <2> QED BY <2>1, <1>5, <1>9, <1>11
<1>15. s[Len(s)] = <<"closed">>
  BY <1>6, <1>11
<1>16. \A i \in 1..Len(s) :
                           /\ i \in 1..P => s[i][1] = "bit"
                           /\ i \in (P + 1)..(P + C + P) => s[i][1] = "advance"
                           /\ i \in 1..P \/ i \in (P + 1)..(P + C + P) \/ i = Len(s)
  <2> TAKE i \in 1..Len(s)
  <2>1. i \in 1..P => s[i][1] = "bit"
    BY <1>12
  <2>2. CASE i \in (P + 1)..(P + C)
    <3>1. i - P \in 1..C /\ i = P + (i - P)
      BY <1>0, <2>2
    <3>2. s[P + (i - P)] = <<"advance", Consumer((i - P) - 1), "all">>
      BY <1>13, <3>1
    <3> QED BY <1>0, <2>1, <2>2, <3>1, <3>2
  <2>3. CASE i \in (P + C + 1)..(P + C + P)
    <3>1. i - (P + C) \in 1..P /\ i = P + C + (i - (P + C))
      BY <1>0, <2>3
    <3>2. s[P + C + (i - (P + C))] = <<"advance", Producer((i - (P + C)) - 1), "all">>
      BY <1>14, <3>1
    <3> QED BY <1>0, <2>1, <2>3, <3>1, <3>2
  <2>4. i \in 1..P \/ i \in (P + 1)..(P + C) \/ i \in (P + C + 1)..(P + C + P) \/ i = Len(s)
    BY <1>0, <1>11
  <2>5. i \in (P + 1)..(P + C + P) => i \in (P + 1)..(P + C) \/ i \in (P + C + 1)..(P + C + P)
    BY <1>0
  <2>6. i \in (P + 1)..(P + C) \/ i \in (P + C + 1)..(P + C + P) => i \in (P + 1)..(P + C + P)
    BY <1>0
  <2> QED BY <2>1, <2>2, <2>3, <2>4, <2>5, <2>6
<1>17. \A i \in 1..Len(s) : s[i][1] = "closed" <=> i = Len(s)
  <2>1. ASSUME NEW i \in 1..Len(s), i # Len(s) PROVE s[i][1] # "closed"
    <3>1. s[i][1] = "bit" \/ s[i][1] = "advance"
      BY <1>16, <2>1, Zenon
    <3> QED BY <3>1
  <2>2. s[Len(s)][1] = "closed"
    BY <1>15
  <2> QED BY <2>1, <2>2
<1>18. \A i, j \in 1..Len(s) : i < j /\ s[j][1] = "bit" => s[i][1] = "bit"
  <2> SUFFICES ASSUME NEW i \in 1..Len(s), NEW j \in 1..Len(s), i < j, s[j][1] = "bit" PROVE s[i][1] = "bit"
    OBVIOUS
  <2>1. j # Len(s)
    BY <1>15
  <2>2. j \in 1..P
    <3>1. \/ s[j][1] = "advance"
          \/ j \in 1..P
      BY <1>16, <2>1, Zenon
    <3> QED BY <1>0, <3>1
  <2>3. i \in 1..P
    BY <1>0, <2>2
  <2> QED BY <1>16, <2>3, Zenon
<1>19. InClose(s) /\ s # <<Idle>>
  <2>1. s # <<>> /\ Len(s) >= 2
    BY <1>0, <1>11
  <2>2. s # <<Idle>>
    BY <2>1
  <2> QED BY <1>11, <1>17, <1>18, <2>1, <2>2 DEF InClose
<1>20. ASSUME NEW e \in Sleepers PROVE \E i \in DOMAIN s : s[i] = <<"advance", e, "all">>
  <2>1. CASE \E r \in Rings : e = Producer(r)
    <3>1. PICK r \in Rings : e = Producer(r)
      BY <2>1
    <3>2. r + 1 \in 1..P /\ (r + 1) - 1 = r
      BY <1>0 DEF Rings
    <3>3. s[P + C + (r + 1)] = <<"advance", e, "all">>
      BY <1>14, <3>1, <3>2
    <3>4. P + C + (r + 1) \in DOMAIN s
      BY <1>0, <1>11, <3>2
    <3> QED BY <3>3, <3>4
  <2>2. CASE \E c \in Owners : e = Consumer(c)
    <3>1. PICK c \in Owners : e = Consumer(c)
      BY <2>2
    <3>2. c + 1 \in 1..C /\ (c + 1) - 1 = c
      BY <1>0 DEF Owners
    <3>3. s[P + (c + 1)] = <<"advance", e, "all">>
      BY <1>13, <3>1, <3>2
    <3>4. P + (c + 1) \in DOMAIN s
      BY <1>0, <1>11, <3>2
    <3> QED BY <3>3, <3>4
  <2> QED BY <2>1, <2>2, Names
<1> QED BY <1>19, <1>20

\* A close begins.
LEMMA BeginCloseMoves ==
  ASSUME Calls, BeginClose
  PROVE  /\ OthersStay(Closer) /\ stack[Closer] = <<Idle>>
         /\ InClose(stack'[Closer]) /\ stack'[Closer] # <<Idle>>
         /\ \A e \in Sleepers : ClosesYet(e)'
<1> DEFINE s == CloseSteps \o << <<"closed">> >>
<1>1. At(Closer, "idle") /\ Then(Closer, s)
  BY DEF BeginClose
<1> HIDE DEF s
<1>2. stack[Closer] = <<Idle>> /\ Closer \in Threads
  BY <1>1, CloserAt, Names
<1>3. OthersStay(Closer) /\ stack'[Closer] = s \o Tail(<<Idle>>)
  BY <1>1, <1>2, ThenMoves
<1>4. /\ InClose(s) /\ s # <<Idle>>
      /\ \A e \in Sleepers : \E i \in DOMAIN s : s[i] = <<"advance", e, "all">>
  BY Plan DEF s, Calls, StateTypes
<1>5. Tail(<<Idle>>) = <<>>
  OBVIOUS
<1>6. s \in Seq(CloseFrames)
  BY <1>4 DEF InClose
<1>7. s \o <<>> = s
  BY <1>6
<1> QED BY <1>2, <1>3, <1>4, <1>5, <1>7 DEF ClosesYet

\* A step of close leaves the rest of it.
LEMMA CloserPops ==
  ASSUME Calls, Then(Closer, <<>>), At(Closer, "bit") \/ At(Closer, "advance")
  PROVE  /\ OthersStay(Closer) /\ stack[Closer] # <<Idle>>
         /\ InClose(stack'[Closer]) /\ stack'[Closer] # <<Idle>>
         /\ \A e \in Sleepers : ClosesYet(e) /\ Doing(Closer) # <<"advance", e, "all">> => ClosesYet(e)'
         /\ \A i \in DOMAIN stack'[Closer] : stack'[Closer][i][1] = "bit" =>
              At(Closer, "bit") /\ \E j \in DOMAIN stack[Closer] : stack[Closer][j][1] = "bit"
<1> DEFINE s == stack[Closer]  u == stack'[Closer]
<1>1. ~At(Closer, "idle") /\ ~At(Closer, "closed")
  BY DEF At
<1>2. InClose(s) /\ s # <<Idle>>
  BY <1>1, CloserAt
<1>3. /\ s \in Seq(CloseFrames) /\ s # <<>>
      /\ \A i \in 1..Len(s) : s[i][1] = "closed" <=> i = Len(s)
      /\ \A i, j \in 1..Len(s) : i < j /\ s[j][1] = "bit" => s[i][1] = "bit"
  BY <1>2 DEF InClose
<1>4. OthersStay(Closer) /\ u = <<>> \o Tail(s)
  BY Names, ThenMoves
<1>5. Doing(Closer) = s[1]
  BY <1>3 DEF Doing
<1> HIDE DEF s, u
<1>6. u = Tail(s)
  BY <1>3, <1>4
<1>7. s[1][1] # "closed"
  BY <1>1, <1>5 DEF At
<1>8. Len(s) > 1
  <2>1. Len(s) \in Nat /\ Len(s) >= 1
    BY <1>3
  <2> QED BY <1>3, <1>7, <2>1
<1>9. /\ u \in Seq(CloseFrames) /\ Len(u) = Len(s) - 1 /\ u # <<>> /\ Len(s) \in Nat
      /\ \A i \in 1..Len(u) : i + 1 \in 1..Len(s) /\ u[i] = s[i + 1]
      /\ DOMAIN u = 1..Len(u) /\ DOMAIN s = 1..Len(s)
  BY <1>3, <1>6, <1>8
<1>10. \A i \in 1..Len(u) : u[i][1] = "closed" <=> i = Len(u)
  <2> TAKE i \in 1..Len(u)
  <2>1. i + 1 \in 1..Len(s) /\ u[i] = s[i + 1]
    BY <1>9
  <2>2. s[i + 1][1] = "closed" <=> i + 1 = Len(s)
    BY <1>3, <2>1
  <2>3. i + 1 = Len(s) <=> i = Len(u)
    BY <1>9
  <2> QED BY <2>1, <2>2, <2>3
<1>11. \A i, j \in 1..Len(u) : i < j /\ u[j][1] = "bit" => u[i][1] = "bit"
  <2> SUFFICES ASSUME NEW i \in 1..Len(u), NEW j \in 1..Len(u), i < j, u[j][1] = "bit" PROVE u[i][1] = "bit"
    OBVIOUS
  <2>1. /\ i + 1 \in 1..Len(s) /\ u[i] = s[i + 1] /\ j + 1 \in 1..Len(s) /\ u[j] = s[j + 1]
        /\ i + 1 < j + 1
    BY <1>9
  <2> QED BY <1>3, <2>1
<1>12. u # <<Idle>>
  <2>1. u[Len(u)][1] = "closed" /\ Len(u) \in 1..Len(u)
    BY <1>9, <1>10
  <2>2. CASE u = <<Idle>>
    <3>1. Len(u) = 1 /\ u[1] = Idle
      BY <2>2
    <3> QED BY <2>1, <3>1 DEF Idle
  <2> QED BY <2>2
<1>13. InClose(u)
  BY <1>9, <1>10, <1>11 DEF InClose
<1>14. ASSUME NEW e \in Sleepers, ClosesYet(e), s[1] # <<"advance", e, "all">>
       PROVE  ClosesYet(e)'
  <2>1. PICK i \in 1..Len(s) : s[i] = <<"advance", e, "all">>
    BY <1>9, <1>14 DEF ClosesYet, s
  <2>2. i # 1
    BY <1>14, <2>1
  <2>3. i - 1 \in 1..Len(u) /\ (i - 1) + 1 = i
    BY <1>9, <2>2
  <2>4. u[i - 1] = <<"advance", e, "all">>
    BY <1>9, <2>1, <2>3
  <2> QED BY <1>9, <2>3, <2>4 DEF ClosesYet, u
<1>15. ASSUME NEW i \in 1..Len(u), u[i][1] = "bit"
       PROVE  s[1][1] = "bit" /\ 1 \in DOMAIN s
  <2>1. i + 1 \in 1..Len(s) /\ s[i + 1][1] = "bit" /\ 1 \in 1..Len(s) /\ 1 < i + 1
    BY <1>9, <1>15
  <2> QED BY <1>3, <1>9, <2>1
<1>16. \A i \in DOMAIN u : u[i][1] = "bit" => At(Closer, "bit") /\ \E j \in DOMAIN s : s[j][1] = "bit"
  BY <1>5, <1>9, <1>15 DEF At
<1> QED BY <1>2, <1>4, <1>5, <1>12, <1>13, <1>14, <1>16 DEF s, u

(* ---------------------- where the threads may be ------------------------- *)
\* The types of the state, by variable.
LEMMA Types ==
  ASSUME Calls
  PROVE  /\ Outline = {} /\ DOMAIN stack = Threads /\ stack = [t \in Threads |-> stack[t]]
         /\ DOMAIN buffer = Threads /\ buffer = [t \in Threads |-> buffer[t]]
         /\ tail \in [Rings -> Nat] /\ closed \in [Rings -> BOOLEAN] /\ head \in [Rings -> Nat]
         /\ cached_head \in [Rings -> Nat] /\ cached_tail \in [Rings -> Nat]
         /\ slots \in [Rings -> [Slots -> Nat]] /\ next \in [Owners -> Shares]
         /\ calls \in [Rings -> Nat] /\ \A r \in Rings : calls[r] <= Pushes[r]
         /\ sent \in [Rings -> Seq(Nat)] /\ got \in [Rings -> Seq(Nat)] /\ skipped \in [Rings -> Nat]
         /\ epoch \in [Sleepers -> Nat] /\ waiters \in [Sleepers -> Int]
         /\ pending \in [Sleepers -> BOOLEAN] /\ sleepers \in [Sleepers -> SUBSET Threads]
         /\ key \in [Threads -> Nat]
  BY DEF Calls, StateTypes, RingTypes, CountTypes, BufferTypes

\* A consumer knows its own stores: where it is in a ring is where the history says.
LEMMA OwnHeadIs ==
  ASSUME Calls, RingsInv, NEW c \in Owners, NEW r \in Rings, Owner(r) = Consumer(c)
  PROVE  /\ OwnHead(c, r) = Len(got[r]) /\ Len(got[r]) \in Nat
         /\ Fenced(Consumer(c)) \/ Clears(Consumer(c)) => head[r] = Len(got[r])
<1> DEFINE stores == buffer[Consumer(c)]
           mine == {i \in DOMAIN stores : ~IsClear(stores[i]) /\ stores[i].ring = r}
<1>1. HeadsInTurn(r) /\ Len(got[r]) \in Nat
  BY Types DEF RingsInv
<1>2. DOMAIN stores \subseteq Nat
  <2>1. CASE Clears(Consumer(c))
    BY <2>1 DEF Clears
  <2>2. CASE ~Clears(Consumer(c))
    BY <2>2, Buffers
  <2> QED BY <2>1, <2>2
<1>3. /\ OwnHead(c, r) = IF mine = {} THEN head[r] ELSE stores[Max(mine)].head
      /\ mine \in SUBSET Nat
      /\ \A i : i \in mine <=> i \in DOMAIN stores /\ Moves(i, r)
      /\ Fenced(Consumer(c)) \/ Clears(Consumer(c)) => mine = {}
  BY <1>2, Buffers DEF OwnHead, Moves, Fenced
<1>4. CASE head[r] = Len(got[r]) /\ ~\E i \in DOMAIN stores : Moves(i, r)
  <2>1. mine = {}
    BY <1>3, <1>4
  <2> QED BY <1>1, <1>3, <1>4, <2>1
<1>5. CASE \E i \in DOMAIN stores : /\ Moves(i, r) /\ stores[i].head = Len(got[r])
                                    /\ \A j \in DOMAIN stores : Moves(j, r) => j <= i
  <2>1. PICK i \in DOMAIN stores : /\ Moves(i, r) /\ stores[i].head = Len(got[r])
                                   /\ \A j \in DOMAIN stores : Moves(j, r) => j <= i
    BY <1>5
  <2>2. i \in mine /\ \A j \in mine : j <= i
    BY <1>3, <2>1
  <2> HIDE DEF mine, stores
  <2>3. Max(mine) = i /\ mine # {}
    BY <1>3, <2>2, MaxIs
  <2> QED BY <1>1, <1>3, <2>1, <2>3
<1> QED BY <1>1, <1>4, <1>5 DEF HeadsInTurn

\* What a consumer knows of the tail, and what a look tells it.
LEMMA KnownTailIs ==
  ASSUME Calls, RingsInv, NEW c \in Owners, NEW r \in Rings, Owner(r) = Consumer(c)
  PROVE  /\ Len(got[r]) <= KnownTail(c, r) /\ KnownTail(c, r) <= tail[r] /\ KnownTail(c, r) \in Nat
         /\ cached_tail[r] <= KnownTail(c, r)
         /\ OwnHead(c, r) = KnownTail(c, r) => Empty(r)
         /\ OwnHead(c, r) # KnownTail(c, r) => Len(got[r]) < tail[r]
<1>1. OwnHead(c, r) = Len(got[r]) /\ Len(got[r]) \in Nat
  BY OwnHeadIs
<1>2. /\ Len(got[r]) <= cached_tail[r] /\ cached_tail[r] <= tail[r]
      /\ cached_tail[r] \in Nat /\ tail[r] \in Nat
  BY Types DEF RingsInv, IndicesInTurn
<1>3. CASE OwnHead(c, r) = cached_tail[r]
  <2>1. KnownTail(c, r) = tail[r]
    BY <1>3 DEF KnownTail
  <2> QED BY <1>1, <1>2, <1>3, <2>1 DEF Empty
<1>4. CASE OwnHead(c, r) # cached_tail[r]
  <2>1. KnownTail(c, r) = cached_tail[r]
    BY <1>4 DEF KnownTail
  <2> QED BY <1>1, <1>2, <1>4, <2>1
<1> QED BY <1>3, <1>4

\* What a producer knows of the head.
LEMMA KnownHeadIs ==
  ASSUME Calls, RingsInv, NEW r \in Rings
  PROVE  /\ cached_head[r] <= KnownHead(r) /\ KnownHead(r) <= head[r] /\ KnownHead(r) \in Nat
         /\ tail[r] <= KnownHead(r) + kRing
         /\ ~Full(r) => tail[r] < KnownHead(r) + kRing
         /\ Full(r) => tail[r] = head[r] + kRing
<1>1. /\ cached_head[r] <= head[r] /\ tail[r] <= cached_head[r] + kRing
      /\ head[r] <= tail[r] /\ head[r] \in Nat /\ cached_head[r] \in Nat /\ tail[r] \in Nat
      /\ kRing \in Nat
  BY Types, Sizes DEF RingsInv, IndicesInTurn
<1> QED BY <1>1 DEF KnownHead, Full

\* A step of a thread leaves the others where they are.
LEMMA ProducerStays ==
  ASSUME Calls, NEW r \in Rings, OthersStay(Producer(r)), InPush(stack'[Producer(r)], r)
  PROVE  InCalls' /\ DOMAIN stack' = Threads /\ stack' = [t \in Threads |-> stack'[t]]
<1>1. \A q \in Rings : InPush(stack'[Producer(q)], q)
  <2> TAKE q \in Rings
  <2>1. CASE Producer(q) = Producer(r)
    BY <2>1, Names
  <2>2. CASE Producer(q) # Producer(r)
    BY <2>2, Names DEF OthersStay, Calls, InCalls
  <2> QED BY <2>1, <2>2
<1>2. \A c \in Owners : InPop(stack'[Consumer(c)], c)
  BY Names DEF OthersStay, Calls, InCalls
<1>3. InClose(stack'[Closer])
  BY Names DEF OthersStay, Calls, InCalls
<1> QED BY <1>1, <1>2, <1>3 DEF InCalls, OthersStay

\* A step of a consumer leaves the others where they are.
LEMMA WorkerStays ==
  ASSUME Calls, NEW c \in Owners, OthersStay(Consumer(c)), InPop(stack'[Consumer(c)], c)
  PROVE  InCalls' /\ DOMAIN stack' = Threads /\ stack' = [t \in Threads |-> stack'[t]]
<1>1. \A q \in Rings : InPush(stack'[Producer(q)], q)
  BY Names DEF OthersStay, Calls, InCalls
<1>2. \A d \in Owners : InPop(stack'[Consumer(d)], d)
  <2> TAKE d \in Owners
  <2>1. CASE Consumer(d) = Consumer(c)
    BY <2>1, Names
  <2>2. CASE Consumer(d) # Consumer(c)
    BY <2>2, Names DEF OthersStay, Calls, InCalls
  <2> QED BY <2>1, <2>2
<1>3. InClose(stack'[Closer])
  BY Names DEF OthersStay, Calls, InCalls
<1> QED BY <1>1, <1>2, <1>3 DEF InCalls, OthersStay

\* A step of close leaves the others where they are.
LEMMA CloserStays ==
  ASSUME Calls, OthersStay(Closer), InClose(stack'[Closer])
  PROVE  InCalls' /\ DOMAIN stack' = Threads /\ stack' = [t \in Threads |-> stack'[t]]
<1>1. \A q \in Rings : InPush(stack'[Producer(q)], q)
  BY Names DEF OthersStay, Calls, InCalls
<1>2. \A d \in Owners : InPop(stack'[Consumer(d)], d)
  BY Names DEF OthersStay, Calls, InCalls
<1> QED BY <1>1, <1>2 DEF InCalls, OthersStay

\* The buffers stay as they are, or a thread clears its pending_.
LEMMA BuffersStay ==
  ASSUME Calls, buffer' = buffer
  PROVE  BufferTypes'
  BY DEF Calls, StateTypes, BufferTypes, Fenced, Clears

\* A waiter that takes its key has only the clear of pending_ to store.
LEMMA BufferClears ==
  ASSUME Calls, NEW t \in Sleepers, buffer' = [buffer EXCEPT ![t] = <<ClearPending(t)>>]
  PROVE  BufferTypes' /\ Clears(t)' /\ \A u \in Threads : u # t => buffer'[u] = buffer[u]
<1>1. /\ buffer'[t] = <<ClearPending(t)>> /\ \A u \in Threads : u # t => buffer'[u] = buffer[u]
      /\ DOMAIN buffer' = Threads /\ buffer' = [u \in Threads |-> buffer'[u]]
  BY Types, Names
<1>2. \A r \in Rings : Fenced(Producer(r))' \/ Clears(Producer(r))'
  <2> TAKE r \in Rings
  <2>1. CASE Producer(r) = t
    BY <1>1, <2>1 DEF Clears
  <2>2. CASE Producer(r) # t
    BY <1>1, <2>2, Names DEF Calls, StateTypes, BufferTypes, Fenced, Clears
  <2> QED BY <2>1, <2>2
<1>3. Fenced(Closer)'
  BY <1>1, Names DEF Calls, StateTypes, BufferTypes, Fenced
<1>4. \A c \in Owners : \/ Clears(Consumer(c))'
                        \/ /\ buffer'[Consumer(c)] \in Seq(HeadStore)
                           /\ \A i \in DOMAIN buffer'[Consumer(c)] :
                                Owner(buffer'[Consumer(c)][i].ring) = Consumer(c)
  <2> TAKE c \in Owners
  <2>1. CASE Consumer(c) = t
    BY <1>1, <2>1 DEF Clears
  <2>2. CASE Consumer(c) # t
    <3>1. buffer'[Consumer(c)] = buffer[Consumer(c)]
      BY <1>1, <2>2, Names
    <3> QED BY <3>1 DEF Calls, StateTypes, BufferTypes, Clears
  <2> QED BY <2>1, <2>2
<1> QED BY <1>1, <1>2, <1>3, <1>4 DEF BufferTypes, Clears

\* The steps of waiters and notifiers keep the types of the event counts.
LEMMA CountsTyped ==
  ASSUME Calls, NEW t \in Threads, NEW e \in Sleepers,
         \/ ReadKey(t, e) \/ Announce(t, e) \/ CancelWait(t, e) \/ Sleep(t, e)
         \/ LeaveWait(t, e, Deadlines) \/ ClaimWake(t, e) \/ Advance(t, e) \/ WakeOne(e)
         \/ AdvanceAndWakeAll(t, e) \/ UNCHANGED counts
  PROVE  CountTypes'
<1>1. CASE ReadKey(t, e)
  BY <1>1, Types DEF ReadKey, CountTypes
<1>2. CASE Announce(t, e)
  BY <1>2, Types DEF Announce, CountTypes
<1>3. CASE CancelWait(t, e)
  BY <1>3, Types DEF CancelWait, CountTypes
<1>4. CASE Sleep(t, e)
  BY <1>4, Types DEF Sleep, CountTypes
<1>5. CASE LeaveWait(t, e, Deadlines)
  BY <1>5, Types DEF LeaveWait, CountTypes
<1>6. CASE ClaimWake(t, e)
  BY <1>6, Types DEF ClaimWake, CountTypes
<1>7. CASE Advance(t, e)
  BY <1>7, Types DEF Advance, CountTypes
<1>8. CASE WakeOne(e)
  <2>1. sleepers' \in [Sleepers -> SUBSET Threads]
    <3>1. CASE UNCHANGED sleepers
      BY <3>1, Types
    <3>2. CASE ~UNCHANGED sleepers
      <4>1. PICK u \in sleepers[e] : sleepers' = [sleepers EXCEPT ![e] = @ \ {u}]
        BY <1>8, <3>2 DEF WakeOne
      <4> QED BY <4>1, Types
    <3> QED BY <3>1, <3>2
  <2> QED BY <1>8, <2>1, Types DEF WakeOne, CountTypes
<1>9. CASE AdvanceAndWakeAll(t, e)
  BY <1>9, Types DEF AdvanceAndWakeAll, CountTypes
<1>10. CASE UNCHANGED counts
  BY <1>10, Types DEF counts, CountTypes
<1> QED BY <1>1, <1>2, <1>3, <1>4, <1>5, <1>6, <1>7, <1>8, <1>9, <1>10

\* What a step of a thread t on its own count, or of a notification by t, does to the
\* buffers.
LEMMA CountsBuffered ==
  ASSUME Calls, NEW t \in Sleepers, NEW e \in Sleepers,
         \/ ReadKey(t, t) \/ Announce(t, t) \/ CancelWait(t, t) \/ Sleep(t, t)
         \/ LeaveWait(t, t, Deadlines) \/ (UNCHANGED buffer) \/ ClaimWake(t, e) \/ Advance(t, e) \/ WakeOne(e)
  PROVE  /\ BufferTypes' /\ \A u \in Threads : u # t => buffer'[u] = buffer[u]
         /\ buffer' = buffer \/ (Fenced(t) /\ Clears(t)')
<1>1. \/ buffer' = buffer
      \/ Fenced(t) /\ buffer' = [buffer EXCEPT ![t] = <<ClearPending(t)>>]
  BY Types DEF ReadKey, Announce, CancelWait, Sleep, LeaveWait, ClaimWake, Advance, WakeOne
<1> QED BY <1>1, BuffersStay, BufferClears

\* Where the steps of waiting and notifying leave a thread.
LEMMA ProducerCounts ==
  ASSUME Calls, NEW r \in Rings, NEW t, t = Producer(r),
         WaitSteps(t, t, Deadlines) \/ NotifySteps(t)
  PROVE  InCalls' /\ DOMAIN stack' = Threads /\ stack' = [u \in Threads |-> stack'[u]] /\ CountTypes' /\ BufferTypes'
<1>0. t \in Sleepers /\ t \in Threads
  BY Names
<1>1. CASE WaitSteps(t, t, Deadlines)
  <2>1. CountTypes' /\ BufferTypes'
    BY <1>0, <1>1, ProducerWaits, CountsTyped, CountsBuffered
  <2>2. CASE UNCHANGED stack
    BY <2>1, <2>2 DEF Calls, StateTypes, InCalls
  <2>3. CASE ~UNCHANGED stack
    <3>1. OthersStay(t) /\ InPush(stack'[t], r)
      BY <1>1, <2>3, ProducerWaits DEF Goes, InPush, Idle, Cancel
    <3> QED BY <2>1, <3>1, ProducerStays
  <2> QED BY <2>2, <2>3
<1>2. CASE NotifySteps(t)
  <2> DEFINE f == Doing(t)
  <2>1. OthersStay(t) /\ f = <<f[1], f[2], "one">> /\ f[2] \in Sleepers /\ f[1] \in Noticed
    BY <1>0, <1>2, NotifyMoves DEF Noticed
  <2>2. IsNotice(f, Owner(r)) /\ stack[t] \in {<<f, Idle>>, <<f, Cancel, Idle>>}
    BY <2>1, ProducerAt DEF Cancel
  <2>3. f[2] = Owner(r)
    BY <2>2 DEF IsNotice
  <2>4. CountTypes' /\ BufferTypes'
    <3>1. \/ UNCHANGED counts /\ UNCHANGED buffer
          \/ ClaimWake(t, f[2]) \/ Advance(t, f[2]) \/ WakeOne(f[2])
      BY <1>0, <1>2, NotifyMoves
    <3> HIDE DEF f
    <3> QED BY <1>0, <2>1, <3>1, CountsTyped, CountsBuffered
  <2>5. \/ Then(t, <<>>)
        \/ \E g : IsNotice(g, Owner(r)) /\ Then(t, <<g>>)
    BY <1>0, <1>2, <2>3, NotifyMoves DEF IsNotice
  <2>6. InPush(stack'[t], r)
    <3>1. CASE Then(t, <<>>)
      <4>1. stack'[t] \in {<<Idle>>, <<Cancel, Idle>>}
        <5>1. CASE stack[t] = <<f, Idle>>
          <6> HIDE DEF f
          <6> QED BY <1>0, <3>1, <5>1, ThenOnTwo
        <5>2. CASE stack[t] = <<f, Cancel, Idle>>
          <6> HIDE DEF f
          <6>1. stack'[t] = <<>> \o Tail(stack[t])
            BY <1>0, <3>1, ThenMoves
          <6>2. Tail(stack[t]) = <<Cancel, Idle>>
            BY <5>2
          <6>3. <<>> \o <<Cancel, Idle>> = <<Cancel, Idle>>
            OBVIOUS
          <6> QED BY <6>1, <6>2, <6>3
        <5> QED BY <2>2, <5>1, <5>2
      <4> QED BY <4>1 DEF InPush, Idle, Cancel
    <3>2. CASE \E g : IsNotice(g, Owner(r)) /\ Then(t, <<g>>)
      <4>1. PICK g : IsNotice(g, Owner(r)) /\ Then(t, <<g>>)
        BY <3>2
      <4>2. stack'[t] \in {<<g, Idle>>, <<g, Cancel, Idle>>}
        BY <1>0, <2>2, <4>1, ThenOnTwo, ThenOnThree
      <4>3. Head(stack'[t]) = g
        BY <4>2
      <4> QED BY <4>1, <4>2, <4>3 DEF InPush, Cancel
    <3> QED BY <2>5, <3>1, <3>2
  <2> QED BY <2>1, <2>4, <2>6, ProducerStays
<1> QED BY <1>1, <1>2

\* prepare_wait, cancel_wait and wait keep a worker in its places, and so do its notices.
LEMMA WorkerCounts ==
  ASSUME Calls, NEW c \in Owners, NEW t, t = Consumer(c),
         WaitSteps(t, t, Deadlines) \/ NotifySteps(t)
  PROVE  InCalls' /\ DOMAIN stack' = Threads /\ stack' = [u \in Threads |-> stack'[u]] /\ CountTypes' /\ BufferTypes'
<1>0. t \in Sleepers /\ t \in Threads /\ 0 \in Shares
  BY Names, Sharing DEF Shares
<1>1. CASE WaitSteps(t, t, Deadlines)
  <2>1. CountTypes' /\ BufferTypes'
    BY <1>0, <1>1, WorkerWaits, CountsTyped, CountsBuffered
  <2>2. CASE UNCHANGED stack
    BY <2>1, <2>2 DEF Calls, StateTypes, InCalls
  <2>3. CASE ~UNCHANGED stack
    <3>1. OthersStay(t) /\ InPop(stack'[t], c)
      BY <1>0, <1>1, <2>3, WorkerWaits DEF Goes, InPop, Scan, From, Cancel
    <3> QED BY <2>1, <3>1, WorkerStays
  <2> QED BY <2>2, <2>3
<1>2. CASE NotifySteps(t)
  <2> DEFINE f == Doing(t)
  <2>1. OthersStay(t) /\ f = <<f[1], f[2], "one">> /\ f[2] \in Sleepers /\ f[1] \in Noticed
    BY <1>0, <1>2, NotifyMoves DEF Noticed
  <2>2. PICK r \in Rings : Owner(r) = t /\ IsNotice(f, Producer(r))
    BY <2>1, WorkerAt
  <2>3. f[2] = Producer(r) /\ stack[t] \in {<<f, From>>, <<f, Cancel, From>>}
    BY <2>1, <2>2, WorkerAt DEF IsNotice, Cancel
  <2>4. CountTypes' /\ BufferTypes'
    <3>1. \/ UNCHANGED counts /\ UNCHANGED buffer
          \/ ClaimWake(t, f[2]) \/ Advance(t, f[2]) \/ WakeOne(f[2])
      BY <1>0, <1>2, NotifyMoves
    <3> HIDE DEF f
    <3> QED BY <1>0, <2>1, <3>1, CountsTyped, CountsBuffered
  <2>5. \/ Then(t, <<>>)
        \/ \E g : IsNotice(g, Producer(r)) /\ Then(t, <<g>>)
    BY <1>0, <1>2, <2>3, NotifyMoves DEF IsNotice
  <2>6. InPop(stack'[t], c)
    <3>1. CASE Then(t, <<>>)
      <4>1. stack'[t] \in {<<From>>, <<Cancel, From>>}
        <5>1. CASE stack[t] = <<f, From>>
          <6> HIDE DEF f
          <6> QED BY <1>0, <3>1, <5>1, ThenOnTwo
        <5>2. CASE stack[t] = <<f, Cancel, From>>
          <6> HIDE DEF f
          <6>1. stack'[t] = <<>> \o Tail(stack[t])
            BY <1>0, <3>1, ThenMoves
          <6>2. Tail(stack[t]) = <<Cancel, From>>
            BY <5>2
          <6>3. <<>> \o <<Cancel, From>> = <<Cancel, From>>
            OBVIOUS
          <6> QED BY <6>1, <6>2, <6>3
        <5> QED BY <2>3, <5>1, <5>2
      <4> QED BY <1>0, <4>1 DEF InPop, Cancel, From, Scan
    <3>2. CASE \E g : IsNotice(g, Producer(r)) /\ Then(t, <<g>>)
      <4>1. PICK g : IsNotice(g, Producer(r)) /\ Then(t, <<g>>)
        BY <3>2
      <4>2. stack'[t] \in {<<g, From>>, <<g, Cancel, From>>}
        BY <1>0, <2>3, <4>1, ThenOnTwo, ThenOnThree
      <4>3. Head(stack'[t]) = g
        BY <4>2
      <4> QED BY <2>2, <4>1, <4>2, <4>3 DEF InPop, Cancel, From, Scan
    <3> QED BY <2>5, <3>1, <3>2
  <2> QED BY <2>1, <2>4, <2>6, WorkerStays
<1> QED BY <1>1, <1>2

\* push stays in its places.
LEMMA PushingCalls ==
  ASSUME Calls, RingsInv, Outline' = Outline, NEW r \in Rings, BeginPush(r) \/ Pushing(r)
  PROVE  Calls'
<1> DEFINE t == Producer(r)
<1>0. t \in Threads /\ t \in Sleepers
  BY Names
<1>1. CASE Waiting(t) \/ Notifying(t)
  <2>1. UNCHANGED <<rings, next, history>> /\ (WaitSteps(t, t, Deadlines) \/ NotifySteps(t))
    BY <1>1 DEF Waiting, Notifying
  <2>2. RingTypes'
    BY <2>1 DEF Calls, StateTypes, RingTypes, rings, history
  <2> QED BY <2>1, <2>2, ProducerCounts DEF Calls, StateTypes
<1>2. CASE BeginPush(r) \/ PushClosed(r) \/ PushFull(r) \/ PushWrite(r) \/ Publish(r)
  <2>1. CountTypes' /\ BufferTypes'
    <3>1. UNCHANGED counts /\ UNCHANGED buffer
      BY <1>2 DEF BeginPush, PushClosed, PushFull, PushWrite, Publish
    <3> QED BY <1>0, <3>1, CountsTyped, BuffersStay
  <2>2. OthersStay(t) /\ InPush(stack'[t], r)
    <3>1. CASE BeginPush(r)
      BY <3>1, BeginPushMoves DEF Goes, InPush, Idle
    <3>2. CASE PushClosed(r)
      BY <3>2, PushClosedMoves DEF Goes, InPush, Idle, Cancel
    <3>3. CASE PushFull(r)
      BY <3>3, PushFullMoves DEF Goes, InPush, Idle, Cancel
    <3>4. CASE PushWrite(r)
      BY <3>4, PushWriteMoves DEF Goes, InPush, Idle, Cancel
    <3>5. CASE Publish(r)
      <4>1. OthersStay(t) /\ stack'[t] \in {<<Idle>>, <<Cancel, Idle>>, <<Look(Owner(r)), Idle>>, <<Look(Owner(r)), Cancel, Idle>>}
        BY <3>5, PublishMoves DEF Goes
      <4>2. CASE stack'[t] \in {<<Look(Owner(r)), Idle>>, <<Look(Owner(r)), Cancel, Idle>>}
        <5>1. Head(stack'[t]) = Look(Owner(r)) /\ IsNotice(Look(Owner(r)), Owner(r))
          BY <4>2 DEF IsNotice, Look
        <5> QED BY <4>1, <4>2, <5>1 DEF InPush, Cancel
      <4>3. CASE stack'[t] \in {<<Idle>>, <<Cancel, Idle>>}
        BY <4>1, <4>3 DEF InPush, Cancel
      <4> QED BY <4>1, <4>2, <4>3
    <3> QED BY <1>2, <3>1, <3>2, <3>3, <3>4, <3>5
  <2>3. RingTypes'
    <3>1. CASE BeginPush(r)
      <4>1. calls' = [calls EXCEPT ![r] = @ + 1] /\ calls[r] < Pushes[r] /\ Pushes[r] \in Nat
        BY <3>1, ShardsAssumption DEF BeginPush
      <4>2. calls' \in [Rings -> Nat] /\ \A q \in Rings : calls'[q] <= Pushes[q]
        BY SMTT(30), <4>1, Types
      <4> QED BY <3>1, <4>2, Types DEF BeginPush, RingTypes, rings
    <3>2. CASE PushClosed(r)
      BY <3>2, Types DEF PushClosed, RingTypes, rings, history
    <3>3. CASE PushFull(r)
      <4>1. cached_head' \in [Rings -> Nat]
        BY <3>3, Types, KnownHeadIs DEF PushFull
      <4> QED BY <3>3, <4>1, Types DEF PushFull, RingTypes, history
    <3>4. CASE PushWrite(r)
      <4>1. cached_head' \in [Rings -> Nat]
        BY <3>4, Types, KnownHeadIs DEF PushWrite
      <4>2. slots' \in [Rings -> [Slots -> Nat]]
        BY <3>4, Types DEF PushWrite
      <4> QED BY <3>4, <4>1, <4>2, Types DEF PushWrite, RingTypes, history
    <3>5. CASE Publish(r)
      <4>1. tail' \in [Rings -> Nat] /\ sent' \in [Rings -> Seq(Nat)]
        <5>1. CASE closed[r]
          BY <3>5, <5>1, Types DEF Publish
        <5>2. CASE ~closed[r]
          <6>1. calls[r] \in Nat /\ sent[r] \in Seq(Nat) /\ tail[r] + 1 \in Nat
            BY Types
          <6>2. Append(sent[r], calls[r]) \in Seq(Nat)
            BY <6>1
          <6>3. sent' = [sent EXCEPT ![r] = Append(@, calls[r])] /\ tail' = [tail EXCEPT ![r] = @ + 1]
            BY <3>5, <5>2 DEF Publish
          <6> QED BY <6>1, <6>2, <6>3, Types
        <5> QED BY <5>1, <5>2
      <4> QED BY <3>5, <4>1, Types DEF Publish, RingTypes
    <3> QED BY <1>2, <3>1, <3>2, <3>3, <3>4, <3>5
  <2>4. InCalls' /\ DOMAIN stack' = Threads /\ stack' = [u \in Threads |-> stack'[u]]
    BY <2>2, ProducerStays
  <2> QED BY <2>1, <2>3, <2>4 DEF Calls, StateTypes
<1> QED BY <1>1, <1>2 DEF Pushing

\* The i-th ring from next is one of the consumer's, and so is the next one.
LEMMA IndexIs ==
  ASSUME Calls, NEW c \in Owners, NEW t, t = Consumer(c), At(t, "scan")
  PROVE  /\ Index(c) \in Shares /\ next[c] \in Shares /\ Doing(t)[2] \in Shares
         /\ Index(c) = IF next[c] + Doing(t)[2] < kOwned THEN next[c] + Doing(t)[2]
                       ELSE (next[c] + Doing(t)[2]) - kOwned
         /\ \A i \in Shares : NextAfter(i) \in Shares /\ NextAfter(i) = IF i + 1 < kOwned THEN i + 1 ELSE 0
         /\ RingOf(c, Index(c)) \in Rings /\ Owner(RingOf(c, Index(c))) = t
<1> DEFINE k == Doing(t)[2]
<1>1. k \in Shares /\ next[c] \in Shares /\ kOwned \in Nat /\ kOwned >= 1
  BY WorkerAt, Types, Sharing
<1>2. Index(c) = (next[c] + k) % kOwned
  BY DEF Index
<1> HIDE DEF k
<1>5. Index(c) = IF next[c] + k < kOwned THEN next[c] + k ELSE (next[c] + k) - kOwned
  <2>1. next[c] + k \in Nat /\ next[c] + k < kOwned + kOwned
    BY <1>1 DEF Shares
  <2>2. (next[c] + k) % kOwned = IF next[c] + k < kOwned THEN next[c] + k ELSE (next[c] + k) - kOwned
    BY <1>1, <2>1, LapOnce, Zenon
  <2> QED BY <1>1, <1>2, <2>1, <2>2 DEF Shares
<1>6. Index(c) \in Shares
  BY <1>1, <1>5 DEF Shares
<1>7. ASSUME NEW i \in Shares
      PROVE  NextAfter(i) \in Shares /\ NextAfter(i) = IF i + 1 < kOwned THEN i + 1 ELSE 0
  <2>1. i + 1 \in Nat /\ i + 1 < kOwned + kOwned /\ (i + 1 >= kOwned => i + 1 = kOwned)
    BY <1>1 DEF Shares
  <2>2. NextAfter(i) = (i + 1) % kOwned
    BY DEF NextAfter
  <2>3. NextAfter(i) = IF i + 1 < kOwned THEN i + 1 ELSE 0
    BY <1>1, <2>1, <2>2, LapOnce
  <2> QED BY <1>1, <2>3 DEF Shares
<1> QED BY <1>1, <1>5, <1>6, <1>7, Sharing DEF k

\* The consumer's store of a head goes to the end of its buffer.
LEMMA PopRingBuffer ==
  ASSUME Calls, RingsInv, NEW c \in Owners, NEW t, t = Consumer(c), PopRing(c),
         NEW r, r = RingOf(c, Index(c))
  PROVE  /\ r \in Rings /\ Owner(r) = t /\ At(t, "scan") /\ t \in Threads /\ t \in Sleepers
         /\ OwnHead(c, r) = Len(got[r]) /\ Len(got[r]) < tail[r]
         /\ buffer[t] \in Seq(HeadStore) /\ \A i \in DOMAIN buffer[t] : ~IsClear(buffer[t][i])
         /\ buffer' = [buffer EXCEPT ![t] = Append(@, [ring |-> r, head |-> Len(got[r]) + 1])]
         /\ buffer'[t] \in Seq(HeadStore)
         /\ Len(buffer'[t]) = Len(buffer[t]) + 1 /\ Len(buffer[t]) \in Nat
         /\ \A i \in 1..Len(buffer[t]) : buffer'[t][i] = buffer[t][i]
         /\ buffer'[t][Len(buffer[t]) + 1] = [ring |-> r, head |-> Len(got[r]) + 1]
         /\ BufferTypes' /\ \A u \in Threads : u # t => buffer'[u] = buffer[u]
<1>1. Scanning(c) /\ OwnHead(c, r) # KnownTail(c, r)
      /\ buffer' = [buffer EXCEPT ![t] = Append(@, [ring |-> r, head |-> OwnHead(c, r) + 1])]
  BY DEF PopRing
<1>2. At(t, "scan") /\ ~Clears(t) /\ t \in Threads /\ t \in Sleepers
  BY <1>1, ScanningMeans, Names
<1>3. r \in Rings /\ Owner(r) = t
  BY <1>2, IndexIs
<1>4. OwnHead(c, r) = Len(got[r]) /\ Len(got[r]) < tail[r] /\ Len(got[r]) \in Nat
  BY <1>1, <1>3, OwnHeadIs, KnownTailIs
<1>5. /\ buffer[t] \in Seq(HeadStore)
      /\ \A i \in DOMAIN buffer[t] : ~IsClear(buffer[t][i]) /\ Owner(buffer[t][i].ring) = t
  BY <1>2, Buffers
<1> DEFINE new == [ring |-> r, head |-> Len(got[r]) + 1]
<1>6. new \in HeadStore /\ new.ring = r
  BY <1>3, <1>4 DEF HeadStore
<1>7. /\ buffer'[t] = Append(buffer[t], new)
      /\ \A u \in Threads : u # t => buffer'[u] = buffer[u]
      /\ DOMAIN buffer' = Threads /\ buffer' = [u \in Threads |-> buffer'[u]]
  BY <1>1, <1>2, <1>4, Types
<1> HIDE DEF new
<1>8. /\ buffer'[t] \in Seq(HeadStore) /\ Len(buffer'[t]) = Len(buffer[t]) + 1 /\ Len(buffer[t]) \in Nat
      /\ \A i \in 1..Len(buffer[t]) : buffer'[t][i] = buffer[t][i]
      /\ buffer'[t][Len(buffer[t]) + 1] = new
  BY <1>5, <1>6, <1>7
<1>9. \A i \in DOMAIN buffer'[t] : Owner(buffer'[t][i].ring) = t
  <2> TAKE i \in DOMAIN buffer'[t]
  <2>1. i \in 1..Len(buffer[t]) \/ i = Len(buffer[t]) + 1
    BY <1>8
  <2>2. CASE i = Len(buffer[t]) + 1
    BY <1>3, <1>6, <1>8, <2>2
  <2>3. CASE i \in 1..Len(buffer[t])
    <3>1. i \in DOMAIN buffer[t]
      BY <1>5, <2>3
    <3> QED BY <1>5, <1>8, <2>3, <3>1
  <2> QED BY <2>1, <2>2, <2>3
<1>10. BufferTypes'
  <2>1. \A q \in Rings : Fenced(Producer(q))' \/ Clears(Producer(q))'
    BY <1>7, Names DEF Calls, StateTypes, BufferTypes, Fenced, Clears
  <2>2. Fenced(Closer)'
    BY <1>7, Names DEF Calls, StateTypes, BufferTypes, Fenced
  <2>3. \A d \in Owners : \/ Clears(Consumer(d))'
                          \/ /\ buffer'[Consumer(d)] \in Seq(HeadStore)
                             /\ \A i \in DOMAIN buffer'[Consumer(d)] :
                                  Owner(buffer'[Consumer(d)][i].ring) = Consumer(d)
    <3> TAKE d \in Owners
    <3>1. CASE Consumer(d) = t
      BY <1>8, <1>9, <3>1
    <3>2. CASE Consumer(d) # t
      <4>1. buffer'[Consumer(d)] = buffer[Consumer(d)]
        BY <1>7, <3>2, Names
      <4> QED BY <4>1 DEF Calls, StateTypes, BufferTypes, Clears
    <3> QED BY <3>1, <3>2
  <2> QED BY <1>7, <2>1, <2>2, <2>3 DEF BufferTypes
<1> QED BY <1>1, <1>2, <1>3, <1>4, <1>5, <1>7, <1>8, <1>10 DEF new

\* pop stays in its places.
LEMMA PoppingCalls ==
  ASSUME Calls, RingsInv, Outline' = Outline, NEW c \in Owners, Popping(c)
  PROVE  Calls'
<1> DEFINE t == Consumer(c)
<1>0. t \in Threads /\ t \in Sleepers /\ 0 \in Shares
  BY Names, Sharing DEF Shares
<1>1. CASE Waiting(t) \/ Notifying(t)
  <2>1. UNCHANGED <<rings, next, history>> /\ (WaitSteps(t, t, Deadlines) \/ NotifySteps(t))
    BY <1>1 DEF Waiting, Notifying
  <2>2. RingTypes'
    BY <2>1 DEF Calls, StateTypes, RingTypes, rings, history
  <2> QED BY <2>1, <2>2, WorkerCounts DEF Calls, StateTypes
<1>2. CASE PopRing(c)
  <2> DEFINE r == RingOf(c, Index(c))
  <2>1. /\ r \in Rings /\ Owner(r) = t /\ At(t, "scan") /\ BufferTypes'
        /\ OwnHead(c, r) = Len(got[r]) /\ KnownTail(c, r) \in Nat
    BY <1>2, PopRingBuffer, KnownTailIs
  <2>2. CountTypes'
    <3>1. UNCHANGED counts
      BY <1>2 DEF PopRing
    <3> QED BY <1>0, <3>1, CountsTyped
  <2>3. Index(c) \in Shares /\ NextAfter(Index(c)) \in Shares /\ Doing(t)[3] \in {"top", "recheck"}
    BY <2>1, IndexIs, WorkerAt
  <2>4. RingTypes'
    <3>1. cached_tail' = [cached_tail EXCEPT ![r] = KnownTail(c, r)] /\ next' = [next EXCEPT ![c] = NextAfter(Index(c))]
          /\ got' = [got EXCEPT ![r] = Append(@, slots[r][OwnHead(c, r) % kRing])]
      BY <1>2 DEF PopRing
    <3>2. cached_tail' \in [Rings -> Nat] /\ next' \in [Owners -> Shares]
      BY <2>1, <2>3, <3>1, Types
    <3>3. got' \in [Rings -> Seq(Nat)]
      <4>1. Len(got[r]) \in Nat /\ got[r] \in Seq(Nat) /\ slots[r] \in [Slots -> Nat]
        BY <2>1, Types
      <4>2. Len(got[r]) % kRing \in Slots
        <5>1. kRing \in Nat /\ kRing >= 1
          BY Sizes
        <5> HIDE DEF r
        <5> QED BY <4>1, <5>1, LapRange DEF Slots
      <4>3. Append(got[r], slots[r][Len(got[r]) % kRing]) \in Seq(Nat)
        BY <4>1, <4>2
      <4> HIDE DEF r
      <4> QED BY <2>1, <3>1, <4>3, Types
    <3>4. skipped' \in [Rings -> Nat]
      <4>1. skipped' = [s \in Rings |-> IF Owner(s) # t THEN skipped[s]
                                ELSE IF s = r \/ OwnHead(c, s) = tail[s] THEN 0
                                ELSE skipped[s] + 1]
        BY <1>2 DEF PopRing
      <4> HIDE DEF r
      <4> QED BY <4>1, Types
    <3>5. UNCHANGED <<tail, closed, head, cached_head, slots, calls, sent>>
      BY <1>2 DEF PopRing
    <3> QED BY <3>2, <3>3, <3>4, <3>5, Types DEF RingTypes
  <2>5. InPop(stack'[t], c) /\ OthersStay(t)
    <3>1. /\ OthersStay(t)
          /\ stack'[t] \in {<<From>>, <<Cancel, From>>, <<Look(Producer(r)), From>>, <<Look(Producer(r)), Cancel, From>>}
      BY <1>2, <2>3, PopRingMoves
    <3>2. CASE stack'[t] \in {<<Look(Producer(r)), From>>, <<Look(Producer(r)), Cancel, From>>}
      <4>1. Head(stack'[t]) = Look(Producer(r)) /\ IsNotice(Look(Producer(r)), Producer(r))
        BY <3>2 DEF IsNotice, Look
      <4> QED BY <2>1, <3>1, <3>2, <4>1 DEF InPop, Cancel, From, Scan
    <3>3. CASE stack'[t] \in {<<From>>, <<Cancel, From>>}
      BY <1>0, <3>1, <3>3 DEF InPop, Cancel, From, Scan
    <3> QED BY <3>1, <3>2, <3>3
  <2>6. InCalls' /\ DOMAIN stack' = Threads /\ stack' = [u \in Threads |-> stack'[u]]
    BY <2>5, WorkerStays
  <2> QED BY <2>1, <2>2, <2>4, <2>6 DEF Calls, StateTypes
<1>3. CASE PopMiss(c) \/ AnyClosed(c) \/ Drained(c)
  <2>1. CountTypes' /\ BufferTypes'
    <3>1. UNCHANGED counts /\ UNCHANGED buffer
      BY <1>3 DEF PopMiss, AnyClosed, Drained
    <3> QED BY <1>0, <3>1, CountsTyped, BuffersStay
  <2>2. RingTypes'
    <3>1. CASE PopMiss(c)
      <4>1. Scanning(c)
        BY <3>1 DEF PopMiss
      <4>2. RingOf(c, Index(c)) \in Rings /\ Owner(RingOf(c, Index(c))) = t
        BY <4>1, ScanningMeans, IndexIs
      <4>3. KnownTail(c, RingOf(c, Index(c))) \in Nat
        BY <4>2, KnownTailIs
      <4>4. cached_tail' \in [Rings -> Nat]
        BY <3>1, <4>2, <4>3, Types DEF PopMiss
      <4> QED BY <3>1, <4>4, Types DEF PopMiss, RingTypes, history
    <3>2. CASE AnyClosed(c) \/ Drained(c)
      BY <3>2, Types DEF AnyClosed, Drained, RingTypes, rings, history
    <3> QED BY <1>3, <3>1, <3>2
  <2>3. InPop(stack'[t], c) /\ OthersStay(t)
    <3>1. CASE PopMiss(c)
      <4> DEFINE k == Doing(t)[2]  where == Doing(t)[3]
      <4>1. k \in Shares /\ where \in {"top", "recheck"}
        BY <3>1, ScanningMeans DEF PopMiss
      <4>2. /\ OthersStay(t)
            /\ \/ k + 1 < kOwned /\ stack'[t] = <<Scan(k + 1, where)>>
               \/ ~(k + 1 < kOwned) /\ stack'[t] = <<AnyOf(0, where)>>
        BY <3>1, PopMissMoves
      <4> HIDE DEF k, where
      <4>3. k + 1 < kOwned => k + 1 \in Shares
        BY <4>1, Sharing DEF Shares
      <4> QED BY <1>0, <4>1, <4>2, <4>3 DEF InPop, Scan, AnyOf
    <3>2. CASE AnyClosed(c)
      <4> DEFINE k == Doing(t)[2]  where == Doing(t)[3]
      <4>1. k \in Shares /\ where \in {"top", "recheck"}
        BY <3>2, WorkerAt DEF AnyClosed
      <4>2. /\ OthersStay(t)
            /\ \/ stack'[t] = <<Cancel, From>> \/ stack'[t] = << <<"drained?", 0>> >>
               \/ k + 1 < kOwned /\ stack'[t] = <<AnyOf(k + 1, where)>>
               \/ stack'[t] = << <<"key">>, Scan(0, "recheck")>>
               \/ stack'[t] = << <<"wait">>, From>>
        BY <3>2, AnyClosedMoves
      <4> HIDE DEF k, where
      <4>3. k + 1 < kOwned => k + 1 \in Shares
        BY <4>1, Sharing DEF Shares
      <4> QED BY <1>0, <4>1, <4>2, <4>3 DEF InPop, Scan, AnyOf, From, Cancel
    <3>3. CASE Drained(c)
      <4> DEFINE k == Doing(t)[2]
      <4>1. k \in Shares
        BY <3>3, WorkerAt DEF Drained
      <4>2. /\ OthersStay(t)
            /\ \/ stack'[t] = <<From>> \/ stack'[t] = << <<"drained">> >>
               \/ k + 1 < kOwned /\ stack'[t] = << <<"drained?", k + 1>> >>
        BY <3>3, DrainedMoves
      <4> HIDE DEF k
      <4>3. k + 1 < kOwned => k + 1 \in Shares
        BY <4>1, Sharing DEF Shares
      <4> QED BY <1>0, <4>1, <4>2, <4>3 DEF InPop, Scan, From
    <3> QED BY <1>3, <3>1, <3>2, <3>3
  <2>4. InCalls' /\ DOMAIN stack' = Threads /\ stack' = [u \in Threads |-> stack'[u]]
    BY <2>3, WorkerStays
  <2> QED BY <2>1, <2>2, <2>4 DEF Calls, StateTypes
<1> QED BY <1>1, <1>2, <1>3 DEF Popping

\* close has left only the wakes of everybody on a count.
LEMMA CloserNotifies ==
  ASSUME Calls, Notifying(Closer)
  PROVE  \E e \in Sleepers :
           /\ Doing(Closer) = <<"advance", e, "all">> /\ At(Closer, "advance")
           /\ AdvanceAndWakeAll(Closer, e) /\ Then(Closer, <<>>)
           /\ UNCHANGED <<rings, next, history>>
<1>1. NotifyAll(Closer) /\ \E e \in Sleepers : Doing(Closer) = <<"advance", e, "all">>
  <2>1. NotifySteps(Closer) /\ Doing(Closer)[1] \in Noticed
    BY DEF Notifying, NotifySteps, NotifyLook, NotifyClaim, NotifyAdvance, NotifyWake, NotifyAll, Noticed, At
  <2>2. \E e \in Sleepers : Doing(Closer) = <<"advance", e, "all">>
    BY <2>1, CloserAt
  <2>3. Doing(Closer)[1] = "advance" /\ Doing(Closer)[3] = "all"
    BY <2>2
  <2> QED BY <2>1, <2>2, <2>3 DEF NotifySteps, NotifyLook, NotifyClaim, NotifyAdvance, NotifyWake, At
<1>2. PICK e \in Sleepers : Doing(Closer) = <<"advance", e, "all">>
  BY <1>1
<1>3. AdvanceAndWakeAll(Closer, e) /\ Then(Closer, <<>>) /\ At(Closer, "advance")
  BY <1>1, <1>2 DEF NotifyAll, At
<1> QED BY <1>2, <1>3 DEF Notifying

\* close stays in its places.
LEMMA ClosingCalls ==
  ASSUME Calls, Outline' = Outline, BeginClose \/ Closing
  PROVE  Calls'
<1>1. CASE BeginClose
  <2>1. OthersStay(Closer) /\ InClose(stack'[Closer])
    BY <1>1, BeginCloseMoves
  <2>2. UNCHANGED counts /\ UNCHANGED buffer /\ UNCHANGED <<rings, next, history>>
    BY <1>1 DEF BeginClose
  <2>3. CountTypes' /\ BufferTypes'
    BY <2>2, BuffersStay DEF Calls, StateTypes, CountTypes, counts
  <2>4. RingTypes'
    BY <2>2 DEF Calls, StateTypes, RingTypes, rings, history
  <2> QED BY <2>1, <2>3, <2>4, CloserStays DEF Calls, StateTypes
<1>2. CASE SetClosed
  <2>1. At(Closer, "bit") /\ Then(Closer, <<>>)
    BY <1>2 DEF SetClosed
  <2>2. OthersStay(Closer) /\ InClose(stack'[Closer])
    BY <2>1, CloserPops
  <2>3. UNCHANGED counts /\ UNCHANGED buffer
    BY <1>2 DEF SetClosed
  <2>4. CountTypes' /\ BufferTypes'
    BY <2>3, BuffersStay DEF Calls, StateTypes, CountTypes, counts
  <2>5. RingTypes'
    <3>1. closed' \in [Rings -> BOOLEAN]
      BY <1>2, Types DEF SetClosed
    <3> QED BY <1>2, <3>1, Types DEF SetClosed, RingTypes, history
  <2> QED BY <2>2, <2>4, <2>5, CloserStays DEF Calls, StateTypes
<1>3. CASE Notifying(Closer)
  <2>2. PICK e \in Sleepers : AdvanceAndWakeAll(Closer, e) /\ Then(Closer, <<>>) /\ At(Closer, "advance")
    BY <1>3, CloserNotifies
  <2>3. AdvanceAndWakeAll(Closer, e) /\ Then(Closer, <<>>) /\ At(Closer, "advance")
    BY <2>2
  <2>4. OthersStay(Closer) /\ InClose(stack'[Closer])
    BY <2>3, CloserPops
  <2>5. CountTypes' /\ BufferTypes'
    <3>1. UNCHANGED buffer
      BY <2>3 DEF AdvanceAndWakeAll
    <3> QED BY <2>3, <3>1, Names, CountsTyped, BuffersStay
  <2>6. RingTypes'
    <3>1. UNCHANGED <<rings, next, history>>
      BY <1>3 DEF Notifying
    <3> QED BY <3>1 DEF Calls, StateTypes, RingTypes, rings, history
  <2> QED BY <2>4, <2>5, <2>6, CloserStays DEF Calls, StateTypes
<1> QED BY <1>1, <1>2, <1>3 DEF Closing

\* A store that arrives is the clear of a waiter, or the oldest head of a consumer.
LEMMA FlushKinds ==
  ASSUME Calls, NEW t \in Threads, Flush(t)
  PROVE  /\ t \in Sleepers /\ UNCHANGED stack /\ BufferTypes'
         /\ \A u \in Threads : u # t => buffer'[u] = buffer[u]
         /\ \/ /\ Clears(t) /\ pending' = [pending EXCEPT ![t] = FALSE] /\ buffer'[t] = <<>>
               /\ UNCHANGED <<epoch, waiters, sleepers, key, rings, next, history>>
            \/ \E c \in Owners : LET s == buffer[t][1] IN
                 /\ t = Consumer(c) /\ ~Clears(t)
                 /\ s \in HeadStore /\ ~IsClear(s) /\ Owner(s.ring) = t /\ 1 \in DOMAIN buffer[t]
                 /\ head' = [head EXCEPT ![s.ring] = s.head]
                 /\ buffer'[t] = Tail(buffer[t]) /\ buffer[t] \in Seq(HeadStore)
                 /\ UNCHANGED <<counts, tail, closed, cached_head, cached_tail, slots, next, history>>
<1>1. /\ ~Fenced(t) /\ buffer' = [buffer EXCEPT ![t] = Tail(@)] /\ UNCHANGED stack
      /\ \/ /\ IsClear(Head(buffer[t])) /\ pending' = [pending EXCEPT ![Head(buffer[t]).count] = FALSE]
            /\ UNCHANGED <<epoch, waiters, sleepers, key, rings, next, history>>
         \/ /\ ~IsClear(Head(buffer[t]))
            /\ head' = [head EXCEPT ![Head(buffer[t]).ring] = Head(buffer[t]).head]
            /\ UNCHANGED <<counts, tail, closed, cached_head, cached_tail, slots, next, history>>
  BY DEF Flush, FlushClear
<1>2. /\ buffer'[t] = Tail(buffer[t]) /\ \A u \in Threads : u # t => buffer'[u] = buffer[u]
      /\ DOMAIN buffer' = Threads /\ buffer' = [u \in Threads |-> buffer'[u]]
  BY <1>1, Types
<1>3. t # Closer /\ t \in Sleepers
  <2>1. t # Closer
    BY <1>1 DEF Calls, StateTypes, BufferTypes, Fenced
  <2> QED BY <2>1, Names
<1>4. CASE Clears(t)
  <2>1. Head(buffer[t]) = ClearPending(t) /\ Tail(buffer[t]) = <<>> /\ ClearPending(t).count = t
    BY <1>4 DEF Clears, ClearPending
  <2>2. IsClear(Head(buffer[t]))
    BY <1>4, Buffers
  <2>3. BufferTypes'
    <3>1. \A q \in Rings : Fenced(Producer(q))' \/ Clears(Producer(q))'
      <4> TAKE q \in Rings
      <4>1. CASE Producer(q) = t
        BY <1>2, <2>1, <4>1 DEF Fenced
      <4>2. CASE Producer(q) # t
        BY <1>2, <4>2, Names DEF Calls, StateTypes, BufferTypes, Fenced, Clears
      <4> QED BY <4>1, <4>2
    <3>2. Fenced(Closer)'
      BY <1>2, <1>3, Names DEF Calls, StateTypes, BufferTypes, Fenced
    <3>3. \A d \in Owners : \/ Clears(Consumer(d))'
                            \/ /\ buffer'[Consumer(d)] \in Seq(HeadStore)
                               /\ \A i \in DOMAIN buffer'[Consumer(d)] :
                                    Owner(buffer'[Consumer(d)][i].ring) = Consumer(d)
      <4> TAKE d \in Owners
      <4>1. CASE Consumer(d) = t
        <5>1. buffer'[Consumer(d)] = <<>>
          BY <1>2, <2>1, <4>1
        <5>2. <<>> \in Seq(HeadStore) /\ DOMAIN <<>> = {}
          OBVIOUS
        <5> QED BY <5>1, <5>2
      <4>2. CASE Consumer(d) # t
        <5>1. buffer'[Consumer(d)] = buffer[Consumer(d)]
          BY <1>2, <4>2, Names
        <5> QED BY <5>1 DEF Calls, StateTypes, BufferTypes, Clears
      <4> QED BY <4>1, <4>2
    <3> QED BY <1>2, <3>1, <3>2, <3>3 DEF BufferTypes
  <2> QED BY <1>1, <1>2, <1>3, <1>4, <2>1, <2>2, <2>3
<1>5. CASE ~Clears(t)
  <2>1. PICK c \in Owners : t = Consumer(c)
    <3>1. \A q \in Rings : t # Producer(q)
      BY <1>1, <1>5 DEF Calls, StateTypes, BufferTypes
    <3> QED BY <1>3, <3>1, Names
  <2>2. /\ buffer[t] \in Seq(HeadStore) /\ buffer[t] # <<>>
        /\ \A i \in DOMAIN buffer[t] : ~IsClear(buffer[t][i]) /\ Owner(buffer[t][i].ring) = t
    BY <1>1, <1>5, <2>1, Buffers DEF Fenced
  <2>3. /\ 1 \in DOMAIN buffer[t] /\ Head(buffer[t]) = buffer[t][1] /\ buffer[t][1] \in HeadStore
        /\ Tail(buffer[t]) \in Seq(HeadStore)
        /\ \A i \in DOMAIN Tail(buffer[t]) : i + 1 \in DOMAIN buffer[t] /\ Tail(buffer[t])[i] = buffer[t][i + 1]
    BY <2>2
  <2>4. BufferTypes'
    <3>1. \A q \in Rings : Fenced(Producer(q))' \/ Clears(Producer(q))'
      BY <1>2, <2>1, Names DEF Calls, StateTypes, BufferTypes, Fenced, Clears
    <3>2. Fenced(Closer)'
      BY <1>2, <1>3, Names DEF Calls, StateTypes, BufferTypes, Fenced
    <3>3. \A d \in Owners : \/ Clears(Consumer(d))'
                            \/ /\ buffer'[Consumer(d)] \in Seq(HeadStore)
                               /\ \A i \in DOMAIN buffer'[Consumer(d)] :
                                    Owner(buffer'[Consumer(d)][i].ring) = Consumer(d)
      <4> TAKE d \in Owners
      <4>1. CASE Consumer(d) = t
        BY SMTT(30), <1>2, <2>2, <2>3, <4>1
      <4>2. CASE Consumer(d) # t
        <5>1. buffer'[Consumer(d)] = buffer[Consumer(d)]
          BY <1>2, <4>2, Names
        <5> QED BY <5>1 DEF Calls, StateTypes, BufferTypes, Clears
      <4> QED BY <4>1, <4>2
    <3> QED BY <1>2, <3>1, <3>2, <3>3 DEF BufferTypes
  <2>5. ~IsClear(Head(buffer[t])) /\ Owner(buffer[t][1].ring) = t
    BY <2>2, <2>3
  <2> QED BY <1>1, <1>2, <1>3, <1>5, <2>1, <2>2, <2>3, <2>4, <2>5
<1> QED BY <1>4, <1>5

\* A store that reaches memory keeps every thread in its place.
LEMMA FlushCalls ==
  ASSUME Calls, Outline' = Outline, NEW t \in Threads, Flush(t)
  PROVE  Calls'
<1>1. t \in Sleepers /\ UNCHANGED stack /\ BufferTypes'
  BY FlushKinds
<1>2. CountTypes' /\ RingTypes'
  <2>1. CASE /\ Clears(t) /\ pending' = [pending EXCEPT ![t] = FALSE]
             /\ UNCHANGED <<epoch, waiters, sleepers, key, rings, next, history>>
    <3>1. pending' \in [Sleepers -> BOOLEAN]
      BY <1>1, <2>1, Types
    <3> QED BY <2>1, <3>1, Types DEF CountTypes, RingTypes, rings, history
  <2>2. CASE /\ buffer[t][1] \in HeadStore
             /\ head' = [head EXCEPT ![buffer[t][1].ring] = buffer[t][1].head]
             /\ UNCHANGED <<counts, tail, closed, cached_head, cached_tail, slots, next, history>>
    <3>1. head' \in [Rings -> Nat]
      BY <2>2, Stores, Types
    <3> QED BY <2>2, <3>1, Types DEF CountTypes, RingTypes, counts, history
  <2> QED BY <2>1, <2>2, FlushKinds
<1>3. InCalls'
  BY <1>1 DEF Calls, InCalls
<1> QED BY <1>1, <1>2, <1>3 DEF Calls, StateTypes

\* At first the producers and the closer are outside, and the consumers at the top.
LEMMA CallsInit == Init => Calls
<1> SUFFICES ASSUME Init PROVE Calls
  OBVIOUS
<1>1. /\ stack = [t \in Threads |-> IF t[1] = "consumer" THEN Top ELSE << <<"idle">> >>]
      /\ buffer = [t \in Threads |-> <<>>]
  BY ShardsAssumption DEF Init, EventCountInit
<1>2. /\ \A r \in Rings : Producer(r)[1] = "producer" /\ Producer(r) \in Threads
      /\ \A c \in Owners : Consumer(c)[1] = "consumer" /\ Consumer(c) \in Threads
      /\ Closer[1] = "closer" /\ Closer \in Threads
  BY Names DEF Producer, Consumer, Closer
<1>3. InCalls
  <2>1. \A r \in Rings : InPush(stack[Producer(r)], r)
    BY <1>1, <1>2 DEF InPush, Idle
  <2>2. \A c \in Owners : InPop(stack[Consumer(c)], c)
    <3> TAKE c \in Owners
    <3>1. 0 \in Shares
      BY Sharing DEF Shares
    <3>2. stack[Consumer(c)] = << <<"scan", 0, "top">> >>
      BY <1>1, <1>2 DEF Top
    <3> QED BY <3>1, <3>2 DEF InPop
  <2>3. InClose(stack[Closer])
    BY <1>1, <1>2 DEF InClose, Idle
  <2> QED BY <2>1, <2>2, <2>3 DEF InCalls
<1>4. BufferTypes
  <2>1. \A t \in Threads : buffer[t] = <<>>
    BY <1>1
  <2>2. \A r \in Rings : Fenced(Producer(r))
    BY <2>1, Names DEF Fenced
  <2>3. Fenced(Closer)
    BY <2>1, Names DEF Fenced
  <2>4. \A c \in Owners : buffer[Consumer(c)] \in Seq(HeadStore) /\ DOMAIN buffer[Consumer(c)] = {}
    <3>1. <<>> \in Seq(HeadStore) /\ DOMAIN <<>> = {}
      OBVIOUS
    <3> QED BY <2>1, <3>1, Names
  <2> QED BY <1>1, <2>2, <2>3, <2>4 DEF BufferTypes
<1>5. CountTypes
  BY ShardsAssumption DEF Init, EventCountInit, CountTypes
<1>6. RingTypes
  <2>1. 0 \in Shares /\ \A r \in Rings : 0 <= Pushes[r]
    BY Sharing, ShardsAssumption DEF Shares
  <2>2. \A r \in Rings : <<>> \in Seq(Nat)
    OBVIOUS
  <2> QED BY <2>1, <2>2 DEF Init, RingTypes
<1>7. Outline = {} /\ DOMAIN stack = Threads /\ stack = [t \in Threads |-> stack[t]]
  BY <1>1 DEF Init
<1> QED BY <1>3, <1>4, <1>5, <1>6, <1>7 DEF Calls, StateTypes

\* Where a notification leaves a thread: at its next step, or in what it was called from.
LEMMA NotifyGoes ==
  ASSUME Calls, NEW t \in Sleepers, NotifySteps(t)
  PROVE  \E b \in {Idle, From} :
           /\ stack[t] \in {<<Doing(t), b>>, <<Doing(t), Cancel, b>>}
           /\ Then(t, <<>>) => \/ Goes(t, <<Doing(t), b>>, <<b>>)
                               \/ Goes(t, <<Doing(t), Cancel, b>>, <<Cancel, b>>)
           /\ \A x : Then(t, <<x>>) => \/ Goes(t, <<Doing(t), b>>, <<x, b>>)
                                       \/ Goes(t, <<Doing(t), Cancel, b>>, <<x, Cancel, b>>)
<1> DEFINE f == Doing(t)
<1>1. t \in Threads /\ f[1] \in Noticed
  BY Names, NotifyMoves DEF Noticed
<1>2. PICK b \in {Idle, From} : stack[t] \in {<<f, b>>, <<f, Cancel, b>>}
  <2>1. CASE \E r \in Rings : t = Producer(r)
    BY <1>1, <2>1, ProducerAt DEF Cancel
  <2>2. CASE \E c \in Owners : t = Consumer(c)
    BY <1>1, <2>2, WorkerAt DEF Cancel
  <2> QED BY <2>1, <2>2, Names
<1> HIDE DEF f
<1>3. Then(t, <<>>) => Goes(t, <<f, b>>, <<b>>) \/ Goes(t, <<f, Cancel, b>>, <<Cancel, b>>)
  <2> SUFFICES ASSUME Then(t, <<>>) PROVE Goes(t, <<f, b>>, <<b>>) \/ Goes(t, <<f, Cancel, b>>, <<Cancel, b>>)
    OBVIOUS
  <2>1. CASE stack[t] = <<f, b>>
    BY <1>1, <2>1, ThenOnTwo DEF Goes
  <2>2. CASE stack[t] = <<f, Cancel, b>>
    BY <1>1, <2>2, ThenOnThree DEF Goes
  <2> QED BY <1>2, <2>1, <2>2
<1>4. ASSUME NEW x, Then(t, <<x>>)
      PROVE  Goes(t, <<f, b>>, <<x, b>>) \/ Goes(t, <<f, Cancel, b>>, <<x, Cancel, b>>)
  <2>1. CASE stack[t] = <<f, b>>
    BY <1>1, <1>4, <2>1, ThenOnTwo DEF Goes
  <2>2. CASE stack[t] = <<f, Cancel, b>>
    BY <1>1, <1>4, <2>2, ThenOnThree DEF Goes
  <2> QED BY <1>2, <2>1, <2>2
<1> QED BY <1>2, <1>3, <1>4 DEF f

\* Where waiting and notifying leave a thread that they move.
WaitsAt(f) ==
  \/ f \in {Idle, Cancel, <<"announce">>, <<"recheck">>, <<"push">>, Scan(0, "recheck"), From}
  \/ f[1] \in {"claim", "advance", "wake"}

\* Where waiting and notifying leave their own thread.
LEMMA WaitingGoes ==
  ASSUME Calls, NEW t \in Sleepers, WaitSteps(t, t, Deadlines) \/ NotifySteps(t)
  PROVE  /\ OthersStay(t) \/ UNCHANGED stack
         /\ stack'[t] = stack[t] \/ WaitsAt(Doing(t)')
<1>1. CASE WaitSteps(t, t, Deadlines)
  <2>1. CASE \E r \in Rings : t = Producer(r)
    BY <1>1, <2>1, ProducerWaits DEF Goes, Doing, WaitsAt
  <2>2. CASE \E c \in Owners : t = Consumer(c)
    BY <1>1, <2>2, WorkerWaits DEF Goes, Doing, WaitsAt
  <2> QED BY <2>1, <2>2, Names
<1>2. CASE NotifySteps(t)
  <2>1. OthersStay(t)
    BY <1>2, NotifyMoves
  <2>2. Then(t, <<>>) => Head(stack'[t]) \in {Idle, From, Cancel}
    BY <1>2, NotifyGoes DEF Goes
  <2>3. ASSUME NEW k \in {"claim", "advance", "wake"}, Then(t, << <<k, Doing(t)[2], "one">> >>)
        PROVE  Head(stack'[t])[1] = k
    <3> DEFINE g == <<k, Doing(t)[2], "one">>
    <3>1. g[1] = k
      OBVIOUS
    <3> HIDE DEF g
    <3>2. \E b : stack'[t] \in {<<g, b>>, <<g, Cancel, b>>}
      BY <1>2, <2>3, NotifyGoes DEF Goes, g
    <3>3. Head(stack'[t]) = g
      BY <3>2
    <3> QED BY <3>1, <3>3
  <2>4. \/ Then(t, <<>>) \/ Then(t, << <<"claim", Doing(t)[2], "one">> >>)
        \/ Then(t, << <<"advance", Doing(t)[2], "one">> >>) \/ Then(t, << <<"wake", Doing(t)[2], "one">> >>)
    BY <1>2, NotifyMoves
  <2> QED BY <2>1, <2>2, <2>3, <2>4 DEF Doing, WaitsAt
<1> QED BY <1>1, <1>2

(* ------------------------------- the rings ------------------------------- *)
\* Nothing that the books of r speak of changes, but for its consumer's stores.
Kept(r) ==
  /\ tail'[r] = tail[r] /\ head'[r] = head[r] /\ slots'[r] = slots[r]
  /\ cached_head'[r] = cached_head[r] /\ cached_tail'[r] = cached_tail[r]
  /\ sent'[r] = sent[r] /\ got'[r] = got[r]
  /\ At(Producer(r), "publish")' => At(Producer(r), "publish") /\ calls'[r] = calls[r]
StoresKept(r) ==
  \/ buffer'[Owner(r)] = buffer[Owner(r)]
  \/ (\A i : ~Moves(i, r)) /\ (\A i : ~Moves(i, r)')

\* A step that keeps these keeps the books of r.
LEMMA RingKept ==
  ASSUME NEW r \in Rings, IndicesInTurn(r), EventsInTurn(r), HeadsInTurn(r), Kept(r), StoresKept(r)
  PROVE  IndicesInTurn(r)' /\ EventsInTurn(r)' /\ HeadsInTurn(r)'
<1>1. IndicesInTurn(r)'
  BY DEF IndicesInTurn, Kept
<1>2. EventsInTurn(r)'
  BY DEF EventsInTurn, Kept
<1>3. HeadsInTurn(r)'
  <2>1. CASE buffer'[Owner(r)] = buffer[Owner(r)]
    <3>1. \A i : Moves(i, r)' <=> Moves(i, r)
      BY <2>1 DEF Moves
    <3> QED BY <2>1, <3>1 DEF HeadsInTurn, Kept
  <2>2. CASE (\A i : ~Moves(i, r)) /\ (\A i : ~Moves(i, r)')
    BY <2>2 DEF HeadsInTurn, Kept
  <2> QED BY <2>1, <2>2 DEF StoresKept
<1> QED BY <1>1, <1>2, <1>3

\* A consumer that has stores of heads to make has no other, and none are left when its
\* buffer is empty.
LEMMA NoStores ==
  ASSUME NEW r \in Rings
  PROVE  /\ Fenced(Owner(r)) \/ Clears(Owner(r)) => \A i : ~Moves(i, r)
         /\ Fenced(Owner(r))' \/ Clears(Owner(r))' => \A i : ~Moves(i, r)'
<1>1. \A i \in DOMAIN <<>> : FALSE
  OBVIOUS
<1>2. \A e : \A i \in DOMAIN <<ClearPending(e)>> : IsClear(<<ClearPending(e)>>[i])
  BY DEF ClearPending, IsClear
<1>3. Fenced(Owner(r)) \/ Clears(Owner(r)) => \A i : ~Moves(i, r)
  BY <1>1, <1>2 DEF Fenced, Clears, Moves
<1>4. Fenced(Owner(r))' \/ Clears(Owner(r))' => \A i : ~Moves(i, r)'
  BY <1>1, <1>2 DEF Fenced, Clears, Moves
<1> QED BY <1>3, <1>4

\* A step of t that does not touch the rings, and does not leave t about to publish.
LEMMA RingsKept ==
  ASSUME Calls, RingsInv, NEW t \in Threads, UNCHANGED <<tail, head, cached_head, cached_tail, slots, sent, got>>,
         OthersStay(t) \/ UNCHANGED stack,
         stack'[t] = stack[t] \/ ~At(t, "publish")',
         \A r \in Rings : calls'[r] # calls[r] => t = Producer(r) /\ ~At(t, "publish")',
         \A u \in Threads : u # t => buffer'[u] = buffer[u],
         buffer'[t] = buffer[t] \/ ((Fenced(t) \/ Clears(t)) /\ (Fenced(t)' \/ Clears(t)'))
  PROVE  RingsInv'
<1>1. ASSUME NEW r \in Rings PROVE Kept(r) /\ StoresKept(r)
  <2>1. At(Producer(r), "publish")' => At(Producer(r), "publish") /\ calls'[r] = calls[r]
    <3>1. Producer(r) \in Threads
      BY Names
    <3>2. CASE Producer(r) = t
      BY <3>1, <3>2 DEF At, Doing
    <3>3. CASE Producer(r) # t
      <4>1. stack'[Producer(r)] = stack[Producer(r)]
        BY <3>1, <3>3 DEF OthersStay
      <4> QED BY <3>3, <4>1 DEF At, Doing
    <3> QED BY <3>2, <3>3
  <2>2. StoresKept(r)
    <3>1. Owner(r) \in Threads
      <4>1. PICK c \in Owners : Owner(r) = Consumer(c)
        BY Sharing
      <4> QED BY <4>1, Names
    <3>2. CASE Owner(r) = t
      BY <3>2, NoStores DEF StoresKept
    <3>3. CASE Owner(r) # t
      BY <3>1, <3>3 DEF StoresKept
    <3> QED BY <3>2, <3>3
  <2> QED BY <2>1, <2>2 DEF Kept
<1>2. \A r \in Rings : IndicesInTurn(r)' /\ EventsInTurn(r)' /\ HeadsInTurn(r)'
  BY <1>1, RingKept DEF RingsInv
<1> QED BY <1>2 DEF RingsInv

\* The steps of waiting and of notifying.
LEMMA WaitingRings ==
  ASSUME Calls, RingsInv, NEW t \in Sleepers, UNCHANGED <<rings, next, history>>,
         WaitSteps(t, t, Deadlines) \/ NotifySteps(t)
  PROVE  RingsInv'
<1>1. t \in Threads /\ Idle[1] # "publish" /\ From[1] # "publish" /\ Cancel[1] # "publish"
  BY Names DEF Idle, From, Cancel, Scan
<1>2. /\ OthersStay(t) \/ UNCHANGED stack
      /\ stack'[t] = stack[t] \/ ~At(t, "publish")'
  BY WaitingGoes DEF WaitsAt, At, Idle, Cancel, Scan, From
<1>3. /\ \A u \in Threads : u # t => buffer'[u] = buffer[u]
      /\ buffer' = buffer \/ (Fenced(t) /\ Clears(t)')
  <2>1. CASE WaitSteps(t, t, Deadlines)
    <3>1. ReadKey(t, t) \/ Announce(t, t) \/ CancelWait(t, t) \/ Sleep(t, t) \/ LeaveWait(t, t, Deadlines)
      BY <2>1 DEF WaitSteps
    <3> QED BY <3>1, CountsBuffered
  <2>2. CASE NotifySteps(t)
    <3>1. Doing(t)[2] \in Sleepers
      BY <2>2, NotifyMoves
    <3>2. \/ UNCHANGED buffer
          \/ ClaimWake(t, Doing(t)[2]) \/ Advance(t, Doing(t)[2]) \/ WakeOne(Doing(t)[2])
      BY <2>2, NotifyMoves
    <3> QED BY <3>1, <3>2, CountsBuffered
  <2> QED BY <2>1, <2>2
<1> QED BY <1>1, <1>2, <1>3, RingsKept DEF rings, history

\* A push leaves the books of the other rings alone.
LEMMA OtherRings ==
  ASSUME Calls, RingsInv, NEW r \in Rings, NEW q \in Rings, q # r, OthersStay(Producer(r)), buffer' = buffer,
         tail'[q] = tail[q], head' = head, slots'[q] = slots[q], cached_head'[q] = cached_head[q],
         cached_tail' = cached_tail, sent'[q] = sent[q], got' = got, calls'[q] = calls[q]
  PROVE  IndicesInTurn(q)' /\ EventsInTurn(q)' /\ HeadsInTurn(q)'
<1>1. Producer(q) \in Threads /\ Producer(q) # Producer(r)
  BY Names
<1>2. stack'[Producer(q)] = stack[Producer(q)]
  BY <1>1 DEF OthersStay
<1>3. Kept(q) /\ StoresKept(q)
  BY <1>2 DEF Kept, StoresKept, At, Doing
<1> QED BY <1>3, RingKept DEF RingsInv

\* The producer's copy of the head grows, and is not beyond it.
LEMMA PushFullRings ==
  ASSUME Calls, RingsInv, NEW r \in Rings, PushFull(r)
  PROVE  RingsInv'
<1>1. /\ OthersStay(Producer(r)) /\ ~At(Producer(r), "publish")'
  BY PushFullMoves DEF Goes, At, Doing, Cancel
<1>2. /\ cached_head' = [cached_head EXCEPT ![r] = KnownHead(r)]
      /\ UNCHANGED <<counts, buffer, tail, closed, head, cached_tail, slots, next, history>>
  BY DEF PushFull
<1>3. cached_head'[r] = KnownHead(r) /\ \A q \in Rings : q # r => cached_head'[q] = cached_head[q]
  BY <1>2, Types
<1>4. \A q \in Rings : q # r => IndicesInTurn(q)' /\ EventsInTurn(q)' /\ HeadsInTurn(q)'
  BY <1>1, <1>2, <1>3, OtherRings DEF history
<1>5. IndicesInTurn(r)' /\ EventsInTurn(r)' /\ HeadsInTurn(r)'
  <2>1. IndicesInTurn(r)'
    BY <1>1, <1>2, <1>3, KnownHeadIs DEF RingsInv, IndicesInTurn, history
  <2>2. EventsInTurn(r)' /\ HeadsInTurn(r)'
    BY <1>2 DEF RingsInv, EventsInTurn, HeadsInTurn, Moves, history
  <2> QED BY <2>1, <2>2
<1> QED BY <1>4, <1>5 DEF RingsInv

\* A slot is written only when no event that is still to be taken is in it.
LEMMA PushWriteRings ==
  ASSUME Calls, RingsInv, NEW r \in Rings, PushWrite(r)
  PROVE  RingsInv'
<1>1. OthersStay(Producer(r)) /\ Trying(r) /\ ~Full(r)
  BY PushWriteMoves DEF PushWrite
<1>2. /\ cached_head' = [cached_head EXCEPT ![r] = KnownHead(r)]
      /\ slots' = [slots EXCEPT ![r][tail[r] % kRing] = calls[r]]
      /\ UNCHANGED <<counts, buffer, tail, closed, head, cached_tail, next, history>>
  BY DEF PushWrite
<1>3. cached_head'[r] = KnownHead(r) /\ \A q \in Rings : q # r => cached_head'[q] = cached_head[q]
  BY <1>2, Types
<1>4. /\ tail[r] \in Nat /\ kRing \in Nat /\ kRing >= 1 /\ Len(got[r]) \in Nat
      /\ head[r] <= Len(got[r]) /\ KnownHead(r) <= head[r] /\ tail[r] < KnownHead(r) + kRing
      /\ KnownHead(r) \in Nat /\ head[r] \in Nat
  BY <1>1, Types, Sizes, KnownHeadIs DEF RingsInv, IndicesInTurn
<1>5. tail[r] % kRing \in Slots /\ \A q \in Nat : q % kRing \in Slots
  BY <1>4, LapRange DEF Slots
<1>6. /\ slots'[r] = [slots[r] EXCEPT ![tail[r] % kRing] = calls[r]]
      /\ \A q \in Rings : q # r => slots'[q] = slots[q]
  BY <1>2, Types
<1>7. slots'[r][tail[r] % kRing] = calls[r] /\ \A i \in Slots : i # tail[r] % kRing => slots'[r][i] = slots[r][i]
  BY <1>5, <1>6, Types
<1>8. \A q \in Rings : q # r => IndicesInTurn(q)' /\ EventsInTurn(q)' /\ HeadsInTurn(q)'
  BY <1>1, <1>2, <1>3, <1>6, OtherRings DEF history
<1>9. IndicesInTurn(r)' /\ EventsInTurn(r)' /\ HeadsInTurn(r)'
  <2>1. IndicesInTurn(r)'
    BY <1>2, <1>3, <1>4, <1>7, KnownHeadIs DEF RingsInv, IndicesInTurn, history
  <2>2. \A q \in Len(got[r])..(tail[r] - 1) : slots'[r][q % kRing] = sent[r][q + 1]
    <3> TAKE q \in Len(got[r])..(tail[r] - 1)
    <3>1. q \in Nat /\ q < tail[r] /\ q + kRing > tail[r]
      BY <1>4
    <3>2. \A a, b \in Nat : a < b /\ a % kRing = b % kRing => a + kRing <= b
      BY <1>4, LapApart
    <3>3. q % kRing # tail[r] % kRing
      <4>1. q < tail[r] /\ q % kRing = tail[r] % kRing => q + kRing <= tail[r]
        BY <1>4, <3>1, <3>2, Zenon
      <4>2. q < tail[r] /\ ~(q + kRing <= tail[r])
        BY <1>4, <3>1
      <4> QED BY <4>1, <4>2, Zenon
    <3>4. slots'[r][q % kRing] = slots[r][q % kRing]
      BY <1>5, <1>7, <3>1, <3>3
    <3> QED BY <3>4 DEF RingsInv, EventsInTurn
  <2>3. EventsInTurn(r)' /\ HeadsInTurn(r)'
    BY <1>2, <2>2 DEF RingsInv, EventsInTurn, HeadsInTurn, Moves, history
  <2> QED BY <2>1, <2>3
<1> QED BY <1>8, <1>9 DEF RingsInv

\* What is published is what was written.
LEMMA PublishRings ==
  ASSUME Calls, RingsInv, NEW r \in Rings, Publish(r)
  PROVE  RingsInv'
<1>1. OthersStay(Producer(r)) /\ At(Producer(r), "publish") /\ ~At(Producer(r), "publish")'
  <2>1. At(Producer(r), "publish")
    BY DEF Publish
  <2>2. /\ OthersStay(Producer(r))
        /\ stack'[Producer(r)] \in {<<Idle>>, <<Cancel, Idle>>, <<Look(Owner(r)), Idle>>, <<Look(Owner(r)), Cancel, Idle>>}
    BY PublishMoves DEF Goes
  <2>3. Head(stack'[Producer(r)]) \in {Idle, Cancel, Look(Owner(r))}
    BY <2>2
  <2>4. Idle[1] # "publish" /\ Cancel[1] # "publish" /\ Look(Owner(r))[1] # "publish"
    BY DEF Idle, Cancel, Look
  <2> QED BY <2>1, <2>2, <2>3, <2>4 DEF At, Doing
<1>2. UNCHANGED <<counts, buffer, closed, head, cached_head, cached_tail, slots, next, calls, got, skipped>>
  BY DEF Publish
<1>3. CASE closed[r]
  <2>1. UNCHANGED <<tail, sent>>
    BY <1>3 DEF Publish
  <2>2. Producer(r) \in Threads
    BY Names
  <2> QED BY <1>1, <1>2, <2>1, <2>2, RingsKept
<1>4. CASE ~closed[r]
  <2>1. tail' = [tail EXCEPT ![r] = @ + 1] /\ sent' = [sent EXCEPT ![r] = Append(@, calls[r])]
    BY <1>4 DEF Publish
  <2>2. /\ tail'[r] = tail[r] + 1 /\ sent'[r] = Append(sent[r], calls[r])
        /\ \A q \in Rings : q # r => tail'[q] = tail[q] /\ sent'[q] = sent[q]
    BY <2>1, Types
  <2>3. \A q \in Rings : q # r => IndicesInTurn(q)' /\ EventsInTurn(q)' /\ HeadsInTurn(q)'
    BY <1>1, <1>2, <2>2, OtherRings
  <2>4. /\ tail[r] \in Nat /\ Len(got[r]) \in Nat /\ Len(got[r]) <= tail[r] /\ tail[r] = Len(sent[r])
        /\ tail[r] < cached_head[r] + kRing /\ slots[r][tail[r] % kRing] = calls[r]
        /\ sent[r] \in Seq(Nat) /\ calls[r] \in Nat /\ got[r] \in Seq(Nat)
        /\ cached_head[r] \in Nat /\ cached_tail[r] \in Nat /\ kRing \in Nat
    BY <1>1, Types, Sizes DEF RingsInv, IndicesInTurn
  <2>5. /\ Len(sent'[r]) = tail[r] + 1 /\ sent'[r][tail[r] + 1] = calls[r]
        /\ \A i \in 1..tail[r] : sent'[r][i] = sent[r][i]
    BY <2>2, <2>4
  <2>6. IndicesInTurn(r)'
    <3>1. /\ cached_head[r] <= head[r] /\ head[r] <= Len(got[r])
          /\ Len(got[r]) <= cached_tail[r] /\ cached_tail[r] <= tail[r] + 1
          /\ tail[r] + 1 = Len(sent'[r]) /\ tail[r] + 1 <= cached_head[r] + kRing
      BY <2>4, <2>5 DEF RingsInv, IndicesInTurn
    <3>2. tail'[r] = tail[r] + 1
      BY <2>2
    <3> QED BY <1>1, <1>2, <3>1, <3>2 DEF IndicesInTurn
  <2>7. EventsInTurn(r)'
    <3>1. \A i \in 1..Len(got[r]) : got[r][i] = sent'[r][i]
      <4> TAKE i \in 1..Len(got[r])
      <4>1. i \in 1..tail[r]
        BY <2>4
      <4> QED BY <2>5, <4>1 DEF RingsInv, EventsInTurn
    <3>2. \A q \in Len(got[r])..(tail'[r] - 1) : slots[r][q % kRing] = sent'[r][q + 1]
      <4> TAKE q \in Len(got[r])..(tail'[r] - 1)
      <4>1. CASE q = tail[r]
        BY <2>4, <2>5, <4>1
      <4>2. CASE q # tail[r]
        <5>1. q \in Len(got[r])..(tail[r] - 1) /\ q + 1 \in 1..tail[r]
          BY SMTT(30), <2>2, <2>4, <4>2
        <5> QED BY <2>5, <5>1 DEF RingsInv, EventsInTurn
      <4> QED BY <4>1, <4>2
    <3> QED BY <1>2, <3>1, <3>2 DEF EventsInTurn
  <2>8. HeadsInTurn(r)'
    BY <1>2 DEF RingsInv, HeadsInTurn, Moves
  <2> QED BY <2>3, <2>6, <2>7, <2>8 DEF RingsInv
<1> QED BY <1>3, <1>4

\* push keeps the books.
LEMMA PushingRings ==
  ASSUME Calls, RingsInv, NEW r \in Rings, BeginPush(r) \/ Pushing(r)
  PROVE  RingsInv'
<1> DEFINE t == Producer(r)
<1>0. t \in Threads /\ t \in Sleepers
  BY Names
<1>1. CASE Waiting(t) \/ Notifying(t)
  BY <1>0, <1>1, WaitingRings DEF Waiting, Notifying
<1>2. CASE BeginPush(r)
  <2>1. OthersStay(t) /\ ~At(t, "publish")'
    BY <1>2, BeginPushMoves DEF Goes, At, Doing
  <2>2. calls' = [calls EXCEPT ![r] = @ + 1] /\ UNCHANGED <<counts, buffer, rings, next, sent, got, skipped>>
    BY <1>2 DEF BeginPush
  <2>3. \A q \in Rings : calls'[q] # calls[q] => t = Producer(q) /\ ~At(t, "publish")'
    BY <2>1, <2>2, Types
  <2> QED BY <1>0, <2>1, <2>2, <2>3, RingsKept DEF rings
<1>3. CASE PushClosed(r)
  <2>1. OthersStay(t) /\ ~At(t, "publish")'
    BY <1>3, PushClosedMoves DEF Goes, At, Doing, Idle, Cancel
  <2> QED BY <1>0, <1>3, <2>1, RingsKept DEF PushClosed, rings, history
<1> QED BY <1>1, <1>2, <1>3, PushFullRings, PushWriteRings, PublishRings DEF Pushing

\* The copy of the tail grows, and is not beyond it.
LEMMA PopMissRings ==
  ASSUME Calls, RingsInv, NEW c \in Owners, PopMiss(c)
  PROVE  RingsInv'
<1> DEFINE t == Consumer(c)  r == RingOf(c, Index(c))
<1>1. OthersStay(t) /\ Scanning(c) /\ At(t, "scan") /\ t \in Threads
  BY PopMissMoves, ScanningMeans DEF PopMiss
<1>2. /\ cached_tail' = [cached_tail EXCEPT ![r] = KnownTail(c, r)]
      /\ UNCHANGED <<counts, buffer, tail, closed, head, cached_head, slots, next, history>>
  BY DEF PopMiss
<1>3. r \in Rings /\ Owner(r) = t
  BY <1>1, IndexIs
<1>4. \A q \in Rings : At(Producer(q), "publish")' <=> At(Producer(q), "publish")
  <2> TAKE q \in Rings
  <2>1. stack'[Producer(q)] = stack[Producer(q)]
    BY <1>1, Names DEF OthersStay
  <2> QED BY <2>1 DEF At, Doing
<1> HIDE DEF r
<1>5. cached_tail'[r] = KnownTail(c, r) /\ \A q \in Rings : q # r => cached_tail'[q] = cached_tail[q]
  BY <1>2, <1>3, Types
<1>6. Len(got[r]) <= cached_tail'[r] /\ cached_tail'[r] <= tail[r]
  BY <1>3, <1>5, KnownTailIs
<1>7. ASSUME NEW q \in Rings PROVE IndicesInTurn(q)' /\ EventsInTurn(q)' /\ HeadsInTurn(q)'
  <2>1. CASE q = r
    <3>1. IndicesInTurn(q)'
      BY <1>2, <1>4, <1>6, <2>1 DEF RingsInv, IndicesInTurn, history
    <3>2. EventsInTurn(q)' /\ HeadsInTurn(q)'
      BY <1>2 DEF RingsInv, EventsInTurn, HeadsInTurn, Moves, history
    <3> QED BY <3>1, <3>2
  <2>2. CASE q # r
    <3>1. Kept(q) /\ StoresKept(q)
      BY <1>2, <1>4, <1>5, <2>2 DEF Kept, StoresKept, history
    <3> QED BY <3>1, RingKept DEF RingsInv
  <2> QED BY <2>1, <2>2
<1> QED BY <1>7 DEF RingsInv

\* The event at the head is the next one of those sent, and its slot is free only when
\* the store of the head is out.
LEMMA PopRingRings ==
  ASSUME Calls, RingsInv, NEW c \in Owners, PopRing(c)
  PROVE  RingsInv'
<1> DEFINE t == Consumer(c)
<1>r. PICK r \in Rings : r = RingOf(c, Index(c))
  BY PopRingBuffer
<1>h. PICK h \in Nat : h = Len(got[r])
  <2>1. got[r] \in Seq(Nat)
    BY <1>r, Types
  <2> QED BY <2>1
<1>n. PICK n \in Nat : n = Len(buffer[t])
  BY <1>r, PopRingBuffer
<1>1. /\ r \in Rings /\ Owner(r) = t /\ At(t, "scan") /\ t \in Threads
      /\ OwnHead(c, r) = h /\ h < tail[r]
      /\ buffer[t] \in Seq(HeadStore) /\ \A i \in DOMAIN buffer[t] : ~IsClear(buffer[t][i])
      /\ buffer'[t] \in Seq(HeadStore) /\ Len(buffer'[t]) = n + 1 /\ n \in Nat
      /\ \A i \in 1..n : buffer'[t][i] = buffer[t][i]
      /\ buffer'[t][n + 1] = [ring |-> r, head |-> h + 1]
      /\ \A u \in Threads : u # t => buffer'[u] = buffer[u]
  BY <1>r, <1>h, <1>n, PopRingBuffer
<1>2. /\ cached_tail' = [cached_tail EXCEPT ![r] = KnownTail(c, r)]
      /\ got' = [got EXCEPT ![r] = Append(@, slots[r][OwnHead(c, r) % kRing])]
      /\ UNCHANGED <<counts, tail, closed, head, cached_head, slots, calls, sent>>
      /\ OwnHead(c, r) # KnownTail(c, r)
  BY <1>r DEF PopRing
<1>3. OthersStay(t)
  BY PopRingMoves
<1>4. \A q \in Rings : At(Producer(q), "publish")' <=> At(Producer(q), "publish")
  <2> TAKE q \in Rings
  <2>1. stack'[Producer(q)] = stack[Producer(q)]
    BY <1>3, Names DEF OthersStay
  <2> QED BY <2>1 DEF At, Doing
<1>5. DOMAIN buffer[t] = 1..n /\ DOMAIN buffer'[t] = 1..(n + 1)
  BY <1>1, <1>n
<1>6. /\ ~IsClear(buffer'[t][n + 1]) /\ buffer'[t][n + 1].ring = r /\ buffer'[t][n + 1].head = h + 1
      /\ \A i \in 1..n : ~IsClear(buffer'[t][i])
  <2>1. buffer'[t][n + 1] \in HeadStore
    BY <1>1, <1>5
  <2> QED BY <1>1, <1>5, <2>1, Stores
<1>7. KnownTail(c, r) \in Nat /\ KnownTail(c, r) <= tail[r] /\ h < KnownTail(c, r) /\ h \in Nat
  <2>1. h <= KnownTail(c, r) /\ KnownTail(c, r) <= tail[r] /\ KnownTail(c, r) \in Nat /\ h \in Nat
    BY <1>1, <1>h, OwnHeadIs, KnownTailIs
  <2> QED BY <1>1, <1>2, <2>1
<1>8. got[r] \in Seq(Nat) /\ slots[r][h % kRing] = sent[r][h + 1] /\ sent[r][h + 1] \in Nat /\ tail[r] \in Nat
  <2>1. tail[r] \in Nat /\ tail[r] = Len(sent[r]) /\ sent[r] \in Seq(Nat) /\ got[r] \in Seq(Nat)
    BY <1>1, <1>h, Types DEF RingsInv, IndicesInTurn
  <2>2. h + 1 \in 1..Len(sent[r]) /\ h \in h..(tail[r] - 1)
    BY <1>1, <1>7, <2>1
  <2>3. slots[r][h % kRing] = sent[r][h + 1]
    BY <1>1, <1>h, <2>2 DEF RingsInv, EventsInTurn
  <2> QED BY <2>1, <2>2, <2>3
<1>9. /\ got'[r] = Append(got[r], sent[r][h + 1]) /\ cached_tail'[r] = KnownTail(c, r)
      /\ \A q \in Rings : q # r => got'[q] = got[q] /\ cached_tail'[q] = cached_tail[q]
  BY <1>1, <1>2, <1>h, <1>8, Types
<1>10. Len(got'[r]) = h + 1 /\ got'[r][h + 1] = sent[r][h + 1] /\ \A i \in 1..h : got'[r][i] = got[r][i]
  BY <1>h, <1>8, <1>9
<1>11. IndicesInTurn(r)'
  <2>1. /\ cached_head[r] <= head[r] /\ head[r] <= h /\ tail[r] = Len(sent[r]) /\ tail[r] <= cached_head[r] + kRing
        /\ At(Producer(r), "publish") => tail[r] < cached_head[r] + kRing /\ slots[r][tail[r] % kRing] = calls[r]
    BY <1>1, <1>h DEF RingsInv, IndicesInTurn
  <2>2. head[r] <= h + 1 /\ h + 1 <= KnownTail(c, r)
    <3>1. head[r] \in Nat
      BY <1>1, Types
    <3> QED BY <1>7, <2>1, <3>1
  <2> QED BY <1>2, <1>4, <1>7, <1>9, <1>10, <2>1, <2>2 DEF IndicesInTurn
<1>12. EventsInTurn(r)'
  <2>1. \A i \in 1..(h + 1) : got'[r][i] = sent[r][i]
    <3> TAKE i \in 1..(h + 1)
    <3>1. i = h + 1 \/ i \in 1..h
      BY <1>7
    <3> QED BY <1>1, <1>h, <1>10, <3>1 DEF RingsInv, EventsInTurn
  <2>2. \A q \in (h + 1)..(tail[r] - 1) : slots[r][q % kRing] = sent[r][q + 1]
    <3> TAKE q \in (h + 1)..(tail[r] - 1)
    <3>1. q \in h..(tail[r] - 1)
      BY <1>7, <1>8
    <3> QED BY <1>1, <1>h, <3>1 DEF RingsInv, EventsInTurn
  <2> QED BY <1>2, <1>10, <2>1, <2>2 DEF EventsInTurn
<1>13. ASSUME NEW q \in Rings, Owner(q) = t
       PROVE  /\ \A i \in 1..n : Moves(i, q)' <=> Moves(i, q)
              /\ Moves(n + 1, q)' <=> q = r
              /\ \A i : Moves(i, q)' => i \in 1..n \/ i = n + 1
              /\ \A i : Moves(i, q) => i \in 1..n
  BY <1>1, <1>5, <1>6, <1>13 DEF Moves
<1>14. HeadsInTurn(r)'
  <2>1. /\ \A i : Moves(i, r)' => i \in 1..n \/ i = n + 1
        /\ \A i \in 1..n : Moves(i, r)' <=> Moves(i, r)
        /\ Moves(n + 1, r)'
    BY <1>1, <1>13
  <2>2. \A i \in 1..n : Moves(i, r) =>
          /\ buffer'[t][i].head = buffer[t][i].head /\ buffer[t][i].head \in Nat
          /\ head[r] <= buffer[t][i].head /\ buffer[t][i].head <= h
          /\ \A j \in 1..n : Moves(j, r) /\ i < j => buffer[t][i].head <= buffer[t][j].head
    <3> TAKE i \in 1..n
    <3>1. buffer[t][i].head \in Nat /\ buffer'[t][i] = buffer[t][i]
      BY <1>1, <1>5, Stores
    <3> QED BY <1>1, <1>h, <1>5, <3>1 DEF RingsInv, HeadsInTurn
  <2>3. head[r] <= h /\ head[r] \in Nat
    BY <1>1, <1>h, Types DEF RingsInv, IndicesInTurn
  <2>4. /\ buffer'[Owner(r)] = buffer'[t] /\ head'[r] = head[r] /\ buffer'[t][n + 1].head = h + 1
        /\ DOMAIN buffer'[t] = 1..(n + 1)
    BY <1>1, <1>2, <1>5, <1>6
  <2>5. ASSUME NEW i \in DOMAIN buffer'[t], Moves(i, r)'
        PROVE  /\ head[r] <= buffer'[t][i].head /\ buffer'[t][i].head <= h + 1
               /\ \A j \in DOMAIN buffer'[t] : Moves(j, r)' /\ i < j => buffer'[t][i].head <= buffer'[t][j].head
    <3>1. CASE i = n + 1
      <4>1. \A j \in DOMAIN buffer'[t] : ~(i < j)
        BY <1>1, <2>4, <3>1
      <4> QED BY <1>7, <2>3, <2>4, <3>1, <4>1
    <3>2. CASE i \in 1..n
      <4>1. /\ Moves(i, r) /\ buffer'[t][i].head = buffer[t][i].head /\ buffer[t][i].head \in Nat
            /\ head[r] <= buffer[t][i].head /\ buffer[t][i].head <= h
        BY <2>1, <2>2, <2>5, <3>2
      <4>2. ASSUME NEW j \in DOMAIN buffer'[t], Moves(j, r)', i < j
            PROVE  buffer'[t][i].head <= buffer'[t][j].head
        <5>1. CASE j = n + 1
          BY <1>7, <2>4, <4>1, <5>1
        <5>2. CASE j \in 1..n
          BY <2>1, <2>2, <3>2, <4>1, <4>2, <5>2
        <5> QED BY <2>1, <4>2, <5>1, <5>2
      <4> QED BY <1>7, <4>1, <4>2
    <3> QED BY <2>1, <2>5, <3>1, <3>2
  <2>6. \A j \in DOMAIN buffer'[t] : j <= n + 1
    BY <1>1, <2>4
  <2>7. n + 1 \in DOMAIN buffer'[t]
    BY <1>1, <2>4
  <2> QED BY <1>10, <2>1, <2>4, <2>5, <2>6, <2>7 DEF HeadsInTurn
<1>15. ASSUME NEW q \in Rings, q # r PROVE IndicesInTurn(q)' /\ EventsInTurn(q)' /\ HeadsInTurn(q)'
  <2>1. Kept(q)
    BY <1>2, <1>4, <1>9, <1>15 DEF Kept
  <2>2. CASE Owner(q) # t
    <3>1. Owner(q) \in Threads
      <4>1. PICK d \in Owners : Owner(q) = Consumer(d)
        BY Sharing
      <4> QED BY <4>1, Names
    <3>2. StoresKept(q)
      BY <1>1, <2>2, <3>1 DEF StoresKept
    <3> QED BY <2>1, <3>2, RingKept DEF RingsInv
  <2>3. CASE Owner(q) = t
    <3>1. \A i : Moves(i, q)' <=> Moves(i, q)
      BY <1>13, <1>15, <2>3
    <3>2. \A i : Moves(i, q) => i \in DOMAIN buffer[t] /\ i \in DOMAIN buffer'[t] /\ buffer'[t][i] = buffer[t][i]
      <4>1. 1..n \subseteq DOMAIN buffer'[t]
        BY <1>1, <1>5
      <4> QED BY <1>1, <1>5, <1>13, <2>3, <4>1
    <3>3. IndicesInTurn(q)' /\ EventsInTurn(q)'
      BY <2>1 DEF RingsInv, IndicesInTurn, EventsInTurn, Kept
    <3>4. HeadsInTurn(q)'
      <4>1. head'[q] = head[q] /\ got'[q] = got[q] /\ HeadsInTurn(q)
        BY <2>1 DEF Kept, RingsInv
      <4> QED BY <2>3, <3>1, <3>2, <4>1 DEF HeadsInTurn
    <3> QED BY <3>3, <3>4
  <2> QED BY <2>2, <2>3
<1> QED BY <1>11, <1>12, <1>14, <1>15 DEF RingsInv

\* A step of another thread that writes nothing of the rings.
LEMMA OffRings ==
  ASSUME RingsInv, NEW t, \A r \in Rings : Producer(r) # t, OthersStay(t),
         UNCHANGED <<buffer, tail, head, cached_head, cached_tail, slots, sent, got, calls>>
  PROVE  RingsInv'
<1>1. ASSUME NEW r \in Rings PROVE Kept(r) /\ StoresKept(r)
  <2>1. stack'[Producer(r)] = stack[Producer(r)]
    BY Names DEF OthersStay
  <2> QED BY <2>1 DEF Kept, StoresKept, At, Doing
<1> QED BY <1>1, RingKept DEF RingsInv

\* pop keeps the books.
LEMMA PoppingRings ==
  ASSUME Calls, RingsInv, NEW c \in Owners, Popping(c)
  PROVE  RingsInv'
<1> DEFINE t == Consumer(c)
<1>0. t \in Threads /\ t \in Sleepers
  BY Names
<1>1. CASE Waiting(t) \/ Notifying(t)
  BY <1>0, <1>1, WaitingRings DEF Waiting, Notifying
<1>2. CASE AnyClosed(c) \/ Drained(c)
  <2>1. OthersStay(t) /\ UNCHANGED <<buffer, rings, next, history>>
    BY <1>2, AnyClosedMoves, DrainedMoves DEF AnyClosed, Drained
  <2>2. \A r \in Rings : Producer(r) # t
    BY Names
  <2> QED BY <2>1, <2>2, OffRings DEF rings, history
<1> QED BY <1>1, <1>2, PopRingRings, PopMissRings DEF Popping

\* The bits and the wakes do not touch the rings.
LEMMA ClosingRings ==
  ASSUME Calls, RingsInv, BeginClose \/ Closing
  PROVE  RingsInv'
<1>1. OthersStay(Closer) /\ UNCHANGED <<buffer, tail, head, cached_head, cached_tail, slots, sent, got, calls>>
  <2>1. CASE BeginClose
    BY <2>1, BeginCloseMoves DEF BeginClose, rings, history
  <2>2. CASE SetClosed
    BY <2>2, CloserPops DEF SetClosed, history
  <2>3. CASE Notifying(Closer)
    <3>1. Then(Closer, <<>>) /\ At(Closer, "advance") /\ UNCHANGED <<rings, next, history>> /\ UNCHANGED buffer
      BY <2>3, CloserNotifies DEF AdvanceAndWakeAll
    <3>2. OthersStay(Closer)
      BY <3>1, CloserPops
    <3> QED BY <3>1, <3>2 DEF rings, history
  <2> QED BY <2>1, <2>2, <2>3 DEF Closing
<1>2. \A r \in Rings : Producer(r) # Closer
  BY Names
<1> QED BY <1>1, <1>2, OffRings

\* A store of a head that reaches memory is the oldest, and the next of that ring is newer.
LEMMA FlushRings ==
  ASSUME Calls, RingsInv, NEW t \in Threads, Flush(t)
  PROVE  RingsInv'
<1>1. /\ t \in Sleepers /\ UNCHANGED stack
      /\ \A u \in Threads : u # t => buffer'[u] = buffer[u]
  BY FlushKinds
<1>2. CASE /\ Clears(t) /\ buffer'[t] = <<>>
           /\ UNCHANGED <<epoch, waiters, sleepers, key, rings, next, history>>
  BY <1>1, <1>2, RingsKept DEF Fenced, rings, history
<1>3. ASSUME NEW c \in Owners, NEW s, s = buffer[t][1],
             /\ t = Consumer(c) /\ ~Clears(t)
             /\ s \in HeadStore /\ ~IsClear(s) /\ Owner(s.ring) = t /\ 1 \in DOMAIN buffer[t]
             /\ head' = [head EXCEPT ![s.ring] = s.head]
             /\ buffer'[t] = Tail(buffer[t]) /\ buffer[t] \in Seq(HeadStore)
             /\ UNCHANGED <<counts, tail, closed, cached_head, cached_tail, slots, next, history>>
      PROVE  RingsInv'
  <2>1. PICK n \in Nat : /\ n + 1 = Len(buffer[t]) /\ DOMAIN buffer[t] = 1..(n + 1) /\ DOMAIN buffer'[t] = 1..n
                         /\ \A i \in 1..n : buffer'[t][i] = buffer[t][i + 1]
    <3> DEFINE b == buffer[t]  m == Len(b) - 1
    <3>1. b \in Seq(HeadStore) /\ 1 \in DOMAIN b /\ buffer'[t] = Tail(b)
      BY <1>3
    <3> HIDE DEF b
    <3>2. m \in Nat /\ m + 1 = Len(b) /\ DOMAIN b = 1..(m + 1) /\ DOMAIN Tail(b) = 1..m
      BY <3>1
    <3>3. \A i \in 1..m : Tail(b)[i] = b[i + 1]
      BY <3>1
    <3> HIDE DEF m
    <3> QED BY <3>1, <3>2, <3>3 DEF b
  <2>2. s.ring \in Rings /\ s.head \in Nat
    BY <1>3, Stores
  <2>3. PICK r \in Rings : r = s.ring
    BY <2>2
  <2>4. head'[r] = s.head /\ \A q \in Rings : q # r => head'[q] = head[q]
    BY <1>3, <2>3, Types
  <2>5. ASSUME NEW q \in Rings, Owner(q) = t
        PROVE  /\ \A i : Moves(i, q)' <=> i \in 1..n /\ Moves(i + 1, q)
               /\ Moves(1, q) <=> q = r
               /\ \A i : Moves(i, q) => i \in 1..(n + 1)
    <3>1. \A i \in 1..n : i + 1 \in 1..(n + 1)
      OBVIOUS
    <3>2. \A i : Moves(i, q)' <=> i \in 1..n /\ ~IsClear(buffer'[t][i]) /\ buffer'[t][i].ring = q
      BY <2>1, <2>5 DEF Moves
    <3>3. \A i : Moves(i, q) <=> i \in 1..(n + 1) /\ ~IsClear(buffer[t][i]) /\ buffer[t][i].ring = q
      BY <2>1, <2>5 DEF Moves
    <3> QED BY <1>3, <2>1, <2>3, <3>1, <3>2, <3>3
  <2>6. \A q \in Rings : At(Producer(q), "publish")' <=> At(Producer(q), "publish")
    BY <1>1 DEF At, Doing
  <2>7. ASSUME NEW q \in Rings, Owner(q) # t PROVE IndicesInTurn(q)' /\ EventsInTurn(q)' /\ HeadsInTurn(q)'
    <3>1. Owner(q) \in Threads
      <4>1. PICK d \in Owners : Owner(q) = Consumer(d)
        BY Sharing
      <4> QED BY <4>1, Names
    <3>2. q # r
      BY <1>3, <2>3, <2>7
    <3>3. Kept(q) /\ StoresKept(q)
      BY <1>1, <1>3, <2>4, <2>6, <2>7, <3>1, <3>2 DEF Kept, StoresKept, history
    <3> QED BY <3>3, RingKept DEF RingsInv
  <2>8. ASSUME NEW q \in Rings, Owner(q) = t PROVE IndicesInTurn(q)' /\ EventsInTurn(q)' /\ HeadsInTurn(q)'
    <3>1. /\ \A i \in 1..(n + 1) : Moves(i, q) =>
               /\ buffer[t][i].head \in Nat /\ head[q] <= buffer[t][i].head /\ buffer[t][i].head <= Len(got[q])
               /\ \A j \in 1..(n + 1) : Moves(j, q) /\ i < j => buffer[t][i].head <= buffer[t][j].head
          /\ \/ head[q] = Len(got[q]) /\ \A i \in 1..(n + 1) : ~Moves(i, q)
             \/ \E i \in 1..(n + 1) :
                  /\ Moves(i, q) /\ buffer[t][i].head = Len(got[q])
                  /\ \A j \in 1..(n + 1) : Moves(j, q) => j <= i
      <4>1. \A i \in 1..(n + 1) : buffer[t][i].head \in Nat
        BY <1>3, <2>1, Stores
      <4> QED BY <2>1, <2>8, <4>1 DEF RingsInv, HeadsInTurn
    <3>2. 1 \in 1..(n + 1) /\ Len(got[q]) \in Nat /\ head[q] \in Nat
      <4>1. got[q] \in Seq(Nat) /\ head[q] \in Nat
        BY Types
      <4> QED BY <4>1
    <3>3. head'[q] = IF q = r THEN s.head ELSE head[q]
      BY <2>4
    <3>4. head[q] <= head'[q] /\ head'[q] <= Len(got[q]) /\ head'[q] \in Nat
      <4>1. CASE q = r
        BY <1>3, <2>2, <2>5, <2>8, <3>1, <3>2, <3>3, <4>1
      <4>2. CASE q # r
        <5>1. head[q] <= Len(got[q])
          BY DEF RingsInv, IndicesInTurn
        <5> QED BY <3>2, <3>3, <4>2, <5>1
      <4> QED BY <4>1, <4>2
    <3>5. IndicesInTurn(q)'
      <4>1. cached_head[q] <= head'[q]
        <5>1. cached_head[q] \in Nat /\ cached_head[q] <= head[q]
          BY Types DEF RingsInv, IndicesInTurn
        <5> QED BY <3>2, <3>4, <5>1
      <4> QED BY <1>3, <2>6, <3>4, <4>1 DEF RingsInv, IndicesInTurn, history
    <3>6. EventsInTurn(q)'
      BY <1>3 DEF RingsInv, EventsInTurn, history
    <3>7. HeadsInTurn(q)'
      <4>1. ASSUME NEW i \in 1..n, Moves(i, q)'
            PROVE  /\ head'[q] <= buffer'[t][i].head /\ buffer'[t][i].head <= Len(got[q])
                   /\ \A j \in 1..n : Moves(j, q)' /\ i < j => buffer'[t][i].head <= buffer'[t][j].head
        <5>1. i + 1 \in 1..(n + 1) /\ Moves(i + 1, q) /\ buffer'[t][i].head = buffer[t][i + 1].head
          BY <2>1, <2>5, <2>8, <4>1
        <5>2. head'[q] <= buffer[t][i + 1].head
          <6>1. CASE q = r
            <7>1. 1 < i + 1
              OBVIOUS
            <7>2. Moves(1, q)
              BY <2>5, <2>8, <6>1
            <7> QED BY <1>3, <3>1, <3>2, <3>3, <5>1, <6>1, <7>1, <7>2
          <6>2. CASE q # r
            BY <3>1, <3>3, <5>1, <6>2
          <6> QED BY <6>1, <6>2
        <5>3. ASSUME NEW j \in 1..n, Moves(j, q)', i < j PROVE buffer'[t][i].head <= buffer'[t][j].head
          <6>1. j + 1 \in 1..(n + 1) /\ Moves(j + 1, q) /\ buffer'[t][j].head = buffer[t][j + 1].head /\ i + 1 < j + 1
            BY <2>1, <2>5, <2>8, <5>3
          <6> QED BY <3>1, <5>1, <6>1
        <5> QED BY <3>1, <5>1, <5>2, <5>3
      <4>2. \/ head'[q] = Len(got[q]) /\ \A i \in 1..n : ~Moves(i, q)'
            \/ \E i \in 1..n :
                 /\ Moves(i, q)' /\ buffer'[t][i].head = Len(got[q])
                 /\ \A j \in 1..n : Moves(j, q)' => j <= i
        <5>1. CASE head[q] = Len(got[q]) /\ \A i \in 1..(n + 1) : ~Moves(i, q)
          <6>1. q # r
            BY <2>5, <2>8, <3>2, <5>1
          <6> QED BY <2>5, <2>8, <3>3, <5>1, <6>1
        <5>2. ASSUME NEW m \in 1..(n + 1), Moves(m, q), buffer[t][m].head = Len(got[q]),
                     \A j \in 1..(n + 1) : Moves(j, q) => j <= m
              PROVE  \/ head'[q] = Len(got[q]) /\ \A i \in 1..n : ~Moves(i, q)'
                     \/ \E i \in 1..n :
                          /\ Moves(i, q)' /\ buffer'[t][i].head = Len(got[q])
                          /\ \A j \in 1..n : Moves(j, q)' => j <= i
          <6>1. CASE m = 1
            <7>1. q = r /\ head'[q] = Len(got[q])
              BY <1>3, <2>5, <2>8, <3>3, <5>2, <6>1
            <7>2. \A i \in 1..n : ~Moves(i, q)'
              <8> SUFFICES ASSUME NEW i \in 1..n, Moves(i, q)' PROVE FALSE
                OBVIOUS
              <8>1. i + 1 \in 1..(n + 1) /\ Moves(i + 1, q) /\ ~(i + 1 <= 1)
                BY <2>5, <2>8
              <8> QED BY <5>2, <6>1, <8>1
            <7> QED BY <7>1, <7>2
          <6>2. CASE m # 1
            <7>1. m - 1 \in 1..n /\ (m - 1) + 1 = m
              BY <6>2
            <7>2. Moves(m - 1, q)' /\ buffer'[t][m - 1].head = Len(got[q])
              BY <2>1, <2>5, <2>8, <5>2, <7>1
            <7>3. ASSUME NEW j \in 1..n, Moves(j, q)' PROVE j <= m - 1
              <8>1. j + 1 \in 1..(n + 1) /\ Moves(j + 1, q)
                BY <2>5, <2>8, <7>3
              <8>2. j + 1 <= m
                BY <5>2, <8>1
              <8> QED BY <8>2
            <7> QED BY <7>1, <7>2, <7>3
          <6> QED BY <6>1, <6>2
        <5> QED BY <3>1, <5>1, <5>2
      <4>3. buffer'[Owner(q)] = buffer'[t] /\ DOMAIN buffer'[t] = 1..n /\ got'[q] = got[q]
        BY <1>3, <2>1, <2>8 DEF history
      <4> QED BY <4>1, <4>2, <4>3 DEF HeadsInTurn
    <3> QED BY <3>5, <3>6, <3>7
  <2> QED BY <2>7, <2>8 DEF RingsInv
<1> QED BY <1>2, <1>3, FlushKinds

\* At first the rings are empty.
LEMMA RingsInit == Init => RingsInv
<1> SUFFICES ASSUME Init, NEW r \in Rings PROVE IndicesInTurn(r) /\ EventsInTurn(r) /\ HeadsInTurn(r)
  BY DEF RingsInv
<1>1. /\ tail[r] = 0 /\ head[r] = 0 /\ cached_head[r] = 0 /\ cached_tail[r] = 0
      /\ sent[r] = <<>> /\ got[r] = <<>>
  BY DEF Init
<1>2. stack[Producer(r)] = <<Idle>> /\ Owner(r) \in Threads
  <2>1. Producer(r)[1] # "consumer" /\ Producer(r) \in Threads
    BY Names DEF Producer
  <2>2. Owner(r) \in Threads
    <3>1. PICK c \in Owners : Owner(r) = Consumer(c)
      BY Sharing
    <3> QED BY <3>1, Names
  <2> QED BY <2>1, <2>2 DEF Init, Idle
<1>3. \A i : ~Moves(i, r)
  <2>1. buffer[Owner(r)] = <<>>
    BY <1>2, ShardsAssumption DEF Init, EventCountInit
  <2> QED BY <2>1, NoStores DEF Fenced
<1>4. ~At(Producer(r), "publish")
  BY <1>2 DEF At, Doing, Idle
<1>5. Len(got[r]) = 0 /\ Len(sent[r]) = 0 /\ kRing \in Nat
  BY <1>1, Sizes
<1>6. IndicesInTurn(r)
  BY <1>1, <1>4, <1>5 DEF IndicesInTurn
<1>7. EventsInTurn(r)
  BY <1>1, <1>5 DEF EventsInTurn
<1>8. HeadsInTurn(r)
  BY <1>1, <1>3, <1>5 DEF HeadsInTurn
<1> QED BY <1>6, <1>7, <1>8

\* No step breaks the places of the threads or the books of the rings.
LEMMA RingsNext == Calls /\ RingsInv /\ [Next \/ Over]_vars => Calls' /\ RingsInv'
<1> SUFFICES ASSUME Calls, RingsInv, [Next \/ Over]_vars PROVE Calls' /\ RingsInv'
  OBVIOUS
<1>1. CASE UNCHANGED vars
  <2>1. Calls'
    BY <1>1 DEF Calls, StateTypes, InCalls, RingTypes, CountTypes, BufferTypes, Fenced, Clears,
             vars, counts, rings, history
  <2>2. RingsInv'
    BY <1>1 DEF RingsInv, IndicesInTurn, EventsInTurn, HeadsInTurn, Moves, At, Doing,
             vars, counts, rings, history
  <2> QED BY <2>1, <2>2
<1>2. CASE Next
  <2>1. Outline' = Outline
    BY <1>2 DEF Next
  <2>2. CASE \E r \in Rings : BeginPush(r) \/ Pushing(r)
    BY <2>1, <2>2, PushingCalls, PushingRings
  <2>3. CASE \E c \in Owners : Popping(c)
    BY <2>1, <2>3, PoppingCalls, PoppingRings
  <2>4. CASE BeginClose \/ Closing
    BY <2>1, <2>4, ClosingCalls, ClosingRings
  <2>5. CASE \E t \in Threads : Flush(t)
    BY <2>1, <2>5, FlushCalls, FlushRings
  <2> QED BY <1>2, <2>2, <2>3, <2>4, <2>5 DEF Next
<1> QED BY <1>1, <1>2 DEF Over

\* The books of the rings hold in every state: what a side reads of a copied index is old
\* and never wrong, and the slots between the two indices hold the events sent.
THEOREM ShardsRings == Spec => [](Calls /\ RingsInv)
<1>1. Init => Calls /\ RingsInv
  BY CallsInit, RingsInit
<1>2. (Calls /\ RingsInv) /\ [Next \/ Over]_vars => (Calls /\ RingsInv)'
  BY RingsNext
<1> QED BY <1>1, <1>2, PTL DEF Spec

\* Pushes and pops of one shard: a worker takes what the producer was told had been
\* accepted, in that order, although either side trusts a cached copy of the other's
\* index, and the store that frees a slot may reach memory late.
THEOREM ShardsInOrder == Spec => []RingsInOrder
<1>1. Calls /\ RingsInv => RingsInOrder
  <2> SUFFICES ASSUME Calls, RingsInv PROVE RingsInOrder
    OBVIOUS
  <2>1. TypeOK
    <3>1. \A r \in Rings : /\ cached_head[r] \in 0..head[r] /\ cached_tail[r] \in 0..tail[r]
                           /\ calls[r] \in 0..Pushes[r]
      <4> TAKE r \in Rings
      <4>1. cached_head[r] \in Nat /\ cached_tail[r] \in Nat /\ calls[r] \in Nat /\ head[r] \in Nat /\ tail[r] \in Nat
            /\ Pushes[r] \in Nat
        BY Types, ShardsAssumption
      <4>2. cached_head[r] <= head[r] /\ cached_tail[r] <= tail[r] /\ calls[r] <= Pushes[r]
        BY Types DEF RingsInv, IndicesInTurn
      <4> QED BY <4>1, <4>2
    <3> QED BY <3>1, Types DEF TypeOK, Shares
  <2>2. ASSUME NEW r \in Rings
        PROVE  /\ IsPrefix(got[r], sent[r])
               /\ \A q \in Len(got[r])..(tail[r] - 1) : slots[r][q % kRing] = sent[r][q + 1]
    <3>1. /\ got[r] \in Seq(Nat) /\ sent[r] \in Seq(Nat) /\ Len(got[r]) <= Len(sent[r])
          /\ \A i \in 1..Len(got[r]) : got[r][i] = sent[r][i]
      <4>1. got[r] \in Seq(Nat) /\ sent[r] \in Seq(Nat) /\ cached_tail[r] \in Nat /\ tail[r] \in Nat
        BY Types
      <4>2. Len(got[r]) <= cached_tail[r] /\ cached_tail[r] <= tail[r] /\ tail[r] = Len(sent[r])
        BY DEF RingsInv, IndicesInTurn
      <4> QED BY <4>1, <4>2 DEF RingsInv, EventsInTurn
    <3>2. SubSeq(sent[r], 1, Len(got[r])) = SubSeq(got[r], 1, Len(got[r]))
      <4> DEFINE a == SubSeq(sent[r], 1, Len(got[r]))  b == SubSeq(got[r], 1, Len(got[r]))
      <4>0. Len(got[r]) \in Nat /\ \A i \in 1..Len(got[r]) : i \in 1..Len(sent[r])
        BY <3>1
      <4>1. /\ a \in Seq(Nat) /\ Len(a) = Len(got[r])
            /\ \A i \in 1..Len(a) : a[i] = sent[r][i]
        <5>1. \A i \in 1..Len(got[r]) : sent[r][i] \in Nat
          BY <3>1, <4>0
        <5>2. /\ a \in Seq(Nat) /\ Len(a) = IF 1 <= Len(got[r]) THEN Len(got[r]) - 1 + 1 ELSE 0
              /\ \A i \in 1..(Len(got[r]) - 1 + 1) : a[i] = sent[r][1 + i - 1]
          BY <4>0, <5>1, SubSeqProperties
        <5> HIDE DEF a
        <5> QED BY <4>0, <5>2
      <4>2. /\ b \in Seq(Nat) /\ Len(b) = Len(got[r])
            /\ \A i \in 1..Len(b) : b[i] = got[r][i]
        <5>1. \A i \in 1..Len(got[r]) : got[r][i] \in Nat
          BY <3>1, <4>0
        <5>2. /\ b \in Seq(Nat) /\ Len(b) = IF 1 <= Len(got[r]) THEN Len(got[r]) - 1 + 1 ELSE 0
              /\ \A i \in 1..(Len(got[r]) - 1 + 1) : b[i] = got[r][1 + i - 1]
          BY <4>0, <5>1, SubSeqProperties
        <5> HIDE DEF b
        <5> QED BY <4>0, <5>2
      <4> HIDE DEF a, b
      <4>3. Len(a) = Len(b) /\ \A i \in 1..Len(a) : a[i] = b[i]
        BY <3>1, <4>1, <4>2
      <4>4. a = b
        BY <4>1, <4>2, <4>3, SeqEqual
      <4> QED BY <4>4 DEF a, b
    <3> QED BY <3>1, <3>2 DEF RingsInv, EventsInTurn, IsPrefix
  <2> QED BY <2>1, <2>2 DEF RingsInOrder
<1> QED BY <1>1, ShardsRings, PTL

(* ------------------------ the looks of a consumer ------------------------ *)
\* A step of t that changes nothing a consumer has seen, and starts no look.
LEMMA LooksKept ==
  ASSUME Calls, LooksInv, NEW t \in Threads, OthersStay(t) \/ UNCHANGED stack,
         stack'[t] = stack[t] \/ (\A c \in Owners : t # Consumer(c)) \/ WaitsAt(Doing(t)'),
         \A r \in Rings : closed[r] => closed'[r],
         UNCHANGED <<tail, next, skipped, got>>
  PROVE  LooksInv'
<1>1. ASSUME NEW c \in Owners
      PROVE  stack'[Consumer(c)] = stack[Consumer(c)] \/ WaitsAt(Doing(Consumer(c))')
  <2>1. CASE Consumer(c) = t
    BY <2>1
  <2>2. CASE Consumer(c) # t
    BY <2>2, Names DEF OthersStay
  <2> QED BY <2>1, <2>2
<1>2. \A c \in Owners : \A k \in Shares : RingOf(c, k) \in Rings
  BY Sharing
<1>3. \A r \in Rings : /\ Done(r) => Done(r)'
                       /\ Empty(r)' <=> Empty(r)
  BY DEF Done, Empty
<1>4. DrainedSoFar'
  <2> SUFFICES ASSUME NEW c \in Owners
               PROVE  /\ At(Consumer(c), "drained?")' =>
                           \A k \in Shares : k < Doing(Consumer(c))'[2] => Done(RingOf(c, k))'
                      /\ At(Consumer(c), "drained")' => \A k \in Shares : Done(RingOf(c, k))'
    BY DEF DrainedSoFar
  <2>1. CASE stack'[Consumer(c)] = stack[Consumer(c)]
    BY <1>2, <1>3, <2>1 DEF LooksInv, DrainedSoFar, At, Doing
  <2>2. CASE WaitsAt(Doing(Consumer(c))')
    BY <2>2 DEF WaitsAt, At, Idle, Cancel, Scan, From
  <2> QED BY <1>1, <2>1, <2>2
<1>5. TurnsComeCloser'
  <2> SUFFICES ASSUME NEW c \in Owners, NEW i \in Shares, NEW r \in Rings, r = RingOf(c, i)
               PROVE  /\ skipped'[r] + Ahead(c, i)' <= kOwned - 1
                      /\ Empty(r)' => skipped'[r] = 0
                      /\ At(Consumer(c), "scan")' /\ Ahead(c, i)' < Doing(Consumer(c))'[2] => skipped'[r] = 0
    BY <1>2 DEF TurnsComeCloser
  <2>1. Ahead(c, i)' = Ahead(c, i)
    BY DEF Ahead
  <2>2. /\ skipped[r] + Ahead(c, i) <= kOwned - 1
        /\ Empty(r) => skipped[r] = 0
        /\ At(Consumer(c), "scan") /\ Ahead(c, i) < Doing(Consumer(c))[2] => skipped[r] = 0
    BY DEF LooksInv, TurnsComeCloser
  <2>3. Ahead(c, i) \in Int /\ Ahead(c, i) >= 0
    <3>1. next[c] \in 0..(kOwned - 1) /\ i \in 0..(kOwned - 1) /\ kOwned \in Nat
      BY Types, Sharing DEF Shares
    <3> QED BY <3>1 DEF Ahead
  <2>4. At(Consumer(c), "scan")' /\ Ahead(c, i)' < Doing(Consumer(c))'[2] => skipped'[r] = 0
    <3>1. CASE stack'[Consumer(c)] = stack[Consumer(c)]
      BY <2>1, <2>2, <3>1 DEF At, Doing
    <3>2. CASE WaitsAt(Doing(Consumer(c))')
      <4>1. At(Consumer(c), "scan")' => Doing(Consumer(c))'[2] = 0
        BY <3>2 DEF WaitsAt, At, Idle, Cancel, Scan, From
      <4> QED BY <2>1, <2>3, <4>1
    <3> QED BY <1>1, <3>1, <3>2
  <2> QED BY <1>3, <2>1, <2>2, <2>4
<1> QED BY <1>4, <1>5 DEF LooksInv

\* A publication fills an empty ring only if it is open.
LEMMA PublishLooks ==
  ASSUME Calls, RingsInv, LooksInv, NEW r \in Rings, Publish(r)
  PROVE  LooksInv'
<1>1. OthersStay(Producer(r)) /\ \A c \in Owners : stack'[Consumer(c)] = stack[Consumer(c)]
  <2>1. OthersStay(Producer(r))
    BY PublishMoves
  <2> QED BY <2>1, Names DEF OthersStay
<1>2. UNCHANGED <<closed, next, skipped, got>>
  BY DEF Publish
<1>3. \A q \in Rings : tail'[q] = tail[q] \/ (~closed[q] /\ tail'[q] = tail[q] + 1)
  <2>1. CASE closed[r]
    BY <2>1 DEF Publish
  <2>2. CASE ~closed[r]
    <3>1. tail' = [tail EXCEPT ![r] = @ + 1]
      BY <2>2 DEF Publish
    <3> QED BY <2>2, <3>1, Types
  <2> QED BY <2>1, <2>2
<1>4. \A q \in Rings : /\ Done(q) => Done(q)'
                       /\ Empty(q)' => Empty(q)
  <2> TAKE q \in Rings
  <2>1. Len(got[q]) \in Nat /\ Len(got[q]) <= tail[q] /\ tail[q] \in Nat
    <3>1. got[q] \in Seq(Nat) /\ tail[q] \in Nat /\ cached_tail[q] \in Nat
      BY Types
    <3> QED BY <3>1 DEF RingsInv, IndicesInTurn
  <2> QED BY <1>2, <1>3, <2>1 DEF Done, Empty
<1>5. \A c \in Owners : \A k \in Shares : RingOf(c, k) \in Rings
  BY Sharing
<1>6. DrainedSoFar'
  BY <1>1, <1>4, <1>5 DEF LooksInv, DrainedSoFar, At, Doing
<1>7. TurnsComeCloser'
  BY <1>1, <1>2, <1>4, <1>5 DEF LooksInv, TurnsComeCloser, At, Doing, Ahead
<1> QED BY <1>6, <1>7 DEF LooksInv

\* Serving a ring brings the turn of each of the others closer.
LEMMA PopRingLooks ==
  ASSUME Calls, RingsInv, LooksInv, NEW c \in Owners, PopRing(c)
  PROVE  LooksInv'
<1> DEFINE t == Consumer(c)  k == Doing(t)[2]
<1>1. PICK r \in Rings : r = RingOf(c, Index(c))
  BY PopRingBuffer
<1>2. /\ Owner(r) = t /\ At(t, "scan") /\ OwnHead(c, r) = Len(got[r]) /\ Len(got[r]) < tail[r] /\ t \in Threads
  BY <1>1, PopRingBuffer
<1>3. /\ OthersStay(t) /\ \A d \in Owners : d # c => stack'[Consumer(d)] = stack[Consumer(d)]
      /\ Doing(t)' \in {From, Cancel, Look(Producer(r))}
  <2>1. OthersStay(t) /\ Head(stack'[t]) \in {From, Cancel, Look(Producer(r))}
    BY <1>1, PopRingMoves
  <2> QED BY <2>1, Names DEF OthersStay, Doing
<1>4. /\ next' = [next EXCEPT ![c] = NextAfter(Index(c))]
      /\ got' = [got EXCEPT ![r] = Append(@, slots[r][OwnHead(c, r) % kRing])]
      /\ skipped' = [s \in Rings |-> IF Owner(s) # t THEN skipped[s]
                                    ELSE IF s = r \/ OwnHead(c, s) = tail[s] THEN 0
                                    ELSE skipped[s] + 1]
      /\ UNCHANGED <<tail, closed>>
  BY <1>1 DEF PopRing
<1>5. /\ \A q \in Rings : q # r => got'[q] = got[q] /\ (Empty(q)' <=> Empty(q))
      /\ ~Empty(r)
  BY <1>2, <1>4, Types DEF Empty
<1>6. \A q \in Rings : Done(q) => Done(q)'
  BY <1>4, <1>5 DEF Done
<1>7. \A d \in Owners : \A i \in Shares : RingOf(d, i) \in Rings /\ Owner(RingOf(d, i)) = Consumer(d)
  BY Sharing
<1>8. /\ ~At(t, "drained?")' /\ ~At(t, "drained")'
      /\ At(t, "scan")' => Doing(t)'[2] = 0
  BY <1>3 DEF At, From, Scan, Cancel, Look
<1>9. DrainedSoFar'
  <2> SUFFICES ASSUME NEW d \in Owners
               PROVE  /\ At(Consumer(d), "drained?")' =>
                           \A j \in Shares : j < Doing(Consumer(d))'[2] => Done(RingOf(d, j))'
                      /\ At(Consumer(d), "drained")' => \A j \in Shares : Done(RingOf(d, j))'
    BY DEF DrainedSoFar
  <2>1. CASE d = c
    BY <1>8, <2>1
  <2>2. CASE d # c
    BY <1>3, <1>6, <1>7, <2>2 DEF LooksInv, DrainedSoFar, At, Doing
  <2> QED BY <2>1, <2>2
<1>10. ASSUME NEW d \in Owners, NEW i \in Shares, NEW s \in Rings, s = RingOf(d, i)
       PROVE  /\ skipped'[s] + Ahead(d, i)' <= kOwned - 1
              /\ Empty(s)' => skipped'[s] = 0
              /\ At(Consumer(d), "scan")' /\ Ahead(d, i)' < Doing(Consumer(d))'[2] => skipped'[s] = 0
  <2>0. /\ skipped[s] + Ahead(d, i) <= kOwned - 1
        /\ Empty(s) => skipped[s] = 0
        /\ At(Consumer(d), "scan") /\ Ahead(d, i) < Doing(Consumer(d))[2] => skipped[s] = 0
    BY <1>10 DEF LooksInv, TurnsComeCloser
  <2>1. CASE d # c
    <3>1. Owner(s) # t /\ s # r
      BY <1>2, <1>7, <1>10, <2>1, Names
    <3>2. skipped'[s] = skipped[s] /\ Ahead(d, i)' = Ahead(d, i)
      BY <1>4, <2>1, <3>1, Types DEF Ahead
    <3> QED BY <1>3, <1>5, <2>0, <2>1, <3>1, <3>2 DEF At, Doing
  <2>2. CASE d = c
    <3>1. /\ kOwned \in Nat /\ kOwned >= 1 /\ next[c] \in 0..(kOwned - 1) /\ k \in 0..(kOwned - 1) /\ i \in 0..(kOwned - 1)
          /\ Index(c) = IF next[c] + k < kOwned THEN next[c] + k ELSE (next[c] + k) - kOwned
          /\ next'[c] = IF Index(c) + 1 < kOwned THEN Index(c) + 1 ELSE 0
      BY <1>2, <1>4, IndexIs, Sharing, Types DEF Shares
    <3> HIDE DEF k
    <3>2. /\ Ahead(c, i) = IF i >= next[c] THEN i - next[c] ELSE i + kOwned - next[c]
          /\ Ahead(c, i)' = IF i >= next'[c] THEN i - next'[c] ELSE i + kOwned - next'[c]
      BY DEF Ahead
    <3>3. /\ Ahead(c, i) \in 0..(kOwned - 1) /\ Ahead(c, i)' \in 0..(kOwned - 1)
          /\ Ahead(c, i) = k => i = Index(c)
          /\ Ahead(c, i) < k => Ahead(c, i)' = ((Ahead(c, i) - k) - 1) + kOwned
          /\ Ahead(c, i) > k => Ahead(c, i)' = (Ahead(c, i) - k) - 1
      BY <3>1, <3>2
    <3>4. ~(At(Consumer(d), "scan")' /\ Ahead(d, i)' < Doing(Consumer(d))'[2])
      BY <1>8, <2>2, <3>3
    <3>5. CASE s = r
      <4>1. skipped'[s] = 0
        BY <1>2, <1>4, <3>5
      <4> QED BY <2>2, <3>1, <3>3, <3>4, <4>1
    <3>6. CASE s # r
      <4>1. Owner(s) = t /\ OwnHead(c, s) = Len(got[s])
        BY <1>7, <1>10, <2>2, OwnHeadIs
      <4>2. skipped'[s] = IF Empty(s) THEN 0 ELSE skipped[s] + 1
        BY <1>4, <3>6, <4>1 DEF Empty
      <4>3. i # Index(c)
        BY <1>1, <1>10, <2>2, <3>6
      <4>4. skipped[s] \in Nat
        BY Types
      <4>5. skipped'[s] + Ahead(c, i)' <= kOwned - 1
        <5>1. CASE Empty(s)
          BY <3>1, <3>3, <4>2, <5>1
        <5>2. CASE ~Empty(s) /\ Ahead(c, i) < k
          <6>1. skipped[s] = 0
            BY <1>2, <2>0, <2>2, <5>2 DEF k
          <6> QED BY <3>1, <3>3, <4>2, <5>2, <6>1
        <5>3. CASE ~Empty(s) /\ Ahead(c, i) > k
          BY <2>0, <2>2, <3>1, <3>3, <4>2, <4>4, <5>3
        <5> QED BY <3>1, <3>3, <4>3, <5>1, <5>2, <5>3
      <4>6. Empty(s)' => skipped'[s] = 0
        BY <1>5, <3>6, <4>2
      <4> QED BY <2>2, <3>4, <4>5, <4>6
    <3> QED BY <3>5, <3>6
  <2> QED BY <2>1, <2>2
<1>11. TurnsComeCloser'
  <2>1. \A d \in Owners : \A i \in Shares : RingOf(d, i)' = RingOf(d, i)
    BY DEF RingOf
  <2> QED BY <1>7, <1>10, <2>1 DEF TurnsComeCloser
<1> QED BY <1>9, <1>11 DEF LooksInv

\* A step of a consumer between two looks, which changes nothing it has seen.
LEMMA LookGoesOn ==
  ASSUME Calls, LooksInv, NEW c \in Owners, OthersStay(Consumer(c)),
         UNCHANGED <<tail, closed, next, skipped, got>>,
         At(Consumer(c), "drained?")' => \A k \in Shares : k < Doing(Consumer(c))'[2] => Done(RingOf(c, k)),
         At(Consumer(c), "drained")' => \A k \in Shares : Done(RingOf(c, k)),
         \A i \in Shares : At(Consumer(c), "scan")' /\ Ahead(c, i) < Doing(Consumer(c))'[2] => skipped[RingOf(c, i)] = 0
  PROVE  LooksInv'
<1>1. \A d \in Owners : d # c => stack'[Consumer(d)] = stack[Consumer(d)]
  BY Names DEF OthersStay
<1>2. \A d \in Owners : \A i \in Shares : Ahead(d, i)' = Ahead(d, i)
  BY DEF Ahead
<1>3. \A r \in Rings : (Done(r)' <=> Done(r)) /\ (Empty(r)' <=> Empty(r))
  BY DEF Done, Empty
<1>4. \A d \in Owners : \A k \in Shares : RingOf(d, k) \in Rings
  BY Sharing
<1>5. DrainedSoFar'
  <2> SUFFICES ASSUME NEW d \in Owners
               PROVE  /\ At(Consumer(d), "drained?")' =>
                           \A j \in Shares : j < Doing(Consumer(d))'[2] => Done(RingOf(d, j))'
                      /\ At(Consumer(d), "drained")' => \A j \in Shares : Done(RingOf(d, j))'
    BY DEF DrainedSoFar
  <2>1. CASE d = c
    BY <1>3, <1>4, <2>1
  <2>2. CASE d # c
    BY <1>1, <1>3, <1>4, <2>2 DEF LooksInv, DrainedSoFar, At, Doing
  <2> QED BY <2>1, <2>2
<1>6. TurnsComeCloser'
  <2> SUFFICES ASSUME NEW d \in Owners, NEW i \in Shares, NEW r \in Rings, r = RingOf(d, i)
               PROVE  /\ skipped'[r] + Ahead(d, i)' <= kOwned - 1
                      /\ Empty(r)' => skipped'[r] = 0
                      /\ At(Consumer(d), "scan")' /\ Ahead(d, i)' < Doing(Consumer(d))'[2] => skipped'[r] = 0
    BY <1>4 DEF TurnsComeCloser
  <2>1. /\ skipped[r] + Ahead(d, i) <= kOwned - 1
        /\ Empty(r) => skipped[r] = 0
        /\ At(Consumer(d), "scan") /\ Ahead(d, i) < Doing(Consumer(d))[2] => skipped[r] = 0
    BY DEF LooksInv, TurnsComeCloser
  <2>2. CASE d = c
    BY <1>2, <1>3, <2>1, <2>2
  <2>3. CASE d # c
    BY <1>1, <1>2, <1>3, <2>1, <2>3 DEF At, Doing
  <2> QED BY <2>2, <2>3
<1> QED BY <1>5, <1>6 DEF LooksInv

\* A miss moves to the next ring, and the turn of that one comes.
LEMMA PopMissLooks ==
  ASSUME Calls, RingsInv, LooksInv, NEW c \in Owners, PopMiss(c)
  PROVE  LooksInv'
<1> DEFINE t == Consumer(c)  k == Doing(t)[2]  where == Doing(t)[3]
<1>1. /\ OthersStay(t) /\ At(t, "scan")
      /\ \/ k + 1 < kOwned /\ stack'[t] = <<Scan(k + 1, where)>>
         \/ ~(k + 1 < kOwned) /\ stack'[t] = <<AnyOf(0, where)>>
  BY PopMissMoves, ScanningMeans DEF PopMiss
<1>2. /\ OwnHead(c, RingOf(c, Index(c))) = KnownTail(c, RingOf(c, Index(c)))
      /\ UNCHANGED <<tail, closed, next, skipped, got>>
  BY DEF PopMiss, history
<1>3. Empty(RingOf(c, Index(c))) /\ k \in Shares
  BY <1>1, <1>2, IndexIs, KnownTailIs
<1>4. ASSUME NEW i \in Shares, Ahead(c, i) < k + 1
      PROVE  skipped[RingOf(c, i)] = 0
  <2>1. /\ kOwned \in Nat /\ kOwned >= 1 /\ next[c] \in 0..(kOwned - 1) /\ k \in 0..(kOwned - 1) /\ i \in 0..(kOwned - 1)
        /\ Index(c) = IF next[c] + k < kOwned THEN next[c] + k ELSE (next[c] + k) - kOwned
    BY <1>1, IndexIs, Sharing, Types DEF Shares
  <2>2. CASE Ahead(c, i) < k
    BY <1>1, <2>2 DEF LooksInv, TurnsComeCloser
  <2>3. CASE ~(Ahead(c, i) < k)
    <3>1. i = Index(c)
      <4> HIDE DEF k
      <4> QED BY <1>4, <2>1, <2>3 DEF Ahead
    <3> QED BY <1>3, <3>1 DEF LooksInv, TurnsComeCloser
  <2> QED BY <2>2, <2>3
<1> HIDE DEF k, where
<1>5. \/ Doing(t)' = Scan(k + 1, where)
      \/ Doing(t)' = AnyOf(0, where)
  BY <1>1 DEF Doing
<1>6. /\ ~At(t, "drained?")' /\ ~At(t, "drained")'
      /\ At(t, "scan")' => Doing(t)'[2] = k + 1
  BY <1>5 DEF At, Scan, AnyOf
<1> QED BY <1>1, <1>2, <1>4, <1>6, LookGoesOn

\* A look at the closed bits says nothing of events.
LEMMA AnyClosedLooks ==
  ASSUME Calls, RingsInv, LooksInv, NEW c \in Owners, AnyClosed(c)
  PROVE  LooksInv'
<1> DEFINE t == Consumer(c)  k == Doing(t)[2]  where == Doing(t)[3]
<1>1. /\ OthersStay(t)
      /\ Doing(t)' \in {Cancel, <<"drained?", 0>>, AnyOf(k + 1, where), <<"key">>, <<"wait">>}
  <2>1. OthersStay(t) /\ Head(stack'[t]) \in {Cancel, <<"drained?", 0>>, AnyOf(k + 1, where), <<"key">>, <<"wait">>}
    <3>1. /\ OthersStay(t)
          /\ stack'[t] \in {<<Cancel, From>>, << <<"drained?", 0>> >>, <<AnyOf(k + 1, where)>>,
                            << <<"key">>, Scan(0, "recheck")>>, << <<"wait">>, From>>}
      BY AnyClosedMoves
    <3> HIDE DEF k, where
    <3> QED BY <3>1
  <2> QED BY <2>1 DEF Doing
<1> HIDE DEF k, where
<1>2. UNCHANGED <<tail, closed, next, skipped, got>>
  BY DEF AnyClosed, rings, history
<1>3. /\ ~At(t, "drained")' /\ ~At(t, "scan")'
      /\ At(t, "drained?")' => Doing(t)'[2] = 0
  BY <1>1 DEF At, AnyOf, Cancel
<1>4. \A i \in Shares : ~(i < 0)
  BY Sharing DEF Shares
<1> QED BY <1>1, <1>2, <1>3, <1>4, LookGoesOn

\* drained goes on past a ring that is closed and empty for good.
LEMMA DrainedLooks ==
  ASSUME Calls, RingsInv, LooksInv, NEW c \in Owners, Drained(c)
  PROVE  LooksInv'
<1> DEFINE t == Consumer(c)  k == Doing(t)[2]
<1>1. /\ OthersStay(t) /\ At(t, "drained?")
      /\ \/ Doing(t)' = From
         \/ RingDrained(c, RingOf(c, k)) /\ k + 1 < kOwned /\ Doing(t)' = <<"drained?", k + 1>>
         \/ RingDrained(c, RingOf(c, k)) /\ ~(k + 1 < kOwned) /\ Doing(t)' = <<"drained">>
  <2>1. /\ OthersStay(t) /\ At(t, "drained?")
        /\ \/ stack'[t] = <<From>>
           \/ RingDrained(c, RingOf(c, k)) /\ k + 1 < kOwned /\ stack'[t] = << <<"drained?", k + 1>> >>
           \/ RingDrained(c, RingOf(c, k)) /\ ~(k + 1 < kOwned) /\ stack'[t] = << <<"drained">> >>
    BY DrainedMoves
  <2> HIDE DEF k
  <2> QED BY <2>1 DEF Doing
<1>2. UNCHANGED <<tail, closed, next, skipped, got>>
  BY DEF Drained, rings, history
<1>3. k \in Shares /\ \A j \in Shares : j < k => Done(RingOf(c, j))
  BY <1>1, WorkerAt DEF LooksInv, DrainedSoFar
<1>4. RingDrained(c, RingOf(c, k)) => Done(RingOf(c, k))
  BY <1>3, Sharing, OwnHeadIs DEF RingDrained, Done, Empty
<1> HIDE DEF k
<1>5. ~At(t, "scan")' \/ Doing(t)'[2] = 0
  BY <1>1 DEF At, From, Scan
<1>6. \A i \in Shares : Ahead(c, i) \in Int /\ Ahead(c, i) >= 0
  <2> TAKE i \in Shares
  <2>1. next[c] \in 0..(kOwned - 1) /\ i \in 0..(kOwned - 1) /\ kOwned \in Nat
    BY Types, Sharing DEF Shares
  <2> QED BY <2>1 DEF Ahead
<1>7. At(t, "drained?")' => \A j \in Shares : j < Doing(t)'[2] => Done(RingOf(c, j))
  <2> SUFFICES ASSUME At(t, "drained?")', NEW j \in Shares, j < Doing(t)'[2] PROVE Done(RingOf(c, j))
    OBVIOUS
  <2>1. RingDrained(c, RingOf(c, k)) /\ Doing(t)' = <<"drained?", k + 1>>
    BY <1>1 DEF At, From, Scan
  <2>2. j < k \/ j = k
    BY SMTT(30), <1>3, <2>1, Sharing DEF Shares
  <2> QED BY <1>3, <1>4, <2>1, <2>2
<1>8. At(t, "drained")' => \A j \in Shares : Done(RingOf(c, j))
  <2> SUFFICES ASSUME At(t, "drained")', NEW j \in Shares PROVE Done(RingOf(c, j))
    OBVIOUS
  <2>1. RingDrained(c, RingOf(c, k)) /\ ~(k + 1 < kOwned)
    BY <1>1 DEF At, From, Scan
  <2>2. j < k \/ j = k
    BY <1>3, <2>1, Sharing DEF Shares
  <2> QED BY <1>3, <1>4, <2>1, <2>2
<1> QED BY <1>1, <1>2, <1>5, <1>6, <1>7, <1>8, LookGoesOn

\* The other steps take no look.
LEMMA LooksNext == Calls /\ RingsInv /\ LooksInv /\ [Next \/ Over]_vars => LooksInv'
<1> SUFFICES ASSUME Calls, RingsInv, LooksInv, [Next \/ Over]_vars PROVE LooksInv'
  OBVIOUS
<1>0. Closer \in Threads
  BY Names
<1>1. CASE UNCHANGED vars
  <2>1. UNCHANGED stack /\ UNCHANGED <<tail, closed, next, skipped, got>>
    BY <1>1 DEF vars, rings, history
  <2> QED BY <1>0, <2>1, LooksKept
<1>2. ASSUME NEW r \in Rings, BeginPush(r) \/ Pushing(r) PROVE LooksInv'
  <2> DEFINE t == Producer(r)
  <2>0. t \in Threads /\ t \in Sleepers /\ \A c \in Owners : t # Consumer(c)
    BY Names
  <2>1. CASE Waiting(t) \/ Notifying(t)
    <3>1. OthersStay(t) \/ UNCHANGED stack
      BY <2>0, <2>1, WaitingGoes DEF Waiting, Notifying
    <3> QED BY <2>0, <2>1, <3>1, LooksKept DEF Waiting, Notifying, rings, history
  <2>2. CASE BeginPush(r)
    <3>1. OthersStay(t)
      BY <2>2, BeginPushMoves
    <3> QED BY <2>0, <2>2, <3>1, LooksKept DEF BeginPush, rings
  <2>3. CASE PushClosed(r) \/ PushFull(r) \/ PushWrite(r)
    <3>1. OthersStay(t)
      BY <2>3, PushClosedMoves, PushFullMoves, PushWriteMoves
    <3>2. UNCHANGED <<tail, closed, next, skipped, got>>
      BY <2>3 DEF PushClosed, PushFull, PushWrite, rings, history
    <3> QED BY <2>0, <3>1, <3>2, LooksKept
  <2> QED BY <1>2, <2>1, <2>2, <2>3, PublishLooks DEF Pushing
<1>3. ASSUME NEW c \in Owners, Popping(c) PROVE LooksInv'
  <2> DEFINE t == Consumer(c)
  <2>0. t \in Threads /\ t \in Sleepers
    BY Names
  <2>1. CASE Waiting(t) \/ Notifying(t)
    <3>1. (OthersStay(t) \/ UNCHANGED stack) /\ (stack'[t] = stack[t] \/ WaitsAt(Doing(t)'))
      BY <2>0, <2>1, WaitingGoes DEF Waiting, Notifying
    <3> QED BY <2>0, <2>1, <3>1, LooksKept DEF Waiting, Notifying, rings, history
  <2> QED BY <1>3, <2>1, PopRingLooks, PopMissLooks, AnyClosedLooks, DrainedLooks DEF Popping
<1>4. CASE BeginClose \/ Closing
  <2>0. \A c \in Owners : Closer # Consumer(c)
    BY Names
  <2>1. CASE BeginClose
    <3>1. OthersStay(Closer)
      BY <2>1, BeginCloseMoves
    <3> QED BY <1>0, <2>0, <2>1, <3>1, LooksKept DEF BeginClose, rings, history
  <2>2. CASE SetClosed
    <3>1. OthersStay(Closer)
      BY <2>2, CloserPops DEF SetClosed
    <3>2. \A r \in Rings : closed[r] => closed'[r]
      BY <2>2, Types DEF SetClosed
    <3> QED BY <1>0, <2>0, <2>2, <3>1, <3>2, LooksKept DEF SetClosed, history
  <2>3. CASE Notifying(Closer)
    <3>1. Then(Closer, <<>>) /\ At(Closer, "advance") /\ UNCHANGED <<rings, next, history>>
      BY <2>3, CloserNotifies
    <3>2. OthersStay(Closer)
      BY <3>1, CloserPops
    <3> QED BY <1>0, <2>0, <3>1, <3>2, LooksKept DEF rings, history
  <2> QED BY <1>4, <2>1, <2>2, <2>3 DEF Closing
<1>5. ASSUME NEW t \in Threads, Flush(t) PROVE LooksInv'
  <2>1. UNCHANGED stack /\ UNCHANGED <<tail, closed, next, skipped, got>>
    BY <1>5 DEF Flush, FlushClear, rings, history
  <2> QED BY <2>1, LooksKept
<1> QED BY <1>1, <1>2, <1>3, <1>4, <1>5 DEF Next, Over

\* At first no consumer has looked anywhere.
LEMMA LooksInit == Init => LooksInv
<1> SUFFICES ASSUME Init PROVE LooksInv
  OBVIOUS
<1>1. ASSUME NEW c \in Owners PROVE Doing(Consumer(c)) = <<"scan", 0, "top">>
  <2>1. Consumer(c)[1] = "consumer" /\ Consumer(c) \in Threads
    BY Names DEF Consumer
  <2> QED BY <2>1 DEF Init, Top, Doing
<1>2. DrainedSoFar
  BY <1>1 DEF DrainedSoFar, At
<1>3. ASSUME NEW c \in Owners, NEW i \in Shares, NEW r \in Rings
      PROVE  /\ skipped[r] + Ahead(c, i) <= kOwned - 1 /\ skipped[r] = 0
  <2>1. next[c] = 0 /\ skipped[r] = 0 /\ i \in 0..(kOwned - 1) /\ kOwned \in Nat
    BY Sharing DEF Init, Shares
  <2> QED BY <2>1 DEF Ahead
<1>4. TurnsComeCloser
  BY <1>3, Sharing DEF TurnsComeCloser
<1> QED BY <1>2, <1>4 DEF LooksInv

\* The looks of a worker hold in every state: what drained has passed stays closed and
\* empty, and a ring with an event comes nearer whenever another is served.
THEOREM ShardsLooks == Spec => []LooksInv
<1>1. Init => Calls /\ RingsInv /\ LooksInv
  BY CallsInit, RingsInit, LooksInit
<1>2. (Calls /\ RingsInv /\ LooksInv) /\ [Next \/ Over]_vars => (Calls /\ RingsInv /\ LooksInv)'
  BY RingsNext, LooksNext
<1> QED BY <1>1, <1>2, PTL DEF Spec

\* drained() looks at the rings of a worker one at a time while pushes are in flight and
\* close sets the bits one at a time; when it says so, each of them is closed and empty.
THEOREM ShardsDrainForGood == Spec => []DrainedForGood
<1>1. Calls /\ RingsInv /\ LooksInv => DrainedForGood
  <2> SUFFICES ASSUME Calls, RingsInv, LooksInv, NEW c \in Owners, At(Consumer(c), "drained"), NEW k \in Shares
               PROVE  closed[RingOf(c, k)] /\ got[RingOf(c, k)] = sent[RingOf(c, k)]
    BY DEF DrainedForGood, Shares
  <2> DEFINE r == RingOf(c, k)
  <2>1. r \in Rings /\ closed[r] /\ Len(got[r]) = tail[r]
    BY Sharing DEF LooksInv, DrainedSoFar, Done, Empty
  <2>2. /\ got[r] \in Seq(Nat) /\ sent[r] \in Seq(Nat) /\ Len(got[r]) = Len(sent[r])
        /\ \A i \in 1..Len(got[r]) : got[r][i] = sent[r][i]
    BY <2>1, Types DEF RingsInv, IndicesInTurn, EventsInTurn
  <2>3. got[r] = sent[r]
    BY <2>2, SeqEqual
  <2> QED BY <2>1, <2>3
<1> QED BY <1>1, ShardsRings, ShardsLooks, PTL

\* The scan of try_pop starts behind the ring it last took from, so a ring with an event
\* is passed over at most once for each of the worker's others.
THEOREM ShardsStarveNone == Spec => []NoRingStarves
<1>1. Calls /\ LooksInv => NoRingStarves
  <2> SUFFICES ASSUME Calls, LooksInv, NEW r \in Rings PROVE skipped[r] <= kOwned - 1
    BY DEF NoRingStarves
  <2>1. PICK c \in Owners : \E i \in Shares : r = RingOf(c, i)
    BY Sharing
  <2>2. PICK i \in Shares : r = RingOf(c, i)
    BY <2>1
  <2>3. skipped[r] + Ahead(c, i) <= kOwned - 1 /\ skipped[r] \in Nat
    BY <2>2, Types DEF LooksInv, TurnsComeCloser
  <2>4. next[c] \in 0..(kOwned - 1) /\ i \in 0..(kOwned - 1) /\ kOwned \in Nat
    BY Types, Sharing DEF Shares
  <2>5. Ahead(c, i) \in Int /\ Ahead(c, i) >= 0
    BY <2>4 DEF Ahead
  <2> QED BY <2>3, <2>4, <2>5
<1> QED BY <1>1, ShardsRings, ShardsLooks, PTL

(* --------------------------- the event counts ---------------------------- *)
\* Whether a thread with these frames has announced itself.
AnnouncedIn(s) ==
  Head(s)[1] \notin {"key", "announce"} /\ \E i \in DOMAIN s : Rechecks(s[i])

\* Who has announced itself is told by its stack alone.
LEMMA AnnouncedStack ==
  ASSUME NEW t
  PROVE  (Announced(t) <=> AnnouncedIn(stack[t])) /\ (Announced(t)' <=> AnnouncedIn(stack'[t]))
<1> QED BY DEF Announced, AnnouncedIn, Doing

\* The same, frame by frame.
LEMMA AnnouncedOn ==
  /\ \A a : AnnouncedIn(<<a>>) <=> a[1] \notin {"key", "announce"} /\ Rechecks(a)
  /\ \A a, b : AnnouncedIn(<<a, b>>) <=> a[1] \notin {"key", "announce"} /\ (Rechecks(a) \/ Rechecks(b))
  /\ \A a, b, c : AnnouncedIn(<<a, b, c>>) <=>
       a[1] \notin {"key", "announce"} /\ (Rechecks(a) \/ Rechecks(b) \/ Rechecks(c))
<1>3. \A a : AnnouncedIn(<<a>>) <=> a[1] \notin {"key", "announce"} /\ Rechecks(a)
  <2> TAKE a
  <2>1. Head(<<a>>) = a /\ DOMAIN <<a>> = 1..1 /\ <<a>>[1] = a
    OBVIOUS
  <2> QED BY <2>1 DEF AnnouncedIn
<1>4. \A a, b : AnnouncedIn(<<a, b>>) <=> a[1] \notin {"key", "announce"} /\ (Rechecks(a) \/ Rechecks(b))
  <2> TAKE a, b
  <2> DEFINE s == <<a, b>>
  <2>1. Head(s) = a /\ DOMAIN s = 1..2 /\ s[1] = a /\ s[2] = b
    OBVIOUS
  <2> HIDE DEF s
  <2>2. (\E i \in DOMAIN s : Rechecks(s[i])) <=> Rechecks(a) \/ Rechecks(b)
    <3>1. \A i \in 1..2 : i = 1 \/ i = 2
      OBVIOUS
    <3>2. 1 \in 1..2 /\ 2 \in 1..2
      OBVIOUS
    <3> QED BY <2>1, <3>1, <3>2
  <2> QED BY <2>1, <2>2 DEF AnnouncedIn, s
<1>5. \A a, b, c : AnnouncedIn(<<a, b, c>>) <=>
       a[1] \notin {"key", "announce"} /\ (Rechecks(a) \/ Rechecks(b) \/ Rechecks(c))
  <2> TAKE a, b, c
  <2> DEFINE s == <<a, b, c>>
  <2>1. Head(s) = a /\ DOMAIN s = 1..3 /\ s[1] = a /\ s[2] = b /\ s[3] = c
    OBVIOUS
  <2> HIDE DEF s
  <2>2. (\E i \in DOMAIN s : Rechecks(s[i])) <=> Rechecks(a) \/ Rechecks(b) \/ Rechecks(c)
    <3>1. \A i \in 1..3 : i = 1 \/ i = 2 \/ i = 3
      OBVIOUS
    <3>2. 1 \in 1..3 /\ 2 \in 1..3 /\ 3 \in 1..3
      OBVIOUS
    <3> QED BY <2>1, <3>1, <3>2
  <2> QED BY <2>1, <2>2 DEF AnnouncedIn, s
<1> QED BY <1>3, <1>4, <1>5

\* Which frames say that a thread has announced itself.
LEMMA RechecksIs ==
  /\ ~Rechecks(Idle) /\ ~Rechecks(From) /\ Rechecks(Cancel)
  /\ ~Rechecks(<<"push">>) /\ Rechecks(<<"recheck">>) /\ Rechecks(<<"wait">>) /\ ~Rechecks(<<"publish">>)
  /\ ~Rechecks(<<"drained">>) /\ \A k : ~Rechecks(<<"drained?", k>>)
  /\ \A k, where : /\ Rechecks(Scan(k, where)) <=> where = "recheck"
                   /\ Rechecks(AnyOf(k, where)) <=> where = "recheck"
  /\ \A f : f[1] \in Noticed => ~Rechecks(f)
<1>1. /\ ~Rechecks(Idle) /\ Rechecks(Cancel)
      /\ ~Rechecks(<<"push">>) /\ Rechecks(<<"recheck">>) /\ Rechecks(<<"wait">>) /\ ~Rechecks(<<"publish">>)
      /\ ~Rechecks(<<"drained">>)
  BY DEF Rechecks, Idle, Cancel
<1>2. \A k, where : /\ Rechecks(Scan(k, where)) <=> where = "recheck"
                    /\ Rechecks(AnyOf(k, where)) <=> where = "recheck"
  BY DEF Rechecks, Scan, AnyOf
<1>3. \A k : ~Rechecks(<<"drained?", k>>)
  BY DEF Rechecks
<1>4. \A f : f[1] \in Noticed => ~Rechecks(f)
  BY DEF Rechecks, Noticed
<1> QED BY <1>1, <1>2, <1>3, <1>4 DEF From

\* Which stacks do.
LEMMA AnnouncedPushing ==
  /\ ~AnnouncedIn(<<Idle>>) /\ ~AnnouncedIn(<< <<"push">>, Idle>>)
  /\ ~AnnouncedIn(<< <<"key">>, <<"recheck">>, Idle>>) /\ ~AnnouncedIn(<< <<"announce">>, <<"recheck">>, Idle>>)
  /\ AnnouncedIn(<< <<"recheck">>, Idle>>) /\ AnnouncedIn(<< <<"wait">>, <<"push">>, Idle>>)
  /\ AnnouncedIn(<<Cancel, Idle>>)
  /\ ~AnnouncedIn(<< <<"publish">>, Idle>>) /\ AnnouncedIn(<< <<"publish">>, Cancel, Idle>>)
<1>1. Idle[1] = "idle" /\ Cancel[1] = "cancel"
  BY DEF Idle, Cancel
<1>2. <<"key">>[1] = "key" /\ <<"announce">>[1] = "announce"
  OBVIOUS
<1>3. <<"recheck">>[1] = "recheck" /\ <<"wait">>[1] = "wait" /\ <<"publish">>[1] = "publish"
  OBVIOUS
<1>4. ~AnnouncedIn(<<Idle>>) /\ AnnouncedIn(<<Cancel, Idle>>) /\ ~AnnouncedIn(<< <<"push">>, Idle>>)
  BY <1>1, AnnouncedOn, RechecksIs
<1>5. ~AnnouncedIn(<< <<"key">>, <<"recheck">>, Idle>>) /\ ~AnnouncedIn(<< <<"announce">>, <<"recheck">>, Idle>>)
  BY <1>2, AnnouncedOn
<1>6. AnnouncedIn(<< <<"recheck">>, Idle>>)
  BY <1>3, AnnouncedOn, RechecksIs
<1>7. AnnouncedIn(<< <<"wait">>, <<"push">>, Idle>>)
  BY <1>3, AnnouncedOn, RechecksIs
<1>8. ~AnnouncedIn(<< <<"publish">>, Idle>>) /\ AnnouncedIn(<< <<"publish">>, Cancel, Idle>>)
  BY <1>3, AnnouncedOn, RechecksIs
<1> QED BY <1>4, <1>5, <1>6, <1>7, <1>8

\* The same for the stacks of a worker.
LEMMA AnnouncedPopping ==
  /\ ~AnnouncedIn(<<From>>) /\ ~AnnouncedIn(<< <<"drained">> >>)
  /\ AnnouncedIn(<< <<"wait">>, From>>) /\ AnnouncedIn(<<Cancel, From>>)
  /\ ~AnnouncedIn(<< <<"key">>, Scan(0, "recheck")>>) /\ ~AnnouncedIn(<< <<"announce">>, Scan(0, "recheck")>>)
  /\ \A k, where : AnnouncedIn(<<Scan(k, where)>>) <=> where = "recheck"
  /\ \A k, where : AnnouncedIn(<<AnyOf(k, where)>>) <=> where = "recheck"
  /\ \A k : ~AnnouncedIn(<< <<"drained?", k>> >>)
<1>1. /\ From[1] = "scan" /\ Cancel[1] = "cancel" /\ <<"wait">>[1] = "wait"
      /\ \A k, where : Scan(k, where)[1] = "scan" /\ AnyOf(k, where)[1] = "any_closed"
  BY DEF From, Cancel, Scan, AnyOf
<1>2. <<"key">>[1] = "key" /\ <<"announce">>[1] = "announce"
  OBVIOUS
<1>3. ~AnnouncedIn(<<From>>) /\ ~AnnouncedIn(<< <<"drained">> >>) /\ AnnouncedIn(<<Cancel, From>>)
  BY <1>1, AnnouncedOn, RechecksIs
<1>4. AnnouncedIn(<< <<"wait">>, From>>)
  BY <1>1, AnnouncedOn, RechecksIs
<1>5. ~AnnouncedIn(<< <<"key">>, Scan(0, "recheck")>>) /\ ~AnnouncedIn(<< <<"announce">>, Scan(0, "recheck")>>)
  BY <1>2, AnnouncedOn
<1>7. \A k : ~AnnouncedIn(<< <<"drained?", k>> >>)
  BY AnnouncedOn, RechecksIs
<1>6. \A k, where : AnnouncedIn(<<Scan(k, where)>>) <=> where = "recheck"
  <2> TAKE k, where
  <2> QED BY <1>1, AnnouncedOn, RechecksIs
<1>8. \A k, where : AnnouncedIn(<<AnyOf(k, where)>>) <=> where = "recheck"
  <2> TAKE k, where
  <2> QED BY <1>1, AnnouncedOn, RechecksIs
<1> QED BY <1>3, <1>4, <1>5, <1>6, <1>7, <1>8, Zenon

\* A notification tells nothing of it, what is below does.
LEMMA AnnouncedNotifying ==
  ASSUME NEW f, f[1] \in Noticed, NEW b \in {Idle, From}
  PROVE  ~AnnouncedIn(<<f, b>>) /\ AnnouncedIn(<<f, Cancel, b>>)
<1>1. f[1] \notin {"key", "announce"} /\ ~Rechecks(f) /\ ~Rechecks(b) /\ Rechecks(Cancel)
  BY RechecksIs DEF Noticed
<1>2. /\ AnnouncedIn(<<f, b>>) <=> f[1] \notin {"key", "announce"} /\ (Rechecks(f) \/ Rechecks(b))
      /\ AnnouncedIn(<<f, Cancel, b>>) <=>
           f[1] \notin {"key", "announce"} /\ (Rechecks(f) \/ Rechecks(Cancel) \/ Rechecks(b))
  BY AnnouncedOn
<1> QED BY <1>1, <1>2

\* A step of t inside its call that leaves the event counts alone.
Quiet(t) ==
  /\ OthersStay(t) /\ UNCHANGED counts
  /\ \A u \in Sleepers : Clears(u)' <=> Clears(u)
  /\ t \in Sleepers => ~Clears(t) /\ (Announced(t)' <=> Announced(t))
  /\ Doing(t)[1] \notin Noticed \cup {"wait"}

\* The steps of push between its waits and notices are quiet.
LEMMA PushesQuietly ==
  ASSUME Calls, CountsInv, NEW r \in Rings, NEW t, t = Producer(r),
         BeginPush(r) \/ PushClosed(r) \/ PushFull(r) \/ PushWrite(r) \/ Publish(r)
  PROVE  Quiet(t)
<1>0. t \in Sleepers /\ t \in Threads
  BY Names
<1>1. UNCHANGED counts /\ UNCHANGED buffer
  BY DEF BeginPush, PushClosed, PushFull, PushWrite, Publish
<1>2. OthersStay(t)
  <2>1. Publish(r) => OthersStay(t)
    BY PublishMoves
  <2> QED BY <2>1, BeginPushMoves, PushClosedMoves, PushFullMoves, PushWriteMoves
<1>3. Announced(t)' <=> Announced(t)
  <2>0. (Announced(t) <=> AnnouncedIn(stack[t])) /\ (Announced(t)' <=> AnnouncedIn(stack'[t]))
    BY AnnouncedStack
  <2>1. CASE BeginPush(r)
    BY <2>0, <2>1, BeginPushMoves, AnnouncedPushing DEF Goes
  <2>2. CASE PushClosed(r)
    BY <2>0, <2>2, PushClosedMoves, AnnouncedPushing DEF Goes
  <2>3. CASE PushFull(r)
    BY <2>0, <2>3, PushFullMoves, AnnouncedPushing DEF Goes
  <2>4. CASE PushWrite(r)
    BY <2>0, <2>4, PushWriteMoves, AnnouncedPushing DEF Goes
  <2>5. CASE Publish(r)
    <3>1. ~AnnouncedIn(<<Look(Owner(r)), Idle>>) /\ AnnouncedIn(<<Look(Owner(r)), Cancel, Idle>>)
      <4>1. Look(Owner(r))[1] \in Noticed
        BY DEF Look, Noticed
      <4> QED BY <4>1, AnnouncedNotifying
    <3>2. \/ Goes(t, << <<"publish">>, Idle>>, <<Idle>>)
          \/ Goes(t, << <<"publish">>, Cancel, Idle>>, <<Cancel, Idle>>)
          \/ Goes(t, << <<"publish">>, Idle>>, <<Look(Owner(r)), Idle>>)
          \/ Goes(t, << <<"publish">>, Cancel, Idle>>, <<Look(Owner(r)), Cancel, Idle>>)
      BY <2>5, PublishMoves
    <3> QED BY <2>0, <3>1, <3>2, AnnouncedPushing DEF Goes
  <2> QED BY <2>1, <2>2, <2>3, <2>4, <2>5
<1>4. Doing(t)[1] \in {"idle", "push", "recheck", "publish"} /\ ~Clears(t)
  <2>1. CASE BeginPush(r)
    BY <1>0, <2>1 DEF BeginPush, At, CountsInv, ClearsInTime
  <2>2. CASE PushClosed(r) \/ PushFull(r) \/ PushWrite(r)
    <3>1. Doing(t)[1] \in {"push", "recheck"} /\ Fenced(t)
      BY <2>2 DEF PushClosed, PushFull, PushWrite, Trying
    <3> QED BY <1>0, <3>1, Buffers
  <2>3. CASE Publish(r)
    BY <1>0, <2>3 DEF Publish, At, CountsInv, ClearsInTime
  <2> QED BY <2>1, <2>2, <2>3
<1>5. \A u \in Sleepers : Clears(u)' <=> Clears(u)
  BY <1>1 DEF Clears
<1> QED BY <1>1, <1>2, <1>3, <1>4, <1>5 DEF Quiet, Noticed

\* So are those of pop.
LEMMA PopsQuietly ==
  ASSUME Calls, RingsInv, CountsInv, NEW c \in Owners, NEW t, t = Consumer(c),
         PopRing(c) \/ PopMiss(c) \/ AnyClosed(c) \/ Drained(c)
  PROVE  Quiet(t)
<1>0. t \in Sleepers /\ t \in Threads
  BY Names
<1>1. UNCHANGED counts
  BY DEF PopRing, PopMiss, AnyClosed, Drained
<1>2. OthersStay(t)
  <2>1. PopRing(c) => OthersStay(t)
    BY PopRingMoves
  <2> QED BY <2>1, PopMissMoves, AnyClosedMoves, DrainedMoves
<1>3. Doing(t)[1] \in {"scan", "any_closed", "drained?"} /\ ~Clears(t)
  <2>1. CASE PopRing(c) \/ PopMiss(c)
    BY <2>1, ScanningMeans DEF PopRing, PopMiss, At
  <2>2. CASE AnyClosed(c) \/ Drained(c)
    BY <1>0, <2>2 DEF AnyClosed, Drained, At, CountsInv, ClearsInTime
  <2> QED BY <2>1, <2>2
<1>4. \A u \in Sleepers : Clears(u)' <=> Clears(u)
  <2>1. CASE PopRing(c)
    <3>1. /\ \A u \in Threads : u # t => buffer'[u] = buffer[u]
          /\ buffer'[t] \in Seq(HeadStore) /\ Len(buffer'[t]) = Len(buffer[t]) + 1 /\ Len(buffer[t]) \in Nat
      <4>1. PICK r \in Rings : r = RingOf(c, Index(c))
        BY <2>1, PopRingBuffer
      <4>2. \A u \in Threads : u # t => buffer'[u] = buffer[u]
        BY <2>1, Types DEF PopRing
      <4>3. buffer'[t] \in Seq(HeadStore)
        BY <2>1, <4>1, PopRingBuffer
      <4>4. Len(buffer'[t]) = Len(buffer[t]) + 1 /\ Len(buffer[t]) \in Nat
        BY <2>1, <4>1, PopRingBuffer
      <4> QED BY <4>2, <4>3, <4>4
    <3>2. 1 \in DOMAIN buffer'[t] /\ buffer'[t][1] \in HeadStore
      BY <3>1
    <3>3. ~Clears(t)'
      <4>1. ~IsClear(buffer'[t][1])
        BY <3>2, Stores
      <4>2. <<ClearPending(t)>>[1] = ClearPending(t) /\ IsClear(ClearPending(t))
        BY DEF IsClear, ClearPending
      <4> QED BY <4>1, <4>2 DEF Clears
    <3> QED BY <1>3, <3>1, <3>3, Names DEF Clears
  <2>2. CASE ~PopRing(c)
    BY <2>2 DEF PopMiss, AnyClosed, Drained, Clears
  <2> QED BY <2>1, <2>2
<1> DEFINE k == Doing(t)[2]  where == Doing(t)[3]
<1>5. Announced(t)' <=> Announced(t)
  <2>0. (Announced(t) <=> AnnouncedIn(stack[t])) /\ (Announced(t)' <=> AnnouncedIn(stack'[t]))
    BY AnnouncedStack
  <2>1. CASE PopRing(c)
    <3>1. PICK r \in Rings : r = RingOf(c, Index(c))
      BY <2>1, PopRingBuffer
    <3>2. /\ stack[t] = <<Scan(k, where)>>
          /\ LET below == IF where = "recheck" THEN <<Cancel, From>> ELSE <<From>> IN
             \/ stack'[t] = below
             \/ where = "recheck" /\ stack'[t] = <<Look(Producer(r)), Cancel, From>>
             \/ where # "recheck" /\ stack'[t] = <<Look(Producer(r)), From>>
      <4>1. Scanning(c)
        BY <2>1 DEF PopRing
      <4> QED BY <2>1, <3>1, <4>1, PopRingMoves, ScanningMeans
    <3> HIDE DEF k, where
    <3>3. ~AnnouncedIn(<<Look(Producer(r)), From>>) /\ AnnouncedIn(<<Look(Producer(r)), Cancel, From>>)
      <4>1. Look(Producer(r))[1] \in Noticed
        BY DEF Look, Noticed
      <4> QED BY <4>1, AnnouncedNotifying
    <3>4. Announced(t) <=> where = "recheck"
      BY <2>0, <3>2, AnnouncedPopping
    <3>5. Announced(t)' <=> where = "recheck"
      BY <2>0, <3>2, <3>3, AnnouncedPopping
    <3> QED BY <3>4, <3>5
  <2>2. CASE PopMiss(c)
    <3>1. /\ stack[t] = <<Scan(k, where)>>
          /\ stack'[t] = <<Scan(k + 1, where)>> \/ stack'[t] = <<AnyOf(0, where)>>
      <4>1. Scanning(c)
        BY <2>2 DEF PopMiss
      <4> QED BY <2>2, <4>1, PopMissMoves, ScanningMeans
    <3> HIDE DEF k, where
    <3> QED BY <2>0, <3>1, AnnouncedPopping
  <2>3. CASE AnyClosed(c)
    <3>1. /\ stack[t] = <<AnyOf(k, where)>>
          /\ \/ where = "recheck" /\ stack'[t] = <<Cancel, From>>
             \/ where = "top" /\ stack'[t] = << <<"drained?", 0>> >>
             \/ stack'[t] = <<AnyOf(k + 1, where)>>
             \/ where = "top" /\ stack'[t] = << <<"key">>, Scan(0, "recheck")>>
             \/ where = "recheck" /\ stack'[t] = << <<"wait">>, From>>
      <4>1. At(t, "any_closed")
        BY <2>3 DEF AnyClosed
      <4> QED BY <2>3, <4>1, AnyClosedMoves, WorkerAt
    <3> HIDE DEF k, where
    <3>2. Announced(t) <=> where = "recheck"
      BY <2>0, <3>1, AnnouncedPopping
    <3>3. Announced(t)' <=> where = "recheck"
      BY <2>0, <3>1, AnnouncedPopping
    <3> QED BY <3>2, <3>3
  <2>4. CASE Drained(c)
    <3>1. /\ stack[t] = << <<"drained?", k>> >>
          /\ \/ stack'[t] = <<From>> \/ stack'[t] = << <<"drained?", k + 1>> >> \/ stack'[t] = << <<"drained">> >>
      <4>1. At(t, "drained?")
        BY <2>4 DEF Drained
      <4> QED BY <2>4, <4>1, DrainedMoves, WorkerAt
    <3> HIDE DEF k, where
    <3>2. ~Announced(t)
      BY <2>0, <3>1, AnnouncedPopping
    <3>3. ~Announced(t)'
      BY <2>0, <3>1, AnnouncedPopping
    <3> QED BY <3>2, <3>3
  <2> QED BY <2>1, <2>2, <2>3, <2>4
<1> QED BY <1>1, <1>2, <1>3, <1>4, <1>5 DEF Quiet, Noticed

\* So are those of close.
LEMMA ClosesQuietly ==
  ASSUME Calls, BeginClose \/ SetClosed
  PROVE  Quiet(Closer)
<1>1. OthersStay(Closer) /\ UNCHANGED counts /\ UNCHANGED buffer
  BY BeginCloseMoves, CloserPops DEF BeginClose, SetClosed
<1>2. Doing(Closer)[1] \in {"idle", "bit"}
  BY DEF BeginClose, SetClosed, At
<1>3. Closer \notin Sleepers
  BY Names
<1> QED BY <1>1, <1>2, <1>3 DEF Quiet, Clears, Noticed

\* What the steps of waiting do to their thread.
LEMMA WaitKinds ==
  ASSUME Calls, NEW t \in Sleepers, WaitSteps(t, t, Deadlines)
  PROVE  \/ /\ OthersStay(t) /\ At(t, "key") /\ Doing(t)' = <<"announce">>
            /\ ~Announced(t) /\ ~Announced(t)' /\ ReadKey(t, t)
         \/ /\ OthersStay(t) /\ At(t, "announce") /\ Doing(t)' \in {<<"recheck">>, Scan(0, "recheck")}
            /\ ~Announced(t) /\ Announced(t)' /\ Announce(t, t)
         \/ /\ OthersStay(t) /\ At(t, "cancel") /\ Doing(t)' \in {Idle, From}
            /\ Announced(t) /\ ~Announced(t)' /\ CancelWait(t, t)
         \/ UNCHANGED stack /\ At(t, "wait") /\ Announced(t) /\ Announced(t)' /\ Sleep(t, t)
         \/ /\ OthersStay(t) /\ At(t, "wait") /\ Doing(t)' \in {<<"push">>, From}
            /\ Announced(t) /\ ~Announced(t)' /\ LeaveWait(t, t, Deadlines)
<1>0. (Announced(t) <=> AnnouncedIn(stack[t])) /\ (Announced(t)' <=> AnnouncedIn(stack'[t]))
  BY AnnouncedStack
<1>1. CASE \E r \in Rings : t = Producer(r)
  <2>1. CASE /\ OthersStay(t) /\ ReadKey(t, t)
             /\ Goes(t, << <<"key">>, <<"recheck">>, Idle>>, << <<"announce">>, <<"recheck">>, Idle>>)
    BY <1>0, <2>1, AnnouncedPushing DEF Goes, At, Doing
  <2>2. CASE /\ OthersStay(t) /\ Announce(t, t)
             /\ Goes(t, << <<"announce">>, <<"recheck">>, Idle>>, << <<"recheck">>, Idle>>)
    BY <1>0, <2>2, AnnouncedPushing DEF Goes, At, Doing
  <2>3. CASE OthersStay(t) /\ Goes(t, <<Cancel, Idle>>, <<Idle>>) /\ CancelWait(t, t)
    <3>1. At(t, "cancel") /\ Doing(t)' = Idle
      BY <2>3 DEF Goes, At, Doing, Cancel
    <3> QED BY <1>0, <2>3, <3>1, AnnouncedPushing DEF Goes
  <2>4. CASE UNCHANGED stack /\ stack[t] = << <<"wait">>, <<"push">>, Idle>> /\ Sleep(t, t)
    BY <1>0, <2>4, AnnouncedPushing DEF At, Doing
  <2>5. CASE /\ OthersStay(t) /\ LeaveWait(t, t, Deadlines)
             /\ Goes(t, << <<"wait">>, <<"push">>, Idle>>, << <<"push">>, Idle>>)
    BY <1>0, <2>5, AnnouncedPushing DEF Goes, At, Doing
  <2> QED BY <1>1, <2>1, <2>2, <2>3, <2>4, <2>5, ProducerWaits
<1>2. CASE \E c \in Owners : t = Consumer(c)
  <2>1. CASE /\ OthersStay(t) /\ ReadKey(t, t)
             /\ Goes(t, << <<"key">>, Scan(0, "recheck")>>, << <<"announce">>, Scan(0, "recheck")>>)
    BY <1>0, <2>1, AnnouncedPopping DEF Goes, At, Doing
  <2>2. CASE /\ OthersStay(t) /\ Announce(t, t)
             /\ Goes(t, << <<"announce">>, Scan(0, "recheck")>>, <<Scan(0, "recheck")>>)
    <3>1. At(t, "announce") /\ Doing(t)' = Scan(0, "recheck")
      BY <2>2 DEF Goes, At, Doing
    <3> QED BY <1>0, <2>2, <3>1, AnnouncedPopping DEF Goes
  <2>3. CASE OthersStay(t) /\ Goes(t, <<Cancel, From>>, <<From>>) /\ CancelWait(t, t)
    <3>1. At(t, "cancel") /\ Doing(t)' = From
      BY <2>3 DEF Goes, At, Doing, Cancel
    <3> QED BY <1>0, <2>3, <3>1, AnnouncedPopping DEF Goes
  <2>4. CASE UNCHANGED stack /\ stack[t] = << <<"wait">>, From>> /\ Sleep(t, t)
    BY <1>0, <2>4, AnnouncedPopping DEF At, Doing
  <2>5. CASE OthersStay(t) /\ Goes(t, << <<"wait">>, From>>, <<From>>) /\ LeaveWait(t, t, Deadlines)
    <3>1. At(t, "wait") /\ Doing(t)' = From
      BY <2>5 DEF Goes, At, Doing
    <3> QED BY <1>0, <2>5, <3>1, AnnouncedPopping DEF Goes
  <2> QED BY <1>2, <2>1, <2>2, <2>3, <2>4, <2>5, WorkerWaits
<1> QED BY <1>1, <1>2, Names

\* What the steps of a notification do, and where they leave their thread.
LEMMA NotifyKinds ==
  ASSUME Calls, NEW t \in Sleepers, NotifySteps(t), NEW e, e = Doing(t)[2]
  PROVE  /\ OthersStay(t) /\ Doing(t) = <<Doing(t)[1], e, "one">> /\ e \in Sleepers
         /\ Announced(t)' <=> Announced(t)
         /\ \/ /\ At(t, "look") /\ Fenced(t) /\ waiters[e] = 0 /\ UNCHANGED <<counts, buffer>>
               /\ Doing(t)' \in {Idle, From, Cancel}
            \/ /\ At(t, "look") /\ Fenced(t) /\ waiters[e] # 0 /\ UNCHANGED <<counts, buffer>>
               /\ Doing(t)' = <<"claim", e, "one">>
            \/ /\ At(t, "claim") /\ pending[e] /\ UNCHANGED <<counts, buffer>>
               /\ Doing(t)' \in {Idle, From, Cancel}
            \/ At(t, "claim") /\ ClaimWake(t, e) /\ Doing(t)' = <<"advance", e, "one">>
            \/ At(t, "advance") /\ Advance(t, e) /\ Doing(t)' = <<"wake", e, "one">>
            \/ At(t, "wake") /\ WakeOne(e) /\ Doing(t)' \in {Idle, From, Cancel}
<1> DEFINE f == Doing(t)
<1>1. /\ OthersStay(t) /\ f = <<f[1], e, "one">> /\ e \in Sleepers /\ f[1] \in Noticed
      /\ \/ /\ f[1] = "look" /\ Fenced(t) /\ waiters[e] = 0
            /\ Then(t, <<>>) /\ UNCHANGED <<counts, buffer>>
         \/ /\ f[1] = "look" /\ Fenced(t) /\ waiters[e] # 0
            /\ Then(t, << <<"claim", e, "one">> >>) /\ UNCHANGED <<counts, buffer>>
         \/ f[1] = "claim" /\ pending[e] /\ Then(t, <<>>) /\ UNCHANGED <<counts, buffer>>
         \/ f[1] = "claim" /\ ClaimWake(t, e) /\ Then(t, << <<"advance", e, "one">> >>)
         \/ f[1] = "advance" /\ Advance(t, e) /\ Then(t, << <<"wake", e, "one">> >>)
         \/ f[1] = "wake" /\ WakeOne(e) /\ Then(t, <<>>)
  <2>1. /\ OthersStay(t) /\ f = <<f[1], f[2], "one">> /\ f[2] \in Sleepers
        /\ \/ /\ f[1] = "look" /\ Fenced(t) /\ waiters[f[2]] = 0
              /\ Then(t, <<>>) /\ UNCHANGED <<counts, buffer>>
           \/ /\ f[1] = "look" /\ Fenced(t) /\ waiters[f[2]] # 0
              /\ Then(t, << <<"claim", f[2], "one">> >>) /\ UNCHANGED <<counts, buffer>>
           \/ f[1] = "claim" /\ pending[f[2]] /\ Then(t, <<>>) /\ UNCHANGED <<counts, buffer>>
           \/ f[1] = "claim" /\ ClaimWake(t, f[2]) /\ Then(t, << <<"advance", f[2], "one">> >>)
           \/ f[1] = "advance" /\ Advance(t, f[2]) /\ Then(t, << <<"wake", f[2], "one">> >>)
           \/ f[1] = "wake" /\ WakeOne(f[2]) /\ Then(t, <<>>)
    BY NotifyMoves
  <2>2. f[2] = e
    OBVIOUS
  <2> HIDE DEF f
  <2> QED BY <2>1, <2>2 DEF Noticed
<1>2. PICK b \in {Idle, From} :
        /\ stack[t] \in {<<f, b>>, <<f, Cancel, b>>}
        /\ Then(t, <<>>) => Goes(t, <<f, b>>, <<b>>) \/ Goes(t, <<f, Cancel, b>>, <<Cancel, b>>)
        /\ \A x : Then(t, <<x>>) => Goes(t, <<f, b>>, <<x, b>>) \/ Goes(t, <<f, Cancel, b>>, <<x, Cancel, b>>)
  BY NotifyGoes
<1>3. (Announced(t) <=> AnnouncedIn(stack[t])) /\ (Announced(t)' <=> AnnouncedIn(stack'[t]))
  BY AnnouncedStack
<1>4. ~AnnouncedIn(<<f, b>>) /\ AnnouncedIn(<<f, Cancel, b>>)
  BY <1>1, AnnouncedNotifying
<1>5. ~AnnouncedIn(<<b>>) /\ AnnouncedIn(<<Cancel, b>>)
  BY AnnouncedPushing, AnnouncedPopping
<1> HIDE DEF f
<1>6. ASSUME Then(t, <<>>)
      PROVE  Doing(t)' \in {Idle, From, Cancel} /\ (Announced(t)' <=> Announced(t))
  <2>1. CASE Goes(t, <<f, b>>, <<b>>)
    BY <1>3, <1>4, <1>5, <2>1 DEF Goes, Doing
  <2>2. CASE Goes(t, <<f, Cancel, b>>, <<Cancel, b>>)
    BY <1>3, <1>4, <1>5, <2>2 DEF Goes, Doing
  <2> QED BY <1>2, <1>6, <2>1, <2>2
<1>7. ASSUME NEW x, Then(t, <<x>>), x[1] \in Noticed
      PROVE  Doing(t)' = x /\ (Announced(t)' <=> Announced(t))
  <2>0. ~AnnouncedIn(<<x, b>>) /\ AnnouncedIn(<<x, Cancel, b>>)
    BY <1>7, AnnouncedNotifying
  <2>1. CASE Goes(t, <<f, b>>, <<x, b>>)
    BY <1>3, <1>4, <2>0, <2>1 DEF Goes, Doing
  <2>2. CASE Goes(t, <<f, Cancel, b>>, <<x, Cancel, b>>)
    BY <1>3, <1>4, <2>0, <2>2 DEF Goes, Doing
  <2> QED BY <1>2, <1>7, <2>1, <2>2
<1>8. <<"claim", e, "one">>[1] \in Noticed /\ <<"advance", e, "one">>[1] \in Noticed /\ <<"wake", e, "one">>[1] \in Noticed
  BY DEF Noticed
<1>9. At(t, "look") <=> f[1] = "look"
  BY DEF At, f
<1>10. At(t, "claim") <=> f[1] = "claim"
  BY DEF At, f
<1>11. At(t, "advance") <=> f[1] = "advance"
  BY DEF At, f
<1>12. At(t, "wake") <=> f[1] = "wake"
  BY DEF At, f
<1>13. CASE f[1] = "look" /\ Fenced(t) /\ waiters[e] = 0 /\ Then(t, <<>>) /\ UNCHANGED <<counts, buffer>>
  BY <1>1, <1>6, <1>9, <1>13 DEF f
<1>14. CASE f[1] = "look" /\ Fenced(t) /\ waiters[e] # 0 /\ Then(t, << <<"claim", e, "one">> >>) /\ UNCHANGED <<counts, buffer>>
  BY <1>1, <1>7, <1>8, <1>9, <1>14 DEF f
<1>15. CASE f[1] = "claim" /\ pending[e] /\ Then(t, <<>>) /\ UNCHANGED <<counts, buffer>>
  BY <1>1, <1>6, <1>10, <1>15 DEF f
<1>16. CASE f[1] = "claim" /\ ClaimWake(t, e) /\ Then(t, << <<"advance", e, "one">> >>)
  BY <1>1, <1>7, <1>8, <1>10, <1>16 DEF f
<1>17. CASE f[1] = "advance" /\ Advance(t, e) /\ Then(t, << <<"wake", e, "one">> >>)
  BY <1>1, <1>7, <1>8, <1>11, <1>17 DEF f
<1>18. CASE f[1] = "wake" /\ WakeOne(e) /\ Then(t, <<>>)
  BY <1>1, <1>6, <1>12, <1>18 DEF f
<1> QED BY <1>1, <1>13, <1>14, <1>15, <1>16, <1>17, <1>18

\* What CountsInv says of one event count.
CountsAt(u) ==
  /\ waiters[u] = IF Announced(u) THEN 1 ELSE 0
  /\ \A x \in sleepers[u] : x = u /\ At(x, "wait")
  /\ key[u] <= epoch[u]
  /\ Clears(u) => Doing(u)[1] \in {"recheck", "push"} \/ (Doing(u)[1] = "scan" /\ Doing(u)[2] = 0)
  /\ Announced(u) /\ ~Clears(u) /\ key[u] = epoch[u] /\ pending[u] => Advancing(u)

\* The invariant is about each count by itself.
LEMMA CountByCount ==
  /\ CountsInv <=> \A u \in Sleepers : CountsAt(u)
  /\ CountsInv' <=> \A u \in Sleepers : CountsAt(u)'
<1>1. CountsInv <=> \A u \in Sleepers : CountsAt(u)
  BY DEF CountsInv, WaitersCounted, SleepersWait, ClearsInTime, ClaimsReach, CountsAt
<1>2. CountsInv' <=> \A u \in Sleepers : CountsAt(u)'
  BY DEF CountsInv, WaitersCounted, SleepersWait, ClearsInTime, ClaimsReach, CountsAt
<1> QED BY <1>1, <1>2

\* A thread that does not move is where it was.
LEMMA StandsStill ==
  ASSUME NEW u \in Threads, stack'[u] = stack[u]
  PROVE  /\ Doing(u)' = Doing(u) /\ (Announced(u)' <=> Announced(u))
         /\ \A l : At(u, l)' <=> At(u, l)
  BY DEF Doing, Announced, At

\* Only who is about to move the epoch on can lose the advance.
LEMMA AdvanceKept ==
  ASSUME NEW t \in Threads, OthersStay(t) \/ (UNCHANGED stack), NEW u,
         Doing(t) # <<"advance", u, "one">> \/ Doing(t)' = Doing(t), Advancing(u)
  PROVE  Advancing(u)'
<1>1. PICK x \in Threads : Doing(x) = <<"advance", u, "one">>
  BY DEF Advancing
<1>2. Doing(x)' = <<"advance", u, "one">>
  <2>1. CASE UNCHANGED stack
    BY <1>1, <2>1 DEF Doing
  <2>2. CASE OthersStay(t) /\ x # t
    BY <1>1, <2>2 DEF Doing, OthersStay
  <2>3. CASE OthersStay(t) /\ x = t
    BY <1>1, <2>3
  <2> QED BY <2>1, <2>2, <2>3
<1> QED BY <1>2 DEF Advancing

\* A count of which nothing is taken away keeps its books.
LEMMA StillCounted ==
  ASSUME Calls, NEW u \in Sleepers, CountsAt(u),
         waiters'[u] = waiters[u], Announced(u)' <=> Announced(u),
         sleepers'[u] \subseteq sleepers[u], At(u, "wait") => At(u, "wait")',
         key'[u] = key[u], epoch'[u] \in Nat, epoch[u] <= epoch'[u],
         Clears(u)' => Clears(u) /\ Doing(u)' = Doing(u),
         pending'[u] /\ epoch'[u] = epoch[u] =>
           \/ pending[u] /\ (Clears(u) => Clears(u)') /\ (Advancing(u) => Advancing(u)')
           \/ Advancing(u)'
  PROVE  CountsAt(u)'
<1>0. u \in Threads /\ key[u] \in Nat /\ epoch[u] \in Nat
  BY Names, Types
<1>1. waiters'[u] = IF Announced(u)' THEN 1 ELSE 0
  BY DEF CountsAt
<1>2. \A x \in sleepers'[u] : x = u /\ At(x, "wait")'
  BY DEF CountsAt
<1>3. key'[u] <= epoch'[u]
  BY <1>0 DEF CountsAt
<1>4. Clears(u)' => Doing(u)'[1] \in {"recheck", "push"} \/ (Doing(u)'[1] = "scan" /\ Doing(u)'[2] = 0)
  BY DEF CountsAt
<1>5. Announced(u)' /\ ~Clears(u)' /\ key'[u] = epoch'[u] /\ pending'[u] => Advancing(u)'
  <2>1. key'[u] = epoch'[u] => epoch'[u] = epoch[u]
    BY <1>0 DEF CountsAt
  <2> QED BY <2>1 DEF CountsAt
<1> QED BY <1>1, <1>2, <1>3, <1>4, <1>5 DEF CountsAt

\* A quiet step breaks no book.
LEMMA QuietCounts ==
  ASSUME Calls, CountsInv, NEW t \in Threads, Quiet(t)
  PROVE  CountsInv'
<1>1. ASSUME NEW u \in Sleepers PROVE CountsAt(u)'
  <2>1. CountsAt(u) /\ u \in Threads
    BY CountByCount, Names
  <2>2. waiters'[u] = waiters[u] /\ sleepers'[u] = sleepers[u] /\ key'[u] = key[u]
        /\ epoch'[u] = epoch[u] /\ pending'[u] = pending[u] /\ epoch[u] \in Nat
    BY Types DEF Quiet, counts
  <2>3. Advancing(u) => Advancing(u)'
    <3>1. Doing(t) # <<"advance", u, "one">>
      BY DEF Quiet, Noticed
    <3> QED BY <3>1, AdvanceKept DEF Quiet
  <2>4. CASE u = t
    <3>1. ~Clears(u) /\ ~Clears(u)' /\ (Announced(u)' <=> Announced(u)) /\ ~At(u, "wait")
      BY <2>4 DEF Quiet, At
    <3> QED BY <2>1, <2>2, <2>3, <3>1, StillCounted
  <2>5. CASE u # t
    <3>1. stack'[u] = stack[u] /\ (Clears(u)' <=> Clears(u))
      BY <2>1, <2>5 DEF Quiet, OthersStay
    <3> QED BY <2>1, <2>2, <2>3, <3>1, StandsStill, StillCounted
  <2> QED BY <2>4, <2>5
<1> QED BY <1>1, CountByCount

\* Nor does a step of waiting.
LEMMA WaitingCounts ==
  ASSUME Calls, CountsInv, NEW t \in Sleepers, WaitSteps(t, t, Deadlines)
  PROVE  CountsInv'
<1>0. t \in Threads /\ Outline = {}
  BY Names, Types
<1>1. /\ OthersStay(t) \/ (UNCHANGED stack)
      /\ Doing(t)[1] \in {"key", "announce", "cancel", "wait"}
      /\ ReadKey(t, t) \/ Announce(t, t) \/ CancelWait(t, t) \/ Sleep(t, t) \/ LeaveWait(t, t, Deadlines)
  BY WaitKinds DEF At
<1>2. ASSUME NEW u \in Sleepers, u # t PROVE CountsAt(u)'
  <2>1. CountsAt(u) /\ u \in Threads
    BY CountByCount, Names
  <2>2. waiters'[u] = waiters[u] /\ sleepers'[u] = sleepers[u] /\ key'[u] = key[u]
        /\ epoch'[u] = epoch[u] /\ pending'[u] = pending[u] /\ epoch[u] \in Nat
    BY <1>0, <1>1, <1>2, <2>1, Types DEF ReadKey, Announce, CancelWait, Sleep, LeaveWait
  <2>3. stack'[u] = stack[u] /\ (Clears(u)' <=> Clears(u))
    <3>1. buffer'[u] = buffer[u]
      BY <1>1, <1>2, <2>1, CountsBuffered
    <3> QED BY <1>1, <1>2, <2>1, <3>1 DEF OthersStay, Clears
  <2>4. Advancing(u) => Advancing(u)'
    <3>1. Doing(t) # <<"advance", u, "one">>
      BY <1>1
    <3> QED BY <1>0, <1>1, <3>1, AdvanceKept
  <2> QED BY <2>1, <2>2, <2>3, <2>4, StandsStill, StillCounted
<1>3. CountsAt(t) /\ key[t] \in Nat /\ epoch[t] \in Nat /\ waiters[t] \in Int
  BY <1>0, CountByCount, Types
<1>4. CountsAt(t)'
  <2>1. CASE /\ At(t, "key") /\ Doing(t)' = <<"announce">>
             /\ ~Announced(t) /\ ~Announced(t)' /\ ReadKey(t, t)
    <3>1. /\ waiters'[t] = waiters[t] /\ key'[t] = epoch[t] /\ epoch'[t] = epoch[t]
          /\ sleepers'[t] = sleepers[t] /\ buffer' = buffer
      BY <1>0, <2>1, Types DEF ReadKey
    <3>2. ~Clears(t) /\ sleepers[t] = {}
      BY <1>3, <2>1 DEF CountsAt, At
    <3>3. ~Clears(t)'
      BY <3>1, <3>2 DEF Clears
    <3> QED BY <1>3, <2>1, <3>1, <3>2, <3>3 DEF CountsAt
  <2>2. CASE /\ At(t, "announce") /\ Doing(t)' \in {<<"recheck">>, Scan(0, "recheck")}
             /\ ~Announced(t) /\ Announced(t)' /\ Announce(t, t)
    <3>1. /\ waiters'[t] = waiters[t] + 1 /\ key'[t] = key[t] /\ epoch'[t] = epoch[t]
          /\ sleepers'[t] = sleepers[t] /\ Clears(t)'
      <4>1. buffer' = [buffer EXCEPT ![t] = <<ClearPending(t)>>]
        BY <2>2 DEF Announce
      <4> QED BY <1>0, <2>2, <4>1, Types, BufferClears DEF Announce
    <3>2. sleepers[t] = {}
      BY <1>3, <2>2 DEF CountsAt, At
    <3>3. Doing(t)'[1] = "recheck" \/ (Doing(t)'[1] = "scan" /\ Doing(t)'[2] = 0)
      BY <2>2 DEF Scan
    <3>4. waiters'[t] = 1 /\ key'[t] <= epoch'[t]
      BY <1>3, <2>2, <3>1 DEF CountsAt
    <3> QED BY <2>2, <3>1, <3>2, <3>3, <3>4 DEF CountsAt
  <2>3. CASE At(t, "cancel") /\ Announced(t) /\ ~Announced(t)' /\ CancelWait(t, t)
    <3>1. /\ waiters'[t] = waiters[t] - 1 /\ key'[t] = key[t] /\ epoch'[t] = epoch[t]
          /\ sleepers'[t] = sleepers[t] /\ buffer' = buffer
      BY <1>0, <2>3, Types DEF CancelWait
    <3>2. ~Clears(t) /\ sleepers[t] = {}
      BY <1>3, <2>3 DEF CountsAt, At
    <3>3. ~Clears(t)'
      BY <3>1, <3>2 DEF Clears
    <3>4. waiters'[t] = 0 /\ key'[t] <= epoch'[t]
      BY <1>3, <2>3, <3>1 DEF CountsAt
    <3> QED BY <2>3, <3>1, <3>2, <3>3, <3>4 DEF CountsAt
  <2>4. CASE UNCHANGED stack /\ At(t, "wait") /\ Announced(t) /\ Announced(t)' /\ Sleep(t, t)
    <3>1. /\ waiters'[t] = waiters[t] /\ key'[t] = key[t] /\ epoch'[t] = epoch[t] /\ pending'[t] = pending[t]
          /\ sleepers'[t] = sleepers[t] \cup {t} /\ buffer' = buffer
      BY <1>0, <2>4, Types DEF Sleep
    <3>2. (Advancing(t) => Advancing(t)') /\ (Clears(t)' <=> Clears(t)) /\ At(t, "wait")' /\ Doing(t)' = Doing(t)
      BY <2>4, <3>1 DEF Advancing, Clears, At, Doing
    <3>3. \A x \in sleepers'[t] : x = t /\ At(x, "wait")'
      BY <1>3, <3>1, <3>2 DEF CountsAt
    <3> QED BY <1>3, <2>4, <3>1, <3>2, <3>3 DEF CountsAt
  <2>5. CASE /\ At(t, "wait") /\ Doing(t)' \in {<<"push">>, From}
             /\ Announced(t) /\ ~Announced(t)' /\ LeaveWait(t, t, Deadlines)
    <3>1. /\ waiters'[t] = waiters[t] - 1 /\ key'[t] = key[t] /\ epoch'[t] = epoch[t]
          /\ sleepers'[t] = sleepers[t] \ {t} /\ Clears(t)'
      <4>1. buffer' = [buffer EXCEPT ![t] = <<ClearPending(t)>>]
        BY <1>0, <2>5 DEF LeaveWait
      <4> QED BY <1>0, <2>5, <4>1, Types, BufferClears DEF LeaveWait
    <3>2. sleepers'[t] = {}
      BY <1>3, <3>1 DEF CountsAt
    <3>3. Doing(t)'[1] = "push" \/ (Doing(t)'[1] = "scan" /\ Doing(t)'[2] = 0)
      BY <2>5 DEF From, Scan
    <3>4. waiters'[t] = 0 /\ key'[t] <= epoch'[t]
      BY <1>3, <2>5, <3>1 DEF CountsAt
    <3> QED BY <2>5, <3>1, <3>2, <3>3, <3>4 DEF CountsAt
  <2> QED BY <2>1, <2>2, <2>3, <2>4, <2>5, WaitKinds
<1> QED BY <1>2, <1>4, CountByCount

\* Nor a step of a notification.
LEMMA NotifyCounts ==
  ASSUME Calls, CountsInv, NEW t \in Sleepers, NotifySteps(t)
  PROVE  CountsInv'
<1>0. t \in Threads
  BY Names
<1>1. PICK e : e = Doing(t)[2]
  OBVIOUS
<1>2. /\ OthersStay(t) /\ Doing(t) = <<Doing(t)[1], e, "one">> /\ e \in Sleepers
      /\ Announced(t)' <=> Announced(t)
      /\ \/ /\ At(t, "look") /\ UNCHANGED <<counts, buffer>>
         \/ /\ At(t, "claim") /\ UNCHANGED <<counts, buffer>>
         \/ At(t, "claim") /\ ClaimWake(t, e) /\ Doing(t)' = <<"advance", e, "one">>
         \/ At(t, "advance") /\ Advance(t, e)
         \/ At(t, "wake") /\ WakeOne(e)
  <2>1. NotifySteps(t)
    OBVIOUS
  <2> QED BY <1>1, <2>1, NotifyKinds
<1>3. ~At(t, "wait") /\ ~Clears(t) /\ buffer' = buffer
  <2>1. CountsAt(t)
    BY CountByCount
  <2> QED BY <1>2, <2>1 DEF At, CountsAt, ClaimWake, Advance, WakeOne
<1>4. ASSUME NEW u \in Sleepers PROVE CountsAt(u)'
  <2>1. CountsAt(u) /\ u \in Threads /\ epoch[u] \in Nat
    BY CountByCount, Names, Types
  <2>2. waiters'[u] = waiters[u] /\ key'[u] = key[u] /\ sleepers'[u] \subseteq sleepers[u]
    BY <1>2, <2>1, Types DEF ClaimWake, Advance, WakeOne, counts
  <2>3. epoch'[u] \in Nat /\ epoch[u] <= epoch'[u]
    BY <1>2, <2>1, Types DEF ClaimWake, Advance, WakeOne, counts
  <2>4. /\ Announced(u)' <=> Announced(u)
        /\ At(u, "wait") => At(u, "wait")'
        /\ ~Clears(u) => ~Clears(u)'
        /\ Clears(u) => Clears(u)' /\ Doing(u)' = Doing(u)
    <3>1. CASE u = t
      BY <1>2, <1>3, <3>1 DEF Clears
    <3>2. CASE u # t
      BY <1>2, <1>3, <2>1, <3>2, StandsStill DEF OthersStay, Clears
    <3> QED BY <3>1, <3>2
  <2>5. pending'[u] /\ epoch'[u] = epoch[u] => (pending[u] /\ (Advancing(u) => Advancing(u)')) \/ Advancing(u)'
    <3>1. CASE At(t, "claim") /\ ClaimWake(t, e) /\ Doing(t)' = <<"advance", e, "one">>
      <4>1. Advancing(e)'
        BY <1>0, <3>1 DEF Advancing
      <4>2. u # e => pending'[u] = pending[u]
        BY <3>1, <1>2, Types DEF ClaimWake
      <4>3. Doing(t) # <<"advance", u, "one">>
        BY <3>1 DEF At
      <4> QED BY <1>0, <1>2, <4>1, <4>2, <4>3, AdvanceKept
    <3>2. CASE At(t, "advance") /\ Advance(t, e)
      <4>1. pending' = pending /\ epoch'[e] # epoch[e]
        BY <1>2, <3>2, Types DEF Advance
      <4>2. u # e => Doing(t) # <<"advance", u, "one">>
        BY <1>2
      <4> QED BY <1>0, <1>2, <4>1, <4>2, AdvanceKept
    <3>3. CASE (At(t, "look") \/ At(t, "claim") \/ At(t, "wake")) /\ pending' = pending
      <4>1. Doing(t) # <<"advance", u, "one">>
        BY <3>3 DEF At
      <4> QED BY <1>0, <1>2, <3>3, <4>1, AdvanceKept
    <3> QED BY <1>2, <3>1, <3>2, <3>3 DEF WakeOne, counts
  <2> QED BY <2>1, <2>2, <2>3, <2>4, <2>5, StillCounted
<1> QED BY <1>4, CountByCount

\* Nor close, when it wakes everybody.
LEMMA ClosingCounts ==
  ASSUME Calls, CountsInv, Notifying(Closer)
  PROVE  CountsInv'
<1>1. PICK e \in Sleepers : /\ Doing(Closer) = <<"advance", e, "all">>
                            /\ At(Closer, "advance") /\ AdvanceAndWakeAll(Closer, e) /\ Then(Closer, <<>>)
  BY CloserNotifies
<1>2. OthersStay(Closer) /\ Closer \in Threads
  BY <1>1, CloserPops, Names
<1>3. ASSUME NEW u \in Sleepers PROVE CountsAt(u)'
  <2>1. CountsAt(u) /\ u \in Threads /\ epoch[u] \in Nat /\ u # Closer
    BY CountByCount, Names, Types
  <2>2. /\ waiters'[u] = waiters[u] /\ key'[u] = key[u] /\ sleepers'[u] \subseteq sleepers[u]
        /\ epoch'[u] \in Nat /\ epoch[u] <= epoch'[u] /\ pending'[u] = pending[u]
    BY <1>1, <2>1, Types DEF AdvanceAndWakeAll
  <2>3. stack'[u] = stack[u] /\ (Clears(u)' <=> Clears(u))
    BY <1>1, <1>2, <2>1 DEF OthersStay, AdvanceAndWakeAll, Clears
  <2>4. Advancing(u) => Advancing(u)'
    <3>1. Doing(Closer) # <<"advance", u, "one">>
      BY <1>1
    <3> QED BY <1>2, <3>1, AdvanceKept
  <2> QED BY <2>1, <2>2, <2>3, <2>4, StandsStill, StillCounted
<1> QED BY <1>3, CountByCount

\* Nor a store that arrives.
LEMMA FlushCounts ==
  ASSUME Calls, CountsInv, NEW t \in Threads, Flush(t)
  PROVE  CountsInv'
<1>1. t \in Sleepers /\ UNCHANGED stack /\ \A u \in Threads : u # t => buffer'[u] = buffer[u]
  BY FlushKinds
<1>2. /\ UNCHANGED <<epoch, waiters, sleepers, key>>
      /\ \A u \in Sleepers : pending'[u] => pending[u]
      /\ ~Clears(t)' /\ (Clears(t) => ~pending'[t])
  <2>1. CASE /\ Clears(t) /\ pending' = [pending EXCEPT ![t] = FALSE] /\ buffer'[t] = <<>>
             /\ UNCHANGED <<epoch, waiters, sleepers, key, rings, next, history>>
    <3>1. pending' = [u \in Sleepers |-> IF u = t THEN FALSE ELSE pending[u]]
      BY <2>1, Types
    <3> QED BY <1>1, <2>1, <3>1 DEF Clears
  <2>2. CASE /\ ~Clears(t) /\ buffer'[t] = Tail(buffer[t]) /\ buffer[t] \in Seq(HeadStore)
             /\ 1 \in DOMAIN buffer[t]
             /\ UNCHANGED <<counts, tail, closed, cached_head, cached_tail, slots, next, history>>
    <3>1. ~Clears(t)'
      <4>1. buffer'[t] \in Seq(HeadStore)
        BY <2>2
      <4>2. SUFFICES ASSUME Clears(t)' PROVE FALSE
        OBVIOUS
      <4>3. ClearPending(t) \in HeadStore
        BY <4>1, <4>2 DEF Clears
      <4> QED BY <4>3, Stores DEF IsClear, ClearPending
    <3> QED BY <2>2, <3>1 DEF counts
  <2> QED BY <2>1, <2>2, FlushKinds
<1>3. ASSUME NEW u \in Sleepers PROVE CountsAt(u)'
  <2>1. CountsAt(u) /\ u \in Threads /\ epoch[u] \in Nat
    BY CountByCount, Names, Types
  <2>2. /\ stack'[u] = stack[u] /\ (Advancing(u) => Advancing(u)')
        /\ u # t => (Clears(u)' <=> Clears(u))
    BY <1>1, <2>1 DEF Advancing, Doing, Clears
  <2>3. Clears(u)' => Clears(u)
    BY <1>2, <2>2
  <2>4. pending'[u] => pending[u] /\ (Clears(u) => Clears(u)')
    BY <1>2, <2>2
  <2> QED BY <1>2, <2>1, <2>2, <2>3, <2>4, StandsStill, StillCounted
<1> QED BY <1>3, CountByCount

\* At first nobody waits.
LEMMA CountsInit == Init => CountsInv
<1> SUFFICES ASSUME Init, NEW u \in Sleepers PROVE CountsAt(u)
  BY CountByCount
<1>1. /\ epoch[u] = 0 /\ waiters[u] = 0 /\ sleepers[u] = {} /\ key[u] = 0 /\ pending[u] = FALSE /\ buffer[u] = <<>>
  BY Names DEF Init, EventCountInit
<1>2. ~Announced(u)
  <2>1. stack[u] = <<Idle>> \/ stack[u] = <<From>>
    <3>1. u \in Threads
      BY Names
    <3> QED BY <3>1 DEF Init, Top, From, Scan, Idle
  <2> QED BY <2>1, AnnouncedStack, AnnouncedPushing, AnnouncedPopping
<1> QED BY <1>1, <1>2 DEF CountsAt, Clears

\* No step breaks the books of the event counts.
LEMMA CountsNext == Calls /\ RingsInv /\ CountsInv /\ [Next \/ Over]_vars => CountsInv'
<1> SUFFICES ASSUME Calls, RingsInv, CountsInv, [Next \/ Over]_vars PROVE CountsInv'
  OBVIOUS
<1>1. CASE UNCHANGED vars
  <2>1. ASSUME NEW u \in Sleepers PROVE CountsAt(u)'
    <3>1. CountsAt(u) /\ u \in Threads /\ epoch[u] \in Nat
      BY CountByCount, Names, Types
    <3>2. UNCHANGED <<stack, buffer>> /\ UNCHANGED counts
      BY <1>1 DEF vars
    <3> QED BY <3>1, <3>2, StandsStill, StillCounted DEF counts, Clears, Advancing, Doing
  <2> QED BY <2>1, CountByCount
<1>2. CASE Next
  <2>1. CASE \E r \in Rings : BeginPush(r) \/ Pushing(r)
    <3>1. PICK r \in Rings : BeginPush(r) \/ Pushing(r)
      BY <2>1
    <3>2. Producer(r) \in Sleepers /\ Producer(r) \in Threads
      BY Names
    <3>3. CASE BeginPush(r) \/ PushClosed(r) \/ PushFull(r) \/ PushWrite(r) \/ Publish(r)
      BY <3>2, <3>3, PushesQuietly, QuietCounts
    <3>4. CASE Waiting(Producer(r)) \/ Notifying(Producer(r))
      BY <3>2, <3>4, WaitingCounts, NotifyCounts DEF Waiting, Notifying
    <3> QED BY <3>1, <3>3, <3>4 DEF Pushing
  <2>2. CASE \E c \in Owners : Popping(c)
    <3>1. PICK c \in Owners : Popping(c)
      BY <2>2
    <3>2. Consumer(c) \in Sleepers /\ Consumer(c) \in Threads
      BY Names
    <3>3. CASE PopRing(c) \/ PopMiss(c) \/ AnyClosed(c) \/ Drained(c)
      BY <3>2, <3>3, PopsQuietly, QuietCounts
    <3>4. CASE Waiting(Consumer(c)) \/ Notifying(Consumer(c))
      BY <3>2, <3>4, WaitingCounts, NotifyCounts DEF Waiting, Notifying
    <3> QED BY <3>1, <3>3, <3>4 DEF Popping
  <2>3. CASE BeginClose \/ Closing
    <3>1. CASE BeginClose \/ SetClosed
      BY <3>1, ClosesQuietly, QuietCounts, Names
    <3>2. CASE Notifying(Closer)
      BY <3>2, ClosingCounts
    <3> QED BY <2>3, <3>1, <3>2 DEF Closing
  <2>4. CASE \E t \in Threads : Flush(t)
    BY <2>4, FlushCounts
  <2> QED BY <1>2, <2>1, <2>2, <2>3, <2>4 DEF Next
<1> QED BY <1>1, <1>2 DEF Over

\* The books of the event counts hold in every state: who is counted as a waiter,
\* who the kernel has blocked, and that a claimed wake reaches the waiter it is for.
THEOREM ShardsCounts == Spec => [](Calls /\ RingsInv /\ CountsInv)
<1>1. Init => CountsInv
  BY CountsInit
<1>2. Calls /\ RingsInv /\ CountsInv /\ [Next \/ Over]_vars => CountsInv'
  BY CountsNext
<1> QED BY <1>1, <1>2, ShardsRings, PTL DEF Spec

(* ------------------------------- the wakes ------------------------------- *)
Early == {"look", "claim", "advance"}

\* A notification goes on unless its own thread ends it.
LEMMA NoticeElsewhere ==
  ASSUME NEW t \in Threads, OthersStay(t) \/ (UNCHANGED stack), NEW u, Noticing(u),
         Doing(t)[1] \in Early /\ Doing(t)[2] = u => Doing(t)' = Doing(t)
  PROVE  Noticing(u)'
<1>1. PICK x \in Threads : Doing(x)[1] \in Early /\ Doing(x)[2] = u
  BY DEF Noticing, Early
<1>2. Doing(x)' = Doing(x)
  <2>1. CASE UNCHANGED stack
    BY <2>1 DEF Doing
  <2>2. CASE OthersStay(t) /\ x # t
    BY <2>2 DEF Doing, OthersStay
  <2>3. CASE OthersStay(t) /\ x = t
    BY <1>1, <2>3
  <2> QED BY <2>1, <2>2, <2>3
<1> QED BY <1>1, <1>2 DEF Noticing, Early

\* Who takes a step of a notification and the waiter has not been woken for: a look
\* finds it counted, and a claim that finds pending_ set leaves it to the one who set it.
LEMMA NoticeKept ==
  ASSUME Calls, CountsInv, NEW t \in Sleepers, NotifySteps(t), NEW u \in Sleepers, Noticing(u),
         Announced(u), ~Clears(u), key[u] = epoch[u], epoch'[u] = epoch[u]
  PROVE  Noticing(u)'
<1>0. t \in Threads /\ CountsAt(u)
  BY Names, CountByCount
<1>1. PICK e : e = Doing(t)[2]
  OBVIOUS
<1>2. /\ OthersStay(t) /\ Doing(t) = <<Doing(t)[1], e, "one">> /\ e \in Sleepers
      /\ \/ At(t, "look") /\ waiters[e] = 0
         \/ At(t, "look") /\ Doing(t)' = <<"claim", e, "one">>
         \/ At(t, "claim") /\ pending[e]
         \/ At(t, "claim") /\ Doing(t)' = <<"advance", e, "one">>
         \/ At(t, "advance") /\ Advance(t, e)
         \/ At(t, "wake")
  <2>1. NotifySteps(t)
    OBVIOUS
  <2> QED BY <1>1, <2>1, NotifyKinds
<1>3. CASE Doing(t)[1] \notin Early \/ u # e
  BY <1>0, <1>1, <1>2, <1>3, NoticeElsewhere
<1>4. CASE Doing(t)[1] \in Early /\ u = e
  <2>1. waiters[e] # 0
    BY <1>0, <1>4 DEF CountsAt
  <2>2. ~(At(t, "advance") /\ Advance(t, e))
    BY <1>4, Types DEF Advance
  <2>3. CASE Doing(t)' = <<"claim", e, "one">> \/ Doing(t)' = <<"advance", e, "one">>
    <3>1. Doing(t)'[1] \in {"look", "claim", "advance"} /\ Doing(t)'[2] = u
      BY <1>4, <2>3
    <3> QED BY <1>0, <3>1 DEF Noticing
  <2>4. CASE At(t, "claim") /\ pending[e]
    <3>1. PICK y \in Threads : Doing(y) = <<"advance", u, "one">>
      BY <1>0, <1>4, <2>4 DEF CountsAt, Advancing
    <3>2. y # t
      BY <2>4, <3>1 DEF At
    <3>3. Doing(y)' = <<"advance", u, "one">>
      BY <1>2, <3>1, <3>2 DEF OthersStay, Doing
    <3> QED BY <3>3 DEF Noticing
  <2> QED BY <1>2, <1>4, <2>1, <2>2, <2>3, <2>4 DEF At, Early
<1> QED BY <1>3, <1>4

\* What a step leaves of what a waiter relies on, until its epoch moves on.
Listens(e) == Announced(e) /\ ~Clears(e) /\ key[e] = epoch[e]
Keeps ==
  /\ \A e \in Sleepers : epoch[e] <= epoch'[e]
  /\ \A e \in Sleepers : epoch'[e] = epoch[e] =>
       /\ Listens(e) /\ Noticing(e) => Noticing(e)'
       /\ ClosesYet(e) => ClosesYet(e)'
  /\ \A r \in Rings : closed'[r] /\ ~closed[r] => \A e \in Sleepers : ClosesYet(e)'
  /\ \A r \in Rings : Empty(r) => Empty(r)' \/ Noticing(Owner(r))'
  /\ \A r \in Rings : \A q \in head[r]..(head'[r] - 1) : q % kFullWakeEvery = 0 => Noticing(Producer(r))'

\* Where the closer does not move, what it has still to do stays.
LEMMA CloserWaits ==
  ASSUME stack'[Closer] = stack[Closer], NEW e
  PROVE  ClosesYet(e)' <=> ClosesYet(e)
  BY DEF ClosesYet

\* A step of waiting or notifying, and a quiet one, take no notice away.
LEMMA CountsKeep ==
  ASSUME Calls, CountsInv, NEW t \in Sleepers, WaitSteps(t, t, Deadlines) \/ NotifySteps(t),
         UNCHANGED <<rings, next, history>>
  PROVE  Keeps
<1>0. t \in Threads /\ t # Closer /\ Closer \in Threads
  BY Names
<1>1. OthersStay(t) \/ (UNCHANGED stack)
  BY WaitingGoes
<1>2. \A e \in Sleepers : epoch[e] <= epoch'[e]
  <2>1. CASE WaitSteps(t, t, Deadlines)
    <3>1. epoch' = epoch
      BY <2>1, WaitKinds DEF ReadKey, Announce, CancelWait, Sleep, LeaveWait
    <3> QED BY <3>1, Types
  <2>2. CASE NotifySteps(t)
    <3>1. PICK e : e = Doing(t)[2]
      OBVIOUS
    <3>2. e \in Sleepers /\ (epoch' = epoch \/ Advance(t, e))
      <4>1. /\ e \in Sleepers
            /\ \/ UNCHANGED <<counts, buffer>> \/ ClaimWake(t, e) \/ Advance(t, e) \/ WakeOne(e)
        BY <2>2, <3>1, NotifyKinds
      <4>2. UNCHANGED <<counts, buffer>> => epoch' = epoch
        BY DEF counts
      <4>3. ClaimWake(t, e) \/ WakeOne(e) => epoch' = epoch
        BY DEF ClaimWake, WakeOne
      <4> QED BY <4>1, <4>2, <4>3
    <3>3. ASSUME NEW u \in Sleepers PROVE epoch[u] <= epoch'[u]
      <4>1. epoch[u] \in Nat /\ epoch \in [Sleepers -> Nat]
        BY Types
      <4>2. epoch'[u] = epoch[u] \/ epoch'[u] = epoch[u] + 1
        BY <3>2, <4>1 DEF Advance
      <4> QED BY <4>1, <4>2
    <3> QED BY <3>3
  <2> QED BY <2>1, <2>2
<1>3. ASSUME NEW e \in Sleepers, epoch'[e] = epoch[e]
      PROVE  /\ Listens(e) /\ Noticing(e) => Noticing(e)'
             /\ ClosesYet(e) => ClosesYet(e)'
  <2>1. stack'[Closer] = stack[Closer]
    BY <1>0, <1>1 DEF OthersStay
  <2>2. CASE WaitSteps(t, t, Deadlines)
    <3>1. Doing(t)[1] \notin Early
      BY <2>2, WaitKinds DEF At, Early
    <3> QED BY <1>0, <1>1, <2>1, <3>1, NoticeElsewhere, CloserWaits
  <2>3. CASE NotifySteps(t)
    BY <1>3, <2>1, <2>3, NoticeKept, CloserWaits DEF Listens
  <2> QED BY <2>2, <2>3
<1>4. closed' = closed /\ head' = head /\ got' = got /\ tail' = tail
  BY DEF rings, history
<1>5. \A r \in Rings : Empty(r) => Empty(r)'
  BY <1>4 DEF Empty
<1>6. \A r \in Rings : head[r]..(head'[r] - 1) = {}
  BY <1>4, Types
<1> QED BY <1>2, <1>3, <1>4, <1>5, <1>6 DEF Keeps

\* So does a quiet step that leaves the rings' own state alone.
LEMMA QuietKeeps ==
  ASSUME Calls, NEW t \in Threads, Quiet(t),
         \A e \in Sleepers : ClosesYet(e) => ClosesYet(e)',
         \A r \in Rings : closed'[r] /\ ~closed[r] => \A e \in Sleepers : ClosesYet(e)',
         \A r \in Rings : Empty(r) => Empty(r)' \/ Noticing(Owner(r))',
         head' = head
  PROVE  Keeps
<1>1. \A e \in Sleepers : epoch[e] <= epoch'[e]
  BY Types DEF Quiet, counts
<1>2. ASSUME NEW e \in Sleepers, Noticing(e) PROVE Noticing(e)'
  <2>1. Doing(t)[1] \notin Early
    BY DEF Quiet, Noticed, Early
  <2> QED BY <1>2, <2>1, NoticeElsewhere DEF Quiet
<1>3. \A r \in Rings : head[r]..(head'[r] - 1) = {}
  BY Types
<1> QED BY <1>1, <1>2, <1>3 DEF Keeps

\* A push takes away no emptiness without a notice.
LEMMA PushesKeep ==
  ASSUME Calls, CountsInv, NEW r \in Rings,
         BeginPush(r) \/ PushClosed(r) \/ PushFull(r) \/ PushWrite(r) \/ Publish(r)
  PROVE  Keeps
<1>1. PICK t \in Threads : t = Producer(r) /\ t # Closer
  BY Names
<1>2. Quiet(t) /\ OthersStay(t)
  BY <1>1, PushesQuietly DEF Quiet
<1>3. \A e \in Sleepers : ClosesYet(e) => ClosesYet(e)'
  BY <1>1, <1>2, CloserWaits, Names DEF OthersStay
<1>4. head' = head /\ closed' = closed /\ got' = got
  BY DEF BeginPush, PushClosed, PushFull, PushWrite, Publish, rings, history
<1>5. \A q \in Rings : Empty(q) => Empty(q)' \/ Noticing(Owner(q))'
  <2>1. CASE tail' = tail
    BY <1>4, <2>1 DEF Empty
  <2>2. CASE Publish(r) /\ ~closed[r]
    <3>1. \A q \in Rings : q # r => tail'[q] = tail[q]
      BY <2>2, Types DEF Publish
    <3>2. Doing(t)' = Look(Owner(r))
      <4>1. \/ Goes(t, << <<"publish">>, Idle>>, <<Look(Owner(r)), Idle>>)
            \/ Goes(t, << <<"publish">>, Cancel, Idle>>, <<Look(Owner(r)), Cancel, Idle>>)
        BY <1>1, <2>2, PublishMoves
      <4> QED BY <4>1 DEF Goes, Doing
    <3>3. Noticing(Owner(r))'
      <4>1. Doing(t)'[1] \in {"look", "claim", "advance"} /\ Doing(t)'[2] = Owner(r)
        BY <3>2 DEF Look
      <4> QED BY <4>1 DEF Noticing
    <3>4. \A q \in Rings : q # r /\ Empty(q) => Empty(q)'
      BY <1>4, <3>1 DEF Empty
    <3> QED BY <3>3, <3>4
  <2>3. tail' = tail \/ (Publish(r) /\ ~closed[r])
    BY DEF BeginPush, PushClosed, PushFull, PushWrite, Publish, rings
  <2> QED BY <2>1, <2>2, <2>3
<1> QED BY <1>2, <1>3, <1>4, <1>5, QuietKeeps

\* A pop takes none away.
LEMMA PopsKeep ==
  ASSUME Calls, RingsInv, CountsInv, NEW c \in Owners,
         PopRing(c) \/ PopMiss(c) \/ AnyClosed(c) \/ Drained(c)
  PROVE  Keeps
<1>1. PICK t \in Threads : t = Consumer(c) /\ t # Closer
  BY Names
<1>2. Quiet(t) /\ OthersStay(t)
  BY <1>1, PopsQuietly DEF Quiet
<1>3. \A e \in Sleepers : ClosesYet(e) => ClosesYet(e)'
  BY <1>1, <1>2, CloserWaits, Names DEF OthersStay
<1>4. head' = head /\ closed' = closed /\ tail' = tail
  BY DEF PopRing, PopMiss, AnyClosed, Drained, rings
<1>5. \A q \in Rings : Empty(q) => Empty(q)'
  <2>1. CASE got' = got
    BY <1>4, <2>1 DEF Empty
  <2>2. CASE PopRing(c)
    <3>1. PICK r \in Rings : r = RingOf(c, Index(c)) /\ Len(got[r]) < tail[r]
      BY <2>2, PopRingBuffer
    <3>2. \A q \in Rings : q # r => got'[q] = got[q]
      BY <2>2, <3>1, Types DEF PopRing
    <3>3. ~Empty(r)
      BY <3>1, Types DEF Empty
    <3> QED BY <1>4, <3>2, <3>3 DEF Empty
  <2> QED BY <2>1, <2>2 DEF PopMiss, AnyClosed, Drained, history
<1> QED BY <1>2, <1>3, <1>4, <1>5, QuietKeeps

\* The steps of close say that there is a wake to come for whoever sees a new bit.
LEMMA ClosesKeep ==
  ASSUME Calls, CountsInv, WakesInv, BeginClose \/ SetClosed \/ Notifying(Closer)
  PROVE  Keeps
<1>0. Closer \in Threads
  BY Names
<1>1. CASE BeginClose
  <2>1. Quiet(Closer) /\ \A e \in Sleepers : ClosesYet(e)'
    BY <1>1, ClosesQuietly, BeginCloseMoves
  <2>2. head' = head /\ closed' = closed /\ tail' = tail /\ got' = got
    BY <1>1 DEF BeginClose, rings, history
  <2> QED BY <1>0, <2>1, <2>2, QuietKeeps DEF Empty
<1>2. CASE SetClosed
  <2>1. Quiet(Closer)
    BY <1>2, ClosesQuietly
  <2>2. At(Closer, "bit") /\ Then(Closer, <<>>) /\ Doing(Closer)[1] = "bit"
    BY <1>2 DEF SetClosed, At
  <2>3. \A e \in Sleepers : ClosesYet(e) => ClosesYet(e)'
    <3>1. \A e \in Sleepers : Doing(Closer) # <<"advance", e, "all">>
      BY <2>2
    <3> QED BY <2>2, <3>1, CloserPops
  <2>4. \A e \in Sleepers : ClosesYet(e)
    <3>1. 1 \in DOMAIN stack[Closer] /\ stack[Closer][1] = Doing(Closer)
      <4>1. stack[Closer] \in Seq(CloseFrames) /\ stack[Closer] # <<>>
        <5>1. InClose(stack[Closer]) /\ stack[Closer] # <<Idle>>
          BY <2>2, CloserAt DEF At
        <5> QED BY <5>1 DEF InClose
      <4> QED BY <4>1 DEF Doing
    <3> QED BY <2>2, <3>1 DEF WakesInv, BitsBeforeWakes
  <2>5. head' = head /\ tail' = tail /\ got' = got
    BY <1>2 DEF SetClosed, history
  <2> QED BY <1>0, <2>1, <2>3, <2>4, <2>5, QuietKeeps DEF Empty
<1>3. CASE Notifying(Closer)
  <2>1. PICK e \in Sleepers : /\ Doing(Closer) = <<"advance", e, "all">> /\ At(Closer, "advance")
                              /\ AdvanceAndWakeAll(Closer, e) /\ Then(Closer, <<>>)
                              /\ UNCHANGED <<rings, next, history>>
    BY <1>3, CloserNotifies
  <2>2. OthersStay(Closer) /\ \A u \in Sleepers : ClosesYet(u) /\ u # e => ClosesYet(u)'
    <3>1. \A u \in Sleepers : u # e => Doing(Closer) # <<"advance", u, "all">>
      BY <2>1
    <3> QED BY <2>1, <3>1, CloserPops
  <2>3. \A u \in Sleepers : epoch[u] <= epoch'[u]
    BY <2>1, Types DEF AdvanceAndWakeAll
  <2>4. epoch'[e] # epoch[e]
    BY <2>1, Types DEF AdvanceAndWakeAll
  <2>5. ASSUME NEW u \in Sleepers, epoch'[u] = epoch[u]
        PROVE  /\ Listens(u) /\ Noticing(u) => Noticing(u)'
               /\ ClosesYet(u) => ClosesYet(u)'
    <3>1. u # e /\ Doing(Closer)[2] = e
      BY <2>1, <2>4, <2>5
    <3> QED BY <1>0, <2>2, <3>1, NoticeElsewhere
  <2>6. closed' = closed /\ head' = head /\ got' = got /\ tail' = tail
    BY <2>1 DEF rings, history
  <2>7. \A r \in Rings : (Empty(r) => Empty(r)') /\ head[r]..(head'[r] - 1) = {}
    BY <2>6, Types DEF Empty
  <2> QED BY <2>3, <2>5, <2>6, <2>7 DEF Keeps
<1> QED BY <1>1, <1>2, <1>3

\* The store that says a batch of slots is free arrives before the look for a waiter.
LEMMA FlushKeeps ==
  ASSUME Calls, RingsInv, WakesInv, Outline' = Outline, NEW t \in Threads, Flush(t)
  PROVE  Keeps
<1>1. t \in Sleepers /\ UNCHANGED stack
  BY FlushKinds
<1>2. UNCHANGED <<epoch, waiters, sleepers, key, tail, closed, got>>
  BY FlushKinds DEF counts, rings, history
<1>3. \A e \in Sleepers : epoch[e] <= epoch'[e]
  BY <1>2, Types
<1>4. ASSUME NEW e PROVE (Noticing(e) => Noticing(e)') /\ (ClosesYet(e) => ClosesYet(e)')
  BY <1>1 DEF Noticing, ClosesYet, Doing
<1>5. \A r \in Rings : Empty(r) => Empty(r)'
  BY <1>2 DEF Empty
<1>6. ASSUME NEW r \in Rings, NEW q \in head[r]..(head'[r] - 1), q % kFullWakeEvery = 0
      PROVE  Noticing(Producer(r))'
  <2>1. head'[r] <= Len(got[r])
    BY <1>2, FlushRings DEF RingsInv, IndicesInTurn
  <2>2. head[r] \in Nat /\ head'[r] \in Int /\ Len(got[r]) \in Nat
    <3>1. head'[r] \in Nat
      BY FlushCalls DEF Calls, StateTypes, RingTypes
    <3>2. got[r] \in Seq(Nat)
      BY Types
    <3> QED BY <3>1, <3>2, Types
  <2>3. q \in head[r]..(Len(got[r]) - 1)
    BY <2>1, <2>2
  <2>4. Doing(Owner(r)) = <<"look", Producer(r), "one">>
    BY <1>6, <2>3 DEF WakesInv, ReleasesTold
  <2>5. Owner(r) \in Threads
    BY Sharing, Names
  <2>6. Doing(Owner(r))' = <<"look", Producer(r), "one">>
    BY <1>1, <2>4, <2>5 DEF Doing, Owner
  <2> QED BY <2>5, <2>6 DEF Noticing, Owner
<1> QED BY <1>2, <1>3, <1>4, <1>5, <1>6 DEF Keeps

\* A step of a push or a pop is one of its own thread.
LEMMA PushingMoves ==
  ASSUME Calls, CountsInv, NEW r \in Rings, BeginPush(r) \/ Pushing(r), NEW t, t = Producer(r)
  PROVE  /\ OthersStay(t) \/ (UNCHANGED stack)
         /\ \A u \in Threads : u # t => stack'[u] = stack[u]
<1>1. OthersStay(t) \/ (UNCHANGED stack)
  <2>1. CASE BeginPush(r) \/ PushClosed(r) \/ PushFull(r) \/ PushWrite(r) \/ Publish(r)
    BY <2>1, PushesQuietly DEF Quiet
  <2>2. CASE Waiting(t) \/ Notifying(t)
    BY <2>2, WaitingGoes, Names DEF Waiting, Notifying
  <2> QED BY <2>1, <2>2 DEF Pushing
<1> QED BY <1>1 DEF OthersStay

\* A step of pop moves one worker.
LEMMA PoppingMoves ==
  ASSUME Calls, RingsInv, CountsInv, NEW c \in Owners, Popping(c), NEW t, t = Consumer(c)
  PROVE  /\ OthersStay(t) \/ (UNCHANGED stack)
         /\ \A u \in Threads : u # t => stack'[u] = stack[u]
<1>1. OthersStay(t) \/ (UNCHANGED stack)
  <2>1. CASE PopRing(c) \/ PopMiss(c) \/ AnyClosed(c) \/ Drained(c)
    BY <2>1, PopsQuietly DEF Quiet
  <2>2. CASE Waiting(t) \/ Notifying(t)
    BY <2>2, WaitingGoes, Names DEF Waiting, Notifying
  <2> QED BY <2>1, <2>2 DEF Popping
<1> QED BY <1>1 DEF OthersStay

\* A step of close moves the closer.
LEMMA ClosingMoves ==
  ASSUME Calls, BeginClose \/ Closing
  PROVE  OthersStay(Closer)
<1>1. CASE BeginClose \/ SetClosed
  BY <1>1, ClosesQuietly DEF Quiet
<1>2. CASE Notifying(Closer)
  BY <1>2, CloserNotifies, CloserPops
<1> QED BY <1>1, <1>2 DEF Closing

\* Every step keeps what the waiters rely on.
LEMMA StepsKeep ==
  ASSUME Calls, RingsInv, CountsInv, WakesInv, Next
  PROVE  Keeps
<1>1. CASE \E r \in Rings : BeginPush(r) \/ Pushing(r)
  <2>1. PICK r \in Rings : BeginPush(r) \/ Pushing(r)
    BY <1>1
  <2>2. CASE Waiting(Producer(r)) \/ Notifying(Producer(r))
    BY <2>2, CountsKeep, Names DEF Waiting, Notifying
  <2> QED BY <2>1, <2>2, PushesKeep DEF Pushing
<1>2. CASE \E c \in Owners : Popping(c)
  <2>1. PICK c \in Owners : Popping(c)
    BY <1>2
  <2>2. CASE Waiting(Consumer(c)) \/ Notifying(Consumer(c))
    BY <2>2, CountsKeep, Names DEF Waiting, Notifying
  <2> QED BY <2>1, <2>2, PopsKeep DEF Popping
<1>3. CASE BeginClose \/ Closing
  BY <1>3, ClosesKeep DEF Closing
<1>4. CASE \E t \in Threads : Flush(t)
  BY <1>4, FlushKeeps DEF Next
<1> QED BY <1>1, <1>2, <1>3, <1>4 DEF Next

\* close sets all its bits before it wakes anybody.
LEMMA BitsNext ==
  ASSUME Calls, RingsInv, CountsInv, WakesInv, Next
  PROVE  BitsBeforeWakes'
<1>1. CASE stack'[Closer] = stack[Closer]
  BY <1>1 DEF WakesInv, BitsBeforeWakes, ClosesYet
<1>2. CASE BeginClose
  BY <1>2, BeginCloseMoves DEF BitsBeforeWakes
<1>3. CASE SetClosed \/ Notifying(Closer)
  <2>1. Then(Closer, <<>>) /\ (At(Closer, "bit") \/ At(Closer, "advance"))
    BY <1>3, CloserNotifies DEF SetClosed
  <2>2. SUFFICES ASSUME NEW i \in DOMAIN stack'[Closer], stack'[Closer][i][1] = "bit", NEW e \in Sleepers
                 PROVE  ClosesYet(e)'
    BY DEF BitsBeforeWakes
  <2>3. At(Closer, "bit") /\ \E j \in DOMAIN stack[Closer] : stack[Closer][j][1] = "bit"
    BY <2>1, <2>2, CloserPops
  <2>4. ClosesYet(e)
    BY <2>2, <2>3 DEF WakesInv, BitsBeforeWakes
  <2>5. Doing(Closer) # <<"advance", e, "all">>
    BY <2>3 DEF At
  <2> QED BY <2>1, <2>2, <2>4, <2>5, CloserPops
<1>4. \/ stack'[Closer] = stack[Closer] \/ BeginClose \/ SetClosed \/ Notifying(Closer)
  <2>1. CASE \E r \in Rings : BeginPush(r) \/ Pushing(r)
    BY <2>1, PushingMoves, Names
  <2>2. CASE \E c \in Owners : Popping(c)
    BY <2>2, PoppingMoves, Names
  <2>3. CASE \E t \in Threads : Flush(t)
    BY <2>3, FlushKinds
  <2> QED BY <2>1, <2>2, <2>3 DEF Next, Closing
<1> QED BY <1>1, <1>2, <1>3, <1>4

\* Of the head of a batch that is still on its way, the look is still to come.
ToldOf(r) ==
  \A q \in head[r]..(Len(got[r]) - 1) :
    q % kFullWakeEvery = 0 => Doing(Owner(r)) = <<"look", Producer(r), "one">>

\* No step frees a batch of slots without the look for a waiter to come.
LEMMA ReleasesNext ==
  ASSUME Calls, RingsInv, CountsInv, WakesInv, Next
  PROVE  ReleasesTold'
<1> SUFFICES ASSUME NEW r \in Rings PROVE ToldOf(r)'
  BY DEF ReleasesTold, ToldOf
<1>1. PICK c \in Owners : Owner(r) = Consumer(c)
  BY Sharing
<1>2. PICK t \in Threads : t = Consumer(c) /\ t \in Sleepers /\ Owner(r) = t
  BY <1>1, Names
<1>3. ToldOf(r) /\ head[r] \in Nat /\ Len(got[r]) \in Nat /\ got[r] \in Seq(Nat)
  <2>1. got[r] \in Seq(Nat) /\ head[r] \in Nat
    BY Types
  <2> QED BY <2>1 DEF WakesInv, ReleasesTold, ToldOf
<1>4. CASE head'[r] = head[r] /\ got'[r] = got[r] /\ stack'[t] = stack[t]
  BY <1>2, <1>3, <1>4 DEF ToldOf, Doing, Owner
<1>5. ASSUME head'[r] = head[r] /\ got'[r] = got[r], Doing(t)[1] # "look" \/ Fenced(t)
      PROVE  ToldOf(r)'
  <2>1. ASSUME NEW q \in head[r]..(Len(got[r]) - 1) PROVE q % kFullWakeEvery # 0
    <3>1. CASE Fenced(t)
      <4>1. head[r] = Len(got[r])
        BY <1>1, <1>2, <3>1, OwnHeadIs
      <4> QED BY <1>3, <2>1, <4>1
    <3>2. CASE Doing(t)[1] # "look"
      BY <1>2, <1>3, <2>1, <3>2 DEF ToldOf
    <3> QED BY <1>5, <3>1, <3>2
  <2> QED BY <1>5, <2>1 DEF ToldOf
<1>6. CASE Popping(c)
  <2>1. CASE PopRing(c)
    <3>1. PICK s \in Rings : s = RingOf(c, Index(c)) /\ Owner(s) = t /\ OwnHead(c, s) = Len(got[s]) /\ At(t, "scan")
      <4>1. PICK s \in Rings : s = RingOf(c, Index(c)) /\ Owner(s) = Consumer(c)
        BY <2>1, PopRingBuffer
      <4>2. OwnHead(c, s) = Len(got[s]) /\ At(t, "scan")
        BY <1>2, <2>1, <4>1, PopRingBuffer
      <4> QED BY <1>2, <4>1, <4>2
    <3>2. PICK h \in Nat : h = Len(got[s]) /\ h = OwnHead(c, s)
      <4>1. got[s] \in Seq(Nat)
        BY Types
      <4> QED BY <3>1, <4>1
    <3>3. head' = head /\ Doing(t)[1] # "look"
      BY <2>1, <3>1 DEF PopRing, At
    <3>4. CASE s # r
      <4>1. got'[r] = got[r]
        BY <2>1, <3>1, <3>4, Types DEF PopRing
      <4> QED BY <1>5, <3>3, <4>1
    <3>5. CASE s = r
      <4>1. Len(got'[r]) = h + 1
        <5>1. got'[r] = Append(got[r], slots[r][h % kRing])
          <6>1. RingOf(c, Index(c)) = r /\ OwnHead(c, r) = h
            BY <3>1, <3>2, <3>5
          <6>2. got' = [got EXCEPT ![r] = Append(@, slots[r][h % kRing])]
            BY <2>1, <6>1 DEF PopRing
          <6> QED BY <6>2, Types
        <5>2. slots[r][h % kRing] \in Nat
          <6>1. h % kRing \in Slots
            BY <3>2, Sizes DEF Slots
          <6>2. slots[r] \in [Slots -> Nat]
            BY Types
          <6> QED BY <6>1, <6>2
        <5>3. Len(got[r]) = h /\ got[r] \in Seq(Nat)
          BY <1>3, <3>2, <3>5
        <5>4. PICK v \in Nat : v = slots[r][h % kRing]
          BY <5>2
        <5>5. got'[r] = Append(got[r], v)
          BY <5>1, <5>4
        <5> QED BY <5>3, <5>4, <5>5
      <4>2. h % kFullWakeEvery = 0 => Doing(t)' = <<"look", Producer(r), "one">>
        <5>1. h % kFullWakeEvery = 0 =>
                stack'[t] = <<Look(Producer(r)), Cancel, From>> \/ stack'[t] = <<Look(Producer(r)), From>>
          <6>1. r = RingOf(c, Index(c)) /\ h = OwnHead(c, r) /\ t = Consumer(c)
            BY <1>2, <3>1, <3>2, <3>5
          <6> QED BY <2>1, <6>1, PopRingMoves
        <5> QED BY <5>1 DEF Doing, Look
      <4>3. ASSUME NEW q \in head'[r]..(Len(got'[r]) - 1), q % kFullWakeEvery = 0
            PROVE  Doing(t)' = <<"look", Producer(r), "one">>
        <5>1. q = h \/ q \in head[r]..(Len(got[r]) - 1)
          <6>1. q \in head[r]..h /\ h = Len(got[r]) /\ head[r] \in Nat /\ h \in Nat
            <7>1. (h + 1) - 1 = h /\ head'[r] = head[r]
              BY <3>2, <3>3
            <7> QED BY <1>3, <3>2, <3>5, <4>1, <4>3, <7>1
          <6> QED BY <6>1
        <5>2. q \notin head[r]..(Len(got[r]) - 1)
          BY <1>2, <1>3, <3>3, <4>3 DEF ToldOf
        <5> QED BY <4>2, <4>3, <5>1, <5>2
      <4> QED BY <1>2, <4>3 DEF ToldOf, Owner
    <3> QED BY <3>4, <3>5
  <2>2. CASE PopMiss(c) \/ AnyClosed(c) \/ Drained(c)
    <3>1. head' = head /\ got' = got
      BY <2>2 DEF PopMiss, AnyClosed, Drained, rings, history
    <3>2. Quiet(t)
      BY <1>2, <2>2, PopsQuietly
    <3> QED BY <1>5, <3>1, <3>2 DEF Quiet, Noticed
  <2>3. CASE Waiting(t)
    <3>1. head' = head /\ got' = got
      BY <2>3 DEF Waiting, rings, history
    <3>2. Doing(t)[1] # "look"
      BY <1>2, <2>3, WaitKinds DEF Waiting, At
    <3> QED BY <1>5, <3>1, <3>2
  <2>4. CASE Notifying(t)
    <3>1. head' = head /\ got' = got
      BY <2>4 DEF Notifying, rings, history
    <3>2. Doing(t)[1] # "look" \/ Fenced(t)
      <4>1. NotifySteps(t)
        BY <2>4 DEF Notifying
      <4> QED BY <1>2, <4>1, NotifyMoves
    <3> QED BY <1>5, <3>1, <3>2
  <2> QED BY <1>2, <1>6, <2>1, <2>2, <2>3, <2>4 DEF Popping
<1>7. CASE \E d \in Owners : d # c /\ Popping(d)
  <2>1. PICK d \in Owners : d # c /\ Popping(d)
    BY <1>7
  <2>2. Consumer(d) # t
    BY <1>2, <2>1, Names
  <2>3. stack'[t] = stack[t]
    BY <2>1, <2>2, PoppingMoves
  <2>4. head' = head
    BY <2>1 DEF Popping, PopRing, PopMiss, AnyClosed, Drained, Waiting, Notifying, rings
  <2>5. got'[r] = got[r]
    <3>1. CASE PopRing(d)
      <4>1. PICK s \in Rings : s = RingOf(d, Index(d)) /\ Owner(s) = Consumer(d)
        BY <3>1, PopRingBuffer
      <4>2. s # r
        BY <1>2, <2>2, <4>1
      <4> QED BY <3>1, <4>1, <4>2, Types DEF PopRing
    <3>2. CASE ~PopRing(d)
      BY <2>1, <3>2 DEF Popping, PopMiss, AnyClosed, Drained, Waiting, Notifying, history
    <3> QED BY <3>1, <3>2
  <2> QED BY <1>4, <2>3, <2>4, <2>5
<1>8. CASE \E s \in Rings : BeginPush(s) \/ Pushing(s)
  <2>1. PICK s \in Rings : BeginPush(s) \/ Pushing(s)
    BY <1>8
  <2>2. Producer(s) # t
    BY <1>2, Names
  <2>3. stack'[t] = stack[t]
    BY <2>1, <2>2, PushingMoves
  <2>4. head' = head /\ got' = got
    BY <2>1 DEF BeginPush, Pushing, PushClosed, PushFull, PushWrite, Publish, Waiting, Notifying, rings, history
  <2> QED BY <1>4, <2>3, <2>4
<1>9. CASE BeginClose \/ Closing
  <2>1. stack'[t] = stack[t]
    BY <1>2, <1>9, ClosingMoves, Names DEF OthersStay
  <2>2. head' = head /\ got' = got
    BY <1>9 DEF BeginClose, Closing, SetClosed, Notifying, rings, history
  <2> QED BY <1>4, <2>1, <2>2
<1>10. CASE \E u \in Threads : Flush(u)
  <2>1. UNCHANGED stack /\ got' = got
    BY <1>10, FlushKinds DEF history
  <2>2. head[r] <= head'[r] /\ head'[r] \in Nat
    <3>1. PICK u \in Threads : Flush(u)
      BY <1>10
    <3>2. CASE head' = head
      BY <1>3, <3>2
    <3>3. CASE \E d \in Owners : /\ u = Consumer(d) /\ ~Clears(u) /\ buffer[u][1] \in HeadStore
                                 /\ ~IsClear(buffer[u][1]) /\ Owner(buffer[u][1].ring) = u /\ 1 \in DOMAIN buffer[u]
                                 /\ head' = [head EXCEPT ![buffer[u][1].ring] = buffer[u][1].head]
      <4>1. buffer[u][1].ring \in Rings /\ buffer[u][1].head \in Nat
        BY <3>3, Stores
      <4>2. CASE buffer[u][1].ring = r
        <5>1. Owner(r) = u /\ Moves(1, r)
          BY <3>3, <4>2 DEF Moves
        <5>2. head[r] <= buffer[u][1].head
          <6>1. HeadsInTurn(r) /\ 1 \in DOMAIN buffer[Owner(r)]
            BY <5>1 DEF RingsInv, Moves
          <6>2. head[r] <= buffer[Owner(r)][1].head
            BY <5>1, <6>1 DEF HeadsInTurn
          <6> QED BY <5>1, <6>2
        <5> QED BY <3>3, <4>1, <4>2, <5>2, Types
      <4>3. CASE buffer[u][1].ring # r
        BY <1>3, <3>3, <4>1, <4>3, Types
      <4> QED BY <4>2, <4>3
    <3> QED BY <3>1, <3>2, <3>3, FlushKinds DEF rings
  <2>3. ASSUME NEW q \in head'[r]..(Len(got'[r]) - 1), q % kFullWakeEvery = 0
        PROVE  Doing(t)' = <<"look", Producer(r), "one">>
    <3>1. q \in head[r]..(Len(got[r]) - 1)
      BY <1>3, <2>1, <2>2, <2>3
    <3> QED BY <1>2, <1>3, <2>1, <2>3, <3>1 DEF ToldOf, Doing
  <2> QED BY <1>2, <2>3 DEF ToldOf, Owner
<1> QED BY <1>6, <1>7, <1>8, <1>9, <1>10 DEF Next

\* A wake goes on unless its own thread ends it.
LEMMA WakeElsewhere ==
  ASSUME NEW t \in Threads, OthersStay(t) \/ (UNCHANGED stack), NEW u, Waking(u),
         Doing(t) # <<"wake", u, "one">>
  PROVE  Waking(u)'
<1>1. PICK x \in Threads : Doing(x) = <<"wake", u, "one">>
  BY DEF Waking
<1>2. Doing(x)' = Doing(x)
  BY <1>1 DEF OthersStay, Doing
<1> QED BY <1>1, <1>2 DEF Waking

\* Who sleeps on u has the newest key, or is about to be woken.
KnowsOf(u) == u \in sleepers[u] => key[u] = epoch[u] \/ Waking(u)

\* No step leaves a sleeper with an old key and nobody to wake it.
LEMMA SleepersNext ==
  ASSUME Calls, RingsInv, CountsInv, WakesInv, Next
  PROVE  SleepersKnow'
<1> SUFFICES ASSUME NEW u \in Sleepers PROVE KnowsOf(u)'
  BY DEF SleepersKnow, KnowsOf
<1>0. KnowsOf(u) /\ CountsAt(u) /\ u \in Threads /\ Outline = {}
  BY CountByCount, Names, Types DEF WakesInv, SleepersKnow, KnowsOf
<1>1. ASSUME NEW t \in Threads, OthersStay(t) \/ (UNCHANGED stack), UNCHANGED counts, Doing(t)[1] # "wake"
      PROVE  KnowsOf(u)'
  <2>1. Doing(t) # <<"wake", u, "one">>
    BY <1>1
  <2>2. Waking(u) => Waking(u)'
    BY <1>1, <2>1, WakeElsewhere
  <2> QED BY <1>0, <1>1, <2>2 DEF KnowsOf, counts
<1>2. ASSUME NEW t \in Threads, Quiet(t) PROVE KnowsOf(u)'
  BY <1>1, <1>2 DEF Quiet, Noticed
<1>3. ASSUME NEW t \in Sleepers, WaitSteps(t, t, Deadlines) PROVE KnowsOf(u)'
  <2>1. /\ t \in Threads /\ (OthersStay(t) \/ (UNCHANGED stack))
        /\ Doing(t)[1] \in {"key", "announce", "cancel", "wait"}
        /\ \/ At(t, "key") /\ ReadKey(t, t)
           \/ Announce(t, t) \/ CancelWait(t, t) \/ Sleep(t, t) \/ LeaveWait(t, t, Deadlines)
    BY <1>3, WaitKinds, Names DEF At
  <2>2. Waking(u) => Waking(u)'
    <3>1. Doing(t) # <<"wake", u, "one">>
      BY <2>1
    <3> QED BY <2>1, <3>1, WakeElsewhere
  <2>3. CASE UNCHANGED <<epoch, sleepers, key>>
    BY <1>0, <2>2, <2>3 DEF KnowsOf
  <2>4. CASE At(t, "key") /\ ReadKey(t, t)
    <3>1. u = t => u \notin sleepers'[u]
      BY <1>0, <2>4 DEF CountsAt, At, ReadKey
    <3>2. u # t => key'[u] = key[u] /\ epoch'[u] = epoch[u] /\ sleepers'[u] = sleepers[u]
      BY <1>0, <2>4, Types DEF ReadKey
    <3> QED BY <1>0, <2>2, <3>1, <3>2 DEF KnowsOf
  <2>5. CASE Sleep(t, t)
    <3>1. u = t => key'[u] = epoch'[u]
      BY <2>5 DEF Sleep
    <3>2. u # t => key'[u] = key[u] /\ epoch'[u] = epoch[u] /\ sleepers'[u] = sleepers[u]
      BY <1>0, <2>5, Types DEF Sleep
    <3> QED BY <1>0, <2>2, <3>1, <3>2 DEF KnowsOf
  <2>6. CASE LeaveWait(t, t, Deadlines)
    <3>1. key'[u] = key[u] /\ epoch'[u] = epoch[u] /\ sleepers'[u] \subseteq sleepers[u]
      BY <1>0, <2>6, Types DEF LeaveWait
    <3> QED BY <1>0, <2>2, <3>1 DEF KnowsOf
  <2> QED BY <2>1, <2>3, <2>4, <2>5, <2>6 DEF Announce, CancelWait
<1>4. ASSUME NEW t \in Sleepers, NotifySteps(t) PROVE KnowsOf(u)'
  <2>0. t \in Threads
    BY Names
  <2>1. PICK e : e = Doing(t)[2]
    OBVIOUS
  <2>2. /\ OthersStay(t) /\ Doing(t) = <<Doing(t)[1], e, "one">> /\ e \in Sleepers
        /\ \/ /\ At(t, "look") /\ UNCHANGED <<counts, buffer>>
           \/ /\ At(t, "claim") /\ UNCHANGED <<counts, buffer>>
           \/ At(t, "claim") /\ ClaimWake(t, e)
           \/ At(t, "advance") /\ Advance(t, e) /\ Doing(t)' = <<"wake", e, "one">>
           \/ At(t, "wake") /\ WakeOne(e)
    <3>1. NotifySteps(t)
      BY <1>4
    <3> QED BY <2>1, <3>1, NotifyKinds
  <2>3. CASE (At(t, "look") \/ At(t, "claim")) /\ UNCHANGED <<epoch, sleepers, key>>
    <3>1. Doing(t) # <<"wake", u, "one">>
      BY <2>3 DEF At
    <3> QED BY <1>0, <2>0, <2>2, <2>3, <3>1, WakeElsewhere DEF KnowsOf
  <2>4. CASE At(t, "advance") /\ Advance(t, e) /\ Doing(t)' = <<"wake", e, "one">>
    <3>1. Waking(e)'
      BY <2>0, <2>4 DEF Waking
    <3>2. u # e => key'[u] = key[u] /\ epoch'[u] = epoch[u] /\ sleepers'[u] = sleepers[u]
      BY <2>2, <2>4, Types DEF Advance
    <3>3. Waking(u) => Waking(u)'
      <4>1. Doing(t) # <<"wake", u, "one">>
        BY <2>4 DEF At
      <4> QED BY <2>0, <2>2, <4>1, WakeElsewhere
    <3> QED BY <1>0, <3>1, <3>2, <3>3 DEF KnowsOf
  <2>5. CASE At(t, "wake") /\ WakeOne(e)
    <3>1. CASE u = e
      <4>1. sleepers'[u] = {}
        <5>1. \A x \in sleepers[u] : x = u
          BY <1>0 DEF CountsAt
        <5> QED BY <2>5, <3>1, <5>1, Types DEF WakeOne
      <4> QED BY <4>1 DEF KnowsOf
    <3>2. CASE u # e
      <4>1. key'[u] = key[u] /\ epoch'[u] = epoch[u] /\ sleepers'[u] = sleepers[u]
        BY <2>2, <2>5, <3>2, Types DEF WakeOne
      <4>2. Waking(u) => Waking(u)'
        <5>1. Doing(t) # <<"wake", u, "one">>
          BY <2>2, <3>2
        <5> QED BY <2>0, <2>2, <5>1, WakeElsewhere
      <4> QED BY <1>0, <4>1, <4>2 DEF KnowsOf
    <3> QED BY <3>1, <3>2
  <2> QED BY <2>2, <2>3, <2>4, <2>5 DEF ClaimWake, counts
<1>5. ASSUME Notifying(Closer) PROVE KnowsOf(u)'
  <2>1. PICK e \in Sleepers : /\ Doing(Closer) = <<"advance", e, "all">> /\ At(Closer, "advance")
                              /\ AdvanceAndWakeAll(Closer, e) /\ Then(Closer, <<>>)
    BY <1>5, CloserNotifies
  <2>2. OthersStay(Closer) /\ Closer \in Threads /\ Doing(Closer) # <<"wake", u, "one">>
    BY <2>1, CloserPops, Names
  <2>3. Waking(u) => Waking(u)'
    BY <2>2, WakeElsewhere
  <2>4. u = e => sleepers'[u] = {}
    BY <2>1, Types DEF AdvanceAndWakeAll
  <2>5. u # e => key'[u] = key[u] /\ epoch'[u] = epoch[u] /\ sleepers'[u] = sleepers[u]
    BY <2>1, Types DEF AdvanceAndWakeAll
  <2> QED BY <1>0, <2>3, <2>4, <2>5 DEF KnowsOf
<1>6. CASE \E r \in Rings : BeginPush(r) \/ Pushing(r)
  <2>1. PICK r \in Rings : BeginPush(r) \/ Pushing(r)
    BY <1>6
  <2>2. Producer(r) \in Sleepers /\ Producer(r) \in Threads
    BY Names
  <2>3. CASE Waiting(Producer(r)) \/ Notifying(Producer(r))
    BY <1>3, <1>4, <2>2, <2>3 DEF Waiting, Notifying
  <2>4. CASE BeginPush(r) \/ PushClosed(r) \/ PushFull(r) \/ PushWrite(r) \/ Publish(r)
    BY <1>2, <2>2, <2>4, PushesQuietly
  <2> QED BY <2>1, <2>3, <2>4 DEF Pushing
<1>7. CASE \E c \in Owners : Popping(c)
  <2>1. PICK c \in Owners : Popping(c)
    BY <1>7
  <2>2. Consumer(c) \in Sleepers /\ Consumer(c) \in Threads
    BY Names
  <2>3. CASE Waiting(Consumer(c)) \/ Notifying(Consumer(c))
    BY <1>3, <1>4, <2>2, <2>3 DEF Waiting, Notifying
  <2>4. CASE PopRing(c) \/ PopMiss(c) \/ AnyClosed(c) \/ Drained(c)
    BY <1>2, <2>2, <2>4, PopsQuietly
  <2> QED BY <2>1, <2>3, <2>4 DEF Popping
<1>8. CASE BeginClose \/ Closing
  BY <1>2, <1>5, <1>8, ClosesQuietly, Names DEF Closing
<1>9. CASE \E t \in Threads : Flush(t)
  <2>1. UNCHANGED stack /\ UNCHANGED <<epoch, sleepers, key>>
    BY <1>9, FlushKinds DEF counts
  <2> QED BY <1>0, <2>1 DEF KnowsOf, Waking, Doing
<1> QED BY <1>6, <1>7, <1>8, <1>9 DEF Next

\* What a waiter has seen stays true while its epoch stands still.
LEMMA SightKept ==
  ASSUME Calls, Keeps, NEW t \in Sleepers, NEW r \in Rings, epoch'[t] = epoch[t]
  PROVE  /\ SeenOpen(t, r) => SeenOpen(t, r)'
         /\ \A c \in Owners : Listens(t) /\ t = Consumer(c) /\ Owner(r) = t /\ SeenEmpty(c, r) => SeenEmpty(c, r)'
<1>1. SeenOpen(t, r) => SeenOpen(t, r)'
  <2>1. CASE closed[r]
    BY <2>1 DEF Keeps, SeenOpen
  <2>2. CASE ~closed[r]
    BY <2>2 DEF Keeps, SeenOpen
  <2> QED BY <2>1, <2>2
<1>2. ASSUME NEW c \in Owners, Listens(t), t = Consumer(c), Owner(r) = t, SeenEmpty(c, r)
      PROVE  SeenEmpty(c, r)'
  <2>1. Noticing(t) => Noticing(t)'
    BY <1>2 DEF Keeps
  <2>2. Empty(r) => Empty(r)' \/ Noticing(Owner(r))'
    BY DEF Keeps
  <2>3. Noticing(Owner(r))' <=> Noticing(t)'
    BY <1>2 DEF Noticing, Owner
  <2>4. (Noticing(t) <=> Noticing(Consumer(c))) /\ (Noticing(t)' <=> Noticing(Consumer(c))')
    BY <1>2 DEF Noticing
  <2> QED BY <1>2, <2>1, <2>2, <2>3, <2>4 DEF SeenEmpty
<1> QED BY <1>1, <1>2

\* What c relies on of its k-th ring r.
SeesOf(c, k, r) ==
  LET t == Consumer(c)  f == Doing(t) IN
  key[t] = epoch[t] =>
    /\ f[1] = "scan" /\ f[3] = "recheck" /\ Ahead(c, k) < f[2] => SeenEmpty(c, r)
    /\ f[1] = "any_closed" /\ f[3] = "recheck" => SeenEmpty(c, r) /\ (k < f[2] => SeenOpen(t, r))
    /\ f[1] = "wait" => SeenEmpty(c, r) /\ SeenOpen(t, r)

\* The place of a ring in the order of c's looks.
LEMMA AheadIs ==
  ASSUME Calls, NEW c \in Owners, NEW k \in Shares
  PROVE  Ahead(c, k) \in Int /\ Ahead(c, k) >= 0 /\ Ahead(c, k) <= kOwned - 1
<1>1. kOwned \in Nat /\ next[c] \in 0..(kOwned - 1) /\ k \in 0..(kOwned - 1)
  BY Sharing, Types DEF Shares
<1> QED BY <1>1 DEF Ahead

\* Who has looked at a ring in the re-check has announced itself for good.
LEMMA ListensIs ==
  ASSUME Calls, CountsInv, NEW c \in Owners, NEW t, t = Consumer(c), key[t] = epoch[t],
         NEW f, f = Doing(t),
         \/ f[1] = "scan" /\ f[3] = "recheck" /\ f[2] # 0
         \/ f[1] = "any_closed" /\ f[3] = "recheck"
         \/ f[1] = "wait"
  PROVE  Listens(t)
<1>1. t \in Sleepers /\ CountsAt(t)
  BY Names, CountByCount
<1>2. ~Clears(t)
  BY <1>1 DEF CountsAt
<1>3. Announced(t)
  <2>0. Announced(t) <=> AnnouncedIn(stack[t])
    BY AnnouncedStack
  <2>1. CASE f[1] = "scan" /\ f[3] = "recheck"
    <3>1. stack[t] = <<Scan(f[2], "recheck")>>
      BY <2>1, WorkerAt DEF At
    <3> QED BY <2>0, <3>1, AnnouncedPopping
  <2>2. CASE f[1] = "any_closed" /\ f[3] = "recheck"
    <3>1. stack[t] = <<AnyOf(f[2], "recheck")>>
      BY <2>2, WorkerAt DEF At
    <3> QED BY <2>0, <3>1, AnnouncedPopping
  <2>3. CASE f[1] = "wait"
    <3>1. stack[t] = << <<"wait">>, From>>
      BY <2>3, WorkerAt DEF At
    <3> QED BY <2>0, <3>1, AnnouncedPopping
  <2> QED BY <2>1, <2>2, <2>3
<1> QED BY <1>2, <1>3 DEF Listens

\* While c stands still, what it has seen stays seen.
LEMMA SeesStill ==
  ASSUME Calls, CountsInv, Keeps, NEW c \in Owners, NEW k \in Shares, NEW r \in Rings, r = RingOf(c, k),
         NEW t, t = Consumer(c), stack'[t] = stack[t], key'[t] = key[t], next'[c] = next[c],
         SeesOf(c, k, r)
  PROVE  SeesOf(c, k, r)'
<1>1. t \in Sleepers /\ t \in Threads /\ CountsAt(t) /\ Owner(r) = t
  BY Names, CountByCount, Sharing
<1>2. /\ key[t] \in Nat /\ epoch[t] \in Nat /\ key[t] <= epoch[t] /\ epoch[t] <= epoch'[t]
  BY <1>1, Types DEF CountsAt, Keeps
<1>3. PICK f : f = Doing(t) /\ f = Doing(t)'
  BY <1>1, StandsStill
<1>4. Ahead(c, k)' = Ahead(c, k) /\ Ahead(c, k) >= 0 /\ Ahead(c, k) \in Int
  BY AheadIs DEF Ahead
<1>5. ASSUME key'[t] = epoch'[t]
      PROVE  /\ f[1] = "scan" /\ f[3] = "recheck" /\ Ahead(c, k) < f[2] => SeenEmpty(c, r)'
             /\ f[1] = "any_closed" /\ f[3] = "recheck" => SeenEmpty(c, r)' /\ (k < f[2] => SeenOpen(t, r)')
             /\ f[1] = "wait" => SeenEmpty(c, r)' /\ SeenOpen(t, r)'
  <2>1. key[t] = epoch[t] /\ epoch'[t] = epoch[t]
    <3>1. key'[t] = key[t]
      OBVIOUS
    <3>2. epoch'[t] \in Int
      BY <1>2, <1>5, <3>1
    <3> QED BY <1>2, <1>5, <3>1, <3>2
  <2>2. /\ f[1] = "scan" /\ f[3] = "recheck" /\ Ahead(c, k) < f[2] => SeenEmpty(c, r)
        /\ f[1] = "any_closed" /\ f[3] = "recheck" => SeenEmpty(c, r) /\ (k < f[2] => SeenOpen(t, r))
        /\ f[1] = "wait" => SeenEmpty(c, r) /\ SeenOpen(t, r)
    BY <1>3, <2>1 DEF SeesOf
  <2>3. SeenOpen(t, r) => SeenOpen(t, r)'
    BY <1>1, <2>1, SightKept
  <2>4. Listens(t) /\ SeenEmpty(c, r) => SeenEmpty(c, r)'
    BY <1>1, <2>1, SightKept
  <2>5. CASE f[1] = "scan" /\ f[3] = "recheck" /\ Ahead(c, k) < f[2]
    <3>1. f[2] # 0
      BY <1>4, <2>5
    <3>2. Listens(t)
      BY <1>3, <2>1, <2>5, <3>1, ListensIs
    <3> QED BY <2>2, <2>3, <2>4, <2>5, <3>2
  <2>6. CASE f[1] = "any_closed" /\ f[3] = "recheck"
    <3>2. Listens(t)
      BY <1>3, <2>1, <2>6, ListensIs
    <3> QED BY <2>2, <2>3, <2>4, <2>6, <3>2
  <2>7. CASE f[1] = "wait"
    <3>2. Listens(t)
      BY <1>3, <2>1, <2>7, ListensIs
    <3> QED BY <2>2, <2>3, <2>4, <2>7, <3>2
  <2> QED BY <2>5, <2>6, <2>7
<1> QED BY <1>3, <1>4, <1>5 DEF SeesOf

\* At the start of a scan, and outside the re-check, c relies on nothing.
LEMMA SeesNothing ==
  ASSUME Calls, NEW c \in Owners, NEW k \in Shares, NEW r \in Rings,
         NEW t, t = Consumer(c), next' = next,
         \/ Doing(t)'[1] \notin {"scan", "any_closed", "wait"}
         \/ Doing(t)'[1] # "wait" /\ Doing(t)'[3] = "top"
         \/ Doing(t)' = Scan(0, "recheck")
  PROVE  SeesOf(c, k, r)'
<1>1. Ahead(c, k)' = Ahead(c, k) /\ ~(Ahead(c, k) < 0)
  BY AheadIs DEF Ahead
<1>2. CASE Doing(t)'[1] \notin {"scan", "any_closed", "wait"}
  BY <1>2 DEF SeesOf
<1>3. CASE Doing(t)'[1] # "wait" /\ Doing(t)'[3] = "top"
  BY <1>3 DEF SeesOf
<1>4. CASE Doing(t)' = Scan(0, "recheck")
  <2>1. Doing(t)'[1] = "scan" /\ Doing(t)'[2] = 0
    BY <1>4 DEF Scan
  <2> QED BY <1>1, <2>1 DEF SeesOf
<1> QED BY <1>2, <1>3, <1>4

\* A miss in the re-check adds the ring it was in to what has been seen.
LEMMA PopMissSees ==
  ASSUME Calls, RingsInv, CountsInv, Keeps, NEW c \in Owners, NEW j \in Shares, NEW r \in Rings, r = RingOf(c, j),
         NEW t, t = Consumer(c), PopMiss(c), SeesOf(c, j, r)
  PROVE  SeesOf(c, j, r)'
<1>0. t \in Sleepers /\ t \in Threads /\ Owner(r) = t
  BY Names, Sharing
<1>1. PICK k \in Shares, where \in {"top", "recheck"} :
        /\ At(t, "scan") /\ ~Clears(t) /\ Doing(t)[2] = k /\ Doing(t)[3] = where /\ stack[t] = <<Scan(k, where)>>
        /\ \/ k + 1 < kOwned /\ stack'[t] = <<Scan(k + 1, where)>>
           \/ ~(k + 1 < kOwned) /\ stack'[t] = <<AnyOf(0, where)>>
  <2>1. Scanning(c)
    BY DEF PopMiss
  <2> QED BY <2>1, PopMissMoves, ScanningMeans
<1>2. UNCHANGED <<tail, closed, next, got>> /\ UNCHANGED counts /\ Empty(RingOf(c, Index(c)))
  <2>1. Empty(RingOf(c, Index(c)))
    <3>1. OwnHead(c, RingOf(c, Index(c))) = KnownTail(c, RingOf(c, Index(c)))
      BY DEF PopMiss
    <3> QED BY <1>1, <3>1, IndexIs, KnownTailIs
  <2> QED BY <2>1 DEF PopMiss, history, counts
<1>3. /\ kOwned \in Nat /\ kOwned >= 1 /\ next[c] \in 0..(kOwned - 1) /\ k \in 0..(kOwned - 1) /\ j \in 0..(kOwned - 1)
      /\ Index(c) = IF next[c] + k < kOwned THEN next[c] + k ELSE (next[c] + k) - kOwned
  BY <1>1, IndexIs, Sharing, Types DEF Shares
<1>4. Ahead(c, j) = k => Empty(r)
  <2>1. Ahead(c, j) = k => j = Index(c)
    BY <1>3 DEF Ahead
  <2> QED BY <1>2, <2>1
<1>5. Ahead(c, j) \in Int /\ Ahead(c, j) >= 0 /\ Ahead(c, j) <= kOwned - 1 /\ Ahead(c, j)' = Ahead(c, j)
  BY <1>2, AheadIs DEF Ahead
<1>6. CASE where = "top"
  <2>1. Doing(t)' = Scan(k + 1, "top") \/ Doing(t)' = AnyOf(0, "top")
    BY <1>1, <1>6 DEF Doing
  <2>2. Doing(t)'[1] # "wait" /\ Doing(t)'[3] = "top"
    BY <2>1 DEF Scan, AnyOf
  <2> QED BY <1>2, <2>2, SeesNothing
<1>7. CASE where = "recheck"
  <2>1. ASSUME key'[t] = epoch'[t], Ahead(c, j) < k + 1
        PROVE  SeenEmpty(c, r)'
    <3>1. key[t] = epoch[t] /\ epoch'[t] = epoch[t]
      BY <1>2, <2>1 DEF counts
    <3>2. CASE Empty(r)
      BY <1>2, <3>2 DEF SeenEmpty, Empty
    <3>3. CASE ~Empty(r)
      <4>1. Ahead(c, j) < k
        BY <1>3, <1>4, <1>5, <2>1, <3>3
      <4>2. k # 0
        BY <1>5, <4>1
      <4>3. Doing(t)[1] = "scan"
        BY <1>1 DEF At
      <4>4. SeenEmpty(c, r)
        BY <1>1, <1>7, <3>1, <4>1, <4>3 DEF SeesOf
      <4>5. Listens(t)
        BY <1>1, <1>7, <3>1, <4>2, <4>3, ListensIs
      <4> QED BY <1>0, <3>1, <4>4, <4>5, SightKept
    <3> QED BY <3>2, <3>3
  <2>2. CASE k + 1 < kOwned /\ stack'[t] = <<Scan(k + 1, where)>>
    <3>1. Doing(t)'[1] = "scan" /\ Doing(t)'[2] = k + 1
      BY <2>2 DEF Doing, Scan
    <3> QED BY <1>5, <2>1, <3>1 DEF SeesOf
  <2>3. CASE ~(k + 1 < kOwned) /\ stack'[t] = <<AnyOf(0, where)>>
    <3>1. Doing(t)'[1] = "any_closed" /\ Doing(t)'[2] = 0
      BY <2>3 DEF Doing, AnyOf
    <3>2. Ahead(c, j) < k + 1 /\ ~(j < 0)
      BY <1>3, <1>5, <2>3
    <3> QED BY <2>1, <3>1, <3>2 DEF SeesOf
  <2> QED BY <1>1, <2>2, <2>3
<1> QED BY <1>1, <1>6, <1>7

\* So does a closed bit that is not set.
LEMMA AnyClosedSees ==
  ASSUME Calls, RingsInv, CountsInv, Keeps, NEW c \in Owners, NEW j \in Shares, NEW r \in Rings, r = RingOf(c, j),
         NEW t, t = Consumer(c), AnyClosed(c), SeesOf(c, j, r)
  PROVE  SeesOf(c, j, r)'
<1>0. t \in Sleepers /\ t \in Threads /\ Owner(r) = t
  BY Names, Sharing
<1>1. PICK k \in Shares, where \in {"top", "recheck"} :
        /\ Doing(t)[1] = "any_closed" /\ Doing(t)[2] = k /\ Doing(t)[3] = where
        /\ \/ stack'[t] = <<Cancel, From>>
           \/ stack'[t] = << <<"drained?", 0>> >>
           \/ ~closed[RingOf(c, k)] /\ stack'[t] = <<AnyOf(k + 1, where)>>
           \/ stack'[t] = << <<"key">>, Scan(0, "recheck")>>
           \/ where = "recheck" /\ ~closed[RingOf(c, k)] /\ ~(k + 1 < kOwned) /\ stack'[t] = << <<"wait">>, From>>
  <2>1. At(t, "any_closed")
    BY DEF AnyClosed
  <2> QED BY <2>1, AnyClosedMoves, WorkerAt DEF At
<1>2. UNCHANGED <<tail, closed, next, got>> /\ UNCHANGED counts
  BY DEF AnyClosed, rings, history
<1>3. k \in Int /\ j \in Int /\ kOwned \in Int /\ j <= kOwned - 1
  BY Sharing DEF Shares
<1>4. ASSUME key'[t] = epoch'[t], where = "recheck"
      PROVE  /\ SeenEmpty(c, r)'
             /\ ~closed[RingOf(c, k)] /\ j < k + 1 => SeenOpen(t, r)'
  <2>1. key[t] = epoch[t] /\ epoch'[t] = epoch[t]
    BY <1>2, <1>4 DEF counts
  <2>2. SeenEmpty(c, r) /\ (j < k => SeenOpen(t, r))
    BY <1>1, <1>4, <2>1 DEF SeesOf
  <2>3. Listens(t)
    BY <1>1, <1>4, <2>1, ListensIs
  <2>4. ~closed[RingOf(c, k)] /\ j = k => SeenOpen(t, r)
    BY DEF SeenOpen
  <2>5. j < k + 1 => j < k \/ j = k
    BY <1>3
  <2> QED BY <1>0, <2>1, <2>2, <2>3, <2>4, <2>5, SightKept
<1>5. CASE stack'[t] \in {<<Cancel, From>>, << <<"drained?", 0>> >>, << <<"key">>, Scan(0, "recheck")>>}
  <2>1. Doing(t)'[1] \notin {"scan", "any_closed", "wait"}
    BY <1>5 DEF Doing, Cancel
  <2> QED BY <1>2, <2>1, SeesNothing
<1>6. CASE ~closed[RingOf(c, k)] /\ stack'[t] = <<AnyOf(k + 1, where)>>
  <2>1. Doing(t)'[1] = "any_closed" /\ Doing(t)'[2] = k + 1 /\ Doing(t)'[3] = where
    BY <1>6 DEF Doing, AnyOf
  <2> QED BY <1>4, <1>6, <2>1 DEF SeesOf
<1>7. CASE where = "recheck" /\ ~closed[RingOf(c, k)] /\ ~(k + 1 < kOwned) /\ stack'[t] = << <<"wait">>, From>>
  <2>1. Doing(t)'[1] = "wait"
    BY <1>7 DEF Doing
  <2>2. j < k + 1
    BY <1>3, <1>7
  <2> QED BY <1>4, <1>7, <2>1, <2>2 DEF SeesOf
<1> QED BY <1>1, <1>5, <1>6, <1>7

\* No step takes from a worker that is about to sleep what it has seen.
LEMMA WorkersNext ==
  ASSUME Calls, RingsInv, CountsInv, WakesInv, Next
  PROVE  WaitingWorkers'
<1> SUFFICES ASSUME NEW c \in Owners, NEW k \in Shares, NEW r \in Rings, r = RingOf(c, k)
             PROVE  SeesOf(c, k, r)'
  BY Sharing DEF WaitingWorkers, SeesOf
<1>0. PICK t \in Threads : t = Consumer(c) /\ t \in Sleepers
  BY Names
<1>1. SeesOf(c, k, r) /\ Keeps
  BY StepsKeep DEF WakesInv, WaitingWorkers, SeesOf
<1>2. ASSUME stack'[t] = stack[t], key'[t] = key[t], next'[c] = next[c] PROVE SeesOf(c, k, r)'
  BY <1>0, <1>1, <1>2, SeesStill
<1>3. ASSUME NEW d \in Owners, Popping(d) PROVE SeesOf(c, k, r)'
  <2>1. CASE d # c
    <3>1. Consumer(d) # t /\ Consumer(d) \in Sleepers
      BY <1>0, <2>1, Names
    <3>2. stack'[t] = stack[t]
      BY <1>3, <3>1, PoppingMoves
    <3>3. key'[t] = key[t]
      <4>1. CASE PopRing(d) \/ PopMiss(d) \/ AnyClosed(d) \/ Drained(d)
        BY <4>1 DEF PopRing, PopMiss, AnyClosed, Drained, counts
      <4>2. CASE Waiting(Consumer(d))
        <5>1. \/ ReadKey(Consumer(d), Consumer(d)) \/ key' = key
          BY <3>1, <4>2, WaitKinds DEF Waiting, Announce, CancelWait, Sleep, LeaveWait
        <5> QED BY <1>0, <3>1, <5>1, Types DEF ReadKey
      <4>3. CASE Notifying(Consumer(d))
        BY <4>3 DEF Notifying, NotifySteps, NotifyLook, NotifyClaim, NotifyAdvance, NotifyWake, NotifyAll,
                    ClaimWake, Advance, WakeOne, AdvanceAndWakeAll, counts
      <4> QED BY <1>3, <4>1, <4>2, <4>3 DEF Popping
    <3>4. next'[c] = next[c]
      BY <1>3, <2>1, Types DEF Popping, PopRing, PopMiss, AnyClosed, Drained, Waiting, Notifying
    <3> QED BY <1>2, <3>2, <3>3, <3>4
  <2>2. CASE d = c /\ PopRing(c)
    <3>1. PICK s \in Rings : s = RingOf(c, Index(c))
      BY <2>2, PopRingBuffer
    <3>2. stack'[t] \in {<<Cancel, From>>, <<From>>, <<Look(Producer(s)), Cancel, From>>, <<Look(Producer(s)), From>>}
      BY <1>0, <2>2, <3>1, PopRingMoves
    <3>3. Doing(t)' \in {Cancel, From, Look(Producer(s))}
      BY <3>2 DEF Doing
    <3>4. Doing(t)'[1] \notin {"scan", "any_closed", "wait"} \/ (Doing(t)'[1] = "scan" /\ Doing(t)'[3] = "top")
      BY <3>3 DEF Cancel, From, Scan, Look
    <3>5. CASE Doing(t)'[1] \notin {"scan", "any_closed", "wait"}
      BY <1>0, <3>5 DEF SeesOf
    <3>6. CASE Doing(t)'[1] = "scan" /\ Doing(t)'[3] = "top"
      BY <1>0, <3>6 DEF SeesOf
    <3> QED BY <3>4, <3>5, <3>6
  <2>3. CASE d = c /\ PopMiss(c)
    BY <1>0, <1>1, <2>3, PopMissSees
  <2>4. CASE d = c /\ AnyClosed(c)
    BY <1>0, <1>1, <2>4, AnyClosedSees
  <2>5. CASE d = c /\ Drained(c)
    <3>1. next' = next
      BY <2>5 DEF Drained
    <3>2. PICK n : n = Doing(t)[2]
      OBVIOUS
    <3>3. stack'[t] = <<From>> \/ stack'[t] = << <<"drained?", n + 1>> >> \/ stack'[t] = << <<"drained">> >>
      BY <1>0, <2>5, <3>2, DrainedMoves
    <3>4. Doing(t)'[1] \notin {"scan", "any_closed", "wait"} \/ (Doing(t)'[1] # "wait" /\ Doing(t)'[3] = "top")
      BY <3>3 DEF Doing, From, Scan
    <3> QED BY <1>0, <3>1, <3>4, SeesNothing
  <2>6. CASE d = c /\ Waiting(Consumer(c))
    <3>1. next' = next /\ WaitSteps(t, t, Deadlines)
      BY <1>0, <2>6 DEF Waiting
    <3>2. CASE UNCHANGED stack /\ Sleep(t, t)
      BY <1>2, <3>1, <3>2 DEF Sleep
    <3>3. CASE Doing(t)' \in {<<"announce">>, <<"recheck">>, Scan(0, "recheck"), Idle, From, <<"push">>}
      <4>1. \/ Doing(t)'[1] \notin {"scan", "any_closed", "wait"}
            \/ Doing(t)'[1] # "wait" /\ Doing(t)'[3] = "top"
            \/ Doing(t)' = Scan(0, "recheck")
        BY <3>3 DEF Idle, From, Scan
      <4> QED BY <1>0, <3>1, <4>1, SeesNothing
    <3> QED BY <1>0, <3>1, <3>2, <3>3, WaitKinds
  <2>7. CASE d = c /\ Notifying(Consumer(c))
    <3>1. next' = next /\ NotifySteps(t)
      BY <1>0, <2>7 DEF Notifying
    <3>2. PICK e : e = Doing(t)[2]
      OBVIOUS
    <3>3. Doing(t)' \in {Idle, From, Cancel, <<"claim", e, "one">>, <<"advance", e, "one">>, <<"wake", e, "one">>}
      BY <1>0, <3>1, <3>2, NotifyKinds
    <3>4. \/ Doing(t)'[1] \notin {"scan", "any_closed", "wait"}
          \/ Doing(t)'[1] # "wait" /\ Doing(t)'[3] = "top"
      BY <3>3 DEF Idle, From, Scan, Cancel
    <3> QED BY <1>0, <3>1, <3>4, SeesNothing
  <2> QED BY <1>3, <2>1, <2>2, <2>3, <2>4, <2>5, <2>6, <2>7 DEF Popping
<1>4. ASSUME NEW s \in Rings, BeginPush(s) \/ Pushing(s) PROVE SeesOf(c, k, r)'
  <2>1. Producer(s) # t /\ Producer(s) \in Sleepers
    BY <1>0, Names
  <2>2. stack'[t] = stack[t]
    BY <1>4, <2>1, PushingMoves
  <2>3. key'[t] = key[t]
    <3>1. CASE BeginPush(s) \/ PushClosed(s) \/ PushFull(s) \/ PushWrite(s) \/ Publish(s)
      BY <3>1 DEF BeginPush, PushClosed, PushFull, PushWrite, Publish, counts
    <3>2. CASE Waiting(Producer(s))
      <4>1. \/ ReadKey(Producer(s), Producer(s)) \/ key' = key
        BY <2>1, <3>2, WaitKinds DEF Waiting, Announce, CancelWait, Sleep, LeaveWait
      <4> QED BY <1>0, <2>1, <4>1, Types DEF ReadKey
    <3>3. CASE Notifying(Producer(s))
      BY <3>3 DEF Notifying, NotifySteps, NotifyLook, NotifyClaim, NotifyAdvance, NotifyWake, NotifyAll,
                  ClaimWake, Advance, WakeOne, AdvanceAndWakeAll, counts
    <3> QED BY <1>4, <3>1, <3>2, <3>3 DEF Pushing
  <2>4. next'[c] = next[c]
    BY <1>4 DEF BeginPush, Pushing, PushClosed, PushFull, PushWrite, Publish, Waiting, Notifying
  <2> QED BY <1>2, <2>2, <2>3, <2>4
<1>5. CASE BeginClose \/ Closing
  <2>1. stack'[t] = stack[t]
    BY <1>0, <1>5, ClosingMoves, Names DEF OthersStay
  <2>2. key' = key /\ next' = next
    BY <1>5, CloserNotifies DEF BeginClose, Closing, SetClosed, AdvanceAndWakeAll, counts
  <2> QED BY <1>2, <2>1, <2>2
<1>6. CASE \E u \in Threads : Flush(u)
  <2>1. UNCHANGED stack /\ key' = key /\ next' = next
    BY <1>6, FlushKinds DEF counts
  <2> QED BY <1>2, <2>1
<1> QED BY <1>3, <1>4, <1>5, <1>6 DEF Next

\* What r's producer relies on while it waits.
WaitsOf(r) ==
  LET t == Producer(r) IN
  At(t, "wait") =>
    /\ kRing <= tail[r]
    /\ key[t] = epoch[t] =>
         /\ SeenOpen(t, r)
         /\ \/ Noticing(t)
            \/ \A q \in 0..(head[r] - 1) : tail[r] <= q + kRing => q % kFullWakeEvery # 0

\* While it waits, the batch it waits for is not released without a notice.
LEMMA WaitsStill ==
  ASSUME Calls, Calls', CountsInv, Keeps, NEW r \in Rings, NEW t, t = Producer(r),
         stack'[t] = stack[t], key'[t] = key[t], tail'[r] = tail[r], WaitsOf(r)
  PROVE  WaitsOf(r)'
<1>1. t \in Sleepers /\ t \in Threads /\ CountsAt(t)
  BY Names, CountByCount
<1>2. key[t] \in Nat /\ epoch[t] \in Nat /\ key[t] <= epoch[t] /\ epoch[t] <= epoch'[t]
  BY <1>1, Types DEF CountsAt, Keeps
<1>3. At(t, "wait")' <=> At(t, "wait")
  BY <1>1, StandsStill
<1>4. ASSUME At(t, "wait"), key'[t] = epoch'[t]
      PROVE  /\ SeenOpen(t, r)'
             /\ \/ Noticing(t)'
                \/ \A q \in 0..(head'[r] - 1) : tail'[r] <= q + kRing => q % kFullWakeEvery # 0
  <2>1. key[t] = epoch[t] /\ epoch'[t] = epoch[t]
    <3>1. epoch'[t] = key[t]
      BY <1>4
    <3> QED BY <1>2, <3>1
  <2>2. /\ SeenOpen(t, r)
        /\ \/ Noticing(t)
           \/ \A q \in 0..(head[r] - 1) : tail[r] <= q + kRing => q % kFullWakeEvery # 0
    BY <1>4, <2>1 DEF WaitsOf
  <2>3. SeenOpen(t, r)'
    BY <1>1, <2>1, <2>2, SightKept
  <2>4. CASE Noticing(t)
    <3>1. Listens(t)
      <4>1. Announced(t)
        <5>1. stack[t] = << <<"wait">>, <<"push">>, Idle>>
          BY <1>4, ProducerAt
        <5> QED BY <5>1, AnnouncedStack, AnnouncedPushing
      <4>2. ~Clears(t)
        BY <1>1, <1>4 DEF CountsAt, At
      <4> QED BY <2>1, <4>1, <4>2 DEF Listens
    <3> QED BY <1>1, <2>1, <2>3, <2>4, <3>1 DEF Keeps
  <2>5. CASE \A q \in 0..(head[r] - 1) : tail[r] <= q + kRing => q % kFullWakeEvery # 0
    <3>1. SUFFICES ASSUME NEW q \in 0..(head'[r] - 1), tail'[r] <= q + kRing, q % kFullWakeEvery = 0
                   PROVE  Noticing(t)'
      BY <2>3
    <3>2. head[r] \in Nat /\ head'[r] \in Nat
      BY Types DEF Calls, StateTypes, RingTypes
    <3>3. q \in 0..(head[r] - 1) \/ q \in head[r]..(head'[r] - 1)
      BY <3>1, <3>2
    <3>4. q \in head[r]..(head'[r] - 1)
      BY <2>5, <3>1, <3>3
    <3>5. Noticing(Producer(r))'
      BY <3>1, <3>4 DEF Keeps
    <3> QED BY <3>5 DEF Noticing
  <2> QED BY <2>2, <2>4, <2>5
<1> QED BY <1>3, <1>4 DEF WaitsOf

\* No step takes from a producer that waits the room it waits for.
LEMMA ProducersNext ==
  ASSUME Calls, RingsInv, CountsInv, WakesInv, Next
  PROVE  WaitingProducers'
<1> SUFFICES ASSUME NEW r \in Rings PROVE WaitsOf(r)'
  BY DEF WaitingProducers, WaitsOf
<1>0. PICK t \in Threads : t = Producer(r) /\ t \in Sleepers
  BY Names
<1>1. WaitsOf(r) /\ Keeps /\ Calls'
  <2>1. Calls'
    BY RingsNext
  <2> QED BY <2>1, StepsKeep DEF WakesInv, WaitingProducers, WaitsOf
<1>2. ASSUME stack'[t] = stack[t], key'[t] = key[t], tail'[r] = tail[r] PROVE WaitsOf(r)'
  BY <1>0, <1>1, <1>2, WaitsStill
<1>3. ASSUME Doing(t)'[1] # "wait" PROVE WaitsOf(r)'
  <2>1. ~At(t, "wait")'
    BY <1>3 DEF At
  <2> QED BY <1>0, <2>1 DEF WaitsOf
<1>4. ASSUME NEW u \in Sleepers, WaitSteps(u, u, Deadlines) \/ NotifySteps(u), u # t
      PROVE  key'[t] = key[t]
  <2>1. CASE WaitSteps(u, u, Deadlines)
    <3>1. \/ ReadKey(u, u) \/ key' = key
      BY <2>1, WaitKinds DEF Announce, CancelWait, Sleep, LeaveWait
    <3> QED BY <1>0, <1>4, <3>1, Types DEF ReadKey
  <2>2. CASE NotifySteps(u)
    BY <2>2 DEF NotifySteps, NotifyLook, NotifyClaim, NotifyAdvance, NotifyWake, NotifyAll,
                ClaimWake, Advance, WakeOne, AdvanceAndWakeAll, counts
  <2> QED BY <1>4, <2>1, <2>2
<1>5. ASSUME NEW c \in Owners, Popping(c) PROVE WaitsOf(r)'
  <2>1. Consumer(c) # t /\ Consumer(c) \in Sleepers
    BY <1>0, Names
  <2>2. stack'[t] = stack[t]
    BY <1>5, <2>1, PoppingMoves
  <2>3. key'[t] = key[t]
    <3>1. CASE PopRing(c) \/ PopMiss(c) \/ AnyClosed(c) \/ Drained(c)
      BY <3>1 DEF PopRing, PopMiss, AnyClosed, Drained, counts
    <3>2. CASE Waiting(Consumer(c)) \/ Notifying(Consumer(c))
      BY <1>4, <2>1, <3>2 DEF Waiting, Notifying
    <3> QED BY <1>5, <3>1, <3>2 DEF Popping
  <2>4. tail' = tail
    BY <1>5 DEF Popping, PopRing, PopMiss, AnyClosed, Drained, Waiting, Notifying, rings
  <2> QED BY <1>2, <2>2, <2>3, <2>4
<1>6. ASSUME NEW s \in Rings, BeginPush(s) \/ Pushing(s), s # r PROVE WaitsOf(r)'
  <2>1. Producer(s) # t /\ Producer(s) \in Sleepers
    BY <1>0, <1>6, Names
  <2>2. stack'[t] = stack[t]
    BY <1>6, <2>1, PushingMoves
  <2>3. key'[t] = key[t]
    <3>1. CASE BeginPush(s) \/ PushClosed(s) \/ PushFull(s) \/ PushWrite(s) \/ Publish(s)
      BY <3>1 DEF BeginPush, PushClosed, PushFull, PushWrite, Publish, counts
    <3>2. CASE Waiting(Producer(s)) \/ Notifying(Producer(s))
      BY <1>4, <2>1, <3>2 DEF Waiting, Notifying
    <3> QED BY <1>6, <3>1, <3>2 DEF Pushing
  <2>4. tail'[r] = tail[r]
    BY <1>6, Types DEF BeginPush, Pushing, PushClosed, PushFull, PushWrite, Publish, Waiting, Notifying, rings
  <2> QED BY <1>2, <2>2, <2>3, <2>4
<1>7. ASSUME BeginPush(r) \/ Pushing(r) PROVE WaitsOf(r)'
  <2>1. CASE BeginPush(r)
    <3>1. stack'[t] = << <<"push">>, Idle>>
      BY <1>0, <2>1, BeginPushMoves DEF Goes
    <3> QED BY <1>3, <3>1 DEF Doing
  <2>2. CASE PushClosed(r)
    <3>1. stack'[t] \in {<<Idle>>, <<Cancel, Idle>>}
      BY <1>0, <2>2, PushClosedMoves DEF Goes
    <3> QED BY <1>3, <3>1 DEF Doing, Idle, Cancel
  <2>3. CASE PushFull(r)
    <3>1. ~closed[r] /\ Full(r) /\ UNCHANGED <<tail, closed, head>>
      BY <2>3 DEF PushFull
    <3>2. tail[r] = head[r] + kRing /\ head[r] \in Nat /\ tail[r] \in Nat /\ kRing \in Nat
      BY <3>1, KnownHeadIs, Types, Sizes
    <3>3. \A q \in 0..(head[r] - 1) : ~(tail[r] <= q + kRing)
      BY <3>2
    <3>4. kRing <= tail[r] /\ SeenOpen(t, r)'
      BY <3>1, <3>2 DEF SeenOpen
    <3> QED BY <1>0, <3>1, <3>3, <3>4 DEF WaitsOf
  <2>4. CASE PushWrite(r)
    <3>1. stack'[t] \in {<< <<"publish">>, Idle>>, << <<"publish">>, Cancel, Idle>>}
      BY <1>0, <2>4, PushWriteMoves DEF Goes
    <3> QED BY <1>3, <3>1 DEF Doing
  <2>5. CASE Publish(r)
    <3>1. stack'[t] \in {<<Idle>>, <<Cancel, Idle>>, <<Look(Owner(r)), Idle>>, <<Look(Owner(r)), Cancel, Idle>>}
      BY <1>0, <2>5, PublishMoves DEF Goes
    <3>2. Doing(t)' \in {Idle, Cancel, Look(Owner(r))}
      BY <3>1 DEF Doing
    <3> QED BY <1>3, <3>2 DEF Idle, Cancel, Look
  <2>6. CASE Waiting(t)
    <3>1. tail' = tail /\ WaitSteps(t, t, Deadlines)
      BY <2>6 DEF Waiting, rings
    <3>2. CASE UNCHANGED stack /\ Sleep(t, t)
      BY <1>2, <3>1, <3>2 DEF Sleep
    <3>3. CASE Doing(t)' \in {<<"announce">>, <<"recheck">>, Scan(0, "recheck"), Idle, From, <<"push">>}
      BY <1>3, <3>3 DEF Idle, From, Scan
    <3> QED BY <1>0, <3>1, <3>2, <3>3, WaitKinds
  <2>7. CASE Notifying(t)
    <3>1. NotifySteps(t)
      BY <2>7 DEF Notifying
    <3>2. PICK e : e = Doing(t)[2]
      OBVIOUS
    <3>3. Doing(t)' \in {Idle, From, Cancel, <<"claim", e, "one">>, <<"advance", e, "one">>, <<"wake", e, "one">>}
      BY <1>0, <3>1, <3>2, NotifyKinds
    <3> QED BY <1>3, <3>3 DEF Idle, From, Scan, Cancel
  <2> QED BY <1>0, <1>7, <2>1, <2>2, <2>3, <2>4, <2>5, <2>6, <2>7 DEF Pushing
<1>8. CASE BeginClose \/ Closing
  <2>1. stack'[t] = stack[t]
    BY <1>0, <1>8, ClosingMoves, Names DEF OthersStay
  <2>2. key' = key /\ tail' = tail
    BY <1>8, CloserNotifies DEF BeginClose, Closing, SetClosed, AdvanceAndWakeAll, counts, rings
  <2> QED BY <1>2, <2>1, <2>2
<1>9. CASE \E u \in Threads : Flush(u)
  <2>1. UNCHANGED stack /\ key' = key /\ tail' = tail
    BY <1>9, FlushKinds DEF counts, rings
  <2> QED BY <1>2, <2>1
<1> QED BY <1>5, <1>6, <1>7, <1>8, <1>9 DEF Next

\* At first nobody waits, and nothing has been released.
LEMMA WakesInit == Init => WakesInv
<1> SUFFICES ASSUME Init PROVE WakesInv
  OBVIOUS
<1>1. /\ \A t \in Sleepers : stack[t] = <<From>> \/ stack[t] = <<Idle>>
      /\ stack[Closer] = <<Idle>>
  <2>1. Closer[1] # "consumer" /\ Closer \in Threads /\ Sleepers \subseteq Threads
    BY Names DEF Closer
  <2> QED BY <2>1 DEF Init, Top, From, Scan, Idle
<1>2. \A t \in Sleepers : Doing(t) = From \/ Doing(t) = Idle
  BY <1>1 DEF Doing
<1>3. /\ \A t \in Sleepers : sleepers[t] = {}
      /\ \A r \in Rings : head[r] = 0 /\ got[r] = <<>>
  BY Names DEF Init, EventCountInit
<1>4. BitsBeforeWakes
  <2>1. \A i \in DOMAIN stack[Closer] : stack[Closer][i][1] # "bit"
    BY <1>1 DEF Idle
  <2> QED BY <2>1 DEF BitsBeforeWakes
<1>5. WaitingWorkers
  <2>1. \A c \in Owners : \/ Doing(Consumer(c))[1] \notin {"scan", "any_closed", "wait"}
                          \/ Doing(Consumer(c))[1] = "scan" /\ Doing(Consumer(c))[3] = "top"
    BY <1>2, Names DEF From, Scan, Idle
  <2> QED BY <2>1 DEF WaitingWorkers
<1>6. WaitingProducers
  <2>1. \A r \in Rings : ~At(Producer(r), "wait")
    BY <1>2, Names DEF From, Scan, Idle, At
  <2> QED BY <2>1 DEF WaitingProducers
<1>7. ReleasesTold
  <2>1. \A r \in Rings : head[r]..(Len(got[r]) - 1) = {}
    BY <1>3
  <2> QED BY <2>1 DEF ReleasesTold
<1>8. SleepersKnow
  BY <1>3 DEF SleepersKnow
<1> QED BY <1>4, <1>5, <1>6, <1>7, <1>8 DEF WakesInv

\* The whole invariant is inductive.
LEMMA WakesNext == Calls /\ RingsInv /\ CountsInv /\ WakesInv /\ [Next \/ Over]_vars => WakesInv'
<1> SUFFICES ASSUME Calls, RingsInv, CountsInv, WakesInv, [Next \/ Over]_vars PROVE WakesInv'
  OBVIOUS
<1>1. CASE UNCHANGED vars
  <2>1. UNCHANGED <<stack, tail, closed, head, got, next>> /\ UNCHANGED counts
    BY <1>1 DEF vars, rings, history
  <2>2. BitsBeforeWakes'
    BY <2>1 DEF WakesInv, BitsBeforeWakes, ClosesYet
  <2>3. WaitingWorkers'
    <3>1. /\ \A t \in Threads : Doing(t)' = Doing(t) /\ key'[t] = key[t] /\ epoch'[t] = epoch[t]
          /\ \A c \in Owners : \A k \in Shares : Ahead(c, k)' = Ahead(c, k)
          /\ \A c \in Owners : \A r \in Rings : SeenEmpty(c, r)' <=> SeenEmpty(c, r)
          /\ \A e, r : SeenOpen(e, r)' <=> SeenOpen(e, r)
      <4>1. \A t \in Threads : Doing(t)' = Doing(t) /\ key'[t] = key[t] /\ epoch'[t] = epoch[t]
        BY <2>1 DEF Doing, counts
      <4>2. \A c \in Owners : \A k \in Shares : Ahead(c, k)' = Ahead(c, k)
        BY <2>1 DEF Ahead
      <4>3. \A c \in Owners : \A r \in Rings : SeenEmpty(c, r)' <=> SeenEmpty(c, r)
        BY <2>1 DEF SeenEmpty, Empty, Noticing, Doing
      <4>4. \A e, r : SeenOpen(e, r)' <=> SeenOpen(e, r)
        BY <2>1 DEF SeenOpen, ClosesYet
      <4> QED BY <4>1, <4>2, <4>3, <4>4
    <3> SUFFICES ASSUME NEW c \in Owners, NEW k \in Shares PROVE SeesOf(c, k, RingOf(c, k))'
      BY DEF WaitingWorkers, SeesOf
    <3>2. SeesOf(c, k, RingOf(c, k)) /\ Consumer(c) \in Threads /\ RingOf(c, k) \in Rings
      BY Sharing, Names DEF WakesInv, WaitingWorkers, SeesOf
    <3> QED BY <3>1, <3>2 DEF SeesOf
  <2>4. WaitingProducers'
    BY <2>1 DEF WakesInv, WaitingProducers, Doing, At, SeenOpen, Noticing, ClosesYet, counts
  <2>5. ReleasesTold'
    BY <2>1 DEF WakesInv, ReleasesTold, Doing
  <2>6. SleepersKnow'
    BY <2>1 DEF WakesInv, SleepersKnow, Waking, Doing, counts
  <2> QED BY <2>2, <2>3, <2>4, <2>5, <2>6 DEF WakesInv
<1>2. CASE Next
  BY <1>2, BitsNext, WorkersNext, ProducersNext, ReleasesNext, SleepersNext DEF WakesInv
<1> QED BY <1>1, <1>2 DEF Over

\* The invariant of the sharded queue holds in every state.
THEOREM ShardsInvariant == Spec => []ShardsInv
<1>1. Init => ShardsInv
  BY CallsInit, RingsInit, LooksInit, CountsInit, WakesInit DEF ShardsInv
<1>2. ShardsInv /\ [Next \/ Over]_vars => ShardsInv'
  BY RingsNext, LooksNext, CountsNext, WakesNext DEF ShardsInv
<1> QED BY <1>1, <1>2, PTL DEF Spec

\* At rest close has nobody left to wake: it has not begun or is over.
LEMMA ClosersRest ==
  ASSUME ShardsInv, AtRest, NEW e
  PROVE  ~ClosesYet(e)
<1>1. Closer \in Threads /\ Doing(Closer)[1] \in {"idle", "closed", "bit", "advance"}
  BY Names, CloserAt DEF ShardsInv
<1>2. stack[Closer] = <<Idle>> \/ (At(Closer, "closed") /\ Len(stack[Closer]) = 1)
  BY <1>1, CloserAt DEF ShardsInv, AtRest, At
<1>3. CASE stack[Closer] = <<Idle>>
  BY <1>3 DEF ClosesYet, Idle
<1>4. CASE At(Closer, "closed") /\ Len(stack[Closer]) = 1
  <2>1. stack[Closer] \in Seq(CloseFrames)
    <3>1. InClose(stack[Closer]) /\ stack[Closer] # <<Idle>>
      BY <1>4, CloserAt DEF ShardsInv, At
    <3> QED BY <3>1 DEF InClose
  <2>2. \A i \in DOMAIN stack[Closer] : stack[Closer][i] = Doing(Closer)
    BY <1>4, <2>1 DEF Doing
  <2>3. Doing(Closer)[1] # "advance"
    BY <1>4 DEF At
  <2> QED BY <2>2, <2>3 DEF ClosesYet
<1> QED BY <1>2, <1>3, <1>4

\* At rest a worker that sleeps has only empty open rings.
LEMMA WorkersRest ==
  ASSUME ShardsInv, AtRest, NEW c \in Owners, Consumer(c) \in sleepers[Consumer(c)], NEW k \in Shares,
         NEW r, r = RingOf(c, k)
  PROVE  tail[r] = head[r] /\ ~closed[r]
<1>0. PICK t \in Threads : t = Consumer(c) /\ t \in Sleepers /\ r \in Rings /\ Owner(r) = t
  BY Names, Sharing
<1>1. \A x \in Threads : Doing(x)[1] \in {"idle", "drained", "closed", "wait"} /\ Fenced(x)
  BY DEF AtRest, At
<1>2. ~Noticing(t) /\ ~Waking(t)
  BY <1>1 DEF Noticing, Waking
<1>3. ~ClosesYet(t)
  BY ClosersRest
<1>4. At(t, "wait") /\ key[t] = epoch[t]
  BY <1>0, <1>2 DEF ShardsInv, CountsInv, SleepersWait, WakesInv, SleepersKnow
<1>5. SeenEmpty(c, r) /\ SeenOpen(t, r)
  BY <1>0, <1>4 DEF ShardsInv, WakesInv, WaitingWorkers, At
<1>6. Empty(r) /\ ~closed[r]
  <2>1. Noticing(Consumer(c)) <=> Noticing(t)
    BY <1>0 DEF Noticing
  <2> QED BY <1>0, <1>2, <1>3, <1>5, <2>1 DEF SeenEmpty, SeenOpen
<1>7. head[r] = Len(got[r])
  BY <1>0, <1>1, OwnHeadIs DEF ShardsInv
<1> QED BY <1>6, <1>7 DEF Empty

\* At rest no producer sleeps at all: its worker would have to sleep too, and would
\* have passed the head of a batch on the way to an empty ring.
LEMMA ProducersRest ==
  ASSUME ShardsInv, AtRest, NEW r \in Rings, Producer(r) \in sleepers[Producer(r)]
  PROVE  FALSE
<1>0. PICK t \in Threads : t = Producer(r) /\ t \in Sleepers
  BY Names
<1>1. PICK c \in Owners, k \in Shares : r = RingOf(c, k)
  BY Sharing
<1>2. \A x \in Threads : Doing(x)[1] \in {"idle", "drained", "closed", "wait"} /\ Fenced(x)
  BY DEF AtRest, At
<1>3. ~Noticing(t) /\ ~Waking(t)
  BY <1>2 DEF Noticing, Waking
<1>4. At(t, "wait") /\ key[t] = epoch[t]
  BY <1>0, <1>3 DEF ShardsInv, CountsInv, SleepersWait, WakesInv, SleepersKnow
<1>5. /\ kRing <= tail[r] /\ SeenOpen(t, r)
      /\ \A q \in 0..(head[r] - 1) : tail[r] <= q + kRing => q % kFullWakeEvery # 0
  <2>1. Noticing(t) <=> Noticing(Producer(r))
    BY <1>0 DEF Noticing
  <2> QED BY <1>0, <1>3, <1>4, <2>1 DEF ShardsInv, WakesInv, WaitingProducers
<1>6. ~closed[r]
  <2>1. ~ClosesYet(t)
    BY ClosersRest
  <2> QED BY <1>5, <2>1 DEF SeenOpen
<1>7. tail[r] = head[r]
  <2>1. PICK w \in Threads : w = Consumer(c)
    BY Names
  <2>2. At(w, "drained") \/ At(w, "wait")
    <3>1. Doing(w)[1] \in {"drained", "wait", "cancel", "key", "announce", "scan", "any_closed", "drained?"} \cup Noticed
      BY <2>1, WorkerAt DEF ShardsInv
    <3> QED BY <1>2, <2>1, <3>1 DEF At, Noticed
  <2>3. ~At(w, "drained")
    BY <1>1, <1>6, <2>1 DEF ShardsInv, LooksInv, DrainedSoFar, Done
  <2>4. w \in sleepers[w]
    BY <2>2, <2>3 DEF AtRest, At
  <2> QED BY <1>1, <2>1, <2>4, WorkersRest
<1>8. PICK h \in Nat : h = tail[r] - kRing /\ tail[r] = h + kRing /\ head[r] = h + kRing
  <2>1. tail[r] \in Nat /\ kRing \in Nat
    BY Types, Sizes DEF ShardsInv
  <2> QED BY <1>5, <1>7, <2>1
<1>9. PICK q \in h..(h + kFullWakeEvery - 1) : q % kFullWakeEvery = 0
  <2>1. kFullWakeEvery \in Nat /\ kFullWakeEvery >= 1
    BY Sizes
  <2>2. 0 \in 0..(kFullWakeEvery - 1)
    BY <2>1
  <2> QED BY <2>1, <2>2, LapCover
<1>10. q \in 0..(head[r] - 1) /\ tail[r] <= q + kRing
  BY <1>8, <1>9, Sizes
<1> QED BY <1>5, <1>9, <1>10

\* Once everybody has returned or sleeps and every store is out, no worker sleeps with an
\* event in one of its rings or with one of them closed, and no producer sleeps at all:
\* push, pop and close miss nobody, although pop wakes a producer once per batch only.
THEOREM ShardsSleepThroughNothing == Spec => []NobodySleepsThrough
<1>1. ShardsInv => NobodySleepsThrough
  <2> SUFFICES ASSUME ShardsInv, AtRest
               PROVE  /\ \A r \in Rings : Producer(r) \notin sleepers[Producer(r)]
                      /\ \A c \in Owners : Consumer(c) \in sleepers[Consumer(c)] =>
                           \A k \in 0..(kOwned - 1) :
                             tail[RingOf(c, k)] = head[RingOf(c, k)] /\ ~closed[RingOf(c, k)]
    BY DEF NobodySleepsThrough
  <2>1. \A r \in Rings : Producer(r) \notin sleepers[Producer(r)]
    BY ProducersRest
  <2>2. \A c \in Owners : Consumer(c) \in sleepers[Consumer(c)] =>
          \A k \in Shares : tail[RingOf(c, k)] = head[RingOf(c, k)] /\ ~closed[RingOf(c, k)]
    BY WorkersRest
  <2> QED BY <2>1, <2>2 DEF Shares
<1> QED BY <1>1, ShardsInvariant, PTL
=============================================================================
