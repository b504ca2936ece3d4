-------------------------- MODULE MpmcQueueProofs --------------------------
(***************************************************************************)
(* MpmcQueue is safe, for every number of producers, consumers and slots:  *)
(* QueueInv is an invariant, and from it nobody sleeps through what it     *)
(* waits for.  The proof goes in layers, each with a theorem: where the    *)
(* threads are in their calls (QueueCalls), the ring (QueueRing), the books*)
(* of the event counts (QueueCounts), and the wakes (QueueWakes).  A layer *)
(* has one lemma per step of Next, and needs only the layers before it.    *)
(***************************************************************************)
EXTENDS MpmcQueueInvariant, Laps, SequenceTheorems, FiniteSetTheorems, TLAPS

(* ------------------------------ the stacks ------------------------------- *)
\* Then and Begin change the stack of one thread.
OthersStay(t) ==
  /\ \A u \in Waiters : u # t => stack'[u] = stack[u]
  /\ DOMAIN stack' = Waiters /\ stack' = [u \in Waiters |-> stack'[u]]

\* Then puts what is to do in the place of the first frame.
LEMMA ThenMoves ==
  ASSUME Calls, NEW t \in Waiters, NEW todo, Then(t, todo)
  PROVE  stack'[t] = todo \o Tail(stack[t]) /\ OthersStay(t)
  BY DEF Calls, StateTypes, Then, OthersStay

\* What Then leaves of a stack of one frame.
LEMMA ThenOnOne ==
  ASSUME Calls, NEW t \in Waiters, NEW a, stack[t] = <<a>>
  PROVE  /\ \A x : Then(t, <<x>>) => stack'[t] = <<x>>
         /\ \A x, y : Then(t, <<x, y>>) => stack'[t] = <<x, y>>
         /\ \A x, y, z : Then(t, <<x, y, z>>) => stack'[t] = <<x, y, z>>
<1>1. ASSUME NEW x, Then(t, <<x>>) PROVE stack'[t] = <<x>>
  BY <1>1 DEF Calls, StateTypes, Then
<1>2. ASSUME NEW x, NEW y, Then(t, <<x, y>>) PROVE stack'[t] = <<x, y>>
  BY <1>2 DEF Calls, StateTypes, Then
<1>3. ASSUME NEW x, NEW y, NEW z, Then(t, <<x, y, z>>) PROVE stack'[t] = <<x, y, z>>
  BY <1>3 DEF Calls, StateTypes, Then
<1> QED BY <1>1, <1>2, <1>3

\* What Then leaves of a stack of two frames.
LEMMA ThenOnTwo ==
  ASSUME Calls, NEW t \in Waiters, NEW a, NEW b, stack[t] = <<a, b>>
  PROVE  /\ Then(t, <<>>) => stack'[t] = <<b>>
         /\ \A x : Then(t, <<x>>) => stack'[t] = <<x, b>>
         /\ \A x, y : Then(t, <<x, y>>) => stack'[t] = <<x, y, b>>
         /\ \A x, y, z : Then(t, <<x, y, z>>) => stack'[t] = <<x, y, z, b>>
<1>1. ASSUME Then(t, <<>>) PROVE stack'[t] = <<b>>
  BY <1>1 DEF Calls, StateTypes, Then
<1>2. ASSUME NEW x, Then(t, <<x>>) PROVE stack'[t] = <<x, b>>
  <2>1. stack'[t] = <<x>> \o <<b>>
    BY <1>2 DEF Calls, StateTypes, Then
  <2> QED BY <2>1, Onto11
<1>3. ASSUME NEW x, NEW y, Then(t, <<x, y>>) PROVE stack'[t] = <<x, y, b>>
  <2>1. stack'[t] = <<x, y>> \o <<b>>
    BY <1>3 DEF Calls, StateTypes, Then
  <2> QED BY <2>1, Onto21
<1>4. ASSUME NEW x, NEW y, NEW z, Then(t, <<x, y, z>>) PROVE stack'[t] = <<x, y, z, b>>
  <2>1. stack'[t] = <<x, y, z>> \o <<b>>
    BY <1>4 DEF Calls, StateTypes, Then
  <2> QED BY <2>1, Onto31
<1> QED BY <1>1, <1>2, <1>3, <1>4

\* What Then leaves of a stack of three frames.
LEMMA ThenOnThree ==
  ASSUME Calls, NEW t \in Waiters, NEW a, NEW b, NEW c, stack[t] = <<a, b, c>>
  PROVE  /\ Then(t, <<>>) => stack'[t] = <<b, c>>
         /\ \A x : Then(t, <<x>>) => stack'[t] = <<x, b, c>>
<1>1. ASSUME Then(t, <<>>) PROVE stack'[t] = <<b, c>>
  BY <1>1 DEF Calls, StateTypes, Then
<1>2. ASSUME NEW x, Then(t, <<x>>) PROVE stack'[t] = <<x, b, c>>
  <2>1. stack'[t] = <<x>> \o <<b, c>>
    BY <1>2 DEF Calls, StateTypes, Then
  <2> QED BY <2>1, Onto12
<1> QED BY <1>1, <1>2

\* What Then leaves of a stack of four frames.
LEMMA ThenOnFour ==
  ASSUME Calls, NEW t \in Waiters, NEW a, NEW b, NEW c, NEW d, stack[t] = <<a, b, c, d>>
  PROVE  /\ Then(t, <<>>) => stack'[t] = <<b, c, d>>
         /\ \A x : Then(t, <<x>>) => stack'[t] = <<x, b, c, d>>
<1>1. ASSUME Then(t, <<>>) PROVE stack'[t] = <<b, c, d>>
  BY <1>1 DEF Calls, StateTypes, Then
<1>2. ASSUME NEW x, Then(t, <<x>>) PROVE stack'[t] = <<x, b, c, d>>
  <2>1. stack'[t] = <<x>> \o <<b, c, d>>
    BY <1>2 DEF Calls, StateTypes, Then
  <2> QED BY <2>1, Onto13
<1> QED BY <1>1, <1>2

\* Begin puts a frame on the stack.
LEMMA BeginMoves ==
  ASSUME Calls, NEW t \in Waiters, NEW label, Begin(t, label)
  PROVE  stack'[t] = << <<label>> >> \o stack[t] /\ OthersStay(t)
  BY DEF Calls, StateTypes, Begin, OthersStay

\* A notification begins with a step of that notification.
LEMMA NotifyIsNotice ==
  ASSUME NEW e \in Counts, NEW how \in {"one", "waiting", "all"}
  PROVE  IsNotice(Notify(e, how), e, how)
  BY DEF IsNotice, Notify

\* A thread has one role.
LEMMA Roles ==
  /\ Producers \subseteq Waiters /\ Consumers \subseteq Waiters /\ Closer \in Waiters
  /\ \A p \in Producers : p \notin Consumers /\ p # Closer /\ SleepsOn(p) = "not_full"
  /\ \A c \in Consumers : c \notin Producers /\ c # Closer /\ SleepsOn(c) = "not_empty"
  /\ SleepsOn(Closer) = "not_full"
  /\ \A t \in Waiters : t \in Producers \/ t \in Consumers \/ t = Closer
  /\ \A t \in Waiters : SleepsOn(t) \in Counts
  /\ "not_empty" \in Counts /\ "not_full" \in Counts
  BY RolesAssumption DEF SleepsOn

\* Where the threads of each role may be.
LEMMA CallsOf ==
  ASSUME Calls
  PROVE  /\ Reserve \in {"cas", "ticket"}
         /\ \A p \in Producers : Reserve = "cas" => InPush(stack[p])
         /\ \A p \in Producers : Reserve = "ticket" => InTicketPush(stack[p])
         /\ \A c \in Consumers : InPop(stack[c])
         /\ InClose(stack[Closer])
         /\ Outline \subseteq {"not_empty"} /\ "not_full" \notin Outline
  BY DEF Calls, StateTypes, InCalls

Noticed == {"look", "claim", "advance", "wake"}

\* Where a label puts a thread.
LEMMA PushPlaces ==
  ASSUME NEW s, InPush(s), NEW f, f = Head(s)
  PROVE  /\ f[1] = "idle" => s = <<Idle>>
         /\ f[1] = "push" => s = << <<"push">>, Idle>>
         /\ f[1] = "recheck" => s = << <<"recheck">>, Idle>>
         /\ f[1] = "chain" => s = << <<"chain">>, Idle>>
         /\ f[1] = "key" => s = << <<"key">>, <<"recheck">>, Idle>>
         /\ f[1] = "announce" => s = << <<"announce">>, <<"recheck">>, Idle>>
         /\ f[1] = "wait" => s = << <<"wait">>, <<"push">>, Idle>>
         /\ f[1] = "cancel" => s \in {<< <<"cancel">>, Idle>>, << <<"cancel">>, <<"chain">>, Idle>>}
         /\ f[1] \in Noticed =>
              \/ /\ Publishing(f)
                 /\ s \in {<<f, Idle>>, <<f, <<"cancel">>, Idle>>, <<f, <<"chain">>, Idle>>,
                           <<f, <<"cancel">>, <<"chain">>, Idle>>}
              \/ IsNotice(f, "not_full", "one") /\ s = <<f, Idle>>
         /\ f[1] \in {"idle", "push", "recheck", "chain", "key", "announce", "wait", "cancel"} \cup Noticed
  BY DEF InPush, IsNotice, Publishing, Idle, Noticed

\* Where a label puts a producer that pushes with tickets.
LEMMA TicketPlaces ==
  ASSUME NEW s, InTicketPush(s), NEW f, f = Head(s)
  PROVE  /\ f[1] = "idle" => s = <<Idle>>
         /\ f[1] = "precheck" => s = << <<"precheck">>, Idle>>
         /\ f[1] = "ticket" => s = << <<"ticket">>, Idle>>
         /\ f[1] = "turn" => s = << <<"turn">>, Idle>>
         /\ f[1] = "recheck" => s = << <<"recheck">>, Idle>>
         /\ f[1] = "key" => s = << <<"key">>, <<"recheck">>, Idle>>
         /\ f[1] = "announce" => s = << <<"announce">>, <<"recheck">>, Idle>>
         /\ f[1] = "wait" => s = << <<"wait">>, <<"turn">>, Idle>>
         /\ f[1] = "cancel" => s = << <<"cancel">>, <<"turn">>, Idle>>
         /\ f[1] \in Noticed => Publishing(f) /\ s = <<f, Idle>>
         /\ f[1] \in {"idle", "precheck", "ticket", "turn", "recheck", "key", "announce", "wait", "cancel"} \cup Noticed
  BY DEF InTicketPush, IsNotice, Publishing, Idle, Noticed

\* Where a label puts a worker.
LEMMA PopPlaces ==
  ASSUME NEW s, InPop(s), NEW f, f = Head(s)
  PROVE  /\ f[1] = "try" => s = << <<"try">> >>
         /\ f[1] = "recheck" => s = << <<"recheck">> >>
         /\ f[1] = "left" => s = << <<"left">> >>
         /\ f[1] = "drained" => s = << <<"drained">> >>
         /\ f[1] = "chain" => s = << <<"chain">>, <<"try">> >>
         /\ f[1] = "key" => s = << <<"key">>, <<"recheck">> >>
         /\ f[1] = "announce" => /\ s = << <<"announce">>, <<"recheck">> >>
                                 /\ "not_empty" \notin Outline
         /\ f[1] = "wait" => s = << <<"wait">>, <<"left">> >>
         /\ f[1] = "cancel" => s = << <<"cancel">>, <<"try">> >>
         /\ f[1] \in Noticed =>
              \/ /\ Releasing(f)
                 /\ s \in {<<f, <<"try">> >>, <<f, <<"recheck">> >>, <<f, <<"left">> >>,
                           <<f, <<"cancel">>, <<"try">> >>, <<f, <<"chain">>, <<"try">> >>}
              \/ Publishing(f) /\ s = <<f, <<"try">> >>
         /\ f[1] \in {"try", "recheck", "left", "drained", "chain", "key", "announce", "wait", "cancel"} \cup Noticed
  BY DEF InPop, IsNotice, Publishing, Releasing, Noticed

\* Where a label puts the closer.
LEMMA ClosePlaces ==
  ASSUME NEW s, InClose(s), NEW f, f = Head(s)
  PROVE  /\ f[1] = "idle" => s = <<Idle>>
         /\ f[1] = "closed" => s = << <<"closed">> >>
         /\ f[1] \in Noticed =>
              \/ /\ f = <<"advance", "not_empty", "all">>
                 /\ s = <<f, <<"advance", "not_full", "all">>, <<"closed">> >>
              \/ /\ f = <<"advance", "not_full", "all">>
                 /\ s = <<f, <<"closed">> >>
         /\ f[1] \in {"idle", "closed"} \cup Noticed
  BY DEF InClose, Idle, Noticed

\* Where a label puts a thread that has it.
LEMMA ProducerAt ==
  ASSUME Calls, NEW p \in Producers
  PROVE  /\ At(p, "idle") => stack[p] = <<Idle>>
         /\ At(p, "push") => Reserve = "cas" /\ stack[p] = << <<"push">>, Idle>>
         /\ At(p, "recheck") => stack[p] = << <<"recheck">>, Idle>>
         /\ At(p, "chain") => Reserve = "cas" /\ stack[p] = << <<"chain">>, Idle>>
         /\ At(p, "key") => stack[p] = << <<"key">>, <<"recheck">>, Idle>>
         /\ At(p, "announce") => stack[p] = << <<"announce">>, <<"recheck">>, Idle>>
         /\ At(p, "wait") => IF Reserve = "cas" THEN stack[p] = << <<"wait">>, <<"push">>, Idle>>
                             ELSE stack[p] = << <<"wait">>, <<"turn">>, Idle>>
         /\ At(p, "cancel") =>
              IF Reserve = "cas"
              THEN \/ stack[p] = << <<"cancel">>, Idle>>
                   \/ stack[p] = << <<"cancel">>, <<"chain">>, Idle>>
              ELSE stack[p] = << <<"cancel">>, <<"turn">>, Idle>>
         /\ At(p, "precheck") => Reserve = "ticket" /\ stack[p] = << <<"precheck">>, Idle>>
         /\ At(p, "ticket") => Reserve = "ticket" /\ stack[p] = << <<"ticket">>, Idle>>
         /\ At(p, "turn") => Reserve = "ticket" /\ stack[p] = << <<"turn">>, Idle>>
<1>1. CASE Reserve = "cas"
  <2>1. InPush(stack[p])
    BY <1>1, CallsOf
  <2> QED BY <1>1, <2>1, PushPlaces DEF At, Doing, Noticed
<1>2. CASE Reserve = "ticket"
  <2>1. InTicketPush(stack[p])
    BY <1>2, CallsOf
  <2> QED BY <1>2, <2>1, TicketPlaces DEF At, Doing, Noticed
<1> QED BY <1>1, <1>2, CallsOf

\* Where a worker is, by what it does next.
LEMMA ConsumerAt ==
  ASSUME Calls, NEW c \in Consumers
  PROVE  /\ At(c, "try") => stack[c] = << <<"try">> >>
         /\ At(c, "recheck") => stack[c] = << <<"recheck">> >>
         /\ At(c, "left") => stack[c] = << <<"left">> >>
         /\ At(c, "drained") => stack[c] = << <<"drained">> >>
         /\ At(c, "chain") => stack[c] = << <<"chain">>, <<"try">> >>
         /\ At(c, "key") => stack[c] = << <<"key">>, <<"recheck">> >>
         /\ At(c, "announce") => /\ stack[c] = << <<"announce">>, <<"recheck">> >>
                                 /\ "not_empty" \notin Outline
         /\ At(c, "wait") => stack[c] = << <<"wait">>, <<"left">> >>
         /\ At(c, "cancel") => stack[c] = << <<"cancel">>, <<"try">> >>
<1>1. InPop(stack[c])
  BY CallsOf
<1> QED BY <1>1, PopPlaces DEF At, Doing

(* ------------------------- what each step does --------------------------- *)
Goes(t, from, to) == stack[t] = from /\ stack'[t] = to

\* A push begins at the top of its loop, or with the look at the closed bit.
LEMMA BeginPushMoves ==
  ASSUME Calls, NEW p \in Producers, BeginPush(p)
  PROVE  /\ OthersStay(p)
         /\ \/ Reserve = "cas" /\ Goes(p, <<Idle>>, << <<"push">>, Idle>>)
            \/ Reserve = "ticket" /\ Goes(p, <<Idle>>, << <<"precheck">>, Idle>>)
<1> DEFINE label == IF Reserve = "cas" THEN "push" ELSE "precheck"
<1>1. p \in Waiters /\ stack[p] = <<Idle>>
  BY Roles, ProducerAt DEF BeginPush
<1>2. Begin(p, label)
  BY DEF BeginPush
<1> HIDE DEF label
<1>3. OthersStay(p) /\ stack'[p] = << <<label>> >> \o <<Idle>>
  BY <1>1, <1>2, BeginMoves
<1>4. stack'[p] = << <<label>>, Idle>>
  BY <1>3, Onto11
<1> QED BY <1>1, <1>3, <1>4, CallsOf DEF Goes, label

\* try_push is called at the top of the loop or in the re-check.
LEMMA TryingPlaces ==
  ASSUME Calls, NEW p \in Producers, Trying(p)
  PROVE  /\ Reserve = "cas" /\ p \in Waiters
         /\ \/ At(p, "push") /\ ~At(p, "recheck") /\ stack[p] = << <<"push">>, Idle>>
            \/ At(p, "recheck") /\ ~At(p, "push") /\ stack[p] = << <<"recheck">>, Idle>>
<1>1. At(p, "push") => ~At(p, "recheck")
  BY DEF At
<1> QED BY <1>1, Roles, ProducerAt DEF Trying

\* A push that finds the queue closed returns, from the re-check through cancel_wait.
LEMMA PushClosedMoves ==
  ASSUME Calls, NEW p \in Producers, PushClosed(p)
  PROVE  /\ OthersStay(p) /\ Reserve = "cas"
         /\ \/ Goes(p, << <<"push">>, Idle>>, <<Idle>>)
            \/ Goes(p, << <<"recheck">>, Idle>>, << <<"cancel">>, Idle>>)
<1>1. Trying(p) /\ Then(p, Withdraw(p)) /\ OthersStay(p)
  BY Roles, ThenMoves DEF PushClosed
<1>2. CASE At(p, "push") /\ ~At(p, "recheck") /\ stack[p] = << <<"push">>, Idle>>
  <2>1. Then(p, <<>>)
    BY <1>1, <1>2 DEF Withdraw
  <2> QED BY <1>1, <1>2, <2>1, TryingPlaces, ThenOnTwo DEF Goes
<1>3. CASE At(p, "recheck") /\ stack[p] = << <<"recheck">>, Idle>>
  <2>1. Then(p, << <<"cancel">> >>)
    BY <1>1, <1>3 DEF Withdraw
  <2> QED BY <1>1, <1>3, <2>1, TryingPlaces, ThenOnTwo DEF Goes
<1> QED BY <1>1, <1>2, <1>3, TryingPlaces

\* A push that succeeds notifies, and withdraws or passes the wake on if it has to.
LEMMA PushOkMoves ==
  ASSUME Calls, NEW p \in Producers, PushOk(p)
  PROVE  LET f == Notify("not_empty", "one") IN
         /\ OthersStay(p) /\ Reserve = "cas"
         /\ \/ ~parked[p] /\ Goes(p, << <<"push">>, Idle>>, <<f, Idle>>)
            \/ parked[p] /\ Goes(p, << <<"push">>, Idle>>, <<f, <<"chain">>, Idle>>)
            \/ ~parked[p] /\ Goes(p, << <<"recheck">>, Idle>>, <<f, <<"cancel">>, Idle>>)
            \/ parked[p] /\ Goes(p, << <<"recheck">>, Idle>>, <<f, <<"cancel">>, <<"chain">>, Idle>>)
<1> DEFINE f == Notify("not_empty", "one")
<1> HIDE DEF f
<1>1. /\ Trying(p) /\ OthersStay(p)
      /\ Then(p, <<f>> \o Withdraw(p) \o (IF parked[p] THEN << <<"chain">> >> ELSE <<>>))
  BY Roles, ThenMoves DEF PushOk, f
<1>2. CASE At(p, "push") /\ ~At(p, "recheck") /\ stack[p] = << <<"push">>, Idle>>
  <2>1. <<f>> \o Withdraw(p) = <<f>>
    BY <1>2 DEF Withdraw
  <2>2. CASE parked[p]
    <3>1. Then(p, <<f>> \o << <<"chain">> >>)
      BY <1>1, <2>1, <2>2
    <3>2. Then(p, <<f, <<"chain">> >>)
      BY <3>1, Onto11
    <3> QED BY <1>1, <1>2, <2>2, <3>2, TryingPlaces, ThenOnTwo DEF Goes, f
  <2>3. CASE ~parked[p]
    <3>1. Then(p, <<f>> \o <<>>)
      BY <1>1, <2>1, <2>3
    <3>2. Then(p, <<f>>)
      BY <3>1
    <3> QED BY <1>1, <1>2, <2>3, <3>2, TryingPlaces, ThenOnTwo DEF Goes, f
  <2> QED BY <2>2, <2>3
<1>3. CASE At(p, "recheck") /\ stack[p] = << <<"recheck">>, Idle>>
  <2>1. <<f>> \o Withdraw(p) = <<f, <<"cancel">> >>
    BY <1>3, Onto11 DEF Withdraw
  <2>2. CASE parked[p]
    <3>1. Then(p, <<f, <<"cancel">> >> \o << <<"chain">> >>)
      BY <1>1, <2>1, <2>2
    <3>2. Then(p, <<f, <<"cancel">>, <<"chain">> >>)
      BY <3>1, Onto21
    <3> QED BY <1>1, <1>3, <2>2, <3>2, TryingPlaces, ThenOnTwo DEF Goes, f
  <2>3. CASE ~parked[p]
    <3>1. Then(p, <<f, <<"cancel">> >> \o <<>>)
      BY <1>1, <2>1, <2>3
    <3>2. Then(p, <<f, <<"cancel">> >>)
      BY <3>1
    <3> QED BY <1>1, <1>3, <2>3, <3>2, TryingPlaces, ThenOnTwo DEF Goes, f
  <2> QED BY <2>2, <2>3
<1> QED BY <1>1, <1>2, <1>3, TryingPlaces

\* A push that finds the ring full prepares to sleep, sleeps or gives up.
LEMMA PushFullMoves ==
  ASSUME Calls, NEW p \in Producers, PushFull(p)
  PROVE  /\ OthersStay(p) /\ Reserve = "cas"
         /\ \/ /\ Goes(p, << <<"push">>, Idle>>, << <<"key">>, <<"recheck">>, Idle>>)
               /\ parked' = parked
            \/ /\ Goes(p, << <<"recheck">>, Idle>>, << <<"wait">>, <<"push">>, Idle>>)
               /\ parked' = [parked EXCEPT ![p] = TRUE]
            \/ /\ Goes(p, << <<"recheck">>, Idle>>, << <<"cancel">>, Idle>>)
               /\ parked' = parked
<1>1. Trying(p) /\ p \in Waiters
  BY Roles DEF PushFull
<1>2. CASE At(p, "push") /\ Then(p, << <<"key">>, <<"recheck">> >>) /\ parked' = parked
  BY <1>1, <1>2, ThenMoves, ProducerAt, ThenOnTwo DEF Goes
<1>3. CASE /\ At(p, "recheck") /\ Then(p, << <<"wait">>, <<"push">> >>)
           /\ parked' = [parked EXCEPT ![p] = TRUE]
  BY <1>1, <1>3, ThenMoves, TryingPlaces, ProducerAt, ThenOnTwo DEF Goes
<1>4. CASE At(p, "recheck") /\ Then(p, Withdraw(p)) /\ parked' = parked
  <2>1. Then(p, << <<"cancel">> >>)
    BY <1>4 DEF Withdraw
  <2> QED BY <1>1, <1>4, <2>1, ThenMoves, TryingPlaces, ProducerAt, ThenOnTwo DEF Goes
<1> QED BY <1>2, <1>3, <1>4 DEF PushFull

\* A producer that was woken wakes the next one if there is still room.
LEMMA ChainFullWakeMoves ==
  ASSUME Calls, NEW p \in Producers, ChainFullWake(p)
  PROVE  /\ OthersStay(p) /\ Reserve = "cas"
         /\ \/ ~Room(p) /\ Goes(p, << <<"chain">>, Idle>>, <<Idle>>)
            \/ /\ Room(p)
               /\ Goes(p, << <<"chain">>, Idle>>, <<Notify("not_full", "one"), Idle>>)
<1>1. /\ p \in Waiters /\ OthersStay(p) /\ At(p, "chain")
      /\ Reserve = "cas" /\ stack[p] = << <<"chain">>, Idle>>
  BY Roles, ThenMoves, ProducerAt DEF ChainFullWake
<1>2. /\ Room(p) => Then(p, <<Notify("not_full", "one")>>)
      /\ ~Room(p) => Then(p, <<>>)
  BY DEF ChainFullWake
<1> QED BY <1>1, <1>2, ThenOnTwo DEF Goes

\* A ticket push returns on a closed queue before it takes its ticket.
LEMMA PrecheckClosedMoves ==
  ASSUME Calls, NEW p \in Producers, PrecheckClosed(p)
  PROVE  /\ OthersStay(p) /\ Reserve = "ticket"
         /\ \/ Goes(p, << <<"precheck">>, Idle>>, <<Idle>>)
            \/ Goes(p, << <<"precheck">>, Idle>>, << <<"ticket">>, Idle>>)
<1>1. /\ p \in Waiters /\ OthersStay(p)
      /\ Reserve = "ticket" /\ stack[p] = << <<"precheck">>, Idle>>
  BY Roles, ThenMoves, ProducerAt DEF PrecheckClosed
<1>2. Then(p, << <<"ticket">> >>) \/ Then(p, <<>>)
  BY DEF PrecheckClosed
<1> QED BY <1>1, <1>2, ThenOnTwo DEF Goes

\* A producer with a ticket waits for its turn.
LEMMA TakeTicketMoves ==
  ASSUME Calls, NEW p \in Producers, TakeTicket(p)
  PROVE  /\ OthersStay(p) /\ Reserve = "ticket"
         /\ Goes(p, << <<"ticket">>, Idle>>, << <<"turn">>, Idle>>)
  BY Roles, ThenMoves, ProducerAt, ThenOnTwo DEF TakeTicket, Goes

\* A ticket holder looks, prepares to sleep, and sleeps unless its turn has come.
LEMMA AwaitTurnMoves ==
  ASSUME Calls, NEW p \in Producers, AwaitTurn(p)
  PROVE  /\ OthersStay(p) /\ Reserve = "ticket"
         /\ \/ ~MyTurn(p) /\ Goes(p, << <<"turn">>, Idle>>, << <<"key">>, <<"recheck">>, Idle>>)
            \/ MyTurn(p) /\ Goes(p, << <<"recheck">>, Idle>>, << <<"cancel">>, <<"turn">>, Idle>>)
            \/ ~MyTurn(p) /\ Goes(p, << <<"recheck">>, Idle>>, << <<"wait">>, <<"turn">>, Idle>>)
<1>1. CASE At(p, "turn") /\ ~MyTurn(p) /\ Then(p, << <<"key">>, <<"recheck">> >>)
  BY <1>1, Roles, ThenMoves, ProducerAt, ThenOnTwo DEF Goes
<1>2. CASE /\ At(p, "recheck") /\ Reserve = "ticket"
           /\ Then(p, IF MyTurn(p) THEN << <<"cancel">>, <<"turn">> >>
                      ELSE << <<"wait">>, <<"turn">> >>)
  <2>1. /\ MyTurn(p) => Then(p, << <<"cancel">>, <<"turn">> >>)
        /\ ~MyTurn(p) => Then(p, << <<"wait">>, <<"turn">> >>)
    BY <1>2
  <2> QED BY <1>2, <2>1, Roles, ThenMoves, ProducerAt, ThenOnTwo DEF Goes
<1> QED BY <1>1, <1>2 DEF AwaitTurn

\* A ticket holder whose turn has come publishes and returns.
LEMMA PayTicketMoves ==
  ASSUME Calls, NEW p \in Producers, PayTicket(p)
  PROVE  /\ OthersStay(p) /\ Reserve = "ticket"
         /\ \/ late[p] /\ Goes(p, << <<"turn">>, Idle>>, <<Idle>>)
            \/ ~late[p] /\ Goes(p, << <<"turn">>, Idle>>, <<Notify("not_empty", "one"), Idle>>)
<1>1. /\ p \in Waiters /\ OthersStay(p)
      /\ Reserve = "ticket" /\ stack[p] = << <<"turn">>, Idle>>
  BY Roles, ThenMoves, ProducerAt DEF PayTicket
<1>2. /\ late[p] => Then(p, <<>>)
      /\ ~late[p] => Then(p, <<Notify("not_empty", "one")>>)
  BY DEF PayTicket
<1> QED BY <1>1, <1>2, ThenOnTwo DEF Goes

\* A pop that succeeds frees room once per batch, and goes on as its place demands.
LEMMA PopOkMoves ==
  ASSUME Calls, NEW c \in Consumers, PopOk(c)
  PROVE  LET f == Notify("not_full", IF Reserve = "ticket" THEN "waiting" ELSE "one") IN
         /\ OthersStay(c)
         /\ \/ /\ head % FullWakeEvery = 0
               /\ \/ Goes(c, << <<"try">> >>, <<f, <<"try">> >>)
                  \/ Load(c, head).dead /\ Goes(c, << <<"recheck">> >>, <<f, <<"recheck">> >>)
                  \/ Load(c, head).dead /\ Goes(c, << <<"left">> >>, <<f, <<"left">> >>)
                  \/ Goes(c, << <<"recheck">> >>, <<f, <<"cancel">>, <<"try">> >>)
                  \/ Goes(c, << <<"left">> >>, <<f, <<"chain">>, <<"try">> >>)
            \/ /\ head % FullWakeEvery # 0
               /\ \/ Goes(c, << <<"try">> >>, << <<"try">> >>)
                  \/ Load(c, head).dead /\ Goes(c, << <<"recheck">> >>, << <<"recheck">> >>)
                  \/ Load(c, head).dead /\ Goes(c, << <<"left">> >>, << <<"left">> >>)
                  \/ Goes(c, << <<"recheck">> >>, << <<"cancel">>, <<"try">> >>)
                  \/ Goes(c, << <<"left">> >>, << <<"chain">>, <<"try">> >>)
<1> DEFINE f == Notify("not_full", IF Reserve = "ticket" THEN "waiting" ELSE "one")
           on == IF Load(c, head).dead \/ At(c, "try") THEN <<Doing(c)>>
                 ELSE IF At(c, "recheck") THEN << <<"cancel">>, <<"try">> >>
                 ELSE << <<"chain">>, <<"try">> >>
           Stack == stack'[c]
<1>1. c \in Waiters /\ OthersStay(c) /\ Then(c, FreesRoom(head) \o on)
  BY Roles, ThenMoves DEF PopOk
<1>2. \/ stack[c] = << <<"try">> >> /\ on = << <<"try">> >>
      \/ /\ stack[c] = << <<"recheck">> >>
         /\ \/ Load(c, head).dead /\ on = << <<"recheck">> >>
            \/ on = << <<"cancel">>, <<"try">> >>
      \/ /\ stack[c] = << <<"left">> >>
         /\ \/ Load(c, head).dead /\ on = << <<"left">> >>
            \/ on = << <<"chain">>, <<"try">> >>
  <2>1. At(c, "try") \/ At(c, "recheck") \/ At(c, "left")
    BY DEF PopOk, At
  <2>2. CASE At(c, "try")
    BY <2>2, ConsumerAt DEF Doing
  <2>3. CASE At(c, "recheck")
    <3>1. stack[c] = << <<"recheck">> >> /\ Doing(c) = <<"recheck">> /\ ~At(c, "try")
      BY <2>3, ConsumerAt DEF Doing, At
    <3> QED BY <2>3, <3>1
  <2>4. CASE At(c, "left")
    <3>1. /\ stack[c] = << <<"left">> >> /\ Doing(c) = <<"left">>
          /\ ~At(c, "try") /\ ~At(c, "recheck")
      BY <2>4, ConsumerAt DEF Doing, At
    <3> QED BY <2>4, <3>1
  <2> QED BY <2>1, <2>2, <2>3, <2>4
<1> HIDE DEF on
<1>3. CASE head % FullWakeEvery = 0
  <2> HIDE DEF f
  <2>1. FreesRoom(head) = <<f>>
    BY <1>3 DEF FreesRoom, f
  <2>2. Then(c, <<f>> \o on)
    BY <1>1, <2>1
  <2>3. /\ \A x : on = <<x>> => Then(c, <<f, x>>)
        /\ \A x, y : on = <<x, y>> => Then(c, <<f, x, y>>)
    <3>1. ASSUME NEW x, on = <<x>> PROVE Then(c, <<f, x>>)
      BY <2>2, <3>1, Onto11
    <3>2. ASSUME NEW x, NEW y, on = <<x, y>> PROVE Then(c, <<f, x, y>>)
      BY <2>2, <3>2, Onto12
    <3> QED BY <3>1, <3>2
  <2>4. \E a : stack[c] = <<a>>
    BY <1>2
  <2>5. /\ \A x : on = <<x>> => Stack = <<f, x>>
        /\ \A x, y : on = <<x, y>> => Stack = <<f, x, y>>
    <3>1. PICK a : stack[c] = <<a>>
      BY <2>4
    <3>2. /\ \A x, y : Then(c, <<x, y>>) => Stack = <<x, y>>
          /\ \A x, y, z : Then(c, <<x, y, z>>) => Stack = <<x, y, z>>
      BY <1>1, <3>1, ThenOnOne
    <3> QED BY <2>3, <3>2
  <2> HIDE DEF Stack
  <2>6. \/ stack[c] = << <<"try">> >> /\ Stack = <<f, <<"try">> >>
        \/ /\ stack[c] = << <<"recheck">> >>
           /\ \/ Load(c, head).dead /\ Stack = <<f, <<"recheck">> >>
              \/ Stack = <<f, <<"cancel">>, <<"try">> >>
        \/ /\ stack[c] = << <<"left">> >>
           /\ \/ Load(c, head).dead /\ Stack = <<f, <<"left">> >>
              \/ Stack = <<f, <<"chain">>, <<"try">> >>
    BY <1>2, <2>5
  <2> QED BY <1>1, <1>3, <2>6 DEF Goes, f, Stack
<1>4. CASE head % FullWakeEvery # 0
  <2>1. FreesRoom(head) = <<>>
    BY <1>4 DEF FreesRoom
  <2>2. Then(c, <<>> \o on)
    BY <1>1, <2>1
  <2>3. /\ \A x : on = <<x>> => Then(c, <<x>>)
        /\ \A x, y : on = <<x, y>> => Then(c, <<x, y>>)
    BY <2>2
  <2>4. \/ stack[c] = << <<"try">> >> /\ Stack = << <<"try">> >>
        \/ /\ stack[c] = << <<"recheck">> >>
           /\ \/ Load(c, head).dead /\ Stack = << <<"recheck">> >>
              \/ Stack = << <<"cancel">>, <<"try">> >>
        \/ /\ stack[c] = << <<"left">> >>
           /\ \/ Load(c, head).dead /\ Stack = << <<"left">> >>
              \/ Stack = << <<"chain">>, <<"try">> >>
    BY <1>1, <1>2, <2>3, ThenOnOne
  <2> QED BY <1>1, <1>4, <2>4 DEF Goes
<1> QED BY <1>3, <1>4

\* A pop that finds nothing is told drained, tries again or prepares to sleep.
LEMMA PopEmptyMoves ==
  ASSUME Calls, NEW c \in Consumers, PopEmpty(c)
  PROVE  /\ OthersStay(c)
         /\ \/ closed /\ Goes(c, << <<"try">> >>, << <<"drained">> >>)
            \/ closed /\ Goes(c, << <<"try">> >>, << <<"try">> >>)
            \/ ~closed /\ Goes(c, << <<"try">> >>, << <<"key">>, <<"recheck">> >>)
<1>1. c \in Waiters /\ stack[c] = << <<"try">> >>
  BY Roles, ConsumerAt DEF PopEmpty
<1>2. CASE closed /\ Then(c, << <<"drained">> >>)
  BY <1>1, <1>2, ThenMoves, ThenOnOne DEF Goes
<1>3. CASE closed /\ stack' = stack
  BY <1>1, <1>3 DEF Goes, OthersStay, Calls, StateTypes
<1>4. CASE ~closed /\ Then(c, << <<"key">>, <<"recheck">> >>)
  BY <1>1, <1>4, ThenMoves, ThenOnOne DEF Goes
<1> QED BY <1>2, <1>3, <1>4 DEF PopEmpty

\* In the re-check a worker sleeps only while the queue is open.
LEMMA PopSleepMoves ==
  ASSUME Calls, NEW c \in Consumers, PopSleep(c)
  PROVE  /\ OthersStay(c)
         /\ \/ Goes(c, << <<"recheck">> >>, << <<"cancel">>, <<"try">> >>)
            \/ ~closed /\ Goes(c, << <<"recheck">> >>, << <<"wait">>, <<"left">> >>)
<1>1. c \in Waiters /\ stack[c] = << <<"recheck">> >>
  BY Roles, ConsumerAt DEF PopSleep
<1>2. CASE Then(c, << <<"cancel">>, <<"try">> >>)
  BY <1>1, <1>2, ThenMoves, ThenOnOne DEF Goes
<1>3. CASE ~closed /\ Then(c, << <<"wait">>, <<"left">> >>)
  BY <1>1, <1>3, ThenMoves, ThenOnOne DEF Goes
<1> QED BY <1>2, <1>3 DEF PopSleep

\* A worker that finds nothing after a wait starts from the top.
LEMMA PopAgainMoves ==
  ASSUME Calls, NEW c \in Consumers, PopAgain(c)
  PROVE  OthersStay(c) /\ Goes(c, << <<"left">> >>, << <<"try">> >>)
<1>1. c \in Waiters /\ stack[c] = << <<"left">> >> /\ Then(c, << <<"try">> >>)
  BY Roles, ConsumerAt DEF PopAgain
<1> QED BY <1>1, ThenMoves, ThenOnOne DEF Goes

\* A worker that was woken wakes the next one if there is more.
LEMMA ChainBurstMoves ==
  ASSUME Calls, NEW c \in Consumers, ChainBurst(c)
  PROVE  /\ OthersStay(c)
         /\ \/ ~Ready(c) /\ Goes(c, << <<"chain">>, <<"try">> >>, << <<"try">> >>)
            \/ /\ Ready(c)
               /\ Goes(c, << <<"chain">>, <<"try">> >>, <<Notify("not_empty", "one"), <<"try">> >>)
<1>1. c \in Waiters /\ OthersStay(c) /\ stack[c] = << <<"chain">>, <<"try">> >>
  BY Roles, ThenMoves, ConsumerAt DEF ChainBurst
<1>2. /\ Ready(c) => Then(c, <<Notify("not_empty", "one")>>)
      /\ ~Ready(c) => Then(c, <<>>)
  BY DEF ChainBurst
<1> QED BY <1>1, <1>2, ThenOnTwo DEF Goes

\* close wakes the sleepers of both counts, one after the other.
LEMMA CloseMoves ==
  ASSUME Calls, Close
  PROVE  /\ OthersStay(Closer)
         /\ Goes(Closer, <<Idle>>, << <<"advance", "not_empty", "all">>,
                                     <<"advance", "not_full", "all">>, <<"closed">> >>)
<1>1. /\ Closer \in Waiters /\ stack[Closer] = <<Idle>>
      /\ Then(Closer, << <<"advance", "not_empty", "all">>,
                         <<"advance", "not_full", "all">>, <<"closed">> >>)
  BY Roles, CallsOf, ClosePlaces DEF Close, At, Doing, Notify
<1> QED BY <1>1, ThenMoves, ThenOnOne DEF Goes

\* A thread in wait, in cancel or in prepare_wait.
LEMMA WaitPlaces ==
  ASSUME Calls, NEW t \in Waiters, Doing(t)[1] \in {"key", "announce", "cancel", "wait"}
  PROVE  t # Closer /\ (t \in Producers \/ t \in Consumers)
<1>1. t # Closer
  BY CallsOf, ClosePlaces DEF Doing, Noticed
<1> QED BY <1>1, Roles

\* After the key a waiter announces itself, which an outline count does without.
LEMMA KeyMoves ==
  ASSUME Calls, NEW t \in Waiters, At(t, "key"),
         Then(t, IF SleepsOn(t) \in Outline THEN <<>> ELSE << <<"announce">> >>)
  PROVE  /\ OthersStay(t)
         /\ t \in Producers =>
              Goes(t, << <<"key">>, <<"recheck">>, Idle>>, << <<"announce">>, <<"recheck">>, Idle>>)
         /\ t \in Consumers /\ "not_empty" \in Outline =>
              Goes(t, << <<"key">>, <<"recheck">> >>, << <<"recheck">> >>)
         /\ t \in Consumers /\ "not_empty" \notin Outline =>
              Goes(t, << <<"key">>, <<"recheck">> >>, << <<"announce">>, <<"recheck">> >>)
<1>1. OthersStay(t)
  BY ThenMoves
<1>2. ASSUME t \in Producers
      PROVE  Goes(t, << <<"key">>, <<"recheck">>, Idle>>, << <<"announce">>, <<"recheck">>, Idle>>)
  <2>1. Then(t, << <<"announce">> >>)
    BY <1>2, CallsOf, Roles
  <2>2. stack[t] = << <<"key">>, <<"recheck">>, Idle>>
    BY <1>2, ProducerAt
  <2> QED BY <2>1, <2>2, ThenOnThree DEF Goes
<1>3. ASSUME t \in Consumers
      PROVE  /\ "not_empty" \in Outline =>
                  Goes(t, << <<"key">>, <<"recheck">> >>, << <<"recheck">> >>)
             /\ "not_empty" \notin Outline =>
                  Goes(t, << <<"key">>, <<"recheck">> >>, << <<"announce">>, <<"recheck">> >>)
  <2>1. /\ "not_empty" \in Outline => Then(t, <<>>)
        /\ "not_empty" \notin Outline => Then(t, << <<"announce">> >>)
    BY <1>3, Roles
  <2>2. stack[t] = << <<"key">>, <<"recheck">> >>
    BY <1>3, ConsumerAt
  <2> QED BY <2>1, <2>2, ThenOnTwo DEF Goes
<1> QED BY <1>1, <1>2, <1>3

\* A waiter that has announced itself looks again.
LEMMA AnnounceMoves ==
  ASSUME Calls, NEW t \in Waiters, At(t, "announce"), Then(t, <<>>)
  PROVE  /\ OthersStay(t) /\ SleepsOn(t) \notin Outline
         /\ t \in Producers => Goes(t, << <<"announce">>, <<"recheck">>, Idle>>, << <<"recheck">>, Idle>>)
         /\ t \in Consumers => Goes(t, << <<"announce">>, <<"recheck">> >>, << <<"recheck">> >>)
<1>1. t \in Producers \/ t \in Consumers
  BY WaitPlaces DEF At
<1>2. CASE t \in Producers
  BY <1>2, CallsOf, Roles, ThenMoves, ProducerAt, ThenOnThree DEF Goes
<1>3. CASE t \in Consumers
  BY <1>3, Roles, ThenMoves, ConsumerAt, ThenOnTwo DEF Goes
<1> QED BY <1>1, <1>2, <1>3

\* A waiter that withdraws goes on with what is below.
LEMMA CancelMoves ==
  ASSUME Calls, NEW t \in Waiters, At(t, "cancel"), Then(t, <<>>)
  PROVE  /\ OthersStay(t)
         /\ t \in Producers /\ Reserve = "cas" =>
              \/ Goes(t, << <<"cancel">>, Idle>>, <<Idle>>)
              \/ Goes(t, << <<"cancel">>, <<"chain">>, Idle>>, << <<"chain">>, Idle>>)
         /\ t \in Producers /\ Reserve = "ticket" =>
              Goes(t, << <<"cancel">>, <<"turn">>, Idle>>, << <<"turn">>, Idle>>)
         /\ t \in Consumers => Goes(t, << <<"cancel">>, <<"try">> >>, << <<"try">> >>)
<1>1. OthersStay(t)
  BY ThenMoves
<1>2. ASSUME t \in Producers, Reserve = "cas"
      PROVE  \/ Goes(t, << <<"cancel">>, Idle>>, <<Idle>>)
             \/ Goes(t, << <<"cancel">>, <<"chain">>, Idle>>, << <<"chain">>, Idle>>)
  BY <1>2, ProducerAt, ThenOnTwo, ThenOnThree DEF Goes
<1>3. ASSUME t \in Producers, Reserve = "ticket"
      PROVE  Goes(t, << <<"cancel">>, <<"turn">>, Idle>>, << <<"turn">>, Idle>>)
  BY <1>3, ProducerAt, ThenOnThree DEF Goes
<1>4. ASSUME t \in Consumers
      PROVE  Goes(t, << <<"cancel">>, <<"try">> >>, << <<"try">> >>)
  BY <1>4, ConsumerAt, ThenOnTwo DEF Goes
<1> QED BY <1>1, <1>2, <1>3, <1>4

\* A waiter that leaves its wait goes on with what is below.
LEMMA LeaveMoves ==
  ASSUME Calls, NEW t \in Waiters, At(t, "wait"), Then(t, <<>>)
  PROVE  /\ OthersStay(t)
         /\ t \in Producers /\ Reserve = "cas" =>
              Goes(t, << <<"wait">>, <<"push">>, Idle>>, << <<"push">>, Idle>>)
         /\ t \in Producers /\ Reserve = "ticket" =>
              Goes(t, << <<"wait">>, <<"turn">>, Idle>>, << <<"turn">>, Idle>>)
         /\ t \in Consumers => Goes(t, << <<"wait">>, <<"left">> >>, << <<"left">> >>)
<1>1. OthersStay(t)
  BY ThenMoves
<1>2. ASSUME t \in Producers
      PROVE  /\ Reserve = "cas" => Goes(t, << <<"wait">>, <<"push">>, Idle>>, << <<"push">>, Idle>>)
             /\ Reserve = "ticket" => Goes(t, << <<"wait">>, <<"turn">>, Idle>>, << <<"turn">>, Idle>>)
  BY <1>2, ProducerAt, ThenOnThree DEF Goes
<1>3. ASSUME t \in Consumers PROVE Goes(t, << <<"wait">>, <<"left">> >>, << <<"left">> >>)
  BY <1>3, ConsumerAt, ThenOnTwo DEF Goes
<1> QED BY <1>1, <1>2, <1>3

\* The frame f of a notification is done with, or g takes its place.
Drops(t, f) ==
  \/ /\ t \in Producers /\ (Publishing(f) \/ (IsNotice(f, "not_full", "one") /\ Reserve = "cas"))
     /\ Goes(t, <<f, Idle>>, <<Idle>>)
  \/ /\ t \in Producers /\ Publishing(f) /\ Reserve = "cas"
     /\ \/ Goes(t, <<f, <<"cancel">>, Idle>>, << <<"cancel">>, Idle>>)
        \/ Goes(t, <<f, <<"chain">>, Idle>>, << <<"chain">>, Idle>>)
        \/ Goes(t, <<f, <<"cancel">>, <<"chain">>, Idle>>, << <<"cancel">>, <<"chain">>, Idle>>)
  \/ /\ t \in Consumers /\ Releasing(f)
     /\ \/ Goes(t, <<f, <<"try">> >>, << <<"try">> >>)
        \/ Goes(t, <<f, <<"recheck">> >>, << <<"recheck">> >>)
        \/ Goes(t, <<f, <<"left">> >>, << <<"left">> >>)
        \/ Goes(t, <<f, <<"cancel">>, <<"try">> >>, << <<"cancel">>, <<"try">> >>)
        \/ Goes(t, <<f, <<"chain">>, <<"try">> >>, << <<"chain">>, <<"try">> >>)
  \/ t \in Consumers /\ Publishing(f) /\ Goes(t, <<f, <<"try">> >>, << <<"try">> >>)
  \/ /\ t = Closer /\ f = <<"advance", "not_empty", "all">>
     /\ Goes(t, <<f, <<"advance", "not_full", "all">>, <<"closed">> >>,
             << <<"advance", "not_full", "all">>, <<"closed">> >>)
  \/ /\ t = Closer /\ f = <<"advance", "not_full", "all">>
     /\ Goes(t, <<f, <<"closed">> >>, << <<"closed">> >>)

Becomes(t, f, g) ==
  \/ /\ t \in Producers /\ (Publishing(f) \/ (IsNotice(f, "not_full", "one") /\ Reserve = "cas"))
     /\ Goes(t, <<f, Idle>>, <<g, Idle>>)
  \/ /\ t \in Producers /\ Publishing(f) /\ Reserve = "cas"
     /\ \/ Goes(t, <<f, <<"cancel">>, Idle>>, <<g, <<"cancel">>, Idle>>)
        \/ Goes(t, <<f, <<"chain">>, Idle>>, <<g, <<"chain">>, Idle>>)
        \/ Goes(t, <<f, <<"cancel">>, <<"chain">>, Idle>>, <<g, <<"cancel">>, <<"chain">>, Idle>>)
  \/ /\ t \in Consumers /\ Releasing(f)
     /\ \/ Goes(t, <<f, <<"try">> >>, <<g, <<"try">> >>)
        \/ Goes(t, <<f, <<"recheck">> >>, <<g, <<"recheck">> >>)
        \/ Goes(t, <<f, <<"left">> >>, <<g, <<"left">> >>)
        \/ Goes(t, <<f, <<"cancel">>, <<"try">> >>, <<g, <<"cancel">>, <<"try">> >>)
        \/ Goes(t, <<f, <<"chain">>, <<"try">> >>, <<g, <<"chain">>, <<"try">> >>)
  \/ t \in Consumers /\ Publishing(f) /\ Goes(t, <<f, <<"try">> >>, <<g, <<"try">> >>)

\* A notification that is done with leaves its notifier where it was going.
LEMMA NoticeDrops ==
  ASSUME Calls, NEW t \in Waiters, Doing(t)[1] \in Noticed, Then(t, <<>>)
  PROVE  OthersStay(t) /\ Drops(t, Doing(t))
<1> DEFINE f == Doing(t)
<1>1. OthersStay(t)
  BY ThenMoves
<1> SUFFICES Drops(t, f)
  BY <1>1
<1>2. f = Head(stack[t]) /\ f[1] \in Noticed
  BY DEF Doing
<1> HIDE DEF f
<1>3. CASE t \in Producers
  <2>1. \/ /\ Publishing(f) /\ Reserve = "cas"
           /\ \/ stack[t] = <<f, Idle>> \/ stack[t] = <<f, <<"cancel">>, Idle>>
              \/ stack[t] = <<f, <<"chain">>, Idle>>
              \/ stack[t] = <<f, <<"cancel">>, <<"chain">>, Idle>>
        \/ /\ Publishing(f) \/ (IsNotice(f, "not_full", "one") /\ Reserve = "cas")
           /\ stack[t] = <<f, Idle>>
    <3>1. CASE Reserve = "cas"
      <4>1. InPush(stack[t])
        BY <1>3, <3>1, CallsOf
      <4> QED BY <3>1, <4>1, PushPlaces, <1>2
    <3>2. CASE Reserve = "ticket"
      <4>1. InTicketPush(stack[t])
        BY <1>3, <3>2, CallsOf
      <4> QED BY <3>2, <4>1, TicketPlaces, <1>2
    <3> QED BY <3>1, <3>2, CallsOf
  <2>2. CASE stack[t] = <<f, Idle>>
    <3>1. stack'[t] = <<Idle>>
      BY <2>2, ThenOnTwo
    <3> QED BY <1>3, <2>1, <2>2, <3>1 DEF Goes, Drops
  <2>3. CASE stack[t] = <<f, <<"cancel">>, Idle>> /\ Publishing(f) /\ Reserve = "cas"
    <3>1. stack'[t] = << <<"cancel">>, Idle>>
      BY <2>3, ThenOnThree
    <3> QED BY <1>3, <2>3, <3>1 DEF Goes, Drops
  <2>4. CASE stack[t] = <<f, <<"chain">>, Idle>> /\ Publishing(f) /\ Reserve = "cas"
    <3>1. stack'[t] = << <<"chain">>, Idle>>
      BY <2>4, ThenOnThree
    <3> QED BY <1>3, <2>4, <3>1 DEF Goes, Drops
  <2>5. CASE /\ stack[t] = <<f, <<"cancel">>, <<"chain">>, Idle>>
             /\ Publishing(f) /\ Reserve = "cas"
    <3>1. stack'[t] = << <<"cancel">>, <<"chain">>, Idle>>
      BY <2>5, ThenOnFour
    <3> QED BY <1>3, <2>5, <3>1 DEF Goes, Drops
  <2> QED BY <2>1, <2>2, <2>3, <2>4, <2>5
<1>4. CASE t \in Consumers
  <2>1. \/ /\ Releasing(f)
           /\ \/ stack[t] = <<f, <<"try">> >> \/ stack[t] = <<f, <<"recheck">> >>
              \/ stack[t] = <<f, <<"left">> >> \/ stack[t] = <<f, <<"cancel">>, <<"try">> >>
              \/ stack[t] = <<f, <<"chain">>, <<"try">> >>
        \/ Publishing(f) /\ stack[t] = <<f, <<"try">> >>
    <3>1. InPop(stack[t])
      BY <1>4, CallsOf
    <3> QED BY <3>1, PopPlaces, <1>2
  <2>2. CASE stack[t] = <<f, <<"try">> >>
    <3>1. stack'[t] = << <<"try">> >>
      BY <2>2, ThenOnTwo
    <3> QED BY <1>4, <2>1, <2>2, <3>1 DEF Goes, Drops
  <2>3. CASE stack[t] = <<f, <<"recheck">> >> /\ Releasing(f)
    <3>1. stack'[t] = << <<"recheck">> >>
      BY <2>3, ThenOnTwo
    <3> QED BY <1>4, <2>3, <3>1 DEF Goes, Drops
  <2>4. CASE stack[t] = <<f, <<"left">> >> /\ Releasing(f)
    <3>1. stack'[t] = << <<"left">> >>
      BY <2>4, ThenOnTwo
    <3> QED BY <1>4, <2>4, <3>1 DEF Goes, Drops
  <2>5. CASE stack[t] = <<f, <<"cancel">>, <<"try">> >> /\ Releasing(f)
    <3>1. stack'[t] = << <<"cancel">>, <<"try">> >>
      BY <2>5, ThenOnThree
    <3> QED BY <1>4, <2>5, <3>1 DEF Goes, Drops
  <2>6. CASE stack[t] = <<f, <<"chain">>, <<"try">> >> /\ Releasing(f)
    <3>1. stack'[t] = << <<"chain">>, <<"try">> >>
      BY <2>6, ThenOnThree
    <3> QED BY <1>4, <2>6, <3>1 DEF Goes, Drops
  <2> QED BY <2>1, <2>2, <2>3, <2>4, <2>5, <2>6
<1>5. CASE t = Closer
  <2>1. \/ /\ f = <<"advance", "not_empty", "all">>
           /\ stack[t] = <<f, <<"advance", "not_full", "all">>, <<"closed">> >>
        \/ f = <<"advance", "not_full", "all">> /\ stack[t] = <<f, <<"closed">> >>
    BY <1>5, CallsOf, ClosePlaces, <1>2
  <2>2. CASE /\ f = <<"advance", "not_empty", "all">>
             /\ stack[t] = <<f, <<"advance", "not_full", "all">>, <<"closed">> >>
    <3>1. stack'[t] = << <<"advance", "not_full", "all">>, <<"closed">> >>
      BY <2>2, ThenOnThree
    <3> QED BY <1>5, <2>2, <3>1 DEF Goes, Drops
  <2>3. CASE f = <<"advance", "not_full", "all">> /\ stack[t] = <<f, <<"closed">> >>
    <3>1. stack'[t] = << <<"closed">> >>
      BY <2>3, ThenOnTwo
    <3> QED BY <1>5, <2>3, <3>1 DEF Goes, Drops
  <2> QED BY <2>1, <2>2, <2>3
<1> QED BY <1>3, <1>4, <1>5, Roles

\* A notification that goes on changes its frame only.
LEMMA NoticeBecomes ==
  ASSUME Calls, NEW t \in Waiters, Doing(t)[1] \in Noticed, NEW g, Then(t, <<g>>),
         Doing(t)[3] # "all"
  PROVE  OthersStay(t) /\ Becomes(t, Doing(t), g)
<1> DEFINE f == Doing(t)
<1>1. OthersStay(t)
  BY ThenMoves
<1> SUFFICES Becomes(t, f, g)
  BY <1>1
<1>2. f = Head(stack[t]) /\ f[1] \in Noticed
  BY DEF Doing
<1> HIDE DEF f
<1>3. CASE t \in Producers
  <2>1. \/ /\ Publishing(f) /\ Reserve = "cas"
           /\ \/ stack[t] = <<f, Idle>> \/ stack[t] = <<f, <<"cancel">>, Idle>>
              \/ stack[t] = <<f, <<"chain">>, Idle>>
              \/ stack[t] = <<f, <<"cancel">>, <<"chain">>, Idle>>
        \/ /\ Publishing(f) \/ (IsNotice(f, "not_full", "one") /\ Reserve = "cas")
           /\ stack[t] = <<f, Idle>>
    <3>1. CASE Reserve = "cas"
      <4>1. InPush(stack[t])
        BY <1>3, <3>1, CallsOf
      <4> QED BY <3>1, <4>1, PushPlaces, <1>2
    <3>2. CASE Reserve = "ticket"
      <4>1. InTicketPush(stack[t])
        BY <1>3, <3>2, CallsOf
      <4> QED BY <3>2, <4>1, TicketPlaces, <1>2
    <3> QED BY <3>1, <3>2, CallsOf
  <2>2. CASE stack[t] = <<f, Idle>>
    <3>1. stack'[t] = <<g, Idle>>
      BY <2>2, ThenOnTwo
    <3> QED BY <1>3, <2>1, <2>2, <3>1 DEF Goes, Becomes
  <2>3. CASE stack[t] = <<f, <<"cancel">>, Idle>> /\ Publishing(f) /\ Reserve = "cas"
    <3>1. stack'[t] = <<g, <<"cancel">>, Idle>>
      BY <2>3, ThenOnThree
    <3> QED BY <1>3, <2>3, <3>1 DEF Goes, Becomes
  <2>4. CASE stack[t] = <<f, <<"chain">>, Idle>> /\ Publishing(f) /\ Reserve = "cas"
    <3>1. stack'[t] = <<g, <<"chain">>, Idle>>
      BY <2>4, ThenOnThree
    <3> QED BY <1>3, <2>4, <3>1 DEF Goes, Becomes
  <2>5. CASE /\ stack[t] = <<f, <<"cancel">>, <<"chain">>, Idle>>
             /\ Publishing(f) /\ Reserve = "cas"
    <3>1. stack'[t] = <<g, <<"cancel">>, <<"chain">>, Idle>>
      BY <2>5, ThenOnFour
    <3> QED BY <1>3, <2>5, <3>1 DEF Goes, Becomes
  <2> QED BY <2>1, <2>2, <2>3, <2>4, <2>5
<1>4. CASE t \in Consumers
  <2>1. \/ /\ Releasing(f)
           /\ \/ stack[t] = <<f, <<"try">> >> \/ stack[t] = <<f, <<"recheck">> >>
              \/ stack[t] = <<f, <<"left">> >> \/ stack[t] = <<f, <<"cancel">>, <<"try">> >>
              \/ stack[t] = <<f, <<"chain">>, <<"try">> >>
        \/ Publishing(f) /\ stack[t] = <<f, <<"try">> >>
    <3>1. InPop(stack[t])
      BY <1>4, CallsOf
    <3> QED BY <3>1, PopPlaces, <1>2
  <2>2. CASE stack[t] = <<f, <<"try">> >>
    <3>1. stack'[t] = <<g, <<"try">> >>
      BY <2>2, ThenOnTwo
    <3> QED BY <1>4, <2>1, <2>2, <3>1 DEF Goes, Becomes
  <2>3. CASE stack[t] = <<f, <<"recheck">> >> /\ Releasing(f)
    <3>1. stack'[t] = <<g, <<"recheck">> >>
      BY <2>3, ThenOnTwo
    <3> QED BY <1>4, <2>3, <3>1 DEF Goes, Becomes
  <2>4. CASE stack[t] = <<f, <<"left">> >> /\ Releasing(f)
    <3>1. stack'[t] = <<g, <<"left">> >>
      BY <2>4, ThenOnTwo
    <3> QED BY <1>4, <2>4, <3>1 DEF Goes, Becomes
  <2>5. CASE stack[t] = <<f, <<"cancel">>, <<"try">> >> /\ Releasing(f)
    <3>1. stack'[t] = <<g, <<"cancel">>, <<"try">> >>
      BY <2>5, ThenOnThree
    <3> QED BY <1>4, <2>5, <3>1 DEF Goes, Becomes
  <2>6. CASE stack[t] = <<f, <<"chain">>, <<"try">> >> /\ Releasing(f)
    <3>1. stack'[t] = <<g, <<"chain">>, <<"try">> >>
      BY <2>6, ThenOnThree
    <3> QED BY <1>4, <2>6, <3>1 DEF Goes, Becomes
  <2> QED BY <2>1, <2>2, <2>3, <2>4, <2>5, <2>6
<1>5. t # Closer
  BY CallsOf, ClosePlaces, <1>2 DEF f
<1> QED BY <1>3, <1>4, <1>5, Roles

\* The labels on a stack.
LEMMA HasOf ==
  ASSUME NEW labels
  PROVE  /\ \A a : Has(<<a>>, labels) <=> a[1] \in labels
         /\ \A a, b : Has(<<a, b>>, labels) <=> a[1] \in labels \/ b[1] \in labels
         /\ \A a, b, c : Has(<<a, b, c>>, labels) <=>
              a[1] \in labels \/ b[1] \in labels \/ c[1] \in labels
         /\ \A a, b, c, d : Has(<<a, b, c, d>>, labels) <=>
              a[1] \in labels \/ b[1] \in labels \/ c[1] \in labels \/ d[1] \in labels
<1>1. ASSUME NEW a PROVE Has(<<a>>, labels) <=> a[1] \in labels
  BY DEF Has
<1>2. ASSUME NEW a, NEW b PROVE Has(<<a, b>>, labels) <=> a[1] \in labels \/ b[1] \in labels
  BY DEF Has
<1>3. ASSUME NEW a, NEW b, NEW c
      PROVE  Has(<<a, b, c>>, labels) <=> a[1] \in labels \/ b[1] \in labels \/ c[1] \in labels
  BY DEF Has
<1>4. ASSUME NEW a, NEW b, NEW c, NEW d
      PROVE  Has(<<a, b, c, d>>, labels) <=>
               a[1] \in labels \/ b[1] \in labels \/ c[1] \in labels \/ d[1] \in labels
  BY DEF Has
<1> QED BY <1>1, <1>2, <1>3, <1>4

(* ------------------------------ the calls -------------------------------- *)
\* A thread whose stack is right after its step leaves everybody's right.
LEMMA InCallsStay ==
  ASSUME Calls, UNCHANGED fixed, NEW t \in Waiters, OthersStay(t),
         t \in Producers /\ Reserve = "cas" => InPush(stack'[t]),
         t \in Producers /\ Reserve = "ticket" => InTicketPush(stack'[t]),
         t \in Consumers => InPop(stack'[t]),
         t = Closer => InClose(stack'[t])
  PROVE  InCalls'
<1>1. /\ \A s : InPush(s)' <=> InPush(s)
      /\ \A s : InTicketPush(s)' <=> InTicketPush(s)
      /\ \A s : InPop(s)' <=> InPop(s)
      /\ Reserve' = Reserve
  BY DEF fixed, InPush, InTicketPush, InPop, Publishing, Releasing, IsNotice
<1>2. /\ \A p \in Producers : Reserve = "cas" => InPush(stack'[p])
      /\ \A p \in Producers : Reserve = "ticket" => InTicketPush(stack'[p])
      /\ \A c \in Consumers : InPop(stack'[c])
      /\ InClose(stack'[Closer])
  BY CallsOf, Roles DEF OthersStay
<1> QED BY <1>1, <1>2 DEF InCalls

\* A step keeps Remembers if its mover, going to sleep, notes that it has.
LEMMA RemembersStays ==
  ASSUME Calls, UNCHANGED fixed, NEW t \in Waiters, OthersStay(t),
         \A u \in Producers : u # t => parked'[u] = parked[u],
         t \in Producers /\ Reserve = "cas" /\ stack'[t][1][1] = "wait" => parked'[t],
         stack'[t] # <<>>
  PROVE  Remembers'
<1>1. ASSUME NEW p \in Producers, Head(stack'[p])[1] = "wait", Reserve = "cas" PROVE parked'[p]
  <2>1. CASE p = t
    BY <1>1, <2>1
  <2>2. CASE p # t
    BY <1>1, <2>2, Roles DEF OthersStay, Calls, Remembers, At, Doing
  <2> QED BY <2>1, <2>2
<1> QED BY <1>1 DEF Remembers, At, Doing, fixed

\* What a step does not touch keeps its type.
LEMMA TypesUntouched ==
  ASSUME Calls
  PROVE  /\ UNCHANGED ring => RingTypes'
         /\ UNCHANGED counts => CountTypes'
         /\ UNCHANGED buffer => BufferTypes'
<1>1. RingTypes /\ CountTypes /\ BufferTypes
  BY DEF Calls, StateTypes
<1>2. UNCHANGED ring => RingTypes'
  BY <1>1 DEF ring, RingTypes
<1>3. UNCHANGED counts => CountTypes'
  BY <1>1 DEF counts, CountTypes
<1>4. UNCHANGED buffer => BufferTypes'
  BY <1>1 DEF BufferTypes, StoredSlot, Stored
<1> QED BY <1>2, <1>3, <1>4

\* The types hold after a step of one thread if they hold of what it changes.
LEMMA TypesKept ==
  ASSUME Calls, UNCHANGED fixed, NEW t \in Waiters, OthersStay(t),
         RingTypes', CountTypes', BufferTypes',
         pos' \in [Producers -> Nat], late' \in [Producers -> BOOLEAN],
         parked' \in [Producers -> BOOLEAN], budget' \in 0..MaxPushes
  PROVE  StateTypes'
<1>1. StateTypes
  BY DEF Calls
<1>2. Reserve' = Reserve /\ Outline' = Outline
  BY DEF fixed
<1>3. DOMAIN stack' = Waiters /\ stack' = [u \in Waiters |-> stack'[u]]
  BY DEF OthersStay
<1> QED BY <1>1, <1>2, <1>3 DEF StateTypes

\* Steps that change no memory, only what one thread does next.
LEMMA TypesStay ==
  ASSUME Calls, UNCHANGED fixed, NEW t \in Waiters, OthersStay(t),
         UNCHANGED <<counts, buffer, ring, pos, late>>,
         parked' \in [Producers -> BOOLEAN], budget' \in 0..MaxPushes
  PROVE  StateTypes'
<1>1. pos' \in [Producers -> Nat] /\ late' \in [Producers -> BOOLEAN]
  BY DEF Calls, StateTypes
<1> QED BY <1>1, TypesUntouched, TypesKept

\* The beginning of a push keeps every thread in its place.
LEMMA BeginPushCalls ==
  ASSUME Calls, UNCHANGED fixed, NEW p \in Producers, BeginPush(p)
  PROVE  Calls'
<1>1. /\ OthersStay(p) /\ p \in Waiters
      /\ UNCHANGED <<counts, buffer, ring, pos, late>>
      /\ parked' = [parked EXCEPT ![p] = FALSE]
  BY BeginPushMoves, Roles DEF BeginPush
<1>2. StateTypes'
  <2>1. parked \in [Producers -> BOOLEAN] /\ budget \in 0..MaxPushes
    BY DEF Calls, StateTypes
  <2>2. parked' \in [Producers -> BOOLEAN]
    BY <1>1, <2>1
  <2>3. budget > 0 /\ budget' = budget - 1
    BY DEF BeginPush
  <2>4. budget' \in 0..MaxPushes
    BY <2>1, <2>3, ConfigsAssumption
  <2> QED BY <1>1, <2>2, <2>4, TypesStay
<1>3. InCalls'
  <2>1. /\ Reserve = "cas" => InPush(stack'[p])
        /\ Reserve = "ticket" => InTicketPush(stack'[p])
    BY BeginPushMoves DEF Goes, InPush, InTicketPush
  <2> QED BY <1>1, <2>1, Roles, InCallsStay
<1>4. Remembers'
  <2>1. \A u \in Producers : u # p => parked'[u] = parked[u]
    BY <1>1
  <2>2. stack'[p][1][1] # "wait" /\ stack'[p] # <<>>
    BY BeginPushMoves DEF Goes
  <2> QED BY <1>1, <2>1, <2>2, RemembersStays
<1> QED BY <1>2, <1>3, <1>4 DEF Calls

\* So does a push that finds the ring full.
LEMMA PushFullCalls ==
  ASSUME Calls, UNCHANGED fixed, NEW p \in Producers, PushFull(p)
  PROVE  Calls'
<1>1. /\ OthersStay(p) /\ p \in Waiters /\ Reserve = "cas"
      /\ UNCHANGED <<counts, buffer, ring, pos, late, budget>>
  BY PushFullMoves, Roles DEF PushFull
<1>2. parked \in [Producers -> BOOLEAN] /\ budget \in 0..MaxPushes
  BY DEF Calls, StateTypes
<1>3. StateTypes'
  <2>1. parked' \in [Producers -> BOOLEAN] /\ budget' \in 0..MaxPushes
    BY <1>1, <1>2, PushFullMoves
  <2> QED BY <1>1, <2>1, TypesStay
<1>4. InCalls'
  <2>1. InPush(stack'[p])
    BY PushFullMoves DEF Goes, InPush
  <2> QED BY <1>1, <2>1, Roles, InCallsStay
<1>5. Remembers'
  <2>1. \A u \in Producers : u # p => parked'[u] = parked[u]
    BY <1>2, PushFullMoves
  <2>2. stack'[p] # <<>> /\ (stack'[p][1][1] = "wait" => parked'[p])
    BY <1>2, PushFullMoves DEF Goes
  <2> QED BY <1>1, <2>1, <2>2, RemembersStays
<1> QED BY <1>3, <1>4, <1>5 DEF Calls

\* Looks at the ring or at the event counts that only decide what to do next.
Looks(t) ==
  \/ t \in Producers /\ (\/ PushClosed(t) \/ ChainFullWake(t) \/ PrecheckClosed(t)
                         \/ AwaitTurn(t))
  \/ t \in Consumers /\ (\/ PopEmpty(t) \/ PopSleep(t) \/ PopAgain(t) \/ ChainBurst(t))
  \/ NotifyLook(t) /\ UNCHANGED <<ring, calling>>
  \/ /\ At(t, "claim") /\ WakeInFlight(Doing(t)[2]) /\ Then(t, <<>>)
     /\ UNCHANGED <<counts, buffer, ring, calling>>

\* Where a step to a place that is right leaves a thread.
Right(t, s) ==
  /\ t \in Producers /\ Reserve = "cas" => InPush(s) /\ s[1][1] # "wait"
  /\ t \in Producers /\ Reserve = "ticket" => InTicketPush(s)
  /\ t \in Consumers => InPop(s)
  /\ t = Closer => InClose(s)
  /\ s # <<>>

\* A thread that is done with a notification is in a right place.
LEMMA DropsRight ==
  ASSUME Calls, NEW t \in Waiters, NEW f, Drops(t, f)
  PROVE  Right(t, stack'[t])
<1>1. CASE t \in Producers
  <2>1. CASE Reserve = "cas"
    <3>1. stack'[t] \in {<<Idle>>, << <<"cancel">>, Idle>>, << <<"chain">>, Idle>>,
                         << <<"cancel">>, <<"chain">>, Idle>>}
      BY <1>1, <2>1, Roles DEF Drops, Goes
    <3>2. stack'[t] # <<>> /\ stack'[t][1][1] # "wait"
      BY <3>1 DEF Idle
    <3>3. InPush(stack'[t])
      BY <3>1 DEF InPush
    <3> QED BY <1>1, <2>1, <3>2, <3>3, Roles DEF Right
  <2>2. CASE Reserve = "ticket"
    <3>1. stack'[t] = <<Idle>>
      BY <1>1, <2>2, Roles DEF Drops, Goes
    <3>2. InTicketPush(stack'[t]) /\ stack'[t] # <<>>
      BY <3>1 DEF InTicketPush
    <3> QED BY <1>1, <2>2, <3>2, Roles DEF Right
  <2> QED BY <2>1, <2>2, CallsOf
<1>2. CASE t \in Consumers
  <2>1. stack'[t] \in {<< <<"try">> >>, << <<"recheck">> >>, << <<"left">> >>,
                       << <<"cancel">>, <<"try">> >>, << <<"chain">>, <<"try">> >>}
    BY <1>2, Roles DEF Drops, Goes
  <2>2. InPop(stack'[t]) /\ stack'[t] # <<>>
    BY <2>1 DEF InPop
  <2> QED BY <1>2, <2>2, Roles DEF Right
<1>3. CASE t = Closer
  <2>1. stack'[t] \in {<< <<"closed">> >>, << <<"advance", "not_full", "all">>, <<"closed">> >>}
    BY <1>3, Roles DEF Drops, Goes
  <2>2. InClose(stack'[t]) /\ stack'[t] # <<>>
    BY <2>1 DEF InClose
  <2> QED BY <1>3, <2>2, Roles DEF Right
<1> QED BY <1>1, <1>2, <1>3, Roles

\* So is one whose notification goes on.
LEMMA BecomesRight ==
  ASSUME Calls, NEW t \in Waiters, NEW f, NEW g, Becomes(t, f, g),
         Publishing(f) => Publishing(g), Releasing(f) => Releasing(g),
         IsNotice(f, "not_full", "one") => IsNotice(g, "not_full", "one")
  PROVE  Right(t, stack'[t])
<1>1. CASE t \in Producers
  <2>0. g[1] # "wait" \/ ~(Publishing(g) \/ IsNotice(g, "not_full", "one"))
    BY DEF Publishing, IsNotice
  <2>1. CASE Reserve = "cas"
    <3>1. /\ stack'[t] \in {<<g, Idle>>, <<g, <<"cancel">>, Idle>>, <<g, <<"chain">>, Idle>>,
                            <<g, <<"cancel">>, <<"chain">>, Idle>>}
          /\ Publishing(g) \/ (IsNotice(g, "not_full", "one") /\ stack'[t] = <<g, Idle>>)
      BY <1>1, <2>1, Roles DEF Becomes, Goes
    <3>2. stack'[t][1] = g /\ stack'[t] # <<>>
      BY <3>1
    <3>3. InPush(stack'[t])
      BY <3>1 DEF InPush
    <3> QED BY <1>1, <2>0, <2>1, <3>1, <3>2, <3>3, Roles DEF Right
  <2>2. CASE Reserve = "ticket"
    <3>1. stack'[t] = <<g, Idle>> /\ Publishing(g)
      BY <1>1, <2>2, Roles DEF Becomes, Goes
    <3>2. InTicketPush(stack'[t]) /\ stack'[t] # <<>>
      BY <3>1 DEF InTicketPush
    <3> QED BY <1>1, <2>2, <3>2, Roles DEF Right
  <2> QED BY <2>1, <2>2, CallsOf
<1>2. CASE t \in Consumers
  <2>1. \/ /\ Releasing(g)
           /\ stack'[t] \in {<<g, <<"try">> >>, <<g, <<"recheck">> >>, <<g, <<"left">> >>,
                             <<g, <<"cancel">>, <<"try">> >>, <<g, <<"chain">>, <<"try">> >>}
        \/ Publishing(g) /\ stack'[t] = <<g, <<"try">> >>
    BY <1>2, Roles DEF Becomes, Goes
  <2>2. InPop(stack'[t]) /\ stack'[t] # <<>>
    BY <2>1 DEF InPop
  <2> QED BY <1>2, <2>2, Roles DEF Right
<1>3. t # Closer
  BY Roles DEF Becomes
<1> QED BY <1>1, <1>2, <1>3, Roles

\* A step whose mover ends in a right place, and leaves parked alone.
LEMMA CallsStay ==
  ASSUME Calls, UNCHANGED fixed, NEW t \in Waiters, OthersStay(t), Right(t, stack'[t]),
         UNCHANGED parked, StateTypes'
  PROVE  Calls'
<1>1. InCalls'
  BY InCallsStay DEF Right
<1>2. Remembers'
  BY RemembersStays DEF Right
<1> QED BY <1>1, <1>2 DEF Calls

\* A step that leaves what every thread has to do.
LEMMA CallsStill ==
  ASSUME Calls, UNCHANGED <<fixed, stack, calling>>, RingTypes', CountTypes', BufferTypes'
  PROVE  Calls'
<1>1. StateTypes'
  BY DEF Calls, StateTypes, fixed, calling
<1>2. InCalls'
  <2>1. OthersStay(Closer)
    BY DEF Calls, StateTypes, OthersStay
  <2> QED BY <2>1, CallsOf, Roles, InCallsStay
<1>3. Remembers'
  BY DEF Calls, Remembers, At, Doing, fixed, calling
<1> QED BY <1>1, <1>2, <1>3 DEF Calls

\* What a notification may be.
LEMMA NoticeOf ==
  ASSUME Calls, NEW t \in Waiters, Doing(t)[1] \in Noticed
  PROVE  /\ t \in Producers =>
              Publishing(Doing(t)) \/ (IsNotice(Doing(t), "not_full", "one") /\ Reserve = "cas")
         /\ t \in Consumers => Publishing(Doing(t)) \/ Releasing(Doing(t))
         /\ t = Closer => Doing(t) \in {<<"advance", "not_empty", "all">>,
                                       <<"advance", "not_full", "all">>}
         /\ IsNotice(Doing(t), Doing(t)[2], Doing(t)[3])
         /\ Doing(t)[2] \in Counts
         /\ t # Closer => Doing(t)[3] # "all"
<1> DEFINE f == Doing(t)
<1>1. f = Head(stack[t]) /\ f[1] \in Noticed
  BY DEF Doing
<1> HIDE DEF f
<1>2. t \in Producers =>
        Publishing(f) \/ (IsNotice(f, "not_full", "one") /\ Reserve = "cas")
  <2>1. ASSUME t \in Producers, Reserve = "cas"
        PROVE  Publishing(f) \/ IsNotice(f, "not_full", "one")
    <3>1. InPush(stack[t])
      BY <2>1, CallsOf
    <3> QED BY <3>1, PushPlaces, <1>1
  <2>2. ASSUME t \in Producers, Reserve = "ticket" PROVE Publishing(f)
    <3>1. InTicketPush(stack[t])
      BY <2>2, CallsOf
    <3> QED BY <3>1, TicketPlaces, <1>1
  <2> QED BY <2>1, <2>2, CallsOf
<1>3. t \in Consumers => Publishing(f) \/ Releasing(f)
  <2> SUFFICES ASSUME t \in Consumers PROVE Publishing(f) \/ Releasing(f)
    OBVIOUS
  <2>1. InPop(stack[t])
    BY CallsOf
  <2> QED BY <2>1, PopPlaces, <1>1
<1>4. t = Closer => f \in {<<"advance", "not_empty", "all">>, <<"advance", "not_full", "all">>}
  BY CallsOf, ClosePlaces, <1>1
<1>5. /\ IsNotice(f, f[2], f[3]) /\ f[2] \in Counts
      /\ t # Closer => f[3] # "all"
  <2>1. CASE t # Closer
    <3>1. \/ IsNotice(f, "not_empty", "one") \/ IsNotice(f, "not_full", "one")
          \/ IsNotice(f, "not_full", "waiting")
      BY <1>2, <1>3, <2>1, Roles DEF Publishing, Releasing
    <3>2. \A e, how : IsNotice(f, e, how) => f[2] = e /\ f[3] = how
      BY DEF IsNotice
    <3> QED BY <3>1, <3>2, Roles
  <2>2. CASE t = Closer
    BY <1>4, <2>2, Roles DEF IsNotice
  <2> QED BY <2>1, <2>2
<1> QED BY <1>2, <1>3, <1>4, <1>5 DEF f

\* What comes next in a notification: from the look to the claim or the advance, from
\* the claim to the advance, from the advance to the wake.
LEMMA NoticeGoesOn ==
  ASSUME NEW f, NEW e, NEW how, IsNotice(f, e, how)
  PROVE  /\ f[2] = e /\ f[3] = how
         /\ f[1] = "look" =>
              IsNotice(<<IF how = "one" THEN "claim" ELSE "advance", e, how>>, e, how)
         /\ f[1] = "claim" => how = "one"
         /\ IsNotice(<<"advance", e, how>>, e, how)
         /\ how = "one" => IsNotice(<<"wake", e, how>>, e, how)
<1>1. f[2] = e /\ f[3] = how
  BY DEF IsNotice
<1>2. ASSUME f[1] = "look"
      PROVE  IsNotice(<<IF how = "one" THEN "claim" ELSE "advance", e, how>>, e, how)
  <2>1. e \notin Outline
    BY <1>2 DEF IsNotice
  <2>2. CASE how = "one"
    BY <2>1, <2>2 DEF IsNotice
  <2>3. CASE how # "one"
    BY <2>3 DEF IsNotice
  <2> QED BY <2>2, <2>3
<1>3. f[1] = "claim" => how = "one"
  BY DEF IsNotice
<1>4. /\ IsNotice(<<"advance", e, how>>, e, how)
      /\ how = "one" => IsNotice(<<"wake", e, how>>, e, how)
  BY DEF IsNotice
<1> QED BY <1>1, <1>2, <1>3, <1>4

\* The three frames a notification may turn into.
LEMMA BecomesOn ==
  ASSUME Calls, NEW t \in Waiters, Doing(t)[1] \in Noticed, NEW g, Then(t, <<g>>), t # Closer,
         \A e, how : IsNotice(Doing(t), e, how) => IsNotice(g, e, how)
  PROVE  OthersStay(t) /\ Becomes(t, Doing(t), g) /\ Right(t, stack'[t])
<1>1. Doing(t)[3] # "all"
  BY NoticeOf
<1>2. OthersStay(t) /\ Becomes(t, Doing(t), g)
  BY <1>1, NoticeBecomes
<1>3. Right(t, stack'[t])
  <2>1. /\ Publishing(Doing(t)) => Publishing(g)
        /\ Releasing(Doing(t)) => Releasing(g)
        /\ IsNotice(Doing(t), "not_full", "one") => IsNotice(g, "not_full", "one")
    BY DEF Publishing, Releasing
  <2> QED BY <1>2, <2>1, BecomesRight
<1> QED BY <1>2, <1>3

\* A look moves one thread to a right place.
LEMMA LooksRight ==
  ASSUME Calls, NEW t \in Waiters, Looks(t)
  PROVE  OthersStay(t) /\ Right(t, stack'[t])
<1>1. CASE t \in Producers /\ PushClosed(t)
  <2>1. OthersStay(t) /\ Reserve = "cas" /\ stack'[t] \in {<<Idle>>, << <<"cancel">>, Idle>>}
    BY <1>1, PushClosedMoves DEF Goes
  <2>2. InPush(stack'[t]) /\ stack'[t] # <<>> /\ stack'[t][1][1] # "wait"
    BY <2>1 DEF InPush, Idle
  <2> QED BY <1>1, <2>1, <2>2, Roles DEF Right
<1>2. CASE t \in Producers /\ ChainFullWake(t)
  <2>1. /\ OthersStay(t) /\ Reserve = "cas"
        /\ stack'[t] \in {<<Idle>>, <<Notify("not_full", "one"), Idle>>}
    BY <1>2, ChainFullWakeMoves DEF Goes
  <2>2. IsNotice(Notify("not_full", "one"), "not_full", "one")
    BY NotifyIsNotice, Roles
  <2>3. InPush(stack'[t]) /\ stack'[t] # <<>> /\ stack'[t][1][1] # "wait"
    BY <2>1, <2>2 DEF InPush, Idle, Notify
  <2> QED BY <1>2, <2>1, <2>3, Roles DEF Right
<1>3. CASE t \in Producers /\ PrecheckClosed(t)
  <2>1. /\ OthersStay(t) /\ Reserve = "ticket"
        /\ stack'[t] \in {<<Idle>>, << <<"ticket">>, Idle>>}
    BY <1>3, PrecheckClosedMoves DEF Goes
  <2>2. InTicketPush(stack'[t]) /\ stack'[t] # <<>>
    BY <2>1 DEF InTicketPush
  <2> QED BY <1>3, <2>1, <2>2, Roles DEF Right
<1>4. CASE t \in Producers /\ AwaitTurn(t)
  <2>1. /\ OthersStay(t) /\ Reserve = "ticket"
        /\ stack'[t] \in {<< <<"key">>, <<"recheck">>, Idle>>, << <<"cancel">>, <<"turn">>, Idle>>,
                          << <<"wait">>, <<"turn">>, Idle>>}
    BY <1>4, AwaitTurnMoves DEF Goes
  <2>2. InTicketPush(stack'[t]) /\ stack'[t] # <<>>
    BY <2>1 DEF InTicketPush
  <2> QED BY <1>4, <2>1, <2>2, Roles DEF Right
<1>5. CASE t \in Consumers /\ (PopEmpty(t) \/ PopSleep(t) \/ PopAgain(t) \/ ChainBurst(t))
  <2>1. /\ OthersStay(t)
        /\ stack'[t] \in {<< <<"drained">> >>, << <<"try">> >>, << <<"key">>, <<"recheck">> >>,
                          << <<"cancel">>, <<"try">> >>, << <<"wait">>, <<"left">> >>,
                          <<Notify("not_empty", "one"), <<"try">> >>}
    BY <1>5, PopEmptyMoves, PopSleepMoves, PopAgainMoves, ChainBurstMoves DEF Goes
  <2>2. Publishing(Notify("not_empty", "one"))
    BY NotifyIsNotice, Roles DEF Publishing
  <2>3. InPop(stack'[t]) /\ stack'[t] # <<>>
    BY <2>1, <2>2 DEF InPop
  <2> QED BY <1>5, <2>1, <2>3, Roles DEF Right
<1>6. CASE NotifyLook(t)
  <2>1. Doing(t)[1] = "look" /\ Doing(t)[1] \in Noticed
    BY <1>6 DEF NotifyLook, At, Noticed
  <2>2. CASE Then(t, <<>>)
    BY <2>1, <2>2, NoticeDrops, DropsRight
  <2>3. CASE Then(t, << <<IF Doing(t)[3] = "one" THEN "claim" ELSE "advance",
                          Doing(t)[2], Doing(t)[3]>> >>)
    <3>1. t # Closer
      BY <2>1, NoticeOf
    <3>2. ASSUME NEW e, NEW how, IsNotice(Doing(t), e, how)
          PROVE  IsNotice(<<IF Doing(t)[3] = "one" THEN "claim" ELSE "advance",
                            Doing(t)[2], Doing(t)[3]>>, e, how)
      BY <2>1, <3>2, NoticeGoesOn
    <3> QED BY <2>1, <2>3, <3>1, <3>2, BecomesOn
  <2>4. \/ Then(t, <<>>)
        \/ Then(t, << <<IF Doing(t)[3] = "one" THEN "claim" ELSE "advance",
                        Doing(t)[2], Doing(t)[3]>> >>)
    BY <1>6 DEF NotifyLook
  <2> QED BY <2>2, <2>3, <2>4
<1>7. CASE At(t, "claim") /\ Then(t, <<>>)
  BY <1>7, NoticeDrops, DropsRight DEF At, Noticed
<1> QED BY <1>1, <1>2, <1>3, <1>4, <1>5, <1>6, <1>7 DEF Looks

\* A look changes nothing but what its thread does next.
LEMMA LooksLeave ==
  ASSUME NEW t \in Waiters, Looks(t)
  PROVE  UNCHANGED <<counts, buffer, ring, calling>>
  BY DEF Looks, PushClosed, ChainFullWake, PrecheckClosed, AwaitTurn, PopEmpty, PopSleep,
         PopAgain, ChainBurst, NotifyLook

\* A look keeps every thread in its place.
LEMMA LooksCalls ==
  ASSUME Calls, UNCHANGED fixed, NEW t \in Waiters, Looks(t)
  PROVE  Calls'
<1>1. OthersStay(t) /\ Right(t, stack'[t]) /\ UNCHANGED <<counts, buffer, ring, calling>>
  BY LooksRight, LooksLeave
<1>2. /\ UNCHANGED <<counts, buffer, ring, pos, late, parked>>
      /\ parked' \in [Producers -> BOOLEAN] /\ budget' \in 0..MaxPushes
  BY <1>1 DEF calling, Calls, StateTypes
<1>3. StateTypes'
  BY <1>1, <1>2, TypesStay
<1> QED BY <1>1, <1>2, <1>3, CallsStay

\* A store goes into an empty buffer.
LEMMA StoreBuffers ==
  ASSUME Calls, NEW t \in Waiters, NEW q \in Nat, NEW w \in AnyWord, Store(t, q, w)
  PROVE  /\ BufferTypes' /\ Fenced(t)
         /\ buffer'[t] = <<[slot |-> Slot(q), word |-> w]>>
         /\ Stores(t)' /\ ~Clears(t)' /\ StoredSlot(t)' = Slot(q) /\ Stored(t)' = w
         /\ \A u \in Waiters : u # t => buffer'[u] = buffer[u]
<1> DEFINE b == [slot |-> Slot(q), word |-> w]
<1>1. /\ buffer' = [buffer EXCEPT ![t] = <<b>>] /\ Fenced(t)
      /\ BufferTypes
  BY DEF Store, Calls, StateTypes
<1>2. /\ buffer'[t] = <<b>> /\ buffer' = [u \in Waiters |-> buffer'[u]]
      /\ \A u \in Waiters : u # t => buffer'[u] = buffer[u]
  BY <1>1 DEF BufferTypes
<1>3. Slot(q) \in Slots
  BY RingAssumption, LapRange DEF Slot, Slots
<1>4. /\ StoredSlot(t)' = Slot(q) /\ Stored(t)' = w /\ Stores(t)' /\ ~Clears(t)'
  BY <1>2 DEF StoredSlot, Stored, Stores, Clears, IsClear
<1>5. BufferTypes'
  <2> SUFFICES ASSUME NEW u \in Waiters
               PROVE  \/ buffer'[u] = <<>>
                      \/ \E e \in Counts : buffer'[u] = <<ClearPending(e)>>
                      \/ /\ StoredSlot(u)' \in Slots /\ Stored(u)' \in AnyWord
                         /\ buffer'[u] = <<[slot |-> StoredSlot(u)', word |-> Stored(u)']>>
    BY <1>2 DEF BufferTypes
  <2>1. CASE u = t
    BY <1>2, <1>3, <1>4, <2>1
  <2>2. CASE u # t
    BY <1>1, <1>2, <2>2 DEF BufferTypes, StoredSlot, Stored
  <2> QED BY <2>1, <2>2
<1> QED BY <1>1, <1>2, <1>4, <1>5

\* So does the clear that prepare_wait or wait ends with, and a flush leaves nothing.
LEMMA ClearBuffers ==
  ASSUME Calls, NEW t \in Waiters, NEW e \in Counts,
         buffer' = [buffer EXCEPT ![t] = <<ClearPending(e)>>]
  PROVE  /\ BufferTypes'
         /\ buffer'[t] = <<ClearPending(e)>>
         /\ Clears(t)' /\ ~Stores(t)' /\ Head(buffer'[t]).count = e
         /\ \A u \in Waiters : u # t => buffer'[u] = buffer[u]
<1>1. BufferTypes
  BY DEF Calls, StateTypes
<1>2. /\ buffer'[t] = <<ClearPending(e)>> /\ buffer' = [u \in Waiters |-> buffer'[u]]
      /\ \A u \in Waiters : u # t => buffer'[u] = buffer[u]
  BY <1>1 DEF BufferTypes
<1>3. Clears(t)' /\ ~Stores(t)' /\ Head(buffer'[t]).count = e
  BY <1>2 DEF Clears, Stores, IsClear, ClearPending
<1>4. BufferTypes'
  BY <1>1, <1>2 DEF BufferTypes, StoredSlot, Stored
<1> QED BY <1>2, <1>3, <1>4

\* A flush leaves an empty buffer.
LEMMA FlushBuffers ==
  ASSUME Calls, NEW t \in Waiters, buffer' = [buffer EXCEPT ![t] = <<>>]
  PROVE  /\ BufferTypes' /\ buffer'[t] = <<>> /\ ~Clears(t)' /\ ~Stores(t)'
         /\ \A u \in Waiters : u # t => buffer'[u] = buffer[u]
<1>1. BufferTypes
  BY DEF Calls, StateTypes
<1>2. /\ buffer'[t] = <<>> /\ buffer' = [u \in Waiters |-> buffer'[u]]
      /\ \A u \in Waiters : u # t => buffer'[u] = buffer[u]
  BY <1>1 DEF BufferTypes
<1>3. BufferTypes'
  BY <1>1, <1>2 DEF BufferTypes, StoredSlot, Stored
<1> QED BY <1>2, <1>3 DEF Clears, Stores

(* ------------------------------- the steps ------------------------------- *)
\* The steps of WaitSteps, NotifySteps and Flush by name.
Keys(t) ==
  /\ At(t, "key") /\ ReadKey(t, SleepsOn(t))
  /\ Then(t, IF SleepsOn(t) \in Outline THEN <<>> ELSE << <<"announce">> >>)
  /\ UNCHANGED <<ring, calling>>
Announces(t) ==
  At(t, "announce") /\ Announce(t, SleepsOn(t)) /\ Then(t, <<>>) /\ UNCHANGED <<ring, calling>>
Cancels(t) ==
  At(t, "cancel") /\ CancelWait(t, SleepsOn(t)) /\ Then(t, <<>>) /\ UNCHANGED <<ring, calling>>
Sleeps(t) ==
  At(t, "wait") /\ Sleep(t, SleepsOn(t)) /\ UNCHANGED <<stack, ring, calling>>
Leaves(t) ==
  /\ At(t, "wait") /\ \E expired \in BOOLEAN : LeaveWait(t, SleepsOn(t), expired)
  /\ Then(t, <<>>) /\ UNCHANGED <<ring, calling>>
Claims(t) ==
  /\ At(t, "claim") /\ ~WakeInFlight(Doing(t)[2]) /\ ClaimWake(t, Doing(t)[2])
  /\ Then(t, << <<"advance", Doing(t)[2], "one">> >>) /\ UNCHANGED <<ring, calling>>
Advances(t) == NotifyAdvance(t) /\ UNCHANGED <<ring, calling>>
Wakes(t) == NotifyWake(t) /\ UNCHANGED <<ring, calling>>
WakesAll(t) == NotifyAll(t) /\ UNCHANGED <<ring, calling>>
ClearArrives(t) == FlushClear(t) /\ UNCHANGED <<ring, calling>>
StoreArrives(t) ==
  /\ ~Fenced(t) /\ ~IsClear(Head(buffer[t]))
  /\ seq' = [seq EXCEPT ![Head(buffer[t]).slot] = Head(buffer[t]).word]
  /\ buffer' = [buffer EXCEPT ![t] = <<>>]
  /\ UNCHANGED <<counts, tail, closed, head, stack, calling>>

\* The kinds of steps, by what they touch.
RingSteps ==
  \/ \E p \in Producers : PushOk(p) \/ TakeTicket(p) \/ PayTicket(p)
  \/ \E c \in Consumers : PopOk(c)
  \/ \E t \in Waiters : StoreArrives(t)
CountSteps ==
  \E t \in Waiters :
    \/ Keys(t) \/ Announces(t) \/ Cancels(t) \/ Sleeps(t) \/ Leaves(t)
    \/ Claims(t) \/ Advances(t) \/ Wakes(t) \/ WakesAll(t) \/ ClearArrives(t)
OtherSteps ==
  \/ \E p \in Producers : BeginPush(p) \/ PushFull(p)
  \/ \E t \in Waiters : Looks(t)
  \/ Close

\* Every step of the queue is one of the steps by name.
LEMMA StepsOf ==
  ASSUME Next
  PROVE  (RingSteps \/ CountSteps \/ OtherSteps) /\ UNCHANGED fixed
<1>1. ASSUME NEW t \in Waiters, Waiting(t) PROVE CountSteps
  <2>1. \E expired \in BOOLEAN : expired = (Backstop \/ Deadlines \/ (t \in Producers /\ Reserve = "ticket"))
    OBVIOUS
  <2>2. PICK expired \in BOOLEAN : WaitSteps(t, SleepsOn(t), expired)
    BY <1>1, <2>1 DEF Waiting
  <2>3. UNCHANGED <<ring, calling>>
    BY <1>1 DEF Waiting
  <2>4. Keys(t) \/ Announces(t) \/ Cancels(t) \/ Sleeps(t) \/ Leaves(t)
    BY <2>2, <2>3 DEF WaitSteps, Keys, Announces, Cancels, Sleeps, Leaves
  <2> QED BY <2>4 DEF CountSteps
<1>2. ASSUME NEW t \in Waiters, Notifying(t) PROVE CountSteps \/ OtherSteps
  <2>1. CASE NotifyLook(t)
    BY <1>2, <2>1 DEF Notifying, OtherSteps, Looks
  <2>2. CASE NotifyClaim(t)
    BY <1>2, <2>2 DEF Notifying, NotifyClaim, CountSteps, OtherSteps, Looks, Claims
  <2>3. CASE NotifyAdvance(t) \/ NotifyWake(t) \/ NotifyAll(t)
    BY <1>2, <2>3 DEF Notifying, CountSteps, Advances, Wakes, WakesAll
  <2> QED BY <1>2, <2>1, <2>2, <2>3 DEF Notifying, NotifySteps
<1>3. ASSUME NEW t \in Waiters, Flush(t) PROVE CountSteps \/ RingSteps
  BY <1>3 DEF Flush, CountSteps, RingSteps, ClearArrives, StoreArrives
<1>4. ASSUME NEW p \in Producers, Pushing(p) PROVE RingSteps \/ CountSteps \/ OtherSteps
  <2>1. CASE Waiting(p) \/ Notifying(p)
    BY <1>1, <1>2, <2>1, Roles
  <2>2. CASE PushClosed(p) \/ ChainFullWake(p) \/ PrecheckClosed(p) \/ AwaitTurn(p)
    <3>1. Looks(p) /\ p \in Waiters
      BY <2>2, Roles DEF Looks
    <3> QED BY <3>1 DEF OtherSteps
  <2>3. CASE PushOk(p) \/ TakeTicket(p) \/ PayTicket(p)
    BY <2>3 DEF RingSteps
  <2>4. CASE PushFull(p)
    BY <2>4 DEF OtherSteps
  <2> QED BY <1>4, <2>1, <2>2, <2>3, <2>4 DEF Pushing
<1>5. ASSUME NEW c \in Consumers, Popping(c) PROVE RingSteps \/ CountSteps \/ OtherSteps
  <2>1. CASE Waiting(c) \/ Notifying(c)
    BY <1>1, <1>2, <2>1, Roles
  <2>2. CASE PopEmpty(c) \/ PopSleep(c) \/ PopAgain(c) \/ ChainBurst(c)
    <3>1. Looks(c) /\ c \in Waiters
      BY <2>2, Roles DEF Looks
    <3> QED BY <3>1 DEF OtherSteps
  <2>3. CASE PopOk(c)
    BY <2>3 DEF RingSteps
  <2> QED BY <1>5, <2>1, <2>2, <2>3 DEF Popping
<1>6. ASSUME Close \/ \E p \in Producers : BeginPush(p) PROVE OtherSteps
  BY <1>6 DEF OtherSteps
<1> QED BY <1>2, <1>3, <1>4, <1>5, <1>6, Roles DEF Next

\* A push that succeeds keeps every thread in its place.
LEMMA PushOkCalls ==
  ASSUME Calls, UNCHANGED fixed, NEW p \in Producers, PushOk(p)
  PROVE  Calls'
<1>1. /\ OthersStay(p) /\ p \in Waiters /\ Reserve = "cas"
      /\ tail' = tail + 1 /\ Store(p, tail, Word(tail + 1, FALSE))
      /\ UNCHANGED <<counts, closed, head, seq, calling>>
  BY PushOkMoves, Roles DEF PushOk
<1>2. RingTypes' /\ tail \in Nat /\ Word(tail + 1, FALSE) \in AnyWord
  BY <1>1 DEF Calls, StateTypes, RingTypes, AnyWord, Word
<1>3. BufferTypes'
  BY <1>1, <1>2, StoreBuffers
<1>4. StateTypes'
  <2>1. /\ pos' \in [Producers -> Nat] /\ late' \in [Producers -> BOOLEAN]
        /\ parked' \in [Producers -> BOOLEAN] /\ budget' \in 0..MaxPushes
    BY <1>1 DEF calling, Calls, StateTypes
  <2> QED BY <1>1, <1>2, <1>3, <2>1, TypesUntouched, TypesKept
<1>5. Right(p, stack'[p])
  <2> DEFINE f == Notify("not_empty", "one")
  <2>1. Publishing(f) /\ f[1] # "wait"
    BY NotifyIsNotice, Roles DEF Publishing, Notify
  <2> HIDE DEF f
  <2>2. stack'[p] \in {<<f, Idle>>, <<f, <<"chain">>, Idle>>, <<f, <<"cancel">>, Idle>>,
                       <<f, <<"cancel">>, <<"chain">>, Idle>>}
    BY PushOkMoves DEF Goes, f
  <2>3. InPush(stack'[p]) /\ stack'[p] # <<>> /\ stack'[p][1][1] # "wait"
    BY <2>1, <2>2 DEF InPush
  <2> QED BY <1>1, <2>3, Roles DEF Right
<1> QED BY <1>1, <1>4, <1>5, CallsStay DEF calling

\* So does the taking of a ticket.
LEMMA TakeTicketCalls ==
  ASSUME Calls, UNCHANGED fixed, NEW p \in Producers, TakeTicket(p)
  PROVE  Calls'
<1>1. /\ OthersStay(p) /\ p \in Waiters /\ Reserve = "ticket"
      /\ tail' = tail + 1 /\ pos' = [pos EXCEPT ![p] = tail] /\ late' = [late EXCEPT ![p] = closed]
      /\ UNCHANGED <<counts, buffer, closed, head, seq, parked, budget>>
      /\ stack'[p] = << <<"turn">>, Idle>>
  BY TakeTicketMoves, Roles DEF TakeTicket, Goes
<1>2. RingTypes' /\ tail \in Nat /\ closed \in BOOLEAN
  BY <1>1 DEF Calls, StateTypes, RingTypes
<1>3. StateTypes'
  <2>1. /\ pos \in [Producers -> Nat] /\ late \in [Producers -> BOOLEAN]
        /\ parked' \in [Producers -> BOOLEAN] /\ budget' \in 0..MaxPushes
    BY <1>1 DEF Calls, StateTypes
  <2>2. pos' \in [Producers -> Nat] /\ late' \in [Producers -> BOOLEAN]
    BY <1>1, <1>2, <2>1
  <2> QED BY <1>1, <1>2, <2>1, <2>2, TypesUntouched, TypesKept
<1>4. Right(p, stack'[p])
  <2>1. InTicketPush(stack'[p]) /\ stack'[p] # <<>>
    BY <1>1 DEF InTicketPush
  <2> QED BY <1>1, <2>1, Roles DEF Right
<1> QED BY <1>1, <1>3, <1>4, CallsStay

\* So does the publication of a ticket holder.
LEMMA PayTicketCalls ==
  ASSUME Calls, UNCHANGED fixed, NEW p \in Producers, PayTicket(p)
  PROVE  Calls'
<1>1. /\ OthersStay(p) /\ p \in Waiters /\ Reserve = "ticket"
      /\ Store(p, pos[p], Word(pos[p] + 1, late[p]))
      /\ UNCHANGED <<counts, ring, calling>>
  BY PayTicketMoves, Roles DEF PayTicket
<1>2. /\ pos' \in [Producers -> Nat] /\ late' \in [Producers -> BOOLEAN]
      /\ parked' \in [Producers -> BOOLEAN] /\ budget' \in 0..MaxPushes
      /\ pos[p] \in Nat /\ Word(pos[p] + 1, late[p]) \in AnyWord
  BY <1>1 DEF calling, Calls, StateTypes, AnyWord, Word
<1>3. StateTypes'
  BY <1>1, <1>2, StoreBuffers, TypesUntouched, TypesKept
<1>4. Right(p, stack'[p])
  <2> DEFINE f == Notify("not_empty", "one")
  <2>1. Publishing(f)
    BY NotifyIsNotice, Roles DEF Publishing
  <2> HIDE DEF f
  <2>2. stack'[p] \in {<<Idle>>, <<f, Idle>>}
    BY PayTicketMoves DEF Goes, f
  <2>3. InTicketPush(stack'[p]) /\ stack'[p] # <<>>
    BY <2>1, <2>2 DEF InTicketPush
  <2> QED BY <1>1, <2>3, Roles DEF Right
<1> QED BY <1>1, <1>3, <1>4, CallsStay DEF calling

\* So does a pop that succeeds.
LEMMA PopOkCalls ==
  ASSUME Calls, UNCHANGED fixed, NEW c \in Consumers, PopOk(c)
  PROVE  Calls'
<1>1. /\ OthersStay(c) /\ c \in Waiters
      /\ head' = head + 1 /\ Store(c, head, Word(head + N, FALSE))
      /\ UNCHANGED <<counts, tail, closed, seq, calling>>
  BY PopOkMoves, Roles DEF PopOk
<1>2. RingTypes' /\ head \in Nat /\ Word(head + N, FALSE) \in AnyWord
  BY <1>1, RingAssumption DEF Calls, StateTypes, RingTypes, AnyWord, Word
<1>3. /\ pos' \in [Producers -> Nat] /\ late' \in [Producers -> BOOLEAN]
      /\ parked' \in [Producers -> BOOLEAN] /\ budget' \in 0..MaxPushes
  BY <1>1 DEF calling, Calls, StateTypes
<1>4. StateTypes'
  BY <1>1, <1>2, <1>3, StoreBuffers, TypesUntouched, TypesKept
<1>5. Right(c, stack'[c])
  <2> DEFINE f == Notify("not_full", IF Reserve = "ticket" THEN "waiting" ELSE "one")
  <2>1. Releasing(f)
    BY NotifyIsNotice, Roles DEF Releasing
  <2> HIDE DEF f
  <2>2. stack'[c] \in {<<f, <<"try">> >>, <<f, <<"recheck">> >>, <<f, <<"left">> >>,
                       <<f, <<"cancel">>, <<"try">> >>, <<f, <<"chain">>, <<"try">> >>,
                       << <<"try">> >>, << <<"recheck">> >>, << <<"left">> >>,
                       << <<"cancel">>, <<"try">> >>, << <<"chain">>, <<"try">> >>}
    BY PopOkMoves DEF Goes, f
  <2>3. InPop(stack'[c]) /\ stack'[c] # <<>>
    BY <2>1, <2>2 DEF InPop
  <2> QED BY <1>1, <2>3, Roles DEF Right
<1> QED BY <1>1, <1>4, <1>5, CallsStay DEF calling

\* So does close.
LEMMA CloseCalls ==
  ASSUME Calls, UNCHANGED fixed, Close
  PROVE  Calls'
<1>1. /\ OthersStay(Closer) /\ Closer \in Waiters
      /\ closed' = TRUE /\ UNCHANGED <<counts, buffer, tail, head, seq, calling>>
      /\ stack'[Closer] = << <<"advance", "not_empty", "all">>,
                             <<"advance", "not_full", "all">>, <<"closed">> >>
  BY CloseMoves, Roles DEF Close, Goes
<1>2. RingTypes'
  BY <1>1 DEF Calls, StateTypes, RingTypes
<1>3. /\ pos' \in [Producers -> Nat] /\ late' \in [Producers -> BOOLEAN]
      /\ parked' \in [Producers -> BOOLEAN] /\ budget' \in 0..MaxPushes
  BY <1>1 DEF calling, Calls, StateTypes
<1>4. StateTypes'
  BY <1>1, <1>2, <1>3, TypesUntouched, TypesKept
<1>5. Right(Closer, stack'[Closer])
  <2>1. InClose(stack'[Closer]) /\ stack'[Closer] # <<>>
    BY <1>1 DEF InClose
  <2> QED BY <2>1, Roles DEF Right
<1> QED BY <1>1, <1>4, <1>5, CallsStay DEF calling

\* Where a step of a waiter leaves it.
LEMMA WaiterRight ==
  ASSUME Calls, NEW t \in Waiters,
         \/ At(t, "key") /\ Then(t, IF SleepsOn(t) \in Outline THEN <<>> ELSE << <<"announce">> >>)
         \/ At(t, "announce") /\ Then(t, <<>>)
         \/ At(t, "cancel") /\ Then(t, <<>>)
         \/ At(t, "wait") /\ Then(t, <<>>)
  PROVE  OthersStay(t) /\ Right(t, stack'[t])
<1>1. /\ OthersStay(t) /\ t # Closer
      /\ t \in Producers /\ Reserve = "cas" =>
           stack'[t] \in {<< <<"announce">>, <<"recheck">>, Idle>>, << <<"recheck">>, Idle>>,
                          <<Idle>>, << <<"chain">>, Idle>>, << <<"push">>, Idle>>}
      /\ t \in Producers /\ Reserve = "ticket" =>
           stack'[t] \in {<< <<"announce">>, <<"recheck">>, Idle>>, << <<"recheck">>, Idle>>,
                          << <<"turn">>, Idle>>}
      /\ t \in Consumers =>
           \/ stack'[t] \in {<< <<"recheck">> >>, << <<"try">> >>, << <<"left">> >>}
           \/ stack'[t] = << <<"announce">>, <<"recheck">> >> /\ "not_empty" \notin Outline
  <2>0. Doing(t)[1] \in {"key", "announce", "cancel", "wait"}
    BY DEF At
  <2>1. t # Closer
    BY <2>0, WaitPlaces
  <2>2. CASE At(t, "key") /\ Then(t, IF SleepsOn(t) \in Outline THEN <<>> ELSE << <<"announce">> >>)
    BY <2>1, <2>2, KeyMoves DEF Goes
  <2>3. CASE At(t, "announce") /\ Then(t, <<>>)
    BY <2>1, <2>3, AnnounceMoves DEF Goes
  <2>4. CASE At(t, "cancel") /\ Then(t, <<>>)
    BY <2>1, <2>4, CancelMoves DEF Goes
  <2>5. CASE At(t, "wait") /\ Then(t, <<>>)
    BY <2>1, <2>5, LeaveMoves DEF Goes
  <2> QED BY <2>2, <2>3, <2>4, <2>5
<1>2. ASSUME t \in Producers, Reserve = "cas"
      PROVE  InPush(stack'[t]) /\ stack'[t] # <<>> /\ stack'[t][1][1] # "wait"
  BY <1>1, <1>2 DEF InPush, Idle
<1>3. ASSUME t \in Producers, Reserve = "ticket"
      PROVE  InTicketPush(stack'[t]) /\ stack'[t] # <<>>
  BY <1>1, <1>3 DEF InTicketPush
<1>4. ASSUME t \in Consumers PROVE InPop(stack'[t]) /\ stack'[t] # <<>>
  BY <1>1, <1>4 DEF InPop
<1> QED BY <1>1, <1>2, <1>3, <1>4, Roles, CallsOf DEF Right

\* Where a step of a notifier leaves it.
LEMMA NotifierRight ==
  ASSUME Calls, NEW t \in Waiters,
         \/ Claims(t) \/ Advances(t) \/ Wakes(t) \/ WakesAll(t)
  PROVE  OthersStay(t) /\ Right(t, stack'[t])
<1>1. Doing(t)[1] \in Noticed
  BY DEF Claims, Advances, Wakes, WakesAll, NotifyAdvance, NotifyWake, NotifyAll, At, Noticed
<1>2. CASE Wakes(t) \/ WakesAll(t)
  <2>1. Then(t, <<>>)
    BY <1>2 DEF Wakes, WakesAll, NotifyWake, NotifyAll
  <2> QED BY <1>1, <2>1, NoticeDrops, DropsRight
<1>3. CASE Claims(t)
  <2>1. Doing(t)[1] = "claim" /\ Then(t, << <<"advance", Doing(t)[2], "one">> >>)
    BY <1>3 DEF Claims, At
  <2>2. t # Closer
    BY <1>1, <2>1, NoticeOf
  <2>3. ASSUME NEW e, NEW how, IsNotice(Doing(t), e, how)
        PROVE  IsNotice(<<"advance", Doing(t)[2], "one">>, e, how)
    BY <2>1, <2>3, NoticeGoesOn
  <2> QED BY <1>1, <2>1, <2>2, <2>3, BecomesOn
<1>4. CASE Advances(t)
  <2>1. Doing(t)[3] = "one" /\ Then(t, << <<"wake", Doing(t)[2], "one">> >>)
    BY <1>4 DEF Advances, NotifyAdvance
  <2>2. t # Closer
    BY <1>1, <2>1, NoticeOf
  <2>3. ASSUME NEW e, NEW how, IsNotice(Doing(t), e, how)
        PROVE  IsNotice(<<"wake", Doing(t)[2], "one">>, e, how)
    BY <2>1, <2>3, NoticeGoesOn
  <2> QED BY <1>1, <2>1, <2>2, <2>3, BecomesOn
<1> QED BY <1>2, <1>3, <1>4

\* The steps of the event counts leave their words in their types.
LEMMA CountStepTypes ==
  ASSUME Calls, NEW t \in Waiters,
         \/ Keys(t) \/ Announces(t) \/ Cancels(t) \/ Sleeps(t) \/ Leaves(t)
         \/ Claims(t) \/ Advances(t) \/ Wakes(t) \/ WakesAll(t) \/ ClearArrives(t)
  PROVE  CountTypes' /\ BufferTypes'
<1>1. CountTypes /\ BufferTypes /\ SleepsOn(t) \in Counts
  BY Roles DEF Calls, StateTypes
<1>2. CASE Keys(t)
  <2>1. CountTypes'
    BY <1>1, <1>2 DEF Keys, ReadKey, CountTypes
  <2> QED BY <1>2, <2>1, TypesUntouched DEF Keys, ReadKey
<1>3. CASE Announces(t)
  <2>1. CountTypes'
    BY <1>1, <1>3 DEF Announces, Announce, CountTypes
  <2> QED BY <1>1, <1>3, <2>1, ClearBuffers DEF Announces, Announce
<1>4. CASE Cancels(t)
  <2>1. CountTypes'
    BY <1>1, <1>4 DEF Cancels, CancelWait, CountTypes
  <2> QED BY <1>4, <2>1, TypesUntouched DEF Cancels, CancelWait
<1>5. CASE Sleeps(t)
  <2>1. CountTypes'
    BY <1>1, <1>5 DEF Sleeps, Sleep, CountTypes
  <2> QED BY <1>5, <2>1, TypesUntouched DEF Sleeps, Sleep
<1>6. CASE Leaves(t)
  <2>1. CASE SleepsOn(t) \in Outline
    <3>1. CountTypes'
      BY <1>1, <1>6, <2>1 DEF Leaves, LeaveWait, CountTypes
    <3> QED BY <1>6, <2>1, <3>1, TypesUntouched DEF Leaves, LeaveWait
  <2>2. CASE SleepsOn(t) \notin Outline
    <3>1. CountTypes'
      BY <1>1, <1>6, <2>2 DEF Leaves, LeaveWait, CountTypes
    <3> QED BY <1>1, <1>6, <2>2, <3>1, ClearBuffers DEF Leaves, LeaveWait
  <2> QED BY <2>1, <2>2
<1>7. CASE Claims(t)
  <2>1. CountTypes'
    BY <1>1, <1>7 DEF Claims, ClaimWake, CountTypes
  <2> QED BY <1>7, <2>1, TypesUntouched DEF Claims, ClaimWake
<1>8. CASE Advances(t)
  <2>0. Doing(t)[2] \in Counts
    BY <1>8, NoticeOf DEF Advances, NotifyAdvance, At, Noticed
  <2>1. CountTypes'
    BY <1>1, <1>8, <2>0 DEF Advances, NotifyAdvance, Advance, CountTypes
  <2> QED BY <1>8, <2>1, TypesUntouched DEF Advances, NotifyAdvance, Advance
<1>9. CASE Wakes(t)
  <2>1. CountTypes'
    <3>1. UNCHANGED <<epoch, waiters, pending, key>>
      BY <1>9 DEF Wakes, NotifyWake, WakeOne
    <3>2. sleepers' \in [Counts -> SUBSET Waiters]
      <4>1. sleepers \in [Counts -> SUBSET Waiters]
        BY <1>1 DEF CountTypes
      <4>2. PICK e : /\ e = Doing(t)[2]
                     /\ \/ UNCHANGED sleepers
                        \/ \E u \in sleepers[e] : sleepers' = [sleepers EXCEPT ![e] = @ \ {u}]
        BY <1>9 DEF Wakes, NotifyWake, WakeOne
      <4>3. CASE UNCHANGED sleepers
        BY <4>1, <4>3
      <4>4. ASSUME NEW u, sleepers' = [sleepers EXCEPT ![e] = @ \ {u}]
            PROVE  sleepers' \in [Counts -> SUBSET Waiters]
        BY <4>1, <4>4
      <4> QED BY <4>2, <4>3, <4>4
    <3> QED BY <1>1, <3>1, <3>2 DEF CountTypes
  <2> QED BY <1>9, <2>1, TypesUntouched DEF Wakes, NotifyWake, WakeOne
<1>10. CASE WakesAll(t)
  <2>0. Doing(t)[2] \in Counts
    BY <1>10, NoticeOf DEF WakesAll, NotifyAll, At, Noticed
  <2>1. CountTypes'
    BY <1>1, <1>10, <2>0 DEF WakesAll, NotifyAll, AdvanceAndWakeAll, CountTypes
  <2> QED BY <1>10, <2>1, TypesUntouched DEF WakesAll, NotifyAll, AdvanceAndWakeAll
<1>11. CASE ClearArrives(t)
  <2>1. buffer[t] # <<>> /\ IsClear(Head(buffer[t]))
    BY <1>11 DEF ClearArrives, FlushClear, Fenced
  <2>2. PICK e \in Counts : buffer[t] = <<ClearPending(e)>>
    BY <1>1, <2>1 DEF BufferTypes, IsClear
  <2>3. Tail(buffer[t]) = <<>>
    BY <2>2
  <2>4. CountTypes'
    BY <1>1, <1>11 DEF ClearArrives, FlushClear, CountTypes
  <2>5. buffer' = [buffer EXCEPT ![t] = <<>>]
    BY <1>1, <1>11, <2>3 DEF ClearArrives, FlushClear, BufferTypes
  <2> QED BY <2>4, <2>5, FlushBuffers
<1> QED BY <1>2, <1>3, <1>4, <1>5, <1>6, <1>7, <1>8, <1>9, <1>10, <1>11

\* The steps of the event counts leave the ring and the calls alone.
LEMMA CountStepLeaves ==
  ASSUME NEW t \in Waiters,
         \/ Keys(t) \/ Announces(t) \/ Cancels(t) \/ Sleeps(t) \/ Leaves(t)
         \/ Claims(t) \/ Advances(t) \/ Wakes(t) \/ WakesAll(t) \/ ClearArrives(t)
  PROVE  UNCHANGED <<ring, calling>>
  BY DEF Keys, Announces, Cancels, Sleeps, Leaves, Claims, Advances, Wakes, WakesAll, ClearArrives

\* The steps of the event counts keep every thread in its place.
LEMMA CountStepsCalls ==
  ASSUME Calls, UNCHANGED fixed, CountSteps
  PROVE  Calls'
<1>1. PICK t \in Waiters : \/ Keys(t) \/ Announces(t) \/ Cancels(t) \/ Sleeps(t) \/ Leaves(t)
                           \/ Claims(t) \/ Advances(t) \/ Wakes(t) \/ WakesAll(t) \/ ClearArrives(t)
  BY DEF CountSteps
<1>2. UNCHANGED <<ring, calling>> /\ RingTypes' /\ CountTypes' /\ BufferTypes'
  BY <1>1, CountStepLeaves, CountStepTypes, TypesUntouched
<1>3. CASE Sleeps(t) \/ ClearArrives(t)
  <2>1. UNCHANGED stack
    BY <1>3 DEF Sleeps, ClearArrives, FlushClear
  <2> QED BY <1>2, <2>1, CallsStill
<1>4. CASE ~(Sleeps(t) \/ ClearArrives(t))
  <2>1. OthersStay(t) /\ Right(t, stack'[t])
    <3>1. CASE Keys(t) \/ Announces(t) \/ Cancels(t) \/ Leaves(t)
      BY <3>1, WaiterRight DEF Keys, Announces, Cancels, Leaves
    <3>2. CASE Claims(t) \/ Advances(t) \/ Wakes(t) \/ WakesAll(t)
      BY <3>2, NotifierRight
    <3> QED BY <1>1, <1>4, <3>1, <3>2
  <2>2. /\ pos' \in [Producers -> Nat] /\ late' \in [Producers -> BOOLEAN]
        /\ parked' \in [Producers -> BOOLEAN] /\ budget' \in 0..MaxPushes
    BY <1>2 DEF calling, Calls, StateTypes
  <2>3. StateTypes'
    BY <1>2, <2>1, <2>2, TypesKept
  <2> QED BY <1>2, <2>1, <2>3, CallsStay DEF calling
<1> QED BY <1>3, <1>4

\* So does the arrival of a store.
LEMMA StoreArrivesCalls ==
  ASSUME Calls, UNCHANGED fixed, NEW t \in Waiters, StoreArrives(t)
  PROVE  Calls'
<1>1. /\ buffer[t] # <<>> /\ ~IsClear(Head(buffer[t]))
      /\ seq' = [seq EXCEPT ![StoredSlot(t)] = Stored(t)]
      /\ buffer' = [buffer EXCEPT ![t] = <<>>]
      /\ UNCHANGED <<counts, tail, closed, head, stack, calling>>
  BY DEF StoreArrives, Fenced, StoredSlot, Stored
<1>2. BufferTypes /\ RingTypes
  BY DEF Calls, StateTypes
<1>3. Stored(t) \in AnyWord
  BY <1>1, <1>2 DEF BufferTypes, IsClear, ClearPending
<1>4. RingTypes'
  BY <1>1, <1>2, <1>3 DEF RingTypes
<1> QED BY <1>1, <1>4, FlushBuffers, TypesUntouched, CallsStill

\* Threads are where their calls take them, and nothing leaves its type.
THEOREM QueueCalls == Spec => []Calls
<1>1. Init => Calls
  <2> SUFFICES ASSUME Init PROVE Calls
    OBVIOUS
  <2>1. PICK c \in Configs : Reserve = c.reserve /\ Outline = c.outline /\ budget = c.pushes
    BY DEF Init
  <2>2. /\ Reserve \in {"cas", "ticket"} /\ Outline \in SUBSET {"not_empty"}
        /\ budget \in 0..MaxPushes
    BY <2>1, ConfigsAssumption
  <2>3. RingTypes
    <3>1. \A i \in Slots : Word(i, FALSE) \in AnyWord
      BY RingAssumption DEF Slots, Word, AnyWord
    <3> QED BY <3>1 DEF Init, RingTypes
  <2>4. CountTypes
    BY DEF Init, EventCountInit, CountTypes
  <2>5. BufferTypes
    BY DEF Init, EventCountInit, BufferTypes
  <2>6. StateTypes
    BY <2>2, <2>3, <2>4, <2>5 DEF Init, StateTypes
  <2>7. /\ \A p \in Producers : stack[p] = <<Idle>>
        /\ \A c2 \in Consumers : stack[c2] = << <<"try">> >>
        /\ stack[Closer] = <<Idle>>
    BY Roles DEF Init, Idle
  <2>8. InCalls
    BY <2>7 DEF InCalls, InPush, InTicketPush, InPop, InClose
  <2>9. Remembers
    BY <2>7 DEF Remembers, At, Doing, Idle
  <2> QED BY <2>6, <2>8, <2>9 DEF Calls
<1>2. Calls /\ [Next \/ Over]_vars => Calls'
  <2> SUFFICES ASSUME Calls, [Next \/ Over]_vars PROVE Calls'
    OBVIOUS
  <2>1. CASE Next
    <3>1. UNCHANGED fixed
      BY <2>1, StepsOf
    <3>2. CASE RingSteps
      BY <3>1, <3>2, PushOkCalls, TakeTicketCalls, PayTicketCalls, PopOkCalls, StoreArrivesCalls
         DEF RingSteps
    <3>3. CASE CountSteps
      BY <3>1, <3>3, CountStepsCalls
    <3>4. CASE OtherSteps
      BY <3>1, <3>4, BeginPushCalls, PushFullCalls, LooksCalls, CloseCalls DEF OtherSteps
    <3> QED BY <2>1, <3>2, <3>3, <3>4, StepsOf
  <2>2. CASE UNCHANGED vars
    BY <2>2, TypesUntouched, CallsStill DEF vars, moving
  <2> QED BY <2>1, <2>2 DEF Over
<1> QED BY <1>1, <1>2, PTL DEF Spec

(* ------------------------------- the ring -------------------------------- *)
\* A position has a slot of the ring.
LEMMA SlotRange == \A q \in Nat : Slot(q) \in Slots
  BY RingAssumption, LapRange DEF Slot, Slots

\* Two positions with one slot are a lap apart.
LEMMA SlotApart == \A a, b \in Nat : a < b /\ Slot(a) = Slot(b) => a + N <= b
<1>1. N \in Nat /\ N >= 1
  BY RingAssumption
<1> QED BY <1>1, LapApart, Zenon DEF Slot

\* The slot of a position is its slot a lap later.
LEMMA SlotNext == \A q \in Nat : Slot(q + N) = Slot(q)
<1>1. N \in Nat /\ N >= 1
  BY RingAssumption
<1> QED BY <1>1, LapNext, Zenon DEF Slot

\* A position from the head on has the slot of one in the window, which it is not before.
LEMMA WindowOf ==
  ASSUME Calls
  PROVE  /\ N \in Nat /\ N >= 2 /\ head \in Nat /\ tail \in Nat
         /\ \A q \in Window : q \in Nat /\ q >= head /\ q < head + N
         /\ \A q \in Nat : q >= head /\ q < head + N => q \in Window
         /\ \A q, r \in Window : Slot(q) = Slot(r) => q = r
         /\ \A i \in Slots : \E q \in Window : Slot(q) = i
         /\ \A m \in Nat : m >= head =>
              \E q \in Window : Slot(q) = Slot(m) /\ (q = m \/ q + N <= m)
<1>1. N \in Nat /\ N >= 2 /\ head \in Nat /\ tail \in Nat
  BY RingAssumption DEF Calls, StateTypes, RingTypes
<1>2. /\ \A q \in Window : q \in Nat /\ q >= head /\ q < head + N
      /\ \A q \in Nat : q >= head /\ q < head + N => q \in Window
  BY <1>1 DEF Window
<1>3. ASSUME NEW q \in Window, NEW r \in Window, Slot(q) = Slot(r) PROVE q = r
  <2>1. q \in Nat /\ r \in Nat /\ q >= head /\ q < head + N /\ r >= head /\ r < head + N
    BY <1>2
  <2>2. (q < r => q + N <= r) /\ (r < q => r + N <= q)
    BY <1>3, <2>1, SlotApart
  <2> QED BY <1>1, <2>1, <2>2
<1>4. ASSUME NEW i \in Slots PROVE \E q \in Window : Slot(q) = i
  <2>0. N >= 1 /\ i \in 0..(N - 1)
    BY <1>1 DEF Slots
  <2>1. \E q \in head..(head + N - 1) : q % N = i
    BY <1>1, <2>0, LapCover, Zenon
  <2> QED BY <2>1 DEF Window, Slot
<1>5. ASSUME NEW m \in Nat, m >= head
      PROVE  \E q \in Window : Slot(q) = Slot(m) /\ (q = m \/ q + N <= m)
  <2>1. PICK q \in Window : Slot(q) = Slot(m)
    BY <1>4, SlotRange
  <2>2. q \in Nat /\ q >= head /\ q < head + N
    BY <1>2
  <2>3. (q < m => q + N <= m) /\ (m < q => m + N <= q)
    BY <2>1, <2>2, SlotApart
  <2> QED BY <1>1, <1>5, <2>1, <2>2, <2>3
<1> QED BY <1>1, <1>2, <1>3, <1>4, <1>5

\* What a word of the ring, or a store on its way to it, may be.
LEMMA SlotOf ==
  ASSUME Calls, SlotsInTurn, NEW q \in Window
  PROVE  /\ head <= tail /\ seq[Slot(q)] \in AnyWord
         /\ \/ seq[Slot(q)] = Word(q, FALSE) /\ seq[Slot(q)].n = q
            \/ seq[Slot(q)].n = q + 1 /\ q < tail
            \/ /\ seq[Slot(q)].n = q - N + 1
               /\ \E t \in Consumers : Stores(t) /\ StoredSlot(t) = Slot(q)
         /\ \A t \in Waiters : Stores(t) /\ StoredSlot(t) = Slot(q) =>
              \/ /\ t \in Consumers /\ Stored(t) = Word(q, FALSE) /\ Stored(t).n = q
                 /\ seq[Slot(q)].n = q - N + 1
              \/ /\ t \in Producers /\ Stored(t).n = q + 1 /\ q < tail
                 /\ seq[Slot(q)] = Word(q, FALSE) /\ seq[Slot(q)].n = q
<1>1. q \in Nat /\ Slot(q) \in Slots
  BY WindowOf, SlotRange
<1>2. seq[Slot(q)] \in AnyWord
  BY <1>1 DEF Calls, StateTypes, RingTypes
<1> QED BY <1>2 DEF SlotsInTurn, Word

\* A store is in the slot of one position of the window, and of a thread that has one.
LEMMA StoreOf ==
  ASSUME Calls, SlotsInTurn, NEW t \in Waiters, Stores(t)
  PROVE  /\ Stored(t) \in AnyWord /\ StoredSlot(t) \in Slots
         /\ \E q \in Window :
              /\ StoredSlot(t) = Slot(q)
              /\ \/ /\ t \in Consumers /\ Stored(t) = Word(q, FALSE) /\ Stored(t).n = q
                    /\ seq[Slot(q)].n = q - N + 1
                 \/ /\ t \in Producers /\ Stored(t).n = q + 1 /\ q < tail
                    /\ seq[Slot(q)] = Word(q, FALSE) /\ seq[Slot(q)].n = q
<1>1. Stored(t) \in AnyWord /\ StoredSlot(t) \in Slots
  BY DEF Calls, StateTypes, BufferTypes, Stores, IsClear, ClearPending
<1>2. PICK q \in Window : Slot(q) = StoredSlot(t)
  BY <1>1, WindowOf
<1> QED BY <1>1, <1>2, SlotOf

\* A slot whose number is a position from the head on is free for that position, which is
\* in the window, and nobody is storing to it but who has that position.
LEMMA FreeFor ==
  ASSUME Calls, SlotsInTurn, NEW m \in Nat, m >= head, seq[Slot(m)].n = m
  PROVE  /\ m \in Window /\ seq[Slot(m)] = Word(m, FALSE)
         /\ \A t \in Waiters : Stores(t) /\ StoredSlot(t) = Slot(m) =>
              t \in Producers /\ Stored(t).n = m + 1 /\ m < tail
<1>1. PICK q \in Window : Slot(q) = Slot(m) /\ (q = m \/ q + N <= m)
  BY WindowOf
<1>2. q \in Nat /\ N \in Nat /\ N >= 2
  BY WindowOf
<1>3. q = m
  <2>1. seq[Slot(m)].n = q \/ seq[Slot(m)].n = q + 1 \/ seq[Slot(m)].n = q - N + 1
    BY <1>1, SlotOf
  <2>2. CASE q + N <= m
    BY <1>2, <2>1, <2>2
  <2> QED BY <1>1, <1>2, <2>2
<1>4. m \in Window
  BY <1>1, <1>3
<1>5. /\ \/ seq[Slot(m)] = Word(m, FALSE) /\ seq[Slot(m)].n = m
         \/ seq[Slot(m)].n = m + 1 /\ m < tail
         \/ seq[Slot(m)].n = m - N + 1
      /\ \A t \in Waiters : Stores(t) /\ StoredSlot(t) = Slot(m) =>
           \/ t \in Consumers /\ seq[Slot(m)].n = m - N + 1
           \/ /\ t \in Producers /\ Stored(t).n = m + 1 /\ m < tail
              /\ seq[Slot(m)].n = m
  BY <1>4, SlotOf
<1>6. m # m - N + 1 /\ m # m + 1 /\ m + 1 # m - N + 1
  BY <1>2
<1> QED BY <1>4, <1>5, <1>6

\* A slot published for a position from the head on is that of an accepted push.
LEMMA PublishedFor ==
  ASSUME Calls, SlotsInTurn, NEW m \in Nat, m >= head, seq[Slot(m)].n = m + 1
  PROVE  /\ m \in Window /\ m < tail
         /\ \A t \in Waiters : Stores(t) => StoredSlot(t) # Slot(m)
<1>1. PICK q \in Window : Slot(q) = Slot(m) /\ (q = m \/ q + N <= m)
  BY WindowOf
<1>2. q \in Nat /\ N \in Nat /\ N >= 2
  BY WindowOf
<1>3. q = m
  <2>1. seq[Slot(m)].n = q \/ seq[Slot(m)].n = q + 1 \/ seq[Slot(m)].n = q - N + 1
    BY <1>1, SlotOf
  <2>2. CASE q + N <= m
    BY <1>2, <2>1, <2>2
  <2> QED BY <1>1, <1>2, <2>2
<1>4. m \in Window
  BY <1>1, <1>3
<1>5. /\ \/ seq[Slot(m)] = Word(m, FALSE) /\ seq[Slot(m)].n = m
         \/ seq[Slot(m)].n = m + 1 /\ m < tail
         \/ seq[Slot(m)].n = m - N + 1
      /\ \A t \in Waiters : Stores(t) /\ StoredSlot(t) = Slot(m) =>
           \/ t \in Consumers /\ seq[Slot(m)].n = m - N + 1
           \/ /\ t \in Producers /\ Stored(t).n = m + 1 /\ m < tail
              /\ seq[Slot(m)].n = m
  BY <1>4, SlotOf
<1>6. m # m - N + 1 /\ m # m + 1 /\ m + 1 # m - N + 1
  BY <1>2
<1> QED BY <1>4, <1>5, <1>6

\* What a fenced thread loads is what memory holds.
LEMMA LoadFenced ==
  ASSUME NEW t, NEW q, Fenced(t)
  PROVE  Load(t, q) = seq[Slot(q)]
  BY DEF Load

(* ------------------- steps that leave the ring alone --------------------- *)
\* Stores and tickets stay as they are, and who still has to notify stays so.
LEMMA RingStays ==
  ASSUME Calls, RingInv, UNCHANGED fixed, NEW t \in Waiters, OthersStay(t),
         UNCHANGED <<tail, head, seq, pos, late>>, closed => closed',
         \A u \in Waiters : Stores(u) \/ Stores(u)' => buffer'[u] = buffer[u],
         \A p \in Producers : Holds(p)' => Holds(p),
         Stores(t) => Doing(t)[1] \notin {"look", "advance"} \/ stack'[t] = stack[t]
  PROVE  RingInv'
<1>1. \A u \in Waiters : /\ Stores(u)' <=> Stores(u)
                         /\ Stores(u) => StoredSlot(u)' = StoredSlot(u) /\ Stored(u)' = Stored(u)
  BY DEF Stores, StoredSlot, Stored
<1>2. Window' = Window
  BY DEF Window
<1>3. SlotsInTurn'
  <2>1. head' = head /\ tail' = tail /\ seq' = seq
    OBVIOUS
  <2>2. SlotsInTurn
    BY DEF RingInv
  <2> SUFFICES ASSUME NEW q \in Window
               PROVE  /\ \/ seq[Slot(q)] = Word(q, FALSE)
                         \/ seq[Slot(q)].n = q + 1 /\ q < tail
                         \/ /\ seq[Slot(q)].n = q - N + 1
                            /\ \E u \in Consumers : Stores(u)' /\ StoredSlot(u)' = Slot(q)
                      /\ \A u \in Waiters : Stores(u)' /\ StoredSlot(u)' = Slot(q) =>
                           \/ /\ u \in Consumers /\ Stored(u)' = Word(q, FALSE)
                              /\ seq[Slot(q)].n = q - N + 1
                           \/ /\ u \in Producers /\ Stored(u)'.n = q + 1 /\ q < tail
                              /\ seq[Slot(q)] = Word(q, FALSE)
    BY <1>2, <2>1, <2>2 DEF SlotsInTurn
  <2>3. ASSUME NEW u \in Consumers, Stores(u), StoredSlot(u) = Slot(q)
        PROVE  \E v \in Consumers : Stores(v)' /\ StoredSlot(v)' = Slot(q)
    BY <1>1, <2>3, Roles
  <2>4. ASSUME NEW u \in Waiters, Stores(u)', StoredSlot(u)' = Slot(q)
        PROVE  Stores(u) /\ StoredSlot(u) = Slot(q) /\ Stored(u)' = Stored(u)
    BY <1>1, <2>4
  <2> QED BY <2>2, <2>3, <2>4 DEF SlotsInTurn
<1>4. OneStore'
  BY <1>1 DEF RingInv, OneStore
<1>5. TicketsHeld'
  BY <1>1, Roles DEF RingInv, TicketsHeld
<1>6. StoresAnnounced'
  <2> SUFFICES ASSUME NEW u \in Waiters, Stores(u)'
               PROVE  /\ u \in Producers => Tells(u, "not_empty")' \/ closed'
                      /\ u \in Consumers /\ FullWakeEvery = 1 => Tells(u, "not_full")'
    BY DEF StoresAnnounced
  <2>1. /\ u \in Producers => Tells(u, "not_empty") \/ closed
        /\ u \in Consumers /\ FullWakeEvery = 1 => Tells(u, "not_full")
    BY <1>1 DEF RingInv, StoresAnnounced
  <2>2. \A e : Tells(u, e) => Tells(u, e)'
    BY <1>1 DEF Tells, Doing, OthersStay
  <2> QED BY <2>1, <2>2
<1> QED BY <1>3, <1>4, <1>5, <1>6 DEF RingInv

(* --------------------- what a step leaves on a stack --------------------- *)
\* A notification leaves what is below it.
LEMMA DropsKeep ==
  ASSUME Calls, NEW t \in Waiters, NEW f, Drops(t, f), f[1] \in Noticed,
         NEW labels, labels \cap Noticed = {}
  PROVE  Has(stack'[t], labels) <=> Has(stack[t], labels)
<1>0. f[1] \notin labels
  BY DEF Noticed
<1>1. /\ \A a : Has(<<f, a>>, labels) <=> Has(<<a>>, labels)
      /\ \A a, b : Has(<<f, a, b>>, labels) <=> Has(<<a, b>>, labels)
      /\ \A a, b, c : Has(<<f, a, b, c>>, labels) <=> Has(<<a, b, c>>, labels)
  BY <1>0, HasOf
<1>2. \/ \E a : Goes(t, <<f, a>>, <<a>>)
      \/ \E a, b : Goes(t, <<f, a, b>>, <<a, b>>)
      \/ \E a, b, c : Goes(t, <<f, a, b, c>>, <<a, b, c>>)
  BY DEF Drops
<1> QED BY <1>1, <1>2 DEF Goes

\* A notification that goes on leaves what is below it.
LEMMA BecomesKeeps ==
  ASSUME Calls, NEW t \in Waiters, NEW f, NEW g, Becomes(t, f, g),
         f[1] \in Noticed, g[1] \in Noticed, NEW labels, labels \cap Noticed = {}
  PROVE  Has(stack'[t], labels) <=> Has(stack[t], labels)
<1>0. f[1] \notin labels /\ g[1] \notin labels
  BY DEF Noticed
<1>1. /\ \A a : Has(<<f, a>>, labels) <=> Has(<<g, a>>, labels)
      /\ \A a, b : Has(<<f, a, b>>, labels) <=> Has(<<g, a, b>>, labels)
      /\ \A a, b, c : Has(<<f, a, b, c>>, labels) <=> Has(<<g, a, b, c>>, labels)
  BY <1>0, HasOf
<1>2. \/ \E a : Goes(t, <<f, a>>, <<g, a>>)
      \/ \E a, b : Goes(t, <<f, a, b>>, <<g, a, b>>)
      \/ \E a, b, c : Goes(t, <<f, a, b, c>>, <<g, a, b, c>>)
  BY DEF Becomes
<1> QED BY <1>1, <1>2 DEF Goes

\* What t does after a notification is not a wait, nor the notification of another count.
LEMMA DropsTo ==
  ASSUME Calls, NEW t \in Waiters, NEW f, Drops(t, f)
  PROVE  /\ t # Closer =>
              Doing(t)'[1] \in {"idle", "cancel", "chain", "try", "recheck", "left"}
         /\ t = Closer => \/ Doing(t)' = <<"closed">>
                          \/ /\ Doing(t)' = <<"advance", "not_full", "all">>
                             /\ Doing(t) = <<"advance", "not_empty", "all">>
<1>1. CASE t \in Producers
  <2>1. stack'[t] \in {<<Idle>>, << <<"cancel">>, Idle>>, << <<"chain">>, Idle>>,
                       << <<"cancel">>, <<"chain">>, Idle>>}
    BY <1>1, Roles DEF Drops, Goes
  <2> QED BY <1>1, <2>1, Roles DEF Doing, Idle
<1>2. CASE t \in Consumers
  <2>1. stack'[t] \in {<< <<"try">> >>, << <<"recheck">> >>, << <<"left">> >>,
                       << <<"cancel">>, <<"try">> >>, << <<"chain">>, <<"try">> >>}
    BY <1>2, Roles DEF Drops, Goes
  <2> QED BY <1>2, <2>1, Roles DEF Doing
<1>3. CASE t = Closer
  <2>1. \/ stack'[t] = << <<"closed">> >>
        \/ /\ stack'[t] = << <<"advance", "not_full", "all">>, <<"closed">> >>
           /\ stack[t] = << <<"advance", "not_empty", "all">>, <<"advance", "not_full", "all">>,
                           <<"closed">> >>
    BY <1>3, Roles DEF Drops, Goes
  <2> QED BY <1>3, <2>1 DEF Doing
<1> QED BY <1>1, <1>2, <1>3, Roles

\* The frame that a notification goes on with is the next thing to do.
LEMMA BecomesTo ==
  ASSUME Calls, NEW t \in Waiters, NEW f, NEW g, Becomes(t, f, g)
  PROVE  t # Closer /\ Doing(t) = f /\ Doing(t)' = g
  BY Roles DEF Becomes, Goes, Doing

\* The steps of a notification by their effect on the notifier.
NoticeSteps(t) ==
  \/ NotifyLook(t) /\ UNCHANGED <<ring, calling>>
  \/ /\ At(t, "claim") /\ WakeInFlight(Doing(t)[2]) /\ Then(t, <<>>)
     /\ UNCHANGED <<counts, buffer, ring, calling>>
  \/ Claims(t) \/ Advances(t) \/ Wakes(t) \/ WakesAll(t)

\* A step of a notification ends it or goes on with it.
LEMMA NoticeStepsMove ==
  ASSUME Calls, NEW t \in Waiters, NoticeSteps(t)
  PROVE  /\ OthersStay(t) /\ Doing(t)[1] \in Noticed
         /\ \/ Drops(t, Doing(t)) /\ ~Claims(t) /\ ~Advances(t)
            \/ /\ NotifyLook(t) /\ AnyWaiter(Doing(t)[2]) /\ t # Closer
               /\ Becomes(t, Doing(t), <<IF Doing(t)[3] = "one" THEN "claim" ELSE "advance",
                                         Doing(t)[2], Doing(t)[3]>>)
            \/ /\ Claims(t) /\ t # Closer
               /\ Becomes(t, Doing(t), <<"advance", Doing(t)[2], "one">>)
            \/ /\ Advances(t) /\ t # Closer
               /\ Becomes(t, Doing(t), <<"wake", Doing(t)[2], "one">>)
<1>1. Doing(t)[1] \in Noticed
  BY DEF NoticeSteps, NotifyLook, Claims, Advances, Wakes, WakesAll, NotifyAdvance, NotifyWake,
         NotifyAll, At, Noticed
<1>2. Claims(t) => ~NotifyLook(t) /\ ~Advances(t) /\ ~Wakes(t) /\ ~WakesAll(t)
  BY DEF Claims, NotifyLook, Advances, Wakes, WakesAll, NotifyAdvance, NotifyWake, NotifyAll, At
<1>3. Advances(t) => ~NotifyLook(t) /\ ~Claims(t) /\ ~Wakes(t) /\ ~WakesAll(t) /\ ~At(t, "claim")
  BY DEF Claims, NotifyLook, Advances, Wakes, WakesAll, NotifyAdvance, NotifyWake, NotifyAll, At
<1>4. CASE NotifyLook(t)
  <2>1. CASE ~AnyWaiter(Doing(t)[2])
    <3>1. Then(t, <<>>)
      BY <1>4, <2>1 DEF NotifyLook
    <3> QED BY <1>1, <1>2, <1>3, <1>4, <3>1, NoticeDrops
  <2>2. CASE AnyWaiter(Doing(t)[2])
    <3>1. Then(t, << <<IF Doing(t)[3] = "one" THEN "claim" ELSE "advance",
                      Doing(t)[2], Doing(t)[3]>> >>)
      BY <1>4, <2>2 DEF NotifyLook
    <3>2. t # Closer /\ Doing(t)[3] # "all"
      BY <1>1, <1>4, NoticeOf DEF NotifyLook, At
    <3> QED BY <1>1, <1>4, <2>2, <3>1, <3>2, NoticeBecomes
  <2> QED BY <2>1, <2>2
<1>5. CASE At(t, "claim") /\ WakeInFlight(Doing(t)[2]) /\ Then(t, <<>>)
  <2>1. ~Claims(t)
    BY <1>5 DEF Claims
  <2> QED BY <1>1, <1>3, <1>5, <2>1, NoticeDrops
<1>6. CASE Claims(t)
  <2>1. t # Closer /\ Doing(t)[3] # "all"
    BY <1>1, <1>6, NoticeOf DEF Claims, At
  <2>2. Then(t, << <<"advance", Doing(t)[2], "one">> >>)
    BY <1>6 DEF Claims
  <2> QED BY <1>1, <1>6, <2>1, <2>2, NoticeBecomes
<1>7. CASE Advances(t)
  <2>1. Then(t, << <<"wake", Doing(t)[2], "one">> >>) /\ Doing(t)[3] = "one"
    BY <1>7 DEF Advances, NotifyAdvance
  <2>2. t # Closer
    BY <1>1, <2>1, NoticeOf
  <2> QED BY <1>1, <1>7, <2>1, <2>2, NoticeBecomes
<1>8. CASE Wakes(t) \/ WakesAll(t)
  <2>1. Then(t, <<>>)
    BY <1>8 DEF Wakes, WakesAll, NotifyWake, NotifyAll
  <2> QED BY <1>1, <1>2, <1>3, <1>8, <2>1, NoticeDrops
<1> QED BY <1>4, <1>5, <1>6, <1>7, <1>8 DEF NoticeSteps

\* A step of a notification leaves what its notifier does after it.
LEMMA NoticeStepsKeep ==
  ASSUME Calls, NEW t \in Waiters, NoticeSteps(t), NEW labels, labels \cap Noticed = {}
  PROVE  Has(stack'[t], labels) <=> Has(stack[t], labels)
<1>1. Doing(t)[1] \in Noticed
  BY NoticeStepsMove
<1>2. CASE Drops(t, Doing(t))
  BY <1>1, <1>2, DropsKeep
<1>3. CASE \E g : Becomes(t, Doing(t), g) /\ g[1] \in Noticed
  BY <1>1, <1>3, BecomesKeeps
<1>4. ASSUME NEW l \in Noticed, NEW e, NEW how, Becomes(t, Doing(t), <<l, e, how>>)
      PROVE  Has(stack'[t], labels) <=> Has(stack[t], labels)
  BY <1>3, <1>4
<1>5. \/ Drops(t, Doing(t))
      \/ \E l \in Noticed : \E e, how : Becomes(t, Doing(t), <<l, e, how>>)
  <2>1. /\ (IF Doing(t)[3] = "one" THEN "claim" ELSE "advance") \in Noticed
        /\ "advance" \in Noticed /\ "wake" \in Noticed
    BY DEF Noticed
  <2> QED BY <2>1, NoticeStepsMove
<1> QED BY <1>2, <1>4, <1>5

\* The looks of a call, which are not those of a notification.
CallLooks(t) ==
  \/ t \in Producers /\ (\/ PushClosed(t) \/ ChainFullWake(t) \/ PrecheckClosed(t)
                         \/ AwaitTurn(t))
  \/ t \in Consumers /\ (\/ PopEmpty(t) \/ PopSleep(t) \/ PopAgain(t) \/ ChainBurst(t))

\* A look is that of a call or that of a notification.
LEMMA LooksAre ==
  ASSUME NEW t \in Waiters, Looks(t)
  PROVE  CallLooks(t) \/ NoticeSteps(t)
  BY DEF Looks, CallLooks, NoticeSteps

\* Only the ticket gives a producer a position.
LEMMA HoldsIs ==
  ASSUME NEW p
  PROVE  /\ Reserve = "cas" => ~Holds(p)
         /\ Reserve = "ticket" => (Holds(p) <=> Has(stack[p], {"turn", "recheck"}))
  BY DEF Holds

\* A waiter that announces itself or withdraws holds no position that it did not hold.
LEMMA WaitersHold ==
  ASSUME Calls, NEW t \in Waiters, t \in Producers, Reserve = "ticket",
         Doing(t)[1] \in {"turn", "recheck", "key", "announce", "cancel", "wait"}
  PROVE  Holds(t)
<1>1. \/ stack[t] \in {<< <<"turn">>, Idle>>, << <<"recheck">>, Idle>>}
      \/ stack[t] \in {<< <<"key">>, <<"recheck">>, Idle>>, << <<"announce">>, <<"recheck">>, Idle>>,
                       << <<"cancel">>, <<"turn">>, Idle>>, << <<"wait">>, <<"turn">>, Idle>>}
  BY ProducerAt DEF At
<1>2. Has(stack[t], {"turn", "recheck"})
  BY <1>1, HasOf DEF Idle
<1> QED BY <1>2, HoldsIs

\* Nor does a thread that does not move.
LEMMA OthersHold ==
  ASSUME NEW t \in Waiters, OthersStay(t), UNCHANGED fixed
  PROVE  \A p \in Producers : p # t => (Holds(p)' <=> Holds(p))
  BY Roles DEF OthersStay, Holds, fixed, Has

\* Nor does one that looks at the ring.
LEMMA CallLooksHold ==
  ASSUME Calls, UNCHANGED fixed, NEW t \in Waiters, CallLooks(t), t \in Producers
  PROVE  Holds(t)' => Holds(t)
<1>1. CASE Reserve = "cas"
  BY <1>1 DEF Holds, fixed
<1>2. CASE Reserve = "ticket"
  <2>1. PrecheckClosed(t) \/ AwaitTurn(t)
    BY <1>2, Roles, PushClosedMoves, ChainFullWakeMoves DEF CallLooks
  <2>2. CASE PrecheckClosed(t)
    <3>1. stack'[t] \in {<<Idle>>, << <<"ticket">>, Idle>>}
      BY <2>2, PrecheckClosedMoves DEF Goes
    <3>2. ~Has(stack'[t], {"turn", "recheck"})
      BY <3>1, HasOf DEF Idle
    <3> QED BY <3>2 DEF Holds
  <2>3. CASE AwaitTurn(t)
    <3>1. Doing(t)[1] \in {"turn", "recheck"}
      BY <2>3 DEF AwaitTurn, At
    <3> QED BY <1>2, <3>1, WaitersHold
  <2> QED BY <2>1, <2>2, <2>3
<1> QED BY <1>1, <1>2, CallsOf

\* Nor does one that notifies.
LEMMA NoticeStepsHold ==
  ASSUME Calls, UNCHANGED fixed, NEW t \in Waiters, NoticeSteps(t)
  PROVE  Holds(t)' => Holds(t)
<1>1. Has(stack'[t], {"turn", "recheck"}) <=> Has(stack[t], {"turn", "recheck"})
  BY NoticeStepsKeep DEF Noticed
<1> QED BY <1>1 DEF Holds, fixed

\* The steps of a waiter.
WaitingSteps(t) == Keys(t) \/ Announces(t) \/ Cancels(t) \/ Leaves(t)

\* A step of a waiter moves a worker or a producer from one of four places.
LEMMA WaitingStepsMove ==
  ASSUME Calls, NEW t \in Waiters, WaitingSteps(t)
  PROVE  /\ OthersStay(t) /\ t # Closer
         /\ Doing(t)[1] \in {"key", "announce", "cancel", "wait"}
<1>1. Doing(t)[1] \in {"key", "announce", "cancel", "wait"}
  BY DEF WaitingSteps, Keys, Announces, Cancels, Leaves, At
<1>2. OthersStay(t)
  BY WaiterRight DEF WaitingSteps, Keys, Announces, Cancels, Leaves
<1> QED BY <1>1, <1>2, WaitPlaces

\* The steps of a waiter give it no position.
LEMMA WaitingStepsHold ==
  ASSUME Calls, UNCHANGED fixed, NEW t \in Waiters, WaitingSteps(t), t \in Producers
  PROVE  Holds(t)' => Holds(t)
<1>1. CASE Reserve = "cas"
  BY <1>1 DEF Holds, fixed
<1>2. CASE Reserve = "ticket"
  BY <1>2, WaitingStepsMove, WaitersHold
<1> QED BY <1>1, <1>2, CallsOf

\* The steps whose effect on the ring's books is none.
LEMMA CountStepsRing ==
  ASSUME Calls, RingInv, UNCHANGED fixed, CountSteps
  PROVE  RingInv'
<1>1. PICK t \in Waiters : \/ Keys(t) \/ Announces(t) \/ Cancels(t) \/ Sleeps(t) \/ Leaves(t)
                           \/ Claims(t) \/ Advances(t) \/ Wakes(t) \/ WakesAll(t) \/ ClearArrives(t)
  BY DEF CountSteps
<1>2. UNCHANGED <<tail, head, seq, pos, late>> /\ (closed => closed') /\ SleepsOn(t) \in Counts
  BY <1>1, CountStepLeaves, Roles DEF ring, calling
<1>3. \A u \in Waiters : Stores(u) \/ Stores(u)' => buffer'[u] = buffer[u]
  <2>1. CASE UNCHANGED buffer
    BY <2>1
  <2>2. CASE buffer' = [buffer EXCEPT ![t] = <<ClearPending(SleepsOn(t))>>] /\ Fenced(t)
    <3>1. ~Stores(t)
      BY <2>2 DEF Stores, Fenced
    <3>2. \A u \in Waiters : u # t => buffer'[u] = buffer[u]
      BY <1>2, <2>2, ClearBuffers
    <3>3. ~Stores(t)'
      BY <1>2, <2>2, ClearBuffers
    <3>4. ASSUME NEW u \in Waiters, Stores(u) \/ Stores(u)' PROVE u # t
      BY <3>1, <3>3, <3>4
    <3> QED BY <3>2, <3>4
  <2>3. CASE ClearArrives(t)
    <3>1. ~Stores(t) /\ buffer[t] # <<>>
      BY <2>3 DEF ClearArrives, FlushClear, Stores, Fenced
    <3>2. buffer' = [buffer EXCEPT ![t] = Tail(@)]
      BY <2>3 DEF ClearArrives, FlushClear
    <3>3. BufferTypes
      BY DEF Calls, StateTypes
    <3>4. \E e \in Counts : buffer[t] = <<ClearPending(e)>>
      BY <3>1, <3>3 DEF BufferTypes, Stores, IsClear
    <3>5. Tail(buffer[t]) = <<>>
      BY <3>4
    <3>6. buffer' = [buffer EXCEPT ![t] = <<>>]
      BY <3>2, <3>3, <3>5 DEF BufferTypes
    <3>7. ~Stores(t)' /\ \A u \in Waiters : u # t => buffer'[u] = buffer[u]
      BY <3>6, FlushBuffers
    <3>8. ASSUME NEW u \in Waiters, Stores(u) \/ Stores(u)' PROVE u # t
      BY <3>1, <3>7, <3>8
    <3> QED BY <3>7, <3>8
  <2>4. CASE Leaves(t) /\ SleepsOn(t) \notin Outline
    BY <2>2, <2>4 DEF Leaves, LeaveWait
  <2>5. CASE Leaves(t) /\ SleepsOn(t) \in Outline
    BY <2>1, <2>5 DEF Leaves, LeaveWait
  <2>6. CASE Announces(t)
    BY <2>2, <2>6 DEF Announces, Announce
  <2>7. CASE Keys(t) \/ Cancels(t) \/ Sleeps(t) \/ Claims(t) \/ Advances(t) \/ Wakes(t) \/ WakesAll(t)
    BY <2>1, <2>7 DEF Keys, ReadKey, Cancels, CancelWait, Sleeps, Sleep, Claims, ClaimWake,
       Advances, NotifyAdvance, Advance, Wakes, NotifyWake, WakeOne,
       WakesAll, NotifyAll, AdvanceAndWakeAll
  <2> QED BY <1>1, <2>3, <2>4, <2>5, <2>6, <2>7
<1>4. OthersStay(t)
  <2>1. CASE Sleeps(t) \/ ClearArrives(t)
    BY <2>1 DEF Sleeps, ClearArrives, FlushClear, OthersStay, Calls, StateTypes
  <2>2. CASE WaitingSteps(t)
    BY <2>2, WaitingStepsMove
  <2>3. CASE NoticeSteps(t)
    BY <2>3, NoticeStepsMove
  <2> QED BY <1>1, <2>1, <2>2, <2>3 DEF WaitingSteps, NoticeSteps
<1>5. t \in Producers => (Holds(t)' => Holds(t))
  <2>1. CASE Sleeps(t) \/ ClearArrives(t)
    <3>1. UNCHANGED stack
      BY <2>1 DEF Sleeps, ClearArrives, FlushClear
    <3> QED BY <3>1 DEF Holds, fixed
  <2>2. CASE WaitingSteps(t)
    BY <2>2, WaitingStepsHold
  <2>3. CASE NoticeSteps(t)
    BY <2>3, NoticeStepsHold
  <2> QED BY <1>1, <2>1, <2>2, <2>3 DEF WaitingSteps, NoticeSteps
<1>6. \A p \in Producers : Holds(p)' => Holds(p)
  BY <1>4, <1>5, OthersHold
<1>7. Stores(t) => Doing(t)[1] \notin {"look", "advance"} \/ stack'[t] = stack[t]
  <2>1. CASE Sleeps(t) \/ ClearArrives(t)
    BY <2>1 DEF Sleeps, ClearArrives, FlushClear
  <2>2. CASE WaitingSteps(t) \/ Claims(t) \/ Wakes(t)
    BY <2>2, WaitingStepsMove DEF Claims, Wakes, NotifyWake, At
  <2>3. CASE Advances(t) \/ WakesAll(t)
    BY <2>3 DEF Advances, WakesAll, NotifyAdvance, NotifyAll, Advance, AdvanceAndWakeAll, Fenced, Stores
  <2> QED BY <1>1, <2>1, <2>2, <2>3 DEF WaitingSteps
<1> QED BY <1>2, <1>3, <1>4, <1>6, <1>7, RingStays

\* Looks, full rings and close leave the books of the ring alone.
LEMMA OtherStepsRing ==
  ASSUME Calls, RingInv, UNCHANGED fixed, OtherSteps
  PROVE  RingInv'
<1>1. ASSUME NEW t \in Waiters, OthersStay(t),
             UNCHANGED <<tail, head, seq, buffer, pos, late>>, closed => closed',
             t \in Producers => (Holds(t)' => Holds(t)),
             Stores(t) => Doing(t)[1] \notin {"look", "advance"}
      PROVE  RingInv'
  <2>1. \A p \in Producers : Holds(p)' => Holds(p)
    BY <1>1, OthersHold
  <2>2. \A u \in Waiters : Stores(u) \/ Stores(u)' => buffer'[u] = buffer[u]
    BY <1>1
  <2> QED BY <1>1, <2>1, <2>2, RingStays
<1>2. ASSUME NEW p \in Producers, BeginPush(p) PROVE RingInv'
  <2>1. /\ OthersStay(p) /\ p \in Waiters
        /\ UNCHANGED <<tail, head, seq, buffer, pos, late>> /\ (closed => closed')
    BY <1>2, BeginPushMoves, Roles DEF BeginPush, ring
  <2>2. ~Holds(p)'
    <3>1. stack'[p] = << <<"precheck">>, Idle>> \/ Reserve = "cas"
      BY <1>2, BeginPushMoves DEF Goes
    <3>2. ~Has(stack'[p], {"turn", "recheck"}) \/ Reserve = "cas"
      BY SMTT(30), <3>1, HasOf DEF Idle
    <3> QED BY <3>2 DEF Holds, fixed
  <2>3. Doing(p)[1] \notin {"look", "advance"}
    BY <1>2 DEF BeginPush, At
  <2> QED BY <1>1, <2>1, <2>2, <2>3
<1>3. ASSUME NEW p \in Producers, PushFull(p) PROVE RingInv'
  <2>1. /\ OthersStay(p) /\ p \in Waiters /\ Reserve = "cas"
        /\ UNCHANGED <<tail, head, seq, buffer, pos, late>> /\ (closed => closed')
    BY <1>3, PushFullMoves, Roles DEF PushFull, ring
  <2>2. ~Holds(p)'
    BY <2>1 DEF Holds, fixed
  <2>3. Doing(p)[1] \notin {"look", "advance"}
    BY <1>3 DEF PushFull, Trying, At
  <2> QED BY <1>1, <2>1, <2>2, <2>3
<1>4. ASSUME NEW t \in Waiters, Looks(t) PROVE RingInv'
  <2>1. /\ OthersStay(t)
        /\ UNCHANGED <<tail, head, seq, buffer, pos, late>> /\ (closed => closed')
    BY <1>4, LooksRight, LooksLeave DEF ring, calling
  <2>2. t \in Producers => (Holds(t)' => Holds(t))
    BY <1>4, LooksAre, CallLooksHold, NoticeStepsHold
  <2>3. Stores(t) => Doing(t)[1] \notin {"look", "advance"}
    BY <1>4 DEF Looks, PushClosed, Trying, ChainFullWake, PrecheckClosed, AwaitTurn, PopEmpty,
       PopSleep, PopAgain, ChainBurst, NotifyLook, At, Fenced, Stores
  <2> QED BY <1>1, <2>1, <2>2, <2>3
<1>5. ASSUME Close PROVE RingInv'
  <2>1. /\ OthersStay(Closer) /\ Closer \in Waiters /\ Closer \notin Producers
        /\ UNCHANGED <<tail, head, seq, buffer, pos, late>> /\ (closed => closed')
    BY <1>5, CloseMoves, Roles DEF Close, calling
  <2>2. Doing(Closer)[1] \notin {"look", "advance"}
    BY <1>5 DEF Close, At
  <2> QED BY <1>1, <2>1, <2>2
<1> QED BY <1>2, <1>3, <1>4, <1>5 DEF OtherSteps

(* ---------------------- steps that store to the ring --------------------- *)
\* A new store leaves the stores of the others.
LEMMA StoreAdds ==
  ASSUME Calls, NEW t \in Waiters, NEW q \in Nat, NEW w \in AnyWord, Store(t, q, w)
  PROVE  /\ Fenced(t) /\ ~Stores(t)
         /\ Stores(t)' /\ StoredSlot(t)' = Slot(q) /\ Stored(t)' = w
         /\ \A u \in Waiters : u # t =>
              /\ Stores(u)' <=> Stores(u)
              /\ Stores(u) => StoredSlot(u)' = StoredSlot(u) /\ Stored(u)' = Stored(u)
         /\ OneStore /\ (\A u \in Waiters : Stores(u) => StoredSlot(u) # Slot(q)) => OneStore'
<1>1. /\ Fenced(t) /\ ~Stores(t)
      /\ Stores(t)' /\ StoredSlot(t)' = Slot(q) /\ Stored(t)' = w
  BY StoreBuffers DEF Fenced, Stores
<1>2. \A u \in Waiters : u # t => buffer'[u] = buffer[u]
  BY StoreBuffers
<1>3. \A u \in Waiters : u # t =>
        /\ Stores(u)' <=> Stores(u)
        /\ Stores(u) => StoredSlot(u)' = StoredSlot(u) /\ Stored(u)' = Stored(u)
  BY <1>2 DEF Stores, StoredSlot, Stored
<1>4. ASSUME OneStore, \A u \in Waiters : Stores(u) => StoredSlot(u) # Slot(q) PROVE OneStore'
  BY <1>1, <1>3, <1>4 DEF OneStore
<1> QED BY <1>1, <1>3, <1>4

\* Whoever has stored still has to notify if it did not move.
LEMMA TellsStay ==
  ASSUME StoresAnnounced, NEW t \in Waiters, OthersStay(t), closed => closed',
         \A u \in Waiters : u # t => (Stores(u)' => Stores(u)),
         Stores(t)' => /\ t \in Producers => Tells(t, "not_empty")' \/ closed'
                       /\ t \in Consumers /\ FullWakeEvery = 1 => Tells(t, "not_full")'
  PROVE  StoresAnnounced'
<1> SUFFICES ASSUME NEW u \in Waiters, Stores(u)'
             PROVE  /\ u \in Producers => Tells(u, "not_empty")' \/ closed'
                    /\ u \in Consumers /\ FullWakeEvery = 1 => Tells(u, "not_full")'
  BY DEF StoresAnnounced
<1>1. CASE u = t
  BY <1>1
<1>2. CASE u # t
  <2>1. /\ u \in Producers => Tells(u, "not_empty") \/ closed
        /\ u \in Consumers /\ FullWakeEvery = 1 => Tells(u, "not_full")
    BY <1>2 DEF StoresAnnounced
  <2>2. \A e : Tells(u, e) => Tells(u, e)'
    BY <1>2 DEF Tells, Doing, OthersStay
  <2> QED BY <2>1, <2>2
<1> QED BY <1>1, <1>2

\* The first frame of a notification tells.
LEMMA NotifyTells ==
  ASSUME NEW e \in Counts, NEW how
  PROVE  Notify(e, how)[1] \in {"look", "advance"} /\ Notify(e, how)[2] = e
  BY DEF Notify

\* A push that succeeds keeps the books of the ring: it has the tail to itself.
LEMMA PushOkRing ==
  ASSUME Calls, RingInv, UNCHANGED fixed, NEW p \in Producers, PushOk(p)
  PROVE  RingInv'
<1>1. /\ p \in Waiters /\ p \notin Consumers /\ OthersStay(p) /\ Reserve = "cas"
      /\ tail' = tail + 1 /\ Store(p, tail, Word(tail + 1, FALSE)) /\ Room(p)
      /\ head' = head /\ seq' = seq /\ closed' = closed
  BY PushOkMoves, Roles DEF PushOk
<1>2. /\ head \in Nat /\ tail \in Nat /\ head <= tail /\ SlotsInTurn /\ OneStore
      /\ Word(tail + 1, FALSE) \in AnyWord
  BY WindowOf DEF RingInv, SlotsInTurn, AnyWord, Word
<1>3. seq[Slot(tail)].n = tail
  BY <1>1, LoadFenced DEF Room, Store
<1>4. /\ tail \in Window /\ seq[Slot(tail)] = Word(tail, FALSE)
      /\ \A t \in Waiters : Stores(t) => StoredSlot(t) # Slot(tail)
  <2>1. /\ tail \in Window /\ seq[Slot(tail)] = Word(tail, FALSE)
        /\ \A t \in Waiters : Stores(t) /\ StoredSlot(t) = Slot(tail) => tail < tail
    BY <1>2, <1>3, FreeFor
  <2>2. ~(tail < tail)
    BY <1>2
  <2> QED BY <2>1, <2>2
<1>5. /\ OneStore' /\ Stores(p)' /\ StoredSlot(p)' = Slot(tail) /\ Stored(p)' = Word(tail + 1, FALSE)
      /\ \A u \in Waiters : u # p =>
              /\ Stores(u)' <=> Stores(u)
              /\ Stores(u) => StoredSlot(u)' = StoredSlot(u) /\ Stored(u)' = Stored(u)
  BY <1>1, <1>2, <1>4, StoreAdds
<1>6. SlotsInTurn'
  <2>1. Window' = Window /\ head' <= tail'
    BY <1>1, <1>2 DEF Window
  <2> SUFFICES ASSUME NEW q \in Window
               PROVE  /\ \/ seq[Slot(q)] = Word(q, FALSE)
                         \/ seq[Slot(q)].n = q + 1 /\ q < tail + 1
                         \/ /\ seq[Slot(q)].n = q - N + 1
                            /\ \E u \in Consumers : Stores(u)' /\ StoredSlot(u)' = Slot(q)
                      /\ \A u \in Waiters : Stores(u)' /\ StoredSlot(u)' = Slot(q) =>
                           \/ /\ u \in Consumers /\ Stored(u)' = Word(q, FALSE)
                              /\ seq[Slot(q)].n = q - N + 1
                           \/ /\ u \in Producers /\ Stored(u)'.n = q + 1 /\ q < tail + 1
                              /\ seq[Slot(q)] = Word(q, FALSE)
    BY <1>1, <2>1 DEF SlotsInTurn
  <2>2. q \in Nat /\ (q < tail => q < tail + 1)
    BY <1>2, WindowOf
  <2>3. ASSUME NEW u \in Consumers, Stores(u), StoredSlot(u) = Slot(q)
        PROVE  \E v \in Consumers : Stores(v)' /\ StoredSlot(v)' = Slot(q)
    BY <1>1, <1>5, <2>3, Roles
  <2>4. ASSUME NEW u \in Waiters, u # p, Stores(u)', StoredSlot(u)' = Slot(q)
        PROVE  Stores(u) /\ StoredSlot(u) = Slot(q) /\ Stored(u)' = Stored(u)
    BY <1>5, <2>4
  <2>5. ASSUME StoredSlot(p)' = Slot(q)
        PROVE  /\ Stored(p)'.n = q + 1 /\ q < tail + 1 /\ seq[Slot(q)] = Word(q, FALSE)
    <3>1. q = tail
      BY <1>4, <1>5, <2>5, WindowOf
    <3> QED BY <1>2, <1>4, <1>5, <3>1 DEF Word
  <2>6. SlotsInTurn
    BY <1>2
  <2> QED BY <2>2, <2>3, <2>4, <2>5, <2>6 DEF SlotsInTurn
<1>7. TicketsHeld'
  BY <1>1 DEF TicketsHeld, Holds, fixed
<1>8. StoresAnnounced'
  <2>1. Tells(p, "not_empty")'
    <3>1. Doing(p)' = Notify("not_empty", "one")
      BY <1>1, PushOkMoves DEF Goes, Doing
    <3> QED BY <3>1, NotifyTells, Roles DEF Tells
  <2>2. StoresAnnounced
    BY DEF RingInv
  <2> QED BY <1>1, <1>5, <2>1, <2>2, TellsStay
<1> QED BY <1>5, <1>6, <1>7, <1>8 DEF RingInv

\* So does the taking of a ticket: nobody else has that position.
LEMMA TakeTicketRing ==
  ASSUME Calls, RingInv, UNCHANGED fixed, NEW p \in Producers, TakeTicket(p)
  PROVE  RingInv'
<1>1. /\ p \in Waiters /\ p \notin Consumers /\ OthersStay(p) /\ Fenced(p)
      /\ tail' = tail + 1 /\ pos' = [pos EXCEPT ![p] = tail] /\ late' = [late EXCEPT ![p] = closed]
      /\ UNCHANGED <<buffer, head, seq, closed>>
  BY TakeTicketMoves, Roles DEF TakeTicket
<1>2. /\ head \in Nat /\ tail \in Nat /\ head <= tail /\ SlotsInTurn /\ TicketsHeld
      /\ pos \in [Producers -> Nat] /\ late \in [Producers -> BOOLEAN]
  BY WindowOf DEF RingInv, SlotsInTurn, Calls, StateTypes
<1>3. \A u \in Waiters : /\ Stores(u)' <=> Stores(u)
                         /\ StoredSlot(u)' = StoredSlot(u) /\ Stored(u)' = Stored(u)
  BY <1>1 DEF Stores, StoredSlot, Stored
<1>4. SlotsInTurn'
  <2>1. Window' = Window /\ head' <= tail'
    BY <1>1, <1>2 DEF Window
  <2> SUFFICES ASSUME NEW q \in Window
               PROVE  /\ \/ seq[Slot(q)] = Word(q, FALSE)
                         \/ seq[Slot(q)].n = q + 1 /\ q < tail + 1
                         \/ /\ seq[Slot(q)].n = q - N + 1
                            /\ \E u \in Consumers : Stores(u)' /\ StoredSlot(u)' = Slot(q)
                      /\ \A u \in Waiters : Stores(u)' /\ StoredSlot(u)' = Slot(q) =>
                           \/ /\ u \in Consumers /\ Stored(u)' = Word(q, FALSE)
                              /\ seq[Slot(q)].n = q - N + 1
                           \/ /\ u \in Producers /\ Stored(u)'.n = q + 1 /\ q < tail + 1
                              /\ seq[Slot(q)] = Word(q, FALSE)
    BY <1>1, <2>1 DEF SlotsInTurn
  <2>2. q \in Nat /\ (q < tail => q < tail + 1)
    BY <1>2, WindowOf
  <2>3. ASSUME NEW u \in Consumers, Stores(u), StoredSlot(u) = Slot(q)
        PROVE  \E v \in Consumers : Stores(v)' /\ StoredSlot(v)' = Slot(q)
    BY <1>3, <2>3, Roles
  <2>4. ASSUME NEW u \in Waiters, Stores(u)', StoredSlot(u)' = Slot(q)
        PROVE  Stores(u) /\ StoredSlot(u) = Slot(q) /\ Stored(u)' = Stored(u)
    BY <1>3, <2>4
  <2>6. SlotsInTurn
    BY <1>2
  <2> QED BY <2>2, <2>3, <2>4, <2>6 DEF SlotsInTurn
<1>5. OneStore'
  BY <1>3 DEF RingInv, OneStore
<1>6. /\ seq[Slot(tail)].n # tail + 1
      /\ \A t \in Producers : Stores(t) => Stored(t).n # tail + 1
  <2>1. seq[Slot(tail)].n = tail + 1 => tail < tail
    BY <1>2, PublishedFor
  <2>2. ASSUME NEW t \in Producers, Stores(t), Stored(t).n = tail + 1 PROVE FALSE
    <3>1. PICK q \in Window : Stored(t).n = q + 1 /\ q < tail
      BY <1>2, <2>2, StoreOf, Roles
    <3>2. q \in Nat
      BY WindowOf
    <3> QED BY <1>2, <2>2, <3>1, <3>2
  <2> QED BY <1>2, <2>1, <2>2
<1>7. TicketsHeld'
  <2> SUFFICES ASSUME NEW q \in Producers, Holds(q)'
               PROVE  /\ head <= pos'[q] /\ pos'[q] < tail + 1
                      /\ late'[q] => closed
                      /\ seq[Slot(pos'[q])].n # pos'[q] + 1
                      /\ ~\E t \in Producers : Stores(t)' /\ Stored(t)'.n = pos'[q] + 1
                      /\ \A r \in Producers : Holds(r)' /\ pos'[r] = pos'[q] => r = q
    BY <1>1 DEF TicketsHeld
  <2>1. \A r \in Producers : r # p => pos'[r] = pos[r] /\ late'[r] = late[r] /\ (Holds(r)' <=> Holds(r))
    BY <1>1, <1>2, OthersHold
  <2>2. \A r \in Producers : r # p /\ Holds(r) => pos[r] < tail /\ pos[r] \in Nat
    BY <1>2 DEF TicketsHeld
  <2>3. \A t \in Producers : (Stores(t)' <=> Stores(t)) /\ Stored(t)' = Stored(t)
    BY <1>1 DEF Stores, Stored
  <2>4. CASE q = p
    <3>1. pos'[q] = tail /\ late'[q] = closed
      BY <1>1, <1>2, <2>4
    <3>2. \A r \in Producers : Holds(r)' /\ pos'[r] = tail => r = p
      BY <1>2, <2>1, <2>2
    <3>3. ~\E t \in Producers : Stores(t)' /\ Stored(t)'.n = tail + 1
      BY <1>6, <2>3
    <3> QED BY <1>2, <1>6, <2>4, <3>1, <3>2, <3>3
  <2>5. CASE q # p
    <3>1. Holds(q) /\ pos'[q] = pos[q] /\ late'[q] = late[q] /\ pos[q] \in Nat
      BY <1>2, <2>1, <2>5
    <3>2. /\ head <= pos[q] /\ pos[q] < tail
          /\ late[q] => closed
          /\ seq[Slot(pos[q])].n # pos[q] + 1
          /\ ~\E t \in Producers : Stores(t) /\ Stored(t).n = pos[q] + 1
          /\ \A r \in Producers : Holds(r) /\ pos[r] = pos[q] => r = q
      BY <1>2, <3>1 DEF TicketsHeld
    <3>3. pos'[p] = tail
      BY <1>1, <1>2
    <3>4. \A r \in Producers : Holds(r)' /\ pos'[r] = pos[q] => r = q
      BY <1>2, <2>1, <3>1, <3>2, <3>3
    <3>5. ~\E t \in Producers : Stores(t)' /\ Stored(t)'.n = pos[q] + 1
      BY <2>3, <3>2
    <3> QED BY <1>2, <3>1, <3>2, <3>4, <3>5
  <2> QED BY <2>4, <2>5
<1>8. StoresAnnounced'
  <2>1. StoresAnnounced /\ ~Stores(p)'
    BY <1>1, <1>3 DEF RingInv, Fenced, Stores
  <2> QED BY <1>1, <1>3, <2>1, TellsStay
<1> QED BY <1>4, <1>5, <1>7, <1>8 DEF RingInv

\* So does the publication of a ticket holder: its slot is free for it alone.
LEMMA PayTicketRing ==
  ASSUME Calls, RingInv, UNCHANGED fixed, NEW p \in Producers, PayTicket(p)
  PROVE  RingInv'
<1> SUFFICES ASSUME NEW m, m = pos[p], NEW w, w = Word(m + 1, late[p]) PROVE RingInv'
  OBVIOUS
<1>1. /\ p \in Waiters /\ p \notin Consumers /\ OthersStay(p) /\ Reserve = "ticket"
      /\ Store(p, m, w) /\ MyTurn(p) /\ At(p, "turn")
      /\ head' = head /\ tail' = tail /\ seq' = seq /\ closed' = closed /\ pos' = pos /\ late' = late
  BY PayTicketMoves, Roles DEF PayTicket, ring, calling
<1>2. /\ head \in Nat /\ tail \in Nat /\ head <= tail
      /\ SlotsInTurn /\ OneStore /\ TicketsHeld /\ StoresAnnounced
      /\ m \in Nat /\ late[p] \in BOOLEAN /\ w \in AnyWord /\ w.n = m + 1
  BY WindowOf DEF RingInv, SlotsInTurn, Calls, StateTypes, AnyWord, Word
<1>3. /\ Holds(p) /\ head <= m /\ m < tail /\ (late[p] => closed)
      /\ ~\E t \in Producers : Stores(t) /\ Stored(t).n = m + 1
      /\ \A r \in Producers : Holds(r) /\ pos[r] = m => r = p
  <2>1. Holds(p)
    BY <1>1, WaitersHold DEF At
  <2> QED BY <1>2, <2>1 DEF TicketsHeld
<1>4. seq[Slot(m)] = Word(m, FALSE) /\ seq[Slot(m)].n = m
  BY <1>1, LoadFenced DEF MyTurn, Store, Word
<1>5. /\ m \in Window
      /\ \A t \in Waiters : Stores(t) => StoredSlot(t) # Slot(m)
  <2>1. /\ m \in Window
        /\ \A t \in Waiters : Stores(t) /\ StoredSlot(t) = Slot(m) =>
             t \in Producers /\ Stored(t).n = m + 1
    BY <1>2, <1>3, <1>4, FreeFor
  <2> QED BY <1>3, <2>1
<1>6. /\ OneStore' /\ Stores(p)' /\ StoredSlot(p)' = Slot(m) /\ Stored(p)' = w
      /\ \A u \in Waiters : u # p =>
              /\ Stores(u)' <=> Stores(u)
              /\ Stores(u) => StoredSlot(u)' = StoredSlot(u) /\ Stored(u)' = Stored(u)
  BY <1>1, <1>2, <1>5, StoreAdds
<1>7. SlotsInTurn'
  <2>1. Window' = Window
    BY <1>1 DEF Window
  <2> SUFFICES ASSUME NEW q \in Window
               PROVE  /\ \/ seq[Slot(q)] = Word(q, FALSE)
                         \/ seq[Slot(q)].n = q + 1 /\ q < tail
                         \/ /\ seq[Slot(q)].n = q - N + 1
                            /\ \E u \in Consumers : Stores(u)' /\ StoredSlot(u)' = Slot(q)
                      /\ \A u \in Waiters : Stores(u)' /\ StoredSlot(u)' = Slot(q) =>
                           \/ /\ u \in Consumers /\ Stored(u)' = Word(q, FALSE)
                              /\ seq[Slot(q)].n = q - N + 1
                           \/ /\ u \in Producers /\ Stored(u)'.n = q + 1 /\ q < tail
                              /\ seq[Slot(q)] = Word(q, FALSE)
    BY <1>1, <1>2, <2>1 DEF SlotsInTurn
  <2>3. ASSUME NEW u \in Consumers, Stores(u), StoredSlot(u) = Slot(q)
        PROVE  \E v \in Consumers : Stores(v)' /\ StoredSlot(v)' = Slot(q)
    BY <1>1, <1>6, <2>3, Roles
  <2>4. ASSUME NEW u \in Waiters, u # p, Stores(u)', StoredSlot(u)' = Slot(q)
        PROVE  Stores(u) /\ StoredSlot(u) = Slot(q) /\ Stored(u)' = Stored(u)
    BY <1>6, <2>4
  <2>5. ASSUME StoredSlot(p)' = Slot(q)
        PROVE  /\ Stored(p)'.n = q + 1 /\ q < tail /\ seq[Slot(q)] = Word(q, FALSE)
    <3>1. q = m
      BY <1>5, <1>6, <2>5, WindowOf
    <3> QED BY <1>2, <1>3, <1>4, <1>6, <3>1
  <2>6. SlotsInTurn
    BY <1>2
  <2> QED BY <2>3, <2>4, <2>5, <2>6 DEF SlotsInTurn
<1>8. TicketsHeld'
  <2>1. ~Holds(p)'
    <3>1. stack'[p] \in {<<Idle>>, <<Notify("not_empty", "one"), Idle>>}
      BY PayTicketMoves DEF Goes
    <3>2. Notify("not_empty", "one")[1] \notin {"turn", "recheck"}
      BY DEF Notify
    <3>3. ~Has(stack'[p], {"turn", "recheck"})
      BY <3>1, <3>2, HasOf DEF Idle
    <3> QED BY <3>3 DEF Holds
  <2> SUFFICES ASSUME NEW q \in Producers, Holds(q)'
               PROVE  /\ head <= pos[q] /\ pos[q] < tail
                      /\ late[q] => closed
                      /\ seq[Slot(pos[q])].n # pos[q] + 1
                      /\ ~\E t \in Producers : Stores(t)' /\ Stored(t)'.n = pos[q] + 1
                      /\ \A r \in Producers : Holds(r)' /\ pos[r] = pos[q] => r = q
    BY <1>1 DEF TicketsHeld
  <2>2. \A r \in Producers : r # p => (Holds(r)' <=> Holds(r))
    BY <1>1, OthersHold
  <2>3. q # p /\ Holds(q)
    BY <2>1, <2>2
  <2>4. /\ head <= pos[q] /\ pos[q] < tail
        /\ late[q] => closed
        /\ seq[Slot(pos[q])].n # pos[q] + 1
        /\ ~\E t \in Producers : Stores(t) /\ Stored(t).n = pos[q] + 1
        /\ \A r \in Producers : Holds(r) /\ pos[r] = pos[q] => r = q
    BY <1>2, <2>3 DEF TicketsHeld
  <2>0. pos[q] \in Nat
    BY DEF Calls, StateTypes
  <2>5. pos[q] \in Nat /\ pos[q] # m
    BY <1>3, <2>0, <2>3
  <2>6. m + 1 # pos[q] + 1
    BY <1>2, <2>5
  <2>7. ASSUME NEW t \in Producers, Stores(t)', Stored(t)'.n = pos[q] + 1 PROVE FALSE
    <3>1. CASE t = p
      BY <1>2, <1>6, <2>6, <2>7, <3>1
    <3>2. CASE t # p
      BY <1>6, <2>4, <2>7, <3>2, Roles
    <3> QED BY <3>1, <3>2
  <2>8. \A r \in Producers : Holds(r)' /\ pos[r] = pos[q] => r = q
    BY <2>1, <2>2, <2>4
  <2> QED BY <2>4, <2>7, <2>8
<1>9. StoresAnnounced'
  <2>1. Tells(p, "not_empty")' \/ closed'
    <3>1. CASE late[p]
      BY <1>1, <1>3, <3>1
    <3>2. CASE ~late[p]
      <4>1. Doing(p)' = Notify("not_empty", "one")
        BY <3>2, PayTicketMoves DEF Goes, Doing
      <4> QED BY <4>1, NotifyTells, Roles DEF Tells
    <3> QED BY <3>1, <3>2
  <2> QED BY <1>1, <1>2, <1>6, <2>1, TellsStay
<1> QED BY <1>6, <1>7, <1>8, <1>9 DEF RingInv

\* So does a pop that succeeds: the window moves on with the head.
LEMMA PopOkRing ==
  ASSUME Calls, RingInv, UNCHANGED fixed, NEW c \in Consumers, PopOk(c)
  PROVE  RingInv'
<1>1. /\ c \in Waiters /\ c \notin Producers /\ OthersStay(c)
      /\ head' = head + 1 /\ Store(c, head, Word(head + N, FALSE)) /\ Ready(c)
      /\ tail' = tail /\ seq' = seq /\ closed' = closed /\ pos' = pos /\ late' = late
  BY PopOkMoves, Roles DEF PopOk, calling
<1>2. /\ head \in Nat /\ tail \in Nat /\ head <= tail /\ N \in Nat /\ N >= 2
      /\ SlotsInTurn /\ OneStore /\ TicketsHeld /\ StoresAnnounced
      /\ Word(head + N, FALSE) \in AnyWord
  BY WindowOf DEF RingInv, SlotsInTurn, AnyWord, Word
<1>3. seq[Slot(head)].n = head + 1
  BY <1>1, LoadFenced DEF Ready, Store
<1>4. /\ head \in Window /\ head < tail
      /\ \A t \in Waiters : Stores(t) => StoredSlot(t) # Slot(head)
  BY <1>2, <1>3, PublishedFor
<1>5. /\ OneStore' /\ Stores(c)' /\ StoredSlot(c)' = Slot(head) /\ Stored(c)' = Word(head + N, FALSE)
      /\ \A u \in Waiters : u # c =>
              /\ Stores(u)' <=> Stores(u)
              /\ Stores(u) => StoredSlot(u)' = StoredSlot(u) /\ Stored(u)' = Stored(u)
  BY <1>1, <1>2, <1>4, StoreAdds
<1>6. SlotsInTurn'
  <2>1. /\ head' <= tail'
        /\ Window' = (head + 1)..(head + 1 + N - 1)
    BY <1>1, <1>2, <1>4 DEF Window
  <2> SUFFICES ASSUME NEW q \in (head + 1)..(head + 1 + N - 1)
               PROVE  /\ \/ seq[Slot(q)] = Word(q, FALSE)
                         \/ seq[Slot(q)].n = q + 1 /\ q < tail
                         \/ /\ seq[Slot(q)].n = q - N + 1
                            /\ \E u \in Consumers : Stores(u)' /\ StoredSlot(u)' = Slot(q)
                      /\ \A u \in Waiters : Stores(u)' /\ StoredSlot(u)' = Slot(q) =>
                           \/ /\ u \in Consumers /\ Stored(u)' = Word(q, FALSE)
                              /\ seq[Slot(q)].n = q - N + 1
                           \/ /\ u \in Producers /\ Stored(u)'.n = q + 1 /\ q < tail
                              /\ seq[Slot(q)] = Word(q, FALSE)
    BY <1>1, <2>1 DEF SlotsInTurn
  <2>2. CASE q = head + N
    <3>1. Slot(q) = Slot(head) /\ q - N + 1 = head + 1
      BY <1>2, <2>2, SlotNext
    <3>2. ASSUME NEW u \in Waiters, Stores(u)', StoredSlot(u)' = Slot(head)
          PROVE  u = c
      BY <1>4, <1>5, <3>2
    <3> QED BY <1>1, <1>3, <1>5, <2>2, <3>1, <3>2
  <2>3. CASE q # head + N
    <3>1. q \in Window /\ q # head
      BY <1>2, <2>3 DEF Window
    <3>2. Slot(q) # Slot(head)
      BY <1>4, <3>1, WindowOf
    <3>3. ASSUME NEW u \in Consumers, Stores(u), StoredSlot(u) = Slot(q)
          PROVE  \E v \in Consumers : Stores(v)' /\ StoredSlot(v)' = Slot(q)
      <4>1. u # c
        BY <1>1, <3>3, StoreAdds, <1>2
      <4> QED BY <1>5, <3>3, <4>1, Roles
    <3>4. ASSUME NEW u \in Waiters, Stores(u)', StoredSlot(u)' = Slot(q)
          PROVE  Stores(u) /\ StoredSlot(u) = Slot(q) /\ Stored(u)' = Stored(u)
      BY <1>5, <3>2, <3>4
    <3>5. SlotsInTurn
      BY <1>2
    <3> QED BY <3>1, <3>3, <3>4, <3>5 DEF SlotsInTurn
  <2> QED BY <2>2, <2>3
<1>7. TicketsHeld'
  <2>1. \A r \in Producers : Holds(r)' <=> Holds(r)
    BY <1>1, OthersHold
  <2>2. \A t \in Producers : Stores(t)' => Stores(t) /\ Stored(t)' = Stored(t)
    BY <1>1, <1>5, Roles
  <2> SUFFICES ASSUME NEW q \in Producers, Holds(q)
               PROVE  /\ head + 1 <= pos[q] /\ pos[q] < tail
                      /\ late[q] => closed
                      /\ seq[Slot(pos[q])].n # pos[q] + 1
                      /\ ~\E t \in Producers : Stores(t)' /\ Stored(t)'.n = pos[q] + 1
                      /\ \A r \in Producers : Holds(r)' /\ pos[r] = pos[q] => r = q
    BY <1>1, <2>1 DEF TicketsHeld
  <2>3. /\ head <= pos[q] /\ pos[q] < tail
        /\ late[q] => closed
        /\ seq[Slot(pos[q])].n # pos[q] + 1
        /\ ~\E t \in Producers : Stores(t) /\ Stored(t).n = pos[q] + 1
        /\ \A r \in Producers : Holds(r) /\ pos[r] = pos[q] => r = q
    BY <1>2 DEF TicketsHeld
  <2>0. pos[q] \in Nat
    BY DEF Calls, StateTypes
  <2>4. pos[q] \in Nat /\ pos[q] # head
    BY <1>3, <2>0, <2>3
  <2>5. head + 1 <= pos[q]
    BY <1>2, <2>3, <2>4
  <2> QED BY <2>1, <2>2, <2>3, <2>5
<1>8. StoresAnnounced'
  <2>1. FullWakeEvery = 1 => Tells(c, "not_full")'
    <3> SUFFICES ASSUME FullWakeEvery = 1 PROVE Tells(c, "not_full")'
      OBVIOUS
    <3>1. head % FullWakeEvery = 0
      BY <1>2
    <3>2. \E how : Doing(c)' = Notify("not_full", how)
      BY <3>1, PopOkMoves DEF Goes, Doing
    <3> QED BY <3>2, NotifyTells, Roles DEF Tells
  <2> QED BY <1>1, <1>2, <1>5, <2>1, TellsStay
<1> QED BY <1>5, <1>6, <1>7, <1>8 DEF RingInv

\* So does the arrival of a store: the only one on its way to that slot.
LEMMA StoreArrivesRing ==
  ASSUME Calls, RingInv, UNCHANGED fixed, NEW t \in Waiters, StoreArrives(t)
  PROVE  RingInv'
<1>1. /\ Stores(t) /\ seq' = [seq EXCEPT ![StoredSlot(t)] = Stored(t)]
      /\ buffer' = [buffer EXCEPT ![t] = <<>>]
      /\ UNCHANGED <<tail, closed, head, stack, pos, late>>
  BY DEF StoreArrives, Fenced, Stores, StoredSlot, Stored, calling
<1>2. /\ head \in Nat /\ tail \in Nat /\ N \in Nat /\ N >= 2
      /\ SlotsInTurn /\ OneStore /\ TicketsHeld /\ StoresAnnounced
      /\ seq \in [Slots -> AnyWord] /\ StoredSlot(t) \in Slots /\ Stored(t) \in AnyWord
  BY <1>1, WindowOf, StoreOf DEF RingInv, Calls, StateTypes, RingTypes
<1>3. PICK q \in Window :
        /\ StoredSlot(t) = Slot(q)
        /\ \/ /\ t \in Consumers /\ Stored(t) = Word(q, FALSE) /\ Stored(t).n = q
           \/ /\ t \in Producers /\ Stored(t).n = q + 1 /\ q < tail
  BY <1>1, <1>2, StoreOf
<1>4. /\ q \in Nat /\ seq'[Slot(q)] = Stored(t)
      /\ \A i \in Slots : i # Slot(q) => seq'[i] = seq[i]
  BY <1>1, <1>2, <1>3, WindowOf
<1>5. /\ ~Stores(t)'
      /\ \A u \in Waiters : u # t =>
              /\ Stores(u)' <=> Stores(u)
              /\ StoredSlot(u)' = StoredSlot(u) /\ Stored(u)' = Stored(u)
  <2>1. ~Stores(t)' /\ \A u \in Waiters : u # t => buffer'[u] = buffer[u]
    BY <1>1, FlushBuffers
  <2> QED BY <2>1 DEF Stores, StoredSlot, Stored
<1>6. SlotsInTurn'
  <2>1. Window' = Window /\ head' <= tail'
    BY <1>1, <1>2 DEF Window, SlotsInTurn
  <2> SUFFICES ASSUME NEW r \in Window
               PROVE  /\ \/ seq'[Slot(r)] = Word(r, FALSE)
                         \/ seq'[Slot(r)].n = r + 1 /\ r < tail
                         \/ /\ seq'[Slot(r)].n = r - N + 1
                            /\ \E u \in Consumers : Stores(u)' /\ StoredSlot(u)' = Slot(r)
                      /\ \A u \in Waiters : Stores(u)' /\ StoredSlot(u)' = Slot(r) =>
                           \/ /\ u \in Consumers /\ Stored(u)' = Word(r, FALSE)
                              /\ seq'[Slot(r)].n = r - N + 1
                           \/ /\ u \in Producers /\ Stored(u)'.n = r + 1 /\ r < tail
                              /\ seq'[Slot(r)] = Word(r, FALSE)
    BY <1>1, <2>1 DEF SlotsInTurn
  <2>2. CASE r = q
    <3>1. \A u \in Waiters : Stores(u)' => StoredSlot(u)' # Slot(r)
      BY <1>1, <1>2, <1>3, <1>5, <2>2 DEF OneStore
    <3>2. seq'[Slot(r)] = Word(r, FALSE) \/ (seq'[Slot(r)].n = r + 1 /\ r < tail)
      BY <1>3, <1>4, <2>2
    <3> QED BY <3>1, <3>2
  <2>3. CASE r # q
    <3>1. Slot(r) # Slot(q) /\ Slot(r) \in Slots
      BY <2>3, WindowOf, SlotRange
    <3>2. seq'[Slot(r)] = seq[Slot(r)]
      BY <1>4, <3>1
    <3>3. ASSUME NEW u \in Consumers, Stores(u), StoredSlot(u) = Slot(r)
          PROVE  \E v \in Consumers : Stores(v)' /\ StoredSlot(v)' = Slot(r)
      <4>1. u # t
        BY <1>3, <3>1, <3>3
      <4> QED BY <1>5, <3>3, <4>1, Roles
    <3>4. ASSUME NEW u \in Waiters, Stores(u)', StoredSlot(u)' = Slot(r)
          PROVE  Stores(u) /\ StoredSlot(u) = Slot(r) /\ Stored(u)' = Stored(u)
      BY <1>5, <3>4
    <3>5. SlotsInTurn
      BY <1>2
    <3> QED BY <3>2, <3>3, <3>4, <3>5 DEF SlotsInTurn
  <2> QED BY <2>2, <2>3
<1>7. OneStore'
  BY <1>2, <1>5 DEF OneStore
<1>8. TicketsHeld'
  <2>1. \A r \in Producers : Holds(r)' <=> Holds(r)
    BY <1>1 DEF Holds, fixed
  <2>2. \A u \in Producers : Stores(u)' => Stores(u) /\ Stored(u)' = Stored(u)
    BY <1>5, Roles
  <2> SUFFICES ASSUME NEW p \in Producers, Holds(p)
               PROVE  /\ head <= pos[p] /\ pos[p] < tail
                      /\ late[p] => closed
                      /\ seq'[Slot(pos[p])].n # pos[p] + 1
                      /\ ~\E u \in Producers : Stores(u)' /\ Stored(u)'.n = pos[p] + 1
                      /\ \A r \in Producers : Holds(r)' /\ pos[r] = pos[p] => r = p
    BY <1>1, <2>1 DEF TicketsHeld
  <2>3. /\ head <= pos[p] /\ pos[p] < tail
        /\ late[p] => closed
        /\ seq[Slot(pos[p])].n # pos[p] + 1
        /\ ~\E u \in Producers : Stores(u) /\ Stored(u).n = pos[p] + 1
        /\ \A r \in Producers : Holds(r) /\ pos[r] = pos[p] => r = p
    BY <1>2 DEF TicketsHeld
  <2>4. pos[p] \in Nat
    BY DEF Calls, StateTypes
  <2>5. Slot(pos[p]) \in Slots
    BY <2>4, SlotRange
  <2>6. CASE Slot(pos[p]) # Slot(q)
    <3>1. seq'[Slot(pos[p])] = seq[Slot(pos[p])]
      BY <1>4, <2>5, <2>6
    <3> QED BY <2>1, <2>2, <2>3, <3>1
  <2>7. CASE Slot(pos[p]) = Slot(q)
    <3>1. Stored(t).n # pos[p] + 1
      <4>1. CASE t \in Producers
        BY <1>1, <2>3, <4>1
      <4>2. CASE t \in Consumers
        <5>1. Stored(t).n = q
          BY <1>3, <4>2, Roles
        <5>2. pos[p] < q => pos[p] + N <= q
          BY <1>4, <2>4, <2>7, SlotApart
        <5> QED BY <1>2, <1>4, <2>4, <5>1, <5>2
      <4> QED BY <1>3, <4>1, <4>2
    <3>2. seq'[Slot(pos[p])] = Stored(t)
      BY <1>4, <2>7
    <3> QED BY <2>1, <2>2, <2>3, <3>1, <3>2
  <2> QED BY <2>6, <2>7
<1>9. StoresAnnounced'
  <2>1. OthersStay(t)
    BY <1>1 DEF OthersStay, Calls, StateTypes
  <2> QED BY <1>1, <1>2, <1>5, <2>1, TellsStay
<1> QED BY <1>6, <1>7, <1>8, <1>9 DEF RingInv

\* The books of the ring are right at first.
LEMMA RingInvInit ==
  ASSUME Init
  PROVE  RingInv
<1>1. /\ head = 0 /\ tail = 0 /\ \A i \in Slots : seq[i] = Word(i, FALSE)
      /\ \A t \in Waiters : ~Stores(t)
      /\ N \in Nat /\ N >= 2
  BY RingAssumption DEF Init, EventCountInit, Stores
<1>2. \A p \in Producers : ~Holds(p)
  <2>1. \A p \in Producers : stack[p] = <<Idle>>
    BY Roles DEF Init, Idle
  <2>2. \A p \in Producers : ~Has(stack[p], {"turn", "recheck"})
    BY <2>1, HasOf DEF Idle
  <2> QED BY <2>2 DEF Holds
<1>3. \A q \in Window : q \in Slots /\ Slot(q) = q
  <2>1. \A q \in Window : q \in 0..(N - 1)
    BY <1>1 DEF Window
  <2>2. \A q \in 0..(N - 1) : q % N = q
    BY <1>1
  <2> QED BY <2>1, <2>2 DEF Slot, Slots
<1>4. SlotsInTurn
  <2>1. head <= tail
    BY <1>1
  <2>2. \A q \in Window : seq[Slot(q)] = Word(q, FALSE)
    BY <1>1, <1>3
  <2> QED BY <1>1, <2>1, <2>2 DEF SlotsInTurn
<1> QED BY <1>1, <1>2, <1>4 DEF RingInv, OneStore, TicketsHeld, StoresAnnounced

\* The words of the ring are in turn, for every number of threads and slots.
THEOREM QueueRing == Spec => []RingInv
<1>1. Init => RingInv
  BY RingInvInit
<1>2. Calls /\ RingInv /\ [Next \/ Over]_vars => RingInv'
  <2> SUFFICES ASSUME Calls, RingInv, [Next \/ Over]_vars PROVE RingInv'
    OBVIOUS
  <2>1. CASE Next
    <3>1. UNCHANGED fixed
      BY <2>1, StepsOf
    <3>2. CASE RingSteps
      BY <3>1, <3>2, PushOkRing, TakeTicketRing, PayTicketRing, PopOkRing, StoreArrivesRing
         DEF RingSteps
    <3>3. CASE CountSteps
      BY <3>1, <3>3, CountStepsRing
    <3>4. CASE OtherSteps
      BY <3>1, <3>4, OtherStepsRing
    <3> QED BY <2>1, <3>2, <3>3, <3>4, StepsOf
  <2>2. CASE UNCHANGED vars
    <3>1. /\ UNCHANGED fixed /\ OthersStay(Closer) /\ UNCHANGED <<tail, head, seq, pos, late>>
          /\ (closed => closed') /\ buffer' = buffer /\ stack' = stack
      BY <2>2 DEF vars, moving, ring, calling, OthersStay, Calls, StateTypes
    <3>2. \A p \in Producers : Holds(p)' => Holds(p)
      BY <3>1 DEF Holds, fixed
    <3> QED BY <3>1, <3>2, RingStays, Roles
  <2> QED BY <2>1, <2>2 DEF Over
<1> QED BY <1>1, <1>2, QueueCalls, PTL DEF Spec

(* --------------------- who has announced itself -------------------------- *)
AnnouncedIn(s) == Has(s, {"recheck", "cancel", "wait"}) /\ ~Has(s, {"key", "announce"})

\* Who has announced itself, by the frames of its stack.
LEMMA AnnouncedShapes ==
  /\ \A a : AnnouncedIn(<<a>>) <=> a[1] \in {"recheck", "cancel", "wait"}
  /\ \A a, b : AnnouncedIn(<<a, b>>) <=>
       /\ a[1] \in {"recheck", "cancel", "wait"} \/ b[1] \in {"recheck", "cancel", "wait"}
       /\ a[1] \notin {"key", "announce"} /\ b[1] \notin {"key", "announce"}
  /\ \A a, b, c : AnnouncedIn(<<a, b, c>>) <=>
       /\ \/ a[1] \in {"recheck", "cancel", "wait"} \/ b[1] \in {"recheck", "cancel", "wait"}
          \/ c[1] \in {"recheck", "cancel", "wait"}
       /\ a[1] \notin {"key", "announce"} /\ b[1] \notin {"key", "announce"}
       /\ c[1] \notin {"key", "announce"}
  /\ \A a, b, c, d : AnnouncedIn(<<a, b, c, d>>) <=>
       /\ \/ a[1] \in {"recheck", "cancel", "wait"} \/ b[1] \in {"recheck", "cancel", "wait"}
          \/ c[1] \in {"recheck", "cancel", "wait"} \/ d[1] \in {"recheck", "cancel", "wait"}
       /\ a[1] \notin {"key", "announce"} /\ b[1] \notin {"key", "announce"}
       /\ c[1] \notin {"key", "announce"} /\ d[1] \notin {"key", "announce"}
<1>2. \A a : AnnouncedIn(<<a>>) <=> a[1] \in {"recheck", "cancel", "wait"}
  <2> SUFFICES ASSUME NEW a
               PROVE  AnnouncedIn(<<a>>) <=> a[1] \in {"recheck", "cancel", "wait"}
    OBVIOUS
  <2>1. \A labels : Has(<<a>>, labels) <=> a[1] \in labels
    BY HasOf
  <2> QED BY <2>1 DEF AnnouncedIn
<1>3. \A a, b : AnnouncedIn(<<a, b>>) <=>
       /\ a[1] \in {"recheck", "cancel", "wait"} \/ b[1] \in {"recheck", "cancel", "wait"}
       /\ a[1] \notin {"key", "announce"} /\ b[1] \notin {"key", "announce"}
  <2> SUFFICES ASSUME NEW a, NEW b
               PROVE  AnnouncedIn(<<a, b>>) <=>
                        /\ \/ a[1] \in {"recheck", "cancel", "wait"}
                           \/ b[1] \in {"recheck", "cancel", "wait"}
                        /\ a[1] \notin {"key", "announce"} /\ b[1] \notin {"key", "announce"}
    OBVIOUS
  <2>1. \A labels : Has(<<a, b>>, labels) <=> a[1] \in labels \/ b[1] \in labels
    BY HasOf
  <2> QED BY <2>1 DEF AnnouncedIn
<1>4. \A a, b, c : AnnouncedIn(<<a, b, c>>) <=>
       /\ \/ a[1] \in {"recheck", "cancel", "wait"} \/ b[1] \in {"recheck", "cancel", "wait"}
          \/ c[1] \in {"recheck", "cancel", "wait"}
       /\ a[1] \notin {"key", "announce"} /\ b[1] \notin {"key", "announce"}
       /\ c[1] \notin {"key", "announce"}
  <2> SUFFICES ASSUME NEW a, NEW b, NEW c
               PROVE  AnnouncedIn(<<a, b, c>>) <=>
                        /\ \/ a[1] \in {"recheck", "cancel", "wait"}
                           \/ b[1] \in {"recheck", "cancel", "wait"}
                           \/ c[1] \in {"recheck", "cancel", "wait"}
                        /\ a[1] \notin {"key", "announce"} /\ b[1] \notin {"key", "announce"}
                        /\ c[1] \notin {"key", "announce"}
    OBVIOUS
  <2>1. \A labels : Has(<<a, b, c>>, labels) <=>
                      a[1] \in labels \/ b[1] \in labels \/ c[1] \in labels
    BY HasOf
  <2> QED BY <2>1 DEF AnnouncedIn
<1>5. \A a, b, c, d : AnnouncedIn(<<a, b, c, d>>) <=>
       /\ \/ a[1] \in {"recheck", "cancel", "wait"} \/ b[1] \in {"recheck", "cancel", "wait"}
          \/ c[1] \in {"recheck", "cancel", "wait"} \/ d[1] \in {"recheck", "cancel", "wait"}
       /\ a[1] \notin {"key", "announce"} /\ b[1] \notin {"key", "announce"}
       /\ c[1] \notin {"key", "announce"} /\ d[1] \notin {"key", "announce"}
  <2> SUFFICES ASSUME NEW a, NEW b, NEW c, NEW d
               PROVE  AnnouncedIn(<<a, b, c, d>>) <=>
                        /\ \/ a[1] \in {"recheck", "cancel", "wait"}
                           \/ b[1] \in {"recheck", "cancel", "wait"}
                           \/ c[1] \in {"recheck", "cancel", "wait"}
                           \/ d[1] \in {"recheck", "cancel", "wait"}
                        /\ a[1] \notin {"key", "announce"} /\ b[1] \notin {"key", "announce"}
                        /\ c[1] \notin {"key", "announce"} /\ d[1] \notin {"key", "announce"}
    OBVIOUS
  <2>1. \A labels : Has(<<a, b, c, d>>, labels) <=>
                      a[1] \in labels \/ b[1] \in labels \/ c[1] \in labels \/ d[1] \in labels
    BY HasOf
  <2> QED BY <2>1 DEF AnnouncedIn
<1> QED BY <1>2, <1>3, <1>4, <1>5

\* Where in its call a thread has announced itself, and where it has not.
LEMMA AnnouncedStacks ==
  /\ ~AnnouncedIn(<<Idle>>) /\ ~AnnouncedIn(<< <<"push">>, Idle>>)
  /\ ~AnnouncedIn(<< <<"chain">>, Idle>>) /\ ~AnnouncedIn(<< <<"precheck">>, Idle>>)
  /\ ~AnnouncedIn(<< <<"ticket">>, Idle>>) /\ ~AnnouncedIn(<< <<"turn">>, Idle>>)
  /\ ~AnnouncedIn(<< <<"key">>, <<"recheck">>, Idle>>)
  /\ ~AnnouncedIn(<< <<"announce">>, <<"recheck">>, Idle>>)
  /\ AnnouncedIn(<< <<"recheck">>, Idle>>) /\ AnnouncedIn(<< <<"cancel">>, Idle>>)
  /\ AnnouncedIn(<< <<"cancel">>, <<"chain">>, Idle>>)
  /\ AnnouncedIn(<< <<"cancel">>, <<"turn">>, Idle>>)
  /\ AnnouncedIn(<< <<"wait">>, <<"push">>, Idle>>) /\ AnnouncedIn(<< <<"wait">>, <<"turn">>, Idle>>)
  /\ ~AnnouncedIn(<< <<"try">> >>) /\ ~AnnouncedIn(<< <<"left">> >>)
  /\ ~AnnouncedIn(<< <<"drained">> >>) /\ ~AnnouncedIn(<< <<"chain">>, <<"try">> >>)
  /\ ~AnnouncedIn(<< <<"key">>, <<"recheck">> >>)
  /\ ~AnnouncedIn(<< <<"announce">>, <<"recheck">> >>)
  /\ AnnouncedIn(<< <<"recheck">> >>) /\ AnnouncedIn(<< <<"cancel">>, <<"try">> >>)
  /\ AnnouncedIn(<< <<"wait">>, <<"left">> >>)
  /\ ~AnnouncedIn(<< <<"closed">> >>)
  /\ ~AnnouncedIn(<< <<"advance", "not_full", "all">>, <<"closed">> >>)
  /\ ~AnnouncedIn(<< <<"advance", "not_empty", "all">>, <<"advance", "not_full", "all">>,
                     <<"closed">> >>)
<1>1. /\ ~AnnouncedIn(<<Idle>>) /\ ~AnnouncedIn(<< <<"push">>, Idle>>)
      /\ ~AnnouncedIn(<< <<"chain">>, Idle>>) /\ ~AnnouncedIn(<< <<"precheck">>, Idle>>)
      /\ ~AnnouncedIn(<< <<"ticket">>, Idle>>) /\ ~AnnouncedIn(<< <<"turn">>, Idle>>)
      /\ ~AnnouncedIn(<< <<"key">>, <<"recheck">>, Idle>>)
      /\ ~AnnouncedIn(<< <<"announce">>, <<"recheck">>, Idle>>)
  BY AnnouncedShapes DEF Idle
<1>2. /\ AnnouncedIn(<< <<"recheck">>, Idle>>) /\ AnnouncedIn(<< <<"cancel">>, Idle>>)
      /\ AnnouncedIn(<< <<"cancel">>, <<"chain">>, Idle>>)
      /\ AnnouncedIn(<< <<"cancel">>, <<"turn">>, Idle>>)
      /\ AnnouncedIn(<< <<"wait">>, <<"push">>, Idle>>)
      /\ AnnouncedIn(<< <<"wait">>, <<"turn">>, Idle>>)
  BY AnnouncedShapes DEF Idle
<1>3. /\ ~AnnouncedIn(<< <<"try">> >>) /\ ~AnnouncedIn(<< <<"left">> >>)
      /\ ~AnnouncedIn(<< <<"drained">> >>) /\ ~AnnouncedIn(<< <<"chain">>, <<"try">> >>)
      /\ ~AnnouncedIn(<< <<"key">>, <<"recheck">> >>)
      /\ ~AnnouncedIn(<< <<"announce">>, <<"recheck">> >>)
      /\ AnnouncedIn(<< <<"recheck">> >>) /\ AnnouncedIn(<< <<"cancel">>, <<"try">> >>)
      /\ AnnouncedIn(<< <<"wait">>, <<"left">> >>)
  BY AnnouncedShapes
<1>4. /\ ~AnnouncedIn(<< <<"closed">> >>)
      /\ ~AnnouncedIn(<< <<"advance", "not_full", "all">>, <<"closed">> >>)
      /\ ~AnnouncedIn(<< <<"advance", "not_empty", "all">>, <<"advance", "not_full", "all">>,
                         <<"closed">> >>)
  BY AnnouncedShapes
<1> QED BY <1>1, <1>2, <1>3, <1>4

\* A notification says nothing of whether its notifier has.
LEMMA AnnouncedNotices ==
  ASSUME NEW f, f[1] \in Noticed
  PROVE  /\ ~AnnouncedIn(<<f, Idle>>) /\ ~AnnouncedIn(<<f, <<"chain">>, Idle>>)
         /\ AnnouncedIn(<<f, <<"cancel">>, Idle>>)
         /\ AnnouncedIn(<<f, <<"cancel">>, <<"chain">>, Idle>>)
         /\ ~AnnouncedIn(<<f, <<"try">> >>) /\ ~AnnouncedIn(<<f, <<"left">> >>)
         /\ AnnouncedIn(<<f, <<"recheck">> >>) /\ AnnouncedIn(<<f, <<"cancel">>, <<"try">> >>)
         /\ ~AnnouncedIn(<<f, <<"chain">>, <<"try">> >>)
<1>1. f[1] \notin {"key", "announce", "recheck", "cancel", "wait"}
  BY DEF Noticed
<1> QED BY <1>1, AnnouncedShapes DEF Idle

\* Where a thread is says whether it has.
LEMMA AnnouncedAt ==
  ASSUME Calls, NEW t \in Waiters
  PROVE  /\ At(t, "wait") \/ At(t, "cancel") \/ At(t, "recheck") => Announced(t)
         /\ Doing(t)[1] \in {"key", "announce", "idle", "push", "chain", "try", "left", "turn",
                             "drained", "precheck", "ticket", "closed"} => ~Announced(t) \/ t = Closer
<1> SUFFICES
      /\ At(t, "wait") \/ At(t, "cancel") \/ At(t, "recheck") => AnnouncedIn(stack[t])
      /\ Doing(t)[1] \in {"key", "announce", "idle", "push", "chain", "try", "left", "turn",
                          "drained", "precheck", "ticket", "closed"} =>
           ~AnnouncedIn(stack[t]) \/ t = Closer
  BY DEF Announced, AnnouncedIn
<1>1. CASE t \in Producers
  <2>1. Doing(t)[1] \notin {"try", "left", "drained", "closed"}
    BY <1>1, CallsOf, PushPlaces, TicketPlaces DEF Doing, Noticed
  <2> QED BY <1>1, <2>1, ProducerAt, AnnouncedStacks DEF At, Idle
<1>2. CASE t \in Consumers
  <2>1. Doing(t)[1] \notin {"idle", "push", "turn", "precheck", "ticket", "closed"}
    BY <1>2, CallsOf, PopPlaces DEF Doing, Noticed
  <2> QED BY <1>2, <2>1, ConsumerAt, AnnouncedStacks DEF At
<1>3. CASE t = Closer
  <2>1. stack[t] \in {<<Idle>>, << <<"closed">> >>, << <<"advance", "not_full", "all">>, <<"closed">> >>,
        << <<"advance", "not_empty", "all">>, <<"advance", "not_full", "all">>, <<"closed">> >>}
    BY <1>3, CallsOf DEF InClose
  <2> QED BY <1>3, <2>1 DEF At, Doing, Idle
<1> QED BY <1>1, <1>2, <1>3, Roles

\* A notification neither announces nor withdraws.
LEMMA NoticeStepsAnnounce ==
  ASSUME Calls, NEW t \in Waiters, NoticeSteps(t)
  PROVE  Announced(t)' <=> Announced(t)
<1>1. /\ Has(stack'[t], {"recheck", "cancel", "wait"}) <=> Has(stack[t], {"recheck", "cancel", "wait"})
      /\ Has(stack'[t], {"key", "announce"}) <=> Has(stack[t], {"key", "announce"})
  BY NoticeStepsKeep DEF Noticed
<1> QED BY <1>1 DEF Announced

\* Neither does a step of push, pop or close by itself.
LEMMA CallLooksAnnounce ==
  ASSUME Calls, NEW t \in Waiters, CallLooks(t)
  PROVE  Announced(t)' <=> Announced(t)
<1> SUFFICES AnnouncedIn(stack'[t]) <=> AnnouncedIn(stack[t])
  BY DEF Announced, AnnouncedIn
<1>1. CASE t \in Producers
  <2>1. Notify("not_full", "one")[1] \in Noticed
    BY DEF Notify, Noticed
  <2>2. \/ Goes(t, << <<"push">>, Idle>>, <<Idle>>)
        \/ Goes(t, << <<"recheck">>, Idle>>, << <<"cancel">>, Idle>>)
        \/ Goes(t, << <<"chain">>, Idle>>, <<Idle>>)
        \/ Goes(t, << <<"chain">>, Idle>>, <<Notify("not_full", "one"), Idle>>)
        \/ Goes(t, << <<"precheck">>, Idle>>, <<Idle>>)
        \/ Goes(t, << <<"precheck">>, Idle>>, << <<"ticket">>, Idle>>)
        \/ Goes(t, << <<"turn">>, Idle>>, << <<"key">>, <<"recheck">>, Idle>>)
        \/ Goes(t, << <<"recheck">>, Idle>>, << <<"cancel">>, <<"turn">>, Idle>>)
        \/ Goes(t, << <<"recheck">>, Idle>>, << <<"wait">>, <<"turn">>, Idle>>)
    BY <1>1, Roles, PushClosedMoves, ChainFullWakeMoves, PrecheckClosedMoves, AwaitTurnMoves DEF CallLooks
  <2> QED BY <2>1, <2>2, AnnouncedStacks, AnnouncedNotices DEF Goes
<1>2. CASE t \in Consumers
  <2>1. Notify("not_empty", "one")[1] \in Noticed
    BY DEF Notify, Noticed
  <2>2. \/ Goes(t, << <<"try">> >>, << <<"drained">> >>)
        \/ Goes(t, << <<"try">> >>, << <<"try">> >>)
        \/ Goes(t, << <<"try">> >>, << <<"key">>, <<"recheck">> >>)
        \/ Goes(t, << <<"recheck">> >>, << <<"cancel">>, <<"try">> >>)
        \/ Goes(t, << <<"recheck">> >>, << <<"wait">>, <<"left">> >>)
        \/ Goes(t, << <<"left">> >>, << <<"try">> >>)
        \/ Goes(t, << <<"chain">>, <<"try">> >>, << <<"try">> >>)
        \/ Goes(t, << <<"chain">>, <<"try">> >>, <<Notify("not_empty", "one"), <<"try">> >>)
    BY <1>2, Roles, PopEmptyMoves, PopSleepMoves, PopAgainMoves, ChainBurstMoves DEF CallLooks
  <2> QED BY <2>1, <2>2, AnnouncedStacks, AnnouncedNotices DEF Goes
<1> QED BY <1>1, <1>2 DEF CallLooks

\* Nor does a step of push, pop or close that changes the ring.
LEMMA CallStepsAnnounce ==
  ASSUME Calls
  PROVE  /\ \A p \in Producers : BeginPush(p) \/ PushFull(p) \/ PushOk(p) \/ TakeTicket(p) \/ PayTicket(p)
              => (Announced(p)' <=> Announced(p))
         /\ \A c \in Consumers : PopOk(c) => (Announced(c)' <=> Announced(c))
         /\ Close => (Announced(Closer)' <=> Announced(Closer))
<1>1. ASSUME NEW p \in Producers, BeginPush(p) \/ PushFull(p) \/ TakeTicket(p)
      PROVE  Announced(p)' <=> Announced(p)
  <2> SUFFICES AnnouncedIn(stack'[p]) <=> AnnouncedIn(stack[p])
    BY DEF Announced, AnnouncedIn
  <2>1. \/ Goes(p, <<Idle>>, << <<"push">>, Idle>>)
        \/ Goes(p, <<Idle>>, << <<"precheck">>, Idle>>)
        \/ Goes(p, << <<"push">>, Idle>>, << <<"key">>, <<"recheck">>, Idle>>)
        \/ Goes(p, << <<"recheck">>, Idle>>, << <<"wait">>, <<"push">>, Idle>>)
        \/ Goes(p, << <<"recheck">>, Idle>>, << <<"cancel">>, Idle>>)
        \/ Goes(p, << <<"ticket">>, Idle>>, << <<"turn">>, Idle>>)
    BY <1>1, BeginPushMoves, PushFullMoves, TakeTicketMoves
  <2> QED BY <2>1, AnnouncedStacks DEF Goes
<1>2. ASSUME NEW p \in Producers, PushOk(p) \/ PayTicket(p)
      PROVE  Announced(p)' <=> Announced(p)
  <2> SUFFICES AnnouncedIn(stack'[p]) <=> AnnouncedIn(stack[p])
    BY DEF Announced, AnnouncedIn
  <2> DEFINE f == Notify("not_empty", "one")
  <2>1. f[1] \in Noticed
    BY DEF Notify, Noticed
  <2> HIDE DEF f
  <2>2. \/ Goes(p, << <<"push">>, Idle>>, <<f, Idle>>)
        \/ Goes(p, << <<"push">>, Idle>>, <<f, <<"chain">>, Idle>>)
        \/ Goes(p, << <<"recheck">>, Idle>>, <<f, <<"cancel">>, Idle>>)
        \/ Goes(p, << <<"recheck">>, Idle>>, <<f, <<"cancel">>, <<"chain">>, Idle>>)
        \/ Goes(p, << <<"turn">>, Idle>>, <<Idle>>)
        \/ Goes(p, << <<"turn">>, Idle>>, <<f, Idle>>)
    BY <1>2, PushOkMoves, PayTicketMoves DEF f
  <2> QED BY <2>1, <2>2, AnnouncedStacks, AnnouncedNotices DEF Goes
<1>3. ASSUME NEW c \in Consumers, PopOk(c) PROVE Announced(c)' <=> Announced(c)
  <2> SUFFICES AnnouncedIn(stack'[c]) <=> AnnouncedIn(stack[c])
    BY DEF Announced, AnnouncedIn
  <2> DEFINE f == Notify("not_full", IF Reserve = "ticket" THEN "waiting" ELSE "one")
  <2>1. f[1] \in Noticed
    BY DEF Notify, Noticed
  <2> HIDE DEF f
  <2>2. \/ Goes(c, << <<"try">> >>, <<f, <<"try">> >>)
        \/ Goes(c, << <<"recheck">> >>, <<f, <<"recheck">> >>)
        \/ Goes(c, << <<"left">> >>, <<f, <<"left">> >>)
        \/ Goes(c, << <<"recheck">> >>, <<f, <<"cancel">>, <<"try">> >>)
        \/ Goes(c, << <<"left">> >>, <<f, <<"chain">>, <<"try">> >>)
        \/ Goes(c, << <<"try">> >>, << <<"try">> >>)
        \/ Goes(c, << <<"recheck">> >>, << <<"recheck">> >>)
        \/ Goes(c, << <<"left">> >>, << <<"left">> >>)
        \/ Goes(c, << <<"recheck">> >>, << <<"cancel">>, <<"try">> >>)
        \/ Goes(c, << <<"left">> >>, << <<"chain">>, <<"try">> >>)
    BY <1>3, PopOkMoves DEF f
  <2> QED BY <2>1, <2>2, AnnouncedStacks, AnnouncedNotices DEF Goes
<1>4. ASSUME Close PROVE Announced(Closer)' <=> Announced(Closer)
  <2> SUFFICES AnnouncedIn(stack'[Closer]) <=> AnnouncedIn(stack[Closer])
    BY DEF Announced, AnnouncedIn
  <2> QED BY <1>4, CloseMoves, AnnouncedStacks DEF Goes
<1> QED BY <1>1, <1>2, <1>3, <1>4

\* The steps of a waiter do.
LEMMA WaitingStepsAnnounce ==
  ASSUME Calls, NEW t \in Waiters
  PROVE  /\ Keys(t) => ~Announced(t) /\ (SleepsOn(t) \notin Outline => ~Announced(t)')
         /\ Announces(t) => ~Announced(t) /\ Announced(t)' /\ SleepsOn(t) \notin Outline
         /\ Cancels(t) \/ Leaves(t) => Announced(t) /\ ~Announced(t)'
<1>1. ASSUME Keys(t) PROVE ~Announced(t) /\ (SleepsOn(t) \notin Outline => ~Announced(t)')
  <2> SUFFICES /\ ~AnnouncedIn(stack[t])
               /\ SleepsOn(t) \notin Outline => ~AnnouncedIn(stack'[t])
    BY DEF Announced, AnnouncedIn
  <2>1. At(t, "key") /\ Then(t, IF SleepsOn(t) \in Outline THEN <<>> ELSE << <<"announce">> >>)
    BY <1>1 DEF Keys
  <2>2. t \in Producers \/ t \in Consumers
    BY <2>1, WaitPlaces DEF At
  <2>3. CASE t \in Producers
    BY <2>1, <2>3, KeyMoves, AnnouncedStacks DEF Goes
  <2>4. CASE t \in Consumers /\ "not_empty" \in Outline
    BY <2>1, <2>4, KeyMoves, AnnouncedStacks, Roles DEF Goes
  <2>5. CASE t \in Consumers /\ "not_empty" \notin Outline
    BY <2>1, <2>5, KeyMoves, AnnouncedStacks DEF Goes
  <2> QED BY <2>2, <2>3, <2>4, <2>5
<1>2. ASSUME Announces(t) PROVE ~Announced(t) /\ Announced(t)' /\ SleepsOn(t) \notin Outline
  <2> SUFFICES ~AnnouncedIn(stack[t]) /\ AnnouncedIn(stack'[t]) /\ SleepsOn(t) \notin Outline
    BY DEF Announced, AnnouncedIn
  <2>1. At(t, "announce") /\ Then(t, <<>>)
    BY <1>2 DEF Announces
  <2>2. t \in Producers \/ t \in Consumers
    BY <2>1, WaitPlaces DEF At
  <2> QED BY <2>1, <2>2, AnnounceMoves, AnnouncedStacks DEF Goes
<1>3. ASSUME Cancels(t) PROVE Announced(t) /\ ~Announced(t)'
  <2> SUFFICES AnnouncedIn(stack[t]) /\ ~AnnouncedIn(stack'[t])
    BY DEF Announced, AnnouncedIn
  <2>1. At(t, "cancel") /\ Then(t, <<>>)
    BY <1>3 DEF Cancels
  <2>2. t \in Producers \/ t \in Consumers
    BY <2>1, WaitPlaces DEF At
  <2> QED BY <2>1, <2>2, CancelMoves, AnnouncedStacks, CallsOf DEF Goes
<1>4. ASSUME Leaves(t) PROVE Announced(t) /\ ~Announced(t)'
  <2> SUFFICES AnnouncedIn(stack[t]) /\ ~AnnouncedIn(stack'[t])
    BY DEF Announced, AnnouncedIn
  <2>1. At(t, "wait") /\ Then(t, <<>>)
    BY <1>4 DEF Leaves
  <2>2. t \in Producers \/ t \in Consumers
    BY <2>1, WaitPlaces DEF At
  <2> QED BY <2>1, <2>2, LeaveMoves, AnnouncedStacks, CallsOf DEF Goes
<1> QED BY <1>1, <1>2, <1>3, <1>4

(* ---------------------- the books of the event counts -------------------- *)
\* The threads waiters_ counts.
Counted(e) == {t \in Waiters : e \notin Outline /\ SleepsOn(t) = e /\ Announced(t)}

\* A thread whose clear is on its way has nothing to do until it arrives.
LEMMA MoverCleared ==
  ASSUME Calls, ClearsInTime, NEW t \in Waiters,
         \/ t \in Producers /\ (\/ BeginPush(t) \/ PushFull(t) \/ PushOk(t) \/ TakeTicket(t)
                                \/ PayTicket(t))
         \/ t \in Consumers /\ PopOk(t)
         \/ t = Closer /\ Close
         \/ CallLooks(t) \/ NoticeSteps(t) \/ WaitingSteps(t)
  PROVE  ~Clears(t)
<1> SUFFICES ASSUME Clears(t) PROVE FALSE
  OBVIOUS
<1>1. /\ ~Fenced(t) /\ SleepsOn(t) \notin Outline
      /\ Doing(t)[1] \in {"recheck", "left", "push", "turn"}
  BY DEF ClearsInTime, Clears, Fenced
<1>2. ~NoticeSteps(t)
  BY <1>1, NoticeStepsMove DEF Noticed
<1>3. ~WaitingSteps(t)
  BY <1>1, WaitingStepsMove
<1>4. ~CallLooks(t)
  BY <1>1, Roles DEF CallLooks, PushClosed, ChainFullWake, PrecheckClosed, AwaitTurn, PopEmpty,
     PopSleep, PopAgain, ChainBurst, WaitFenced, At
<1>5. /\ t \in Producers => ~BeginPush(t) /\ ~PushFull(t) /\ ~PushOk(t) /\ ~TakeTicket(t) /\ ~PayTicket(t)
      /\ t \in Consumers => ~PopOk(t)
      /\ t = Closer => ~Close
  BY <1>1 DEF BeginPush, PushFull, PushOk, TakeTicket, PayTicket, PopOk, Close, Store, At
<1> QED BY <1>2, <1>3, <1>4, <1>5

\* A push is only at the top of its loop in a producer.
LEMMA PushIsProducer ==
  ASSUME Calls, NEW t \in Waiters, At(t, "push")
  PROVE  t \in Producers
<1>1. CASE t \in Consumers
  <2>1. InPop(stack[t])
    BY <1>1, CallsOf
  <2> QED BY <2>1, PopPlaces DEF At, Doing, Noticed
<1>2. CASE t = Closer
  <2>1. InClose(stack[t])
    BY <1>2, CallsOf
  <2> QED BY <2>1 DEF InClose, At, Doing, Idle
<1> QED BY <1>1, <1>2, Roles

\* A step that leaves the event counts alone, of a thread that is not in them.
LEMMA CountsStay ==
  ASSUME Calls, CountsInv, UNCHANGED <<fixed, counts>>, NEW t \in Waiters, OthersStay(t),
         ~Clears(t), ~Clears(t)',
         \A u \in Waiters : u # t /\ (Clears(u) \/ Clears(u)') => buffer'[u] = buffer[u],
         Announced(t)' <=> Announced(t),
         ~At(t, "wait"), Doing(t)[1] \notin {"advance", "wake"},
         \A p \in Producers : p # t => parked'[p] = parked[p]
  PROVE  CountsInv'
<1>1. /\ epoch' = epoch /\ waiters' = waiters /\ pending' = pending /\ sleepers' = sleepers
      /\ key' = key /\ Reserve' = Reserve /\ Outline' = Outline
  BY DEF counts, fixed
<1>2. \A u \in Waiters : u # t => stack'[u] = stack[u]
  BY DEF OthersStay
<1>3. \A u \in Waiters : (Clears(u)' <=> Clears(u)) /\ (Clears(u) => buffer'[u] = buffer[u])
  BY DEF Clears
<1>4. SleepersWait'
  <2>1. SleepersWait
    BY DEF CountsInv
  <2>2. ASSUME NEW e \in Counts, NEW u \in sleepers[e] PROVE SleepsOn(u) = e /\ Head(stack'[u])[1] = "wait"
    <3>1. u \in Waiters /\ SleepsOn(u) = e /\ At(u, "wait")
      BY <2>1 DEF SleepersWait, Calls, StateTypes, CountTypes
    <3>2. u # t
      BY <3>1
    <3> QED BY <1>2, <3>1, <3>2 DEF At, Doing
  <2> QED BY <1>1, <2>1, <2>2 DEF SleepersWait, At, Doing
<1>5. ClearsInTime'
  <2> SUFFICES ASSUME NEW u \in Waiters, Clears(u)
               PROVE  /\ Head(buffer'[u]).count = SleepsOn(u) /\ SleepsOn(u) \notin Outline
                      /\ Head(stack'[u])[1] \in {"recheck", "left", "push", "turn"}
                      /\ Head(stack'[u])[1] = "push" => parked'[u]
    BY <1>1, <1>3 DEF ClearsInTime, At, Doing
  <2>1. /\ Head(buffer[u]).count = SleepsOn(u) /\ SleepsOn(u) \notin Outline
        /\ Doing(u)[1] \in {"recheck", "left", "push", "turn"}
        /\ At(u, "push") => parked[u]
    BY DEF CountsInv, ClearsInTime
  <2>2. u # t /\ buffer'[u] = buffer[u] /\ stack'[u] = stack[u]
    BY <1>2, <1>3
  <2>3. At(u, "push") => parked'[u]
    BY <2>1, <2>2, PushIsProducer
  <2> QED BY <2>1, <2>2, <2>3 DEF At, Doing
<1>6. \A u \in Waiters : Announced(u)' <=> Announced(u)
  <2>1. \A u \in Waiters : u # t => (Announced(u)' <=> Announced(u))
    BY <1>2 DEF Announced
  <2> QED BY <2>1
<1>7. WaitersCounted'
  BY <1>1, <1>6 DEF CountsInv, WaitersCounted
<1>8. ClaimsReach'
  <2> SUFFICES ASSUME NEW u \in Waiters, Announced(u), SleepsOn(u) \notin Outline, ~Clears(u),
                      key[u] = epoch[SleepsOn(u)], pending[SleepsOn(u)]
               PROVE  \E v \in Waiters : Head(stack'[v]) = <<"advance", SleepsOn(u), "one">>
    BY <1>1, <1>3, <1>6 DEF ClaimsReach, Advancing, Doing
  <2>1. PICK v \in Waiters : Doing(v) = <<"advance", SleepsOn(u), "one">>
    BY DEF CountsInv, ClaimsReach, Advancing
  <2>2. v # t
    BY <2>1
  <2> QED BY <1>2, <2>1, <2>2 DEF Doing
<1>9. WakesCarried'
  <2> SUFFICES ASSUME NEW e \in Counts, pending[e]
               PROVE  /\ e \notin Outline /\ (e = "not_full" => Reserve = "cas")
                      /\ sleepers[e] # {} =>
                           \/ \E u \in Waiters : Doing(u)'[1] \in {"advance", "wake"} /\ Doing(u)'[2] = e
                           \/ \E u \in Waiters : SleepsOn(u) = e /\ Woken(u)'
    BY <1>1 DEF WakesCarried
  <2>1. /\ e \notin Outline /\ (e = "not_full" => Reserve = "cas")
        /\ sleepers[e] # {} =>
             \/ \E u \in Waiters : Doing(u)[1] \in {"advance", "wake"} /\ Doing(u)[2] = e
             \/ \E u \in Waiters : SleepsOn(u) = e /\ Woken(u)
    BY DEF CountsInv, WakesCarried
  <2>2. ASSUME NEW u \in Waiters, Doing(u)[1] \in {"advance", "wake"}, Doing(u)[2] = e
        PROVE  \E v \in Waiters : Doing(v)'[1] \in {"advance", "wake"} /\ Doing(v)'[2] = e
    <3>1. u # t
      BY <2>2
    <3> QED BY <1>2, <2>2, <3>1 DEF Doing
  <2>3. ASSUME NEW u \in Waiters, SleepsOn(u) = e, Woken(u)
        PROVE  \E v \in Waiters : SleepsOn(v) = e /\ Woken(v)'
    <3>1. u # t
      BY <2>3 DEF Woken
    <3>2. Woken(u)'
      BY <1>1, <1>2, <1>3, <2>3, <3>1 DEF Woken, Settled, At, Doing
    <3> QED BY <2>3, <3>2
  <2> QED BY <2>1, <2>2, <2>3
<1> QED BY <1>4, <1>5, <1>7, <1>8, <1>9 DEF CountsInv

\* Buffers whose clears stay where they are.
LEMMA StoreClears ==
  ASSUME Calls, NEW t \in Waiters, NEW q \in Nat, NEW w \in AnyWord, Store(t, q, w)
  PROVE  /\ ~Clears(t) /\ ~Clears(t)'
         /\ \A u \in Waiters : u # t => buffer'[u] = buffer[u]
  BY StoreBuffers DEF Clears, Fenced

\* Looks, full rings and close keep the books of the event counts.
LEMMA OtherStepsCounts ==
  ASSUME Calls, CountsInv, UNCHANGED fixed, OtherSteps
  PROVE  CountsInv'
<1>0. ClearsInTime
  BY DEF CountsInv
<1>1. ASSUME NEW t \in Waiters, OthersStay(t), UNCHANGED <<counts, buffer>>, ~Clears(t),
             Announced(t)' <=> Announced(t),
             ~At(t, "wait"), Doing(t)[1] \notin {"advance", "wake"},
             \A p \in Producers : p # t => parked'[p] = parked[p]
      PROVE  CountsInv'
  <2>1. ~Clears(t)'
    BY <1>1 DEF Clears
  <2> QED BY <1>1, <2>1, CountsStay
<1>2. ASSUME NEW p \in Producers, BeginPush(p) \/ PushFull(p) PROVE CountsInv'
  <2>1. p \in Waiters /\ OthersStay(p) /\ UNCHANGED <<counts, buffer>>
    BY <1>2, BeginPushMoves, PushFullMoves, Roles DEF BeginPush, PushFull
  <2>2. ~Clears(p) /\ (Announced(p)' <=> Announced(p))
    BY <1>0, <1>2, <2>1, MoverCleared, CallStepsAnnounce
  <2>3. \A u \in Producers : u # p => parked'[u] = parked[u]
    <3>1. parked \in [Producers -> BOOLEAN]
      BY DEF Calls, StateTypes
    <3>2. parked' = parked \/ \E b \in BOOLEAN : parked' = [parked EXCEPT ![p] = b]
      BY <1>2 DEF BeginPush, PushFull
    <3> QED BY <3>1, <3>2
  <2>4. ~At(p, "wait") /\ Doing(p)[1] \notin {"advance", "wake"}
    BY <1>2 DEF BeginPush, PushFull, Trying, At
  <2> QED BY <1>1, <2>1, <2>2, <2>3, <2>4
<1>3. ASSUME NEW t \in Waiters, Looks(t) PROVE CountsInv'
  <2>1. OthersStay(t) /\ UNCHANGED <<counts, buffer, parked>>
    BY <1>3, LooksRight, LooksLeave DEF calling
  <2>2. ~Clears(t) /\ (Announced(t)' <=> Announced(t))
    BY <1>0, <1>3, MoverCleared, LooksAre, CallLooksAnnounce, NoticeStepsAnnounce
  <2>3. ~At(t, "wait") /\ Doing(t)[1] \notin {"advance", "wake"}
    BY <1>3 DEF Looks, PushClosed, Trying, ChainFullWake, PrecheckClosed, AwaitTurn, PopEmpty,
       PopSleep, PopAgain, ChainBurst, NotifyLook, At
  <2> QED BY <1>1, <2>1, <2>2, <2>3
<1>4. ASSUME Close PROVE CountsInv'
  <2>1. Closer \in Waiters /\ OthersStay(Closer) /\ UNCHANGED <<counts, buffer, parked>>
    BY <1>4, CloseMoves, Roles DEF Close, calling
  <2>2. ~Clears(Closer) /\ (Announced(Closer)' <=> Announced(Closer))
    BY <1>0, <1>4, <2>1, MoverCleared, CallStepsAnnounce
  <2>3. ~At(Closer, "wait") /\ Doing(Closer)[1] \notin {"advance", "wake"}
    BY <1>4 DEF Close, At
  <2> QED BY <1>1, <2>1, <2>2, <2>3
<1> QED BY <1>2, <1>3, <1>4 DEF OtherSteps

\* A step that leaves the event counts and everybody's place.
LEMMA CountsStill ==
  ASSUME CountsInv, UNCHANGED <<fixed, counts, stack, parked>>,
         \A u \in Waiters : Clears(u)' <=> Clears(u),
         \A u \in Waiters : Clears(u) => buffer'[u] = buffer[u]
  PROVE  CountsInv'
<1>1. /\ epoch' = epoch /\ waiters' = waiters /\ pending' = pending /\ sleepers' = sleepers
      /\ key' = key /\ Reserve' = Reserve /\ Outline' = Outline /\ stack' = stack
  BY DEF counts, fixed
<1>2. SleepersWait'
  BY <1>1 DEF CountsInv, SleepersWait, At, Doing
<1>3. ClearsInTime'
  BY <1>1 DEF CountsInv, ClearsInTime, At, Doing
<1>4. WaitersCounted'
  BY <1>1 DEF CountsInv, WaitersCounted, Announced
<1>5. ClaimsReach'
  BY <1>1 DEF CountsInv, ClaimsReach, Announced, Advancing, Doing
<1>6. WakesCarried'
  <2>1. \A u \in Waiters : Woken(u)' <=> Woken(u)
    BY <1>1 DEF Woken, Settled, At, Doing
  <2> QED BY <1>1, <2>1 DEF CountsInv, WakesCarried, Doing
<1> QED BY <1>2, <1>3, <1>4, <1>5, <1>6 DEF CountsInv

\* So do the steps that change the ring.
LEMMA RingStepsCounts ==
  ASSUME Calls, CountsInv, UNCHANGED fixed, RingSteps
  PROVE  CountsInv'
<1>0. ClearsInTime
  BY DEF CountsInv
<1>1. ASSUME NEW p \in Producers, PushOk(p) PROVE CountsInv'
  <2>1. p \in Waiters /\ OthersStay(p) /\ UNCHANGED <<fixed, counts, parked>>
    BY <1>1, PushOkMoves, Roles DEF PushOk, calling
  <2>2. tail \in Nat /\ Word(tail + 1, FALSE) \in AnyWord
    BY WindowOf DEF AnyWord, Word
  <2>3. /\ ~Clears(p) /\ ~Clears(p)' /\ \A u \in Waiters : u # p => buffer'[u] = buffer[u]
    BY <1>1, <2>1, <2>2, StoreClears DEF PushOk
  <2>4. /\ Announced(p)' <=> Announced(p)
        /\ ~At(p, "wait") /\ Doing(p)[1] \notin {"advance", "wake"}
    BY <1>1, CallStepsAnnounce DEF PushOk, Trying, At
  <2> QED BY <2>1, <2>3, <2>4, CountsStay
<1>2. ASSUME NEW p \in Producers, TakeTicket(p) PROVE CountsInv'
  <2>1. p \in Waiters /\ OthersStay(p) /\ UNCHANGED <<fixed, counts, buffer, parked>>
    BY <1>2, TakeTicketMoves, Roles DEF TakeTicket
  <2>2. ~Clears(p) /\ ~Clears(p)'
    BY <1>2 DEF TakeTicket, Fenced, Clears
  <2>4. /\ Announced(p)' <=> Announced(p)
        /\ ~At(p, "wait") /\ Doing(p)[1] \notin {"advance", "wake"}
    BY <1>2, CallStepsAnnounce DEF TakeTicket, At
  <2> QED BY <2>1, <2>2, <2>4, CountsStay
<1>3. ASSUME NEW p \in Producers, PayTicket(p) PROVE CountsInv'
  <2>1. p \in Waiters /\ OthersStay(p) /\ UNCHANGED <<fixed, counts, parked>>
    BY <1>3, PayTicketMoves, Roles DEF PayTicket, calling
  <2>2. pos[p] \in Nat /\ Word(pos[p] + 1, late[p]) \in AnyWord
    BY DEF AnyWord, Word, Calls, StateTypes
  <2>3. /\ ~Clears(p) /\ ~Clears(p)' /\ \A u \in Waiters : u # p => buffer'[u] = buffer[u]
    BY <1>3, <2>1, <2>2, StoreClears DEF PayTicket
  <2>4. /\ Announced(p)' <=> Announced(p)
        /\ ~At(p, "wait") /\ Doing(p)[1] \notin {"advance", "wake"}
    BY <1>3, CallStepsAnnounce DEF PayTicket, At
  <2> QED BY <2>1, <2>3, <2>4, CountsStay
<1>4. ASSUME NEW c \in Consumers, PopOk(c) PROVE CountsInv'
  <2>1. c \in Waiters /\ OthersStay(c) /\ UNCHANGED <<fixed, counts, parked>>
    BY <1>4, PopOkMoves, Roles DEF PopOk, calling
  <2>2. head \in Nat /\ Word(head + N, FALSE) \in AnyWord
    BY WindowOf DEF AnyWord, Word
  <2>3. /\ ~Clears(c) /\ ~Clears(c)' /\ \A u \in Waiters : u # c => buffer'[u] = buffer[u]
    BY <1>4, <2>1, <2>2, StoreClears DEF PopOk
  <2>4. /\ Announced(c)' <=> Announced(c)
        /\ ~At(c, "wait") /\ Doing(c)[1] \notin {"advance", "wake"}
    BY <1>4, CallStepsAnnounce DEF PopOk, At
  <2> QED BY <2>1, <2>3, <2>4, CountsStay
<1>5. ASSUME NEW t \in Waiters, StoreArrives(t) PROVE CountsInv'
  <2>1. /\ buffer' = [buffer EXCEPT ![t] = <<>>] /\ ~Clears(t)
        /\ UNCHANGED <<fixed, counts, stack, parked>>
    BY <1>5 DEF StoreArrives, Clears, calling
  <2>2. ~Clears(t)' /\ \A u \in Waiters : u # t => buffer'[u] = buffer[u]
    BY <2>1, FlushBuffers
  <2>3. \A u \in Waiters : Clears(u)' <=> Clears(u)
    BY <2>1, <2>2 DEF Clears
  <2>4. \A u \in Waiters : Clears(u) => buffer'[u] = buffer[u]
    BY <2>1, <2>2
  <2> QED BY <2>1, <2>3, <2>4, CountsStill
<1> QED BY <1>1, <1>2, <1>3, <1>4, <1>5 DEF RingSteps

\* waiters_ follows the threads it counts.
LEMMA CountedStays ==
  ASSUME Calls, WaitersCounted, UNCHANGED <<fixed, waiters>>,
         \A u \in Waiters : SleepsOn(u) \notin Outline => (Announced(u)' <=> Announced(u))
  PROVE  WaitersCounted'
<1>1. Outline' = Outline /\ waiters' = waiters
  BY DEF fixed
<1>2. ASSUME NEW e \in Counts
      PROVE  {u \in Waiters : e \notin Outline /\ SleepsOn(u) = e /\ Announced(u)'}
               = {u \in Waiters : e \notin Outline /\ SleepsOn(u) = e /\ Announced(u)}
  OBVIOUS
<1> QED BY <1>1, <1>2 DEF WaitersCounted

\* waiters_ counts finitely many threads.
LEMMA CountedIsFinite ==
  ASSUME NEW e
  PROVE  IsFiniteSet(Counted(e))
  BY FS_Subset, RolesAssumption DEF Counted

\* prepare_wait counts one more.
LEMMA CountedGrows ==
  ASSUME Calls, WaitersCounted, UNCHANGED fixed, NEW t \in Waiters, SleepsOn(t) \notin Outline,
         waiters' = [waiters EXCEPT ![SleepsOn(t)] = @ + 1], ~Announced(t), Announced(t)',
         \A u \in Waiters : u # t => (Announced(u)' <=> Announced(u))
  PROVE  WaitersCounted'
<1>1. Outline' = Outline /\ SleepsOn(t) \in Counts /\ waiters \in [Counts -> Int]
  BY Roles DEF fixed, Calls, StateTypes, CountTypes
<1> SUFFICES ASSUME NEW e \in Counts
             PROVE  waiters'[e] =
               Cardinality({u \in Waiters : e \notin Outline /\ SleepsOn(u) = e /\ Announced(u)'})
  BY <1>1 DEF WaitersCounted
<1>2. waiters[e] = Cardinality(Counted(e)) /\ IsFiniteSet(Counted(e))
  BY CountedIsFinite DEF WaitersCounted, Counted
<1>3. CASE e = SleepsOn(t)
  <2>1. {u \in Waiters : e \notin Outline /\ SleepsOn(u) = e /\ Announced(u)'} = Counted(e) \cup {t}
    BY <1>3 DEF Counted
  <2>2. t \notin Counted(e)
    BY DEF Counted
  <2>3. Cardinality(Counted(e) \cup {t}) = Cardinality(Counted(e)) + 1
    BY <1>2, <2>2, FS_AddElement
  <2>4. waiters'[e] = waiters[e] + 1
    BY <1>1, <1>3
  <2> QED BY <1>2, <2>1, <2>3, <2>4
<1>4. CASE e # SleepsOn(t)
  <2>1. {u \in Waiters : e \notin Outline /\ SleepsOn(u) = e /\ Announced(u)'} = Counted(e)
    BY <1>4 DEF Counted
  <2>2. waiters'[e] = waiters[e]
    BY <1>1, <1>4
  <2> QED BY <1>2, <2>1, <2>2
<1> QED BY <1>3, <1>4

\* cancel_wait and wait count one less.
LEMMA CountedShrinks ==
  ASSUME Calls, WaitersCounted, UNCHANGED fixed, NEW t \in Waiters, SleepsOn(t) \notin Outline,
         waiters' = [waiters EXCEPT ![SleepsOn(t)] = @ - 1], Announced(t), ~Announced(t)',
         \A u \in Waiters : u # t => (Announced(u)' <=> Announced(u))
  PROVE  WaitersCounted'
<1>1. Outline' = Outline /\ SleepsOn(t) \in Counts /\ waiters \in [Counts -> Int]
  BY Roles DEF fixed, Calls, StateTypes, CountTypes
<1> SUFFICES ASSUME NEW e \in Counts
             PROVE  waiters'[e] =
               Cardinality({u \in Waiters : e \notin Outline /\ SleepsOn(u) = e /\ Announced(u)'})
  BY <1>1 DEF WaitersCounted
<1>2. waiters[e] = Cardinality(Counted(e)) /\ IsFiniteSet(Counted(e))
  BY CountedIsFinite DEF WaitersCounted, Counted
<1>3. CASE e = SleepsOn(t)
  <2>1. {u \in Waiters : e \notin Outline /\ SleepsOn(u) = e /\ Announced(u)'} = Counted(e) \ {t}
    BY <1>3 DEF Counted
  <2>2. t \in Counted(e)
    BY <1>3 DEF Counted
  <2>3. Cardinality(Counted(e) \ {t}) = Cardinality(Counted(e)) - 1
    BY <1>2, <2>2, FS_RemoveElement
  <2>4. waiters'[e] = waiters[e] - 1
    BY <1>1, <1>3
  <2> QED BY <1>2, <2>1, <2>3, <2>4
<1>4. CASE e # SleepsOn(t)
  <2>1. {u \in Waiters : e \notin Outline /\ SleepsOn(u) = e /\ Announced(u)'} = Counted(e)
    BY <1>4 DEF Counted
  <2>2. waiters'[e] = waiters[e]
    BY <1>1, <1>4
  <2> QED BY <1>2, <2>1, <2>2
<1> QED BY <1>3, <1>4

\* The steps of a waiter change its own part of the books.
LEMMA WaiterBooks ==
  ASSUME Calls, CountsInv, UNCHANGED <<fixed, epoch, pending, parked>>,
         NEW t \in Waiters, OthersStay(t), Doing(t)[1] \notin {"advance", "wake"},
         \A u \in Waiters : u # t => key'[u] = key[u] /\ buffer'[u] = buffer[u],
         \A e \in Counts : sleepers'[e] = sleepers[e] \ {t},
         key'[t] <= epoch[SleepsOn(t)],
         Clears(t)' => /\ Head(buffer'[t]).count = SleepsOn(t) /\ SleepsOn(t) \notin Outline
                       /\ Head(stack'[t])[1] \in {"recheck", "left", "push", "turn"}
                       /\ Head(stack'[t])[1] = "push" => parked[t],
         Announced(t)' => Clears(t)' \/ SleepsOn(t) \in Outline,
         Woken(t) /\ pending[SleepsOn(t)] => Woken(t)'
  PROVE  SleepersWait' /\ ClearsInTime' /\ ClaimsReach' /\ WakesCarried'
<1>1. /\ epoch' = epoch /\ pending' = pending /\ parked' = parked
      /\ Reserve' = Reserve /\ Outline' = Outline
  BY DEF fixed
<1>2. \A u \in Waiters : u # t => stack'[u] = stack[u]
  BY DEF OthersStay
<1>3. SleepersWait'
  <2>1. SleepersWait
    BY DEF CountsInv
  <2>2. ASSUME NEW e \in Counts, NEW u \in sleepers'[e]
        PROVE  SleepsOn(u) = e /\ Head(stack'[u])[1] = "wait"
    <3>1. u \in sleepers[e] /\ u # t
      OBVIOUS
    <3>2. u \in Waiters /\ SleepsOn(u) = e /\ At(u, "wait")
      BY <2>1, <3>1 DEF SleepersWait, Calls, StateTypes, CountTypes
    <3> QED BY <1>2, <3>1, <3>2 DEF At, Doing
  <2>3. \A u \in Waiters : key'[u] <= epoch[SleepsOn(u)]
    BY <2>1 DEF SleepersWait
  <2> QED BY <1>1, <2>2, <2>3 DEF SleepersWait, At, Doing
<1>4. ClearsInTime'
  <2> SUFFICES ASSUME NEW u \in Waiters, Clears(u)'
               PROVE  /\ Head(buffer'[u]).count = SleepsOn(u) /\ SleepsOn(u) \notin Outline
                      /\ Head(stack'[u])[1] \in {"recheck", "left", "push", "turn"}
                      /\ Head(stack'[u])[1] = "push" => parked[u]
    BY <1>1 DEF ClearsInTime, At, Doing
  <2>1. CASE u = t
    BY <2>1
  <2>2. CASE u # t
    <3>1. buffer'[u] = buffer[u] /\ stack'[u] = stack[u] /\ Clears(u)
      BY <1>2, <2>2 DEF Clears
    <3> QED BY <3>1 DEF CountsInv, ClearsInTime, At, Doing
  <2> QED BY <2>1, <2>2
<1>5. ClaimsReach'
  <2> SUFFICES ASSUME NEW u \in Waiters, Announced(u)', SleepsOn(u) \notin Outline, ~Clears(u)',
                      key'[u] = epoch[SleepsOn(u)], pending[SleepsOn(u)]
               PROVE  \E v \in Waiters : Head(stack'[v]) = <<"advance", SleepsOn(u), "one">>
    BY <1>1 DEF ClaimsReach, Advancing, Doing
  <2>1. u # t
    OBVIOUS
  <2>2. Announced(u) /\ ~Clears(u) /\ key[u] = epoch[SleepsOn(u)]
    BY <1>2, <2>1 DEF Announced, Clears
  <2>3. PICK v \in Waiters : Doing(v) = <<"advance", SleepsOn(u), "one">>
    BY <2>2 DEF CountsInv, ClaimsReach, Advancing
  <2>4. v # t
    BY <2>3
  <2> QED BY <1>2, <2>3, <2>4 DEF Doing
<1>6. WakesCarried'
  <2> SUFFICES ASSUME NEW e \in Counts, pending[e]
               PROVE  /\ e \notin Outline /\ (e = "not_full" => Reserve = "cas")
                      /\ sleepers'[e] # {} =>
                           \/ \E u \in Waiters : Doing(u)'[1] \in {"advance", "wake"} /\ Doing(u)'[2] = e
                           \/ \E u \in Waiters : SleepsOn(u) = e /\ Woken(u)'
    BY <1>1 DEF WakesCarried
  <2>1. /\ e \notin Outline /\ (e = "not_full" => Reserve = "cas")
        /\ sleepers[e] # {} =>
             \/ \E u \in Waiters : Doing(u)[1] \in {"advance", "wake"} /\ Doing(u)[2] = e
             \/ \E u \in Waiters : SleepsOn(u) = e /\ Woken(u)
    BY DEF CountsInv, WakesCarried
  <2>2. ASSUME NEW u \in Waiters, Doing(u)[1] \in {"advance", "wake"}, Doing(u)[2] = e
        PROVE  \E v \in Waiters : Doing(v)'[1] \in {"advance", "wake"} /\ Doing(v)'[2] = e
    <3>1. u # t
      BY <2>2
    <3> QED BY <1>2, <2>2, <3>1 DEF Doing
  <2>3. ASSUME NEW u \in Waiters, SleepsOn(u) = e, Woken(u)
        PROVE  \E v \in Waiters : SleepsOn(v) = e /\ Woken(v)'
    <3>1. CASE u = t
      BY <2>3, <3>1
    <3>2. CASE u # t
      <4>1. u \notin sleepers'[SleepsOn(u)] <=> u \notin sleepers[SleepsOn(u)]
        BY <2>3, <3>2
      <4>2. Woken(u)'
        BY <1>1, <1>2, <2>3, <3>2, <4>1 DEF Woken, Settled, At, Doing, Clears
      <4> QED BY <2>3, <4>2
    <3> QED BY <3>1, <3>2
  <2> QED BY <2>1, <2>2, <2>3
<1> QED BY <1>3, <1>4, <1>5, <1>6

\* A notifier changes nobody's key, and clears nothing.
LEMMA NotifierBooks ==
  ASSUME Calls, CountsInv, UNCHANGED <<fixed, waiters, key, buffer, parked>>,
         NEW t \in Waiters, NoticeSteps(t),
         \A e \in Counts : sleepers'[e] \subseteq sleepers[e],
         \A e \in Counts : epoch'[e] \in Nat /\ epoch[e] <= epoch'[e]
  PROVE  /\ SleepersWait' /\ ClearsInTime' /\ WaitersCounted'
         /\ OthersStay(t) /\ ~Clears(t) /\ Doing(t)[1] \in Noticed
         /\ \A u \in Waiters : (Announced(u)' <=> Announced(u)) /\ (Clears(u)' <=> Clears(u))
<1>1. /\ waiters' = waiters /\ key' = key /\ buffer' = buffer /\ parked' = parked
      /\ Reserve' = Reserve /\ Outline' = Outline
  BY DEF fixed
<1>2. /\ OthersStay(t) /\ Doing(t)[1] \in Noticed
      /\ \A u \in Waiters : u # t => stack'[u] = stack[u]
  BY NoticeStepsMove DEF OthersStay
<1>3. ~Clears(t)
  BY MoverCleared DEF CountsInv
<1>4. \A u \in Waiters : (Announced(u)' <=> Announced(u)) /\ (Clears(u)' <=> Clears(u))
  <2>1. \A u \in Waiters : u # t => (Announced(u)' <=> Announced(u))
    BY <1>2 DEF Announced
  <2>2. Announced(t)' <=> Announced(t)
    BY NoticeStepsAnnounce
  <2> QED BY <1>1, <2>1, <2>2 DEF Clears
<1>5. WaitersCounted'
  BY <1>4, CountedStays DEF CountsInv
<1>6. SleepersWait'
  <2>1. SleepersWait /\ epoch \in [Counts -> Nat] /\ key \in [Waiters -> Nat]
    BY DEF CountsInv, Calls, StateTypes, CountTypes
  <2>2. ASSUME NEW e \in Counts, NEW u \in sleepers'[e]
        PROVE  SleepsOn(u) = e /\ Head(stack'[u])[1] = "wait"
    <3>1. u \in sleepers[e]
      OBVIOUS
    <3>2. u \in Waiters /\ SleepsOn(u) = e /\ At(u, "wait")
      BY <2>1, <3>1 DEF SleepersWait, Calls, StateTypes, CountTypes
    <3>3. u # t
      BY <1>2, <3>2 DEF At, Noticed
    <3> QED BY <1>2, <3>2, <3>3 DEF At, Doing
  <2>3. ASSUME NEW u \in Waiters PROVE key[u] <= epoch'[SleepsOn(u)]
    <3>1. SleepsOn(u) \in Counts
      BY Roles
    <3>2. key[u] <= epoch[SleepsOn(u)] /\ epoch[SleepsOn(u)] <= epoch'[SleepsOn(u)]
      BY <2>1, <3>1 DEF SleepersWait
    <3>3. key[u] \in Nat /\ epoch[SleepsOn(u)] \in Nat /\ epoch'[SleepsOn(u)] \in Nat
      BY <2>1, <3>1
    <3> QED BY <3>2, <3>3
  <2> QED BY <1>1, <2>2, <2>3 DEF SleepersWait, At, Doing
<1>7. ClearsInTime'
  <2> SUFFICES ASSUME NEW u \in Waiters, Clears(u)
               PROVE  /\ Head(buffer[u]).count = SleepsOn(u) /\ SleepsOn(u) \notin Outline
                      /\ Head(stack'[u])[1] \in {"recheck", "left", "push", "turn"}
                      /\ Head(stack'[u])[1] = "push" => parked[u]
    BY <1>1, <1>4 DEF ClearsInTime, At, Doing
  <2>1. u # t
    BY <1>3
  <2> QED BY <1>2, <2>1 DEF CountsInv, ClearsInTime, At, Doing
<1> QED BY <1>2, <1>3, <1>4, <1>5, <1>6, <1>7

\* Reading the key keeps the books of the event counts.
LEMMA KeysCounts ==
  ASSUME Calls, CountsInv, UNCHANGED fixed, NEW t \in Waiters, Keys(t)
  PROVE  CountsInv'
<1>1. /\ key' = [key EXCEPT ![t] = epoch[SleepsOn(t)]]
      /\ UNCHANGED <<epoch, waiters, pending, sleepers, buffer, parked>>
      /\ OthersStay(t) /\ At(t, "key") /\ WaitingSteps(t)
  BY WaitingStepsMove DEF Keys, ReadKey, calling, WaitingSteps
<1>2. ~Clears(t) /\ ~Clears(t)' /\ ~Woken(t)
  BY <1>1, MoverCleared DEF CountsInv, Clears, Woken, At
<1>3. /\ key \in [Waiters -> Nat] /\ epoch \in [Counts -> Nat] /\ SleepsOn(t) \in Counts
      /\ SleepersWait
  BY Roles DEF Calls, StateTypes, CountTypes, CountsInv
<1>4. \A e \in Counts : sleepers'[e] = sleepers[e] \ {t}
  BY <1>1, <1>3 DEF SleepersWait, At
<1>5. key'[t] <= epoch[SleepsOn(t)] /\ \A u \in Waiters : u # t => key'[u] = key[u]
  BY <1>1, <1>3
<1>6. /\ ~Announced(t) /\ (SleepsOn(t) \notin Outline => ~Announced(t)')
      /\ \A u \in Waiters : u # t => (Announced(u)' <=> Announced(u))
  BY <1>1, WaitingStepsAnnounce DEF OthersStay, Announced
<1>7. SleepersWait' /\ ClearsInTime' /\ ClaimsReach' /\ WakesCarried'
  BY <1>1, <1>2, <1>4, <1>5, <1>6, WaiterBooks DEF At
<1>8. WaitersCounted'
  BY <1>1, <1>6, CountedStays DEF CountsInv
<1> QED BY <1>7, <1>8 DEF CountsInv

\* So does an announcement.
LEMMA AnnouncesCounts ==
  ASSUME Calls, CountsInv, UNCHANGED fixed, NEW t \in Waiters, Announces(t)
  PROVE  CountsInv'
<1>1. /\ waiters' = [waiters EXCEPT ![SleepsOn(t)] = @ + 1]
      /\ buffer' = [buffer EXCEPT ![t] = <<ClearPending(SleepsOn(t))>>]
      /\ UNCHANGED <<epoch, pending, sleepers, key, parked>>
      /\ OthersStay(t) /\ At(t, "announce") /\ WaitingSteps(t) /\ Then(t, <<>>)
  BY WaitingStepsMove DEF Announces, Announce, calling, WaitingSteps
<1>2. ~Clears(t) /\ ~Woken(t)
  BY <1>1, MoverCleared DEF CountsInv, Woken, At
<1>3. /\ key \in [Waiters -> Nat] /\ epoch \in [Counts -> Nat] /\ SleepsOn(t) \in Counts
      /\ SleepersWait
  BY Roles DEF Calls, StateTypes, CountTypes, CountsInv
<1>4. \A e \in Counts : sleepers'[e] = sleepers[e] \ {t}
  BY <1>1, <1>3 DEF SleepersWait, At
<1>5. key'[t] <= epoch[SleepsOn(t)]
  BY <1>1, <1>3 DEF SleepersWait
<1>6. /\ ~Announced(t) /\ Announced(t)' /\ SleepsOn(t) \notin Outline
      /\ \A u \in Waiters : u # t => (Announced(u)' <=> Announced(u))
  BY <1>1, WaitingStepsAnnounce DEF OthersStay, Announced
<1>7. /\ Clears(t)' /\ Head(buffer'[t]).count = SleepsOn(t)
      /\ \A u \in Waiters : u # t => buffer'[u] = buffer[u]
  BY <1>1, <1>3, ClearBuffers
<1>8. Head(stack'[t])[1] = "recheck"
  BY <1>1, WaitPlaces, AnnounceMoves DEF Goes, At
<1>9. SleepersWait' /\ ClearsInTime' /\ ClaimsReach' /\ WakesCarried'
  BY <1>1, <1>2, <1>4, <1>5, <1>6, <1>7, <1>8, WaiterBooks DEF At
<1>10. WaitersCounted'
  BY <1>1, <1>6, CountedGrows DEF CountsInv
<1> QED BY <1>9, <1>10 DEF CountsInv

\* So does cancel_wait.
LEMMA CancelsCounts ==
  ASSUME Calls, CountsInv, UNCHANGED fixed, NEW t \in Waiters, Cancels(t)
  PROVE  CountsInv'
<1>1. /\ \/ SleepsOn(t) \in Outline /\ waiters' = waiters
         \/ SleepsOn(t) \notin Outline /\ waiters' = [waiters EXCEPT ![SleepsOn(t)] = @ - 1]
      /\ UNCHANGED <<epoch, pending, sleepers, key, buffer, parked>>
      /\ OthersStay(t) /\ At(t, "cancel") /\ WaitingSteps(t)
  BY WaitingStepsMove DEF Cancels, CancelWait, calling, WaitingSteps
<1>2. ~Clears(t) /\ ~Clears(t)' /\ ~Woken(t)
  BY <1>1, MoverCleared DEF CountsInv, Clears, Woken, At
<1>3. /\ key \in [Waiters -> Nat] /\ epoch \in [Counts -> Nat] /\ SleepsOn(t) \in Counts
      /\ SleepersWait
  BY Roles DEF Calls, StateTypes, CountTypes, CountsInv
<1>4. \A e \in Counts : sleepers'[e] = sleepers[e] \ {t}
  BY <1>1, <1>3 DEF SleepersWait, At
<1>5. key'[t] <= epoch[SleepsOn(t)]
  BY <1>1, <1>3 DEF SleepersWait
<1>6. /\ Announced(t) /\ ~Announced(t)'
      /\ \A u \in Waiters : u # t => (Announced(u)' <=> Announced(u))
  BY <1>1, WaitingStepsAnnounce DEF OthersStay, Announced
<1>7. SleepersWait' /\ ClearsInTime' /\ ClaimsReach' /\ WakesCarried'
  BY <1>1, <1>2, <1>4, <1>5, <1>6, WaiterBooks DEF At
<1>8. WaitersCounted'
  <2>1. CASE SleepsOn(t) \in Outline
    <3>1. \A u \in Waiters : SleepsOn(u) \notin Outline => (Announced(u)' <=> Announced(u))
      BY <1>6, <2>1
    <3> QED BY <1>1, <2>1, <3>1, CountedStays DEF CountsInv
  <2>2. CASE SleepsOn(t) \notin Outline
    BY <1>1, <1>6, <2>2, CountedShrinks DEF CountsInv
  <2> QED BY <2>1, <2>2
<1> QED BY <1>7, <1>8 DEF CountsInv

\* So does the end of a wait.
LEMMA LeavesCounts ==
  ASSUME Calls, CountsInv, UNCHANGED fixed, NEW t \in Waiters, Leaves(t)
  PROVE  CountsInv'
<1> DEFINE e == SleepsOn(t)
<1>1. /\ \/ /\ e \in Outline /\ waiters' = waiters /\ buffer' = buffer
         \/ /\ e \notin Outline /\ waiters' = [waiters EXCEPT ![e] = @ - 1]
            /\ buffer' = [buffer EXCEPT ![t] = <<ClearPending(e)>>]
      /\ sleepers' = [sleepers EXCEPT ![e] = @ \ {t}]
      /\ UNCHANGED <<epoch, pending, key, parked>>
      /\ OthersStay(t) /\ At(t, "wait") /\ WaitingSteps(t) /\ Then(t, <<>>)
  BY WaitingStepsMove DEF Leaves, LeaveWait, calling, WaitingSteps
<1>2. ~Clears(t)
  BY <1>1, MoverCleared DEF CountsInv
<1>3. /\ key \in [Waiters -> Nat] /\ epoch \in [Counts -> Nat] /\ e \in Counts
      /\ SleepersWait /\ sleepers \in [Counts -> SUBSET Waiters]
  BY Roles DEF Calls, StateTypes, CountTypes, CountsInv
<1>4. \A d \in Counts : sleepers'[d] = sleepers[d] \ {t}
  <2>1. \A d \in Counts : d # e => t \notin sleepers[d] /\ sleepers'[d] = sleepers[d]
    BY <1>1, <1>3 DEF SleepersWait
  <2>2. sleepers'[e] = sleepers[e] \ {t}
    BY <1>1, <1>3
  <2> QED BY <2>1, <2>2
<1>5. key'[t] <= epoch[e]
  BY <1>1, <1>3 DEF SleepersWait
<1>6. /\ Announced(t) /\ ~Announced(t)'
      /\ \A u \in Waiters : u # t => (Announced(u)' <=> Announced(u))
  BY <1>1, WaitingStepsAnnounce DEF OthersStay, Announced
<1>7. /\ \A u \in Waiters : u # t => buffer'[u] = buffer[u]
      /\ e \in Outline => ~Clears(t)'
      /\ e \notin Outline => Clears(t)' /\ Head(buffer'[t]).count = e
  <2>1. CASE e \in Outline
    BY <1>1, <1>2, <2>1 DEF Clears
  <2>2. CASE e \notin Outline
    BY <1>1, <1>3, <2>2, ClearBuffers
  <2> QED BY <2>1, <2>2
<1>8. /\ Head(stack'[t])[1] \in {"push", "turn", "left"}
      /\ Head(stack'[t])[1] = "push" => parked[t]
      /\ Head(stack'[t])[1] = "turn" => Reserve = "ticket" /\ e = "not_full"
  <2>1. /\ t \in Producers /\ Reserve = "cas" => Head(stack'[t])[1] = "push" /\ parked[t]
        /\ t \in Producers /\ Reserve = "ticket" => Head(stack'[t])[1] = "turn" /\ e = "not_full"
        /\ t \in Consumers => Head(stack'[t])[1] = "left"
    BY <1>1, LeaveMoves, Roles DEF Goes, Calls, Remembers
  <2> QED BY <1>1, <2>1, CallsOf, WaitPlaces DEF At
<1>9. pending[e] => Woken(t)'
  <2> SUFFICES ASSUME pending[e] PROVE Woken(t)'
    OBVIOUS
  <2>1. e \notin Outline /\ (e = "not_full" => Reserve = "cas")
    BY <1>3 DEF CountsInv, WakesCarried
  <2>2. Clears(t)' /\ Head(stack'[t])[1] \in {"left", "push"}
    BY <1>7, <1>8, <2>1
  <2> QED BY <2>2 DEF Woken, Doing
<1>10. SleepersWait' /\ ClearsInTime' /\ ClaimsReach' /\ WakesCarried'
  BY <1>1, <1>4, <1>5, <1>6, <1>7, <1>8, <1>9, WaiterBooks DEF At
<1>11. WaitersCounted'
  <2>1. CASE e \in Outline
    <3>1. \A u \in Waiters : SleepsOn(u) \notin Outline => (Announced(u)' <=> Announced(u))
      BY <1>6, <2>1
    <3> QED BY <1>1, <2>1, <3>1, CountedStays DEF CountsInv
  <2>2. CASE e \notin Outline
    BY <1>1, <1>6, <2>2, CountedShrinks DEF CountsInv
  <2> QED BY <2>1, <2>2
<1> QED BY <1>10, <1>11 DEF CountsInv

\* So does falling asleep.
LEMMA SleepsCounts ==
  ASSUME Calls, CountsInv, UNCHANGED fixed, NEW t \in Waiters, Sleeps(t)
  PROVE  CountsInv'
<1> DEFINE e == SleepsOn(t)
<1>1. /\ At(t, "wait") /\ epoch[e] = key[t]
      /\ sleepers' = [sleepers EXCEPT ![e] = @ \cup {t}]
      /\ UNCHANGED <<epoch, waiters, pending, key, buffer, stack, parked, Outline, Reserve>>
  BY DEF Sleeps, Sleep, calling, fixed
<1>2. /\ e \in Counts /\ sleepers \in [Counts -> SUBSET Waiters]
      /\ SleepersWait /\ ClearsInTime /\ WaitersCounted /\ ClaimsReach /\ WakesCarried
  BY Roles DEF Calls, StateTypes, CountTypes, CountsInv
<1>3. /\ sleepers'[e] = sleepers[e] \cup {t}
      /\ \A d \in Counts : d # e => sleepers'[d] = sleepers[d]
  BY <1>1, <1>2
<1>4. SleepersWait'
  BY <1>1, <1>2, <1>3 DEF SleepersWait, At, Doing
<1>5. ClearsInTime'
  BY <1>1, <1>2 DEF ClearsInTime, Clears, At, Doing
<1>6. WaitersCounted'
  BY <1>1, <1>2 DEF WaitersCounted, Announced
<1>7. ClaimsReach'
  BY <1>1, <1>2 DEF ClaimsReach, Announced, Advancing, Doing, Clears
<1>8. WakesCarried'
  <2> SUFFICES ASSUME NEW d \in Counts, pending[d]
               PROVE  /\ d \notin Outline /\ (d = "not_full" => Reserve = "cas")
                      /\ sleepers'[d] # {} =>
                           \/ \E u \in Waiters : Doing(u)[1] \in {"advance", "wake"} /\ Doing(u)[2] = d
                           \/ \E u \in Waiters : SleepsOn(u) = d /\ Woken(u)'
    BY <1>1 DEF WakesCarried, Doing
  <2>1. /\ d \notin Outline /\ (d = "not_full" => Reserve = "cas")
        /\ sleepers[d] # {} =>
             \/ \E u \in Waiters : Doing(u)[1] \in {"advance", "wake"} /\ Doing(u)[2] = d
             \/ \E u \in Waiters : SleepsOn(u) = d /\ Woken(u)
    BY <1>2 DEF WakesCarried
  <2>2. CASE d = e
    <3>1. Announced(t) /\ ~Clears(t)
      BY <1>1, <1>2, AnnouncedAt DEF ClearsInTime, At
    <3>2. Advancing(d)
      BY <1>1, <1>2, <2>1, <2>2, <3>1 DEF ClaimsReach
    <3>3. PICK u \in Waiters : Doing(u) = <<"advance", d, "one">>
      BY <3>2 DEF Advancing
    <3>4. Doing(u)[1] = "advance" /\ Doing(u)[2] = d
      BY <3>3
    <3> QED BY <2>1, <3>4
  <2>3. CASE d # e
    <3>1. ASSUME NEW u \in Waiters, SleepsOn(u) = d, Woken(u)
          PROVE  \E v \in Waiters : SleepsOn(v) = d /\ Woken(v)'
      <4>1. sleepers'[SleepsOn(u)] = sleepers[SleepsOn(u)]
        BY <1>3, <2>3, <3>1
      <4>2. Woken(u)'
        BY <1>1, <3>1, <4>1 DEF Woken, Settled, At, Doing, Clears
      <4> QED BY <3>1, <4>2
    <3> QED BY <1>3, <2>1, <2>3, <3>1
  <2> QED BY <2>2, <2>3
<1> QED BY <1>4, <1>5, <1>6, <1>7, <1>8 DEF CountsInv

\* So does the arrival of a clear: whoever slept through that wake is on its way.
LEMMA ClearArrivesCounts ==
  ASSUME Calls, CountsInv, UNCHANGED fixed, NEW t \in Waiters, ClearArrives(t)
  PROVE  CountsInv'
<1> DEFINE e == SleepsOn(t)
<1>1. /\ Clears(t) /\ pending' = [pending EXCEPT ![Head(buffer[t]).count] = FALSE]
      /\ buffer' = [buffer EXCEPT ![t] = Tail(@)]
      /\ UNCHANGED <<epoch, waiters, sleepers, key, stack, parked, Outline, Reserve>>
  BY DEF ClearArrives, FlushClear, Fenced, Clears, calling, fixed
<1>2. /\ e \in Counts /\ pending \in [Counts -> BOOLEAN] /\ BufferTypes
      /\ SleepersWait /\ ClearsInTime /\ WaitersCounted /\ ClaimsReach /\ WakesCarried
  BY Roles DEF Calls, StateTypes, CountTypes, CountsInv
<1>3. /\ ~pending'[e]
      /\ \A d \in Counts : d # e => pending'[d] = pending[d]
  BY <1>1, <1>2 DEF ClearsInTime
<1>4. ~Clears(t)' /\ \A u \in Waiters : u # t => buffer'[u] = buffer[u]
  <2>1. PICK d \in Counts : buffer[t] = <<ClearPending(d)>>
    BY <1>1, <1>2 DEF BufferTypes, Clears, IsClear
  <2>2. Tail(buffer[t]) = <<>>
    BY <2>1
  <2>3. buffer' = [buffer EXCEPT ![t] = <<>>]
    BY <1>1, <1>2, <2>2 DEF BufferTypes
  <2> QED BY <2>3, FlushBuffers
<1>5. SleepersWait'
  BY <1>1, <1>2 DEF SleepersWait, At, Doing
<1>6. ClearsInTime'
  <2> SUFFICES ASSUME NEW u \in Waiters, Clears(u)'
               PROVE  /\ Head(buffer'[u]).count = SleepsOn(u) /\ SleepsOn(u) \notin Outline
                      /\ Doing(u)[1] \in {"recheck", "left", "push", "turn"}
                      /\ At(u, "push") => parked[u]
    BY <1>1 DEF ClearsInTime, At, Doing
  <2>1. u # t
    BY <1>4
  <2>2. buffer'[u] = buffer[u] /\ Clears(u)
    BY <1>4, <2>1 DEF Clears
  <2> QED BY <1>2, <2>2 DEF ClearsInTime
<1>7. WaitersCounted'
  BY <1>1, <1>2 DEF WaitersCounted, Announced
<1>8. ClaimsReach'
  <2> SUFFICES ASSUME NEW u \in Waiters, Announced(u), SleepsOn(u) \notin Outline, ~Clears(u)',
                      key[u] = epoch[SleepsOn(u)], pending'[SleepsOn(u)]
               PROVE  Advancing(SleepsOn(u))
    BY <1>1 DEF ClaimsReach, Announced, Advancing, Doing
  <2>1. SleepsOn(u) # e /\ SleepsOn(u) \in Counts /\ u # t
    BY <1>3, Roles
  <2>2. pending[SleepsOn(u)] /\ ~Clears(u)
    BY <1>3, <1>4, <2>1 DEF Clears
  <2> QED BY <1>2, <2>2 DEF ClaimsReach
<1>9. WakesCarried'
  <2> SUFFICES ASSUME NEW d \in Counts, pending'[d]
               PROVE  /\ d \notin Outline /\ (d = "not_full" => Reserve = "cas")
                      /\ sleepers[d] # {} =>
                           \/ \E u \in Waiters : Doing(u)[1] \in {"advance", "wake"} /\ Doing(u)[2] = d
                           \/ \E u \in Waiters : SleepsOn(u) = d /\ Woken(u)'
    BY <1>1 DEF WakesCarried, Doing
  <2>0. d # e /\ pending[d]
    BY <1>3
  <2>1. /\ d \notin Outline /\ (d = "not_full" => Reserve = "cas")
        /\ sleepers[d] # {} =>
             \/ \E u \in Waiters : Doing(u)[1] \in {"advance", "wake"} /\ Doing(u)[2] = d
             \/ \E u \in Waiters : SleepsOn(u) = d /\ Woken(u)
    BY <1>2, <2>0 DEF WakesCarried
  <2>2. ASSUME NEW u \in Waiters, SleepsOn(u) = d, Woken(u)
        PROVE  \E v \in Waiters : SleepsOn(v) = d /\ Woken(v)'
    <3>1. u # t
      BY <2>0, <2>2
    <3>2. Woken(u)'
      BY <1>1, <1>4, <2>2, <3>1 DEF Woken, Settled, At, Doing, Clears
    <3> QED BY <2>2, <3>2
  <2> QED BY <2>1, <2>2
<1> QED BY <1>5, <1>6, <1>7, <1>8, <1>9 DEF CountsInv

\* Claiming a wake keeps the books: its claimer is about to advance the epoch.
LEMMA ClaimsCounts ==
  ASSUME Calls, CountsInv, UNCHANGED fixed, NEW t \in Waiters, Claims(t)
  PROVE  CountsInv'
<1> DEFINE e == Doing(t)[2]
<1>1. /\ At(t, "claim") /\ e \in Counts /\ pending \in [Counts -> BOOLEAN]
      /\ UNCHANGED <<epoch, waiters, sleepers, key, buffer, parked, Reserve, Outline>>
      /\ pending' = pending \/ pending' = [pending EXCEPT ![e] = TRUE]
      /\ NoticeSteps(t)
      /\ e \notin Outline /\ (e = "not_full" => Reserve = "cas")
      /\ epoch \in [Counts -> Nat]
  <2>1. /\ At(t, "claim") /\ ClaimWake(t, e) /\ NoticeSteps(t)
        /\ UNCHANGED <<parked, Reserve, Outline>>
    BY DEF Claims, NoticeSteps, calling, fixed
  <2>2. Doing(t)[1] \in Noticed /\ Doing(t)[1] = "claim"
    BY <2>1 DEF At, Noticed
  <2>3. e \in Counts /\ IsNotice(Doing(t), e, Doing(t)[3])
    BY <2>2, NoticeOf
  <2>4. e \notin Outline /\ Doing(t)[3] = "one"
    BY <2>2, <2>3 DEF IsNotice
  <2>5. e = "not_full" => Reserve = "cas"
    <3>1. t \in Producers \/ t \in Consumers
      BY <2>2, NoticeOf, Roles
    <3> QED BY <2>2, <2>4, <3>1, NoticeOf, CallsOf DEF Publishing, Releasing, IsNotice
  <2>6. epoch \in [Counts -> Nat] /\ pending \in [Counts -> BOOLEAN]
    BY DEF Calls, StateTypes, CountTypes
  <2> QED BY <2>1, <2>3, <2>4, <2>5, <2>6 DEF ClaimWake
<1>2. /\ Doing(t)' = <<"advance", e, "one">> /\ OthersStay(t)
  BY <1>1, NoticeStepsMove, BecomesTo DEF Claims, At, NotifyLook, Advances, NotifyAdvance
<1>3. \A u \in Waiters : u # t => stack'[u] = stack[u]
  BY <1>2 DEF OthersStay
<1>4. \A d \in Counts : d # e => pending'[d] = pending[d]
  BY <1>1
<1>5. /\ SleepersWait' /\ ClearsInTime' /\ WaitersCounted'
      /\ \A u \in Waiters : (Announced(u)' <=> Announced(u)) /\ (Clears(u)' <=> Clears(u))
  BY <1>1, NotifierBooks
<1>6. ClaimsReach'
  <2> SUFFICES ASSUME NEW u \in Waiters, Announced(u), SleepsOn(u) \notin Outline, ~Clears(u),
                      key[u] = epoch[SleepsOn(u)], pending'[SleepsOn(u)]
               PROVE  \E v \in Waiters : Doing(v)' = <<"advance", SleepsOn(u), "one">>
    BY <1>1, <1>5 DEF ClaimsReach, Advancing
  <2>1. CASE SleepsOn(u) = e
    BY <1>2, <2>1
  <2>2. CASE SleepsOn(u) # e
    <3>1. pending[SleepsOn(u)]
      BY <1>4, <2>2, Roles
    <3>2. PICK v \in Waiters : Doing(v) = <<"advance", SleepsOn(u), "one">>
      BY <3>1 DEF CountsInv, ClaimsReach, Advancing
    <3>3. v # t
      BY <1>1, <3>2 DEF At
    <3> QED BY <1>3, <3>2, <3>3 DEF Doing
  <2> QED BY <2>1, <2>2
<1>7. WakesCarried'
  <2> SUFFICES ASSUME NEW d \in Counts, pending'[d]
               PROVE  /\ d \notin Outline /\ (d = "not_full" => Reserve = "cas")
                      /\ sleepers[d] # {} =>
                           \/ \E u \in Waiters : Doing(u)'[1] \in {"advance", "wake"} /\ Doing(u)'[2] = d
                           \/ \E u \in Waiters : SleepsOn(u) = d /\ Woken(u)'
    BY <1>1 DEF WakesCarried
  <2>1. CASE d = e
    <3>1. Doing(t)'[1] = "advance" /\ Doing(t)'[2] = d
      BY <1>2, <2>1
    <3> QED BY <1>1, <2>1, <3>1
  <2>2. CASE d # e
    <3>1. /\ d \notin Outline /\ (d = "not_full" => Reserve = "cas")
          /\ sleepers[d] # {} =>
               \/ \E u \in Waiters : Doing(u)[1] \in {"advance", "wake"} /\ Doing(u)[2] = d
               \/ \E u \in Waiters : SleepsOn(u) = d /\ Woken(u)
      BY <1>4, <2>2 DEF CountsInv, WakesCarried
    <3>2. ASSUME NEW u \in Waiters, Doing(u)[1] \in {"advance", "wake"}, Doing(u)[2] = d
          PROVE  \E v \in Waiters : Doing(v)'[1] \in {"advance", "wake"} /\ Doing(v)'[2] = d
      <4>1. u # t
        BY <2>2, <3>2
      <4> QED BY <1>3, <3>2, <4>1 DEF Doing
    <3>3. ASSUME NEW u \in Waiters, SleepsOn(u) = d, Woken(u)
          PROVE  \E v \in Waiters : SleepsOn(v) = d /\ Woken(v)'
      <4>1. u # t
        BY <1>1, <1>5, <3>3, NotifierBooks DEF Woken, At
      <4>2. Woken(u)'
        BY <1>1, <1>3, <1>5, <3>3, <4>1 DEF Woken, Settled, At, Doing
      <4> QED BY <3>3, <4>2
    <3> QED BY <3>1, <3>2, <3>3
  <2> QED BY <2>1, <2>2
<1> QED BY <1>5, <1>6, <1>7 DEF CountsInv

\* So does advancing the epoch: every key is old, and the wake goes on.
LEMMA AdvancesCounts ==
  ASSUME Calls, CountsInv, UNCHANGED fixed, NEW t \in Waiters, Advances(t)
  PROVE  CountsInv'
<1> DEFINE e == Doing(t)[2]
<1>1. /\ At(t, "advance") /\ e \in Counts /\ NoticeSteps(t)
      /\ epoch' = [epoch EXCEPT ![e] = @ + 1]
      /\ UNCHANGED <<waiters, pending, sleepers, key, buffer, parked, Reserve, Outline>>
      /\ epoch \in [Counts -> Nat] /\ key \in [Waiters -> Nat]
  <2>1. /\ At(t, "advance") /\ Advance(t, e) /\ NoticeSteps(t)
        /\ UNCHANGED <<parked, Reserve, Outline>>
    BY DEF Advances, NotifyAdvance, NoticeSteps, calling, fixed
  <2>2. e \in Counts
    BY <2>1, NoticeOf DEF At, Noticed
  <2> QED BY <2>1, <2>2 DEF Advance, Calls, StateTypes, CountTypes
<1>2. /\ Doing(t)' = <<"wake", e, "one">> /\ OthersStay(t)
  BY <1>1, NoticeStepsMove, BecomesTo DEF Advances, At, NotifyLook, Claims
<1>3. \A u \in Waiters : u # t => stack'[u] = stack[u]
  BY <1>2 DEF OthersStay
<1>4. /\ epoch'[e] = epoch[e] + 1 /\ epoch[e] \in Nat
      /\ \A d \in Counts : d # e => epoch'[d] = epoch[d]
      /\ \A d \in Counts : epoch'[d] \in Nat /\ epoch[d] <= epoch'[d]
  BY <1>1
<1>5. /\ SleepersWait' /\ ClearsInTime' /\ WaitersCounted'
      /\ \A u \in Waiters : (Announced(u)' <=> Announced(u)) /\ (Clears(u)' <=> Clears(u))
  BY <1>1, <1>4, NotifierBooks
<1>6. \A u \in Waiters : SleepsOn(u) = e => key[u] # epoch'[e]
  <2> SUFFICES ASSUME NEW u \in Waiters, SleepsOn(u) = e PROVE key[u] # epoch'[e]
    OBVIOUS
  <2>1. key[u] <= epoch[e] /\ key[u] \in Nat
    BY <1>1 DEF CountsInv, SleepersWait
  <2> QED BY <1>4, <2>1
<1>7. ClaimsReach'
  <2> SUFFICES ASSUME NEW u \in Waiters, Announced(u), SleepsOn(u) \notin Outline, ~Clears(u),
                      key[u] = epoch'[SleepsOn(u)], pending[SleepsOn(u)]
               PROVE  \E v \in Waiters : Doing(v)' = <<"advance", SleepsOn(u), "one">>
    BY <1>1, <1>5 DEF ClaimsReach, Advancing
  <2>1. SleepsOn(u) # e /\ SleepsOn(u) \in Counts
    BY <1>6, Roles
  <2>2. PICK v \in Waiters : Doing(v) = <<"advance", SleepsOn(u), "one">>
    BY <1>4, <2>1 DEF CountsInv, ClaimsReach, Advancing
  <2>3. v # t
    BY <2>1, <2>2
  <2> QED BY <1>3, <2>2, <2>3 DEF Doing
<1>8. WakesCarried'
  <2> SUFFICES ASSUME NEW d \in Counts, pending[d]
               PROVE  /\ d \notin Outline /\ (d = "not_full" => Reserve = "cas")
                      /\ sleepers[d] # {} =>
                           \/ \E u \in Waiters : Doing(u)'[1] \in {"advance", "wake"} /\ Doing(u)'[2] = d
                           \/ \E u \in Waiters : SleepsOn(u) = d /\ Woken(u)'
    BY <1>1 DEF WakesCarried
  <2>0. /\ d \notin Outline /\ (d = "not_full" => Reserve = "cas")
        /\ sleepers[d] # {} =>
             \/ \E u \in Waiters : Doing(u)[1] \in {"advance", "wake"} /\ Doing(u)[2] = d
             \/ \E u \in Waiters : SleepsOn(u) = d /\ Woken(u)
    BY DEF CountsInv, WakesCarried
  <2>1. CASE d = e
    <3>1. Doing(t)'[1] = "wake" /\ Doing(t)'[2] = d
      BY <1>2, <2>1
    <3> QED BY <2>0, <3>1
  <2>2. CASE d # e
    <3>2. ASSUME NEW u \in Waiters, Doing(u)[1] \in {"advance", "wake"}, Doing(u)[2] = d
          PROVE  \E v \in Waiters : Doing(v)'[1] \in {"advance", "wake"} /\ Doing(v)'[2] = d
      <4>1. u # t
        BY <2>2, <3>2
      <4> QED BY <1>3, <3>2, <4>1 DEF Doing
    <3>3. ASSUME NEW u \in Waiters, SleepsOn(u) = d, Woken(u)
          PROVE  \E v \in Waiters : SleepsOn(v) = d /\ Woken(v)'
      <4>1. u # t
        BY <1>1, <1>4, <3>3, NotifierBooks DEF Woken, At
      <4>2. epoch'[SleepsOn(u)] = epoch[SleepsOn(u)]
        BY <1>4, <2>2, <3>3
      <4>3. Woken(u)'
        BY <1>1, <1>3, <1>5, <3>3, <4>1, <4>2 DEF Woken, Settled, At, Doing
      <4> QED BY <3>3, <4>3
    <3> QED BY <2>0, <3>2, <3>3
  <2> QED BY <2>1, <2>2
<1> QED BY <1>5, <1>7, <1>8 DEF CountsInv

\* So does the wake of one sleeper, who is then on its way to clear it.
LEMMA WakesCounts ==
  ASSUME Calls, CountsInv, UNCHANGED fixed, NEW t \in Waiters, Wakes(t)
  PROVE  CountsInv'
<1> DEFINE e == Doing(t)[2]
<1>1. /\ At(t, "wake") /\ e \in Counts /\ NoticeSteps(t)
      /\ sleepers \in [Counts -> SUBSET Waiters]
      /\ \/ sleepers[e] = {} /\ sleepers' = sleepers
         \/ \E w \in sleepers[e] : sleepers' = [sleepers EXCEPT ![e] = @ \ {w}]
      /\ UNCHANGED <<epoch, waiters, pending, key, buffer, parked, Reserve, Outline>>
      /\ epoch \in [Counts -> Nat] /\ key \in [Waiters -> Nat]
  <2>1. /\ At(t, "wake") /\ WakeOne(e) /\ NoticeSteps(t)
        /\ UNCHANGED <<parked, Reserve, Outline>>
    BY DEF Wakes, NotifyWake, NoticeSteps, calling, fixed
  <2>2. e \in Counts
    BY <2>1, NoticeOf DEF At, Noticed
  <2> QED BY <2>1, <2>2 DEF WakeOne, Calls, StateTypes, CountTypes
<1>2. \A d \in Counts : sleepers'[d] \subseteq sleepers[d]
  BY <1>1
<1>3. /\ SleepersWait' /\ ClearsInTime' /\ WaitersCounted' /\ OthersStay(t)
      /\ \A u \in Waiters : (Announced(u)' <=> Announced(u)) /\ (Clears(u)' <=> Clears(u))
  BY <1>1, <1>2, NotifierBooks
<1>4. /\ \A u \in Waiters : u # t => stack'[u] = stack[u]
      /\ ~Clears(t)
  BY <1>1, <1>2, <1>3, NotifierBooks DEF OthersStay
<1>5. ClaimsReach'
  <2> SUFFICES ASSUME NEW u \in Waiters, Announced(u), SleepsOn(u) \notin Outline, ~Clears(u),
                      key[u] = epoch[SleepsOn(u)], pending[SleepsOn(u)]
               PROVE  \E v \in Waiters : Doing(v)' = <<"advance", SleepsOn(u), "one">>
    BY <1>1, <1>3 DEF ClaimsReach, Advancing
  <2>1. PICK v \in Waiters : Doing(v) = <<"advance", SleepsOn(u), "one">>
    BY DEF CountsInv, ClaimsReach, Advancing
  <2>2. v # t
    BY <1>1, <2>1 DEF At
  <2> QED BY <1>4, <2>1, <2>2 DEF Doing
<1>6. WakesCarried'
  <2> SUFFICES ASSUME NEW d \in Counts, pending[d]
               PROVE  /\ d \notin Outline /\ (d = "not_full" => Reserve = "cas")
                      /\ sleepers'[d] # {} =>
                           \/ \E u \in Waiters : Doing(u)'[1] \in {"advance", "wake"} /\ Doing(u)'[2] = d
                           \/ \E u \in Waiters : SleepsOn(u) = d /\ Woken(u)'
    BY <1>1 DEF WakesCarried
  <2>0. /\ d \notin Outline /\ (d = "not_full" => Reserve = "cas")
        /\ sleepers[d] # {} =>
             \/ \E u \in Waiters : Doing(u)[1] \in {"advance", "wake"} /\ Doing(u)[2] = d
             \/ \E u \in Waiters : SleepsOn(u) = d /\ Woken(u)
    BY DEF CountsInv, WakesCarried
  <2>1. ASSUME NEW w \in sleepers[e], sleepers' = [sleepers EXCEPT ![e] = @ \ {w}], d = e
        PROVE  \/ \E u \in Waiters : Doing(u)'[1] \in {"advance", "wake"} /\ Doing(u)'[2] = d
               \/ \E u \in Waiters : SleepsOn(u) = d /\ Woken(u)'
    <3>1. w \in Waiters /\ SleepsOn(w) = e /\ At(w, "wait") /\ w # t
      BY <1>1, <2>1 DEF CountsInv, SleepersWait, At
    <3>2. CASE key[w] = epoch[e]
      <4>1. Announced(w) /\ ~Clears(w)
        BY <3>1, AnnouncedAt DEF CountsInv, ClearsInTime, At
      <4>2. PICK v \in Waiters : Doing(v) = <<"advance", e, "one">>
        BY <2>0, <2>1, <3>1, <3>2, <4>1 DEF CountsInv, ClaimsReach, Advancing
      <4>3. v # t
        BY <1>1, <4>2 DEF At
      <4>4. Doing(v)'[1] = "advance" /\ Doing(v)'[2] = d
        BY <1>4, <2>1, <4>2, <4>3 DEF Doing
      <4> QED BY <4>4
    <3>3. CASE key[w] # epoch[e]
      <4>1. w \notin sleepers'[e]
        BY <1>1, <2>1
      <4>2. Woken(w)'
        BY <1>1, <1>4, <3>1, <3>3, <4>1 DEF Woken, Settled, At, Doing
      <4> QED BY <2>1, <3>1, <4>2
    <3> QED BY <3>2, <3>3
  <2>2. ASSUME NEW u \in Waiters, Doing(u)[1] \in {"advance", "wake"}, Doing(u)[2] = d, u # t
        PROVE  \E v \in Waiters : Doing(v)'[1] \in {"advance", "wake"} /\ Doing(v)'[2] = d
    BY <1>4, <2>2 DEF Doing
  <2>3. ASSUME NEW u \in Waiters, SleepsOn(u) = d, Woken(u)
        PROVE  \E v \in Waiters : SleepsOn(v) = d /\ Woken(v)'
    <3>1. u # t
      BY <1>1, <1>4, <2>3 DEF Woken, At
    <3>2. u \notin sleepers[SleepsOn(u)] => u \notin sleepers'[SleepsOn(u)]
      BY <1>2, <2>3
    <3>3. Woken(u)'
      BY <1>1, <1>3, <1>4, <2>3, <3>1, <3>2 DEF Woken, Settled, At, Doing
    <3> QED BY <2>3, <3>3
  <2>4. CASE d = e
    <3>1. sleepers[e] # {} => \E w \in sleepers[e] : sleepers' = [sleepers EXCEPT ![e] = @ \ {w}]
      BY <1>1
    <3> QED BY <1>2, <2>0, <2>1, <2>4, <3>1
  <2>5. CASE d # e
    BY <1>2, <2>0, <2>2, <2>3, <2>5
  <2> QED BY <2>4, <2>5
<1> QED BY <1>3, <1>5, <1>6 DEF CountsInv

\* So does the wake of all: nobody is left asleep.
LEMMA WakesAllCounts ==
  ASSUME Calls, CountsInv, UNCHANGED fixed, NEW t \in Waiters, WakesAll(t)
  PROVE  CountsInv'
<1> DEFINE e == Doing(t)[2]
<1>1. /\ At(t, "advance") /\ Doing(t)[3] # "one" /\ e \in Counts /\ NoticeSteps(t)
      /\ epoch' = [epoch EXCEPT ![e] = @ + 1]
      /\ sleepers' = [sleepers EXCEPT ![e] = {}] /\ sleepers \in [Counts -> SUBSET Waiters]
      /\ UNCHANGED <<waiters, pending, key, buffer, parked, Reserve, Outline>>
      /\ epoch \in [Counts -> Nat] /\ key \in [Waiters -> Nat]
  <2>1. /\ At(t, "advance") /\ Doing(t)[3] # "one" /\ AdvanceAndWakeAll(t, e) /\ NoticeSteps(t)
        /\ UNCHANGED <<parked, Reserve, Outline>>
    BY DEF WakesAll, NotifyAll, NoticeSteps, calling, fixed
  <2>2. e \in Counts
    BY <2>1, NoticeOf DEF At, Noticed
  <2> QED BY <2>1, <2>2 DEF AdvanceAndWakeAll, Calls, StateTypes, CountTypes
<1>2. /\ sleepers'[e] = {} /\ \A d \in Counts : d # e => sleepers'[d] = sleepers[d]
      /\ \A d \in Counts : sleepers'[d] \subseteq sleepers[d]
  BY <1>1
<1>3. /\ epoch'[e] = epoch[e] + 1 /\ epoch[e] \in Nat
      /\ \A d \in Counts : d # e => epoch'[d] = epoch[d]
      /\ \A d \in Counts : epoch'[d] \in Nat /\ epoch[d] <= epoch'[d]
  BY <1>1
<1>4. /\ SleepersWait' /\ ClearsInTime' /\ WaitersCounted' /\ OthersStay(t) /\ ~Clears(t)
      /\ \A u \in Waiters : (Announced(u)' <=> Announced(u)) /\ (Clears(u)' <=> Clears(u))
  BY <1>1, <1>2, <1>3, NotifierBooks
<1>5. \A u \in Waiters : u # t => stack'[u] = stack[u]
  BY <1>4 DEF OthersStay
<1>6. \A u \in Waiters : SleepsOn(u) = e => key[u] # epoch'[e]
  <2> SUFFICES ASSUME NEW u \in Waiters, SleepsOn(u) = e PROVE key[u] # epoch'[e]
    OBVIOUS
  <2>1. key[u] <= epoch[e] /\ key[u] \in Nat
    BY <1>1 DEF CountsInv, SleepersWait
  <2> QED BY <1>3, <2>1
<1>7. ClaimsReach'
  <2> SUFFICES ASSUME NEW u \in Waiters, Announced(u), SleepsOn(u) \notin Outline, ~Clears(u),
                      key[u] = epoch'[SleepsOn(u)], pending[SleepsOn(u)]
               PROVE  \E v \in Waiters : Doing(v)' = <<"advance", SleepsOn(u), "one">>
    BY <1>1, <1>4 DEF ClaimsReach, Advancing
  <2>1. SleepsOn(u) # e /\ SleepsOn(u) \in Counts
    BY <1>6, Roles
  <2>2. PICK v \in Waiters : Doing(v) = <<"advance", SleepsOn(u), "one">>
    BY <1>3, <2>1 DEF CountsInv, ClaimsReach, Advancing
  <2>3. v # t
    BY <2>1, <2>2
  <2> QED BY <1>5, <2>2, <2>3 DEF Doing
<1>8. WakesCarried'
  <2> SUFFICES ASSUME NEW d \in Counts, pending[d]
               PROVE  /\ d \notin Outline /\ (d = "not_full" => Reserve = "cas")
                      /\ sleepers'[d] # {} =>
                           \/ \E u \in Waiters : Doing(u)'[1] \in {"advance", "wake"} /\ Doing(u)'[2] = d
                           \/ \E u \in Waiters : SleepsOn(u) = d /\ Woken(u)'
    BY <1>1 DEF WakesCarried
  <2>0. /\ d \notin Outline /\ (d = "not_full" => Reserve = "cas")
        /\ sleepers[d] # {} =>
             \/ \E u \in Waiters : Doing(u)[1] \in {"advance", "wake"} /\ Doing(u)[2] = d
             \/ \E u \in Waiters : SleepsOn(u) = d /\ Woken(u)
    BY DEF CountsInv, WakesCarried
  <2>1. CASE d = e
    BY <1>2, <2>0, <2>1
  <2>2. CASE d # e
    <3>2. ASSUME NEW u \in Waiters, Doing(u)[1] \in {"advance", "wake"}, Doing(u)[2] = d
          PROVE  \E v \in Waiters : Doing(v)'[1] \in {"advance", "wake"} /\ Doing(v)'[2] = d
      <4>1. u # t
        BY <2>2, <3>2
      <4> QED BY <1>5, <3>2, <4>1 DEF Doing
    <3>3. ASSUME NEW u \in Waiters, SleepsOn(u) = d, Woken(u)
          PROVE  \E v \in Waiters : SleepsOn(v) = d /\ Woken(v)'
      <4>1. u # t
        BY <1>1, <1>4, <3>3 DEF Woken, At
      <4>2. epoch'[SleepsOn(u)] = epoch[SleepsOn(u)] /\ sleepers'[SleepsOn(u)] = sleepers[SleepsOn(u)]
        BY <1>2, <1>3, <2>2, <3>3
      <4>3. Woken(u)'
        BY <1>1, <1>4, <1>5, <3>3, <4>1, <4>2 DEF Woken, Settled, At, Doing
      <4> QED BY <3>3, <4>3
    <3> QED BY <1>2, <2>0, <2>2, <3>2, <3>3
  <2> QED BY <2>1, <2>2
<1> QED BY <1>4, <1>7, <1>8 DEF CountsInv

\* The steps of the event counts keep their books.
LEMMA CountStepsCounts ==
  ASSUME Calls, CountsInv, UNCHANGED fixed, CountSteps
  PROVE  CountsInv'
  BY KeysCounts, AnnouncesCounts, CancelsCounts, SleepsCounts, LeavesCounts, ClaimsCounts,
     AdvancesCounts, WakesCounts, WakesAllCounts, ClearArrivesCounts DEF CountSteps

\* The books are right at first: nobody waits.
LEMMA CountsInvInit ==
  ASSUME Init
  PROVE  CountsInv
<1>1. /\ epoch = [e \in Counts |-> 0] /\ waiters = [e \in Counts |-> 0]
      /\ pending = [e \in Counts |-> FALSE] /\ sleepers = [e \in Counts |-> {}]
      /\ key = [t \in Waiters |-> 0] /\ buffer = [t \in Waiters |-> <<>>]
      /\ stack = [t \in Waiters |-> << <<IF t \in Consumers THEN "try" ELSE "idle">> >>]
  BY DEF Init, EventCountInit
<1>2. SleepersWait /\ ClearsInTime /\ ClaimsReach /\ WakesCarried
  BY <1>1, Roles DEF SleepersWait, ClearsInTime, ClaimsReach, WakesCarried, Clears
<1>3. \A t \in Waiters : ~Announced(t)
  <2> SUFFICES ASSUME NEW t \in Waiters PROVE ~AnnouncedIn(stack[t])
    BY DEF Announced, AnnouncedIn
  <2>1. CASE t \in Consumers
    BY <1>1, <2>1, AnnouncedStacks
  <2>2. CASE t \notin Consumers
    BY <1>1, <2>2, AnnouncedStacks DEF Idle
  <2> QED BY <2>1, <2>2
<1>4. \A e \in Counts :
        {t \in Waiters : e \notin Outline /\ SleepsOn(t) = e /\ Announced(t)} = {}
  BY <1>3
<1>5. WaitersCounted
  BY <1>1, <1>4, FS_EmptySet DEF WaitersCounted
<1> QED BY <1>2, <1>5 DEF CountsInv

\* The books of the event counts are right, for every number of threads and slots.
THEOREM QueueCounts == Spec => []CountsInv
<1>1. Init => CountsInv
  BY CountsInvInit
<1>2. Calls /\ CountsInv /\ [Next \/ Over]_vars => CountsInv'
  <2> SUFFICES ASSUME Calls, CountsInv, [Next \/ Over]_vars PROVE CountsInv'
    OBVIOUS
  <2>1. CASE Next
    BY <2>1, StepsOf, RingStepsCounts, CountStepsCounts, OtherStepsCounts
  <2>2. CASE UNCHANGED vars
    <3>1. UNCHANGED <<fixed, counts, stack, parked>> /\ buffer' = buffer
      BY <2>2 DEF vars, moving, calling
    <3>2. \A u \in Waiters : Clears(u)' <=> Clears(u)
      BY <3>1 DEF Clears
    <3> QED BY <3>1, <3>2, CountsStill
  <2> QED BY <2>1, <2>2 DEF Over
<1> QED BY <1>1, <1>2, QueueCalls, PTL DEF Spec

(* --------------------- the books, as a property -------------------------- *)
\* The labels on a stack are labels.
Labelled(s) == s # <<>> /\ \A i \in DOMAIN s : s[i][1] \in Labels

\* A stack of labelled frames is labelled.
LEMMA LabelledOf ==
  /\ \A a : a[1] \in Labels => Labelled(<<a>>)
  /\ \A a, b : a[1] \in Labels /\ b[1] \in Labels => Labelled(<<a, b>>)
  /\ \A a, b, c : a[1] \in Labels /\ b[1] \in Labels /\ c[1] \in Labels => Labelled(<<a, b, c>>)
  /\ \A a, b, c, d :
       a[1] \in Labels /\ b[1] \in Labels /\ c[1] \in Labels /\ d[1] \in Labels =>
         Labelled(<<a, b, c, d>>)
<1>1. \A a : a[1] \in Labels => Labelled(<<a>>)
  BY DEF Labelled
<1>2. \A a, b : a[1] \in Labels /\ b[1] \in Labels => Labelled(<<a, b>>)
  BY DEF Labelled
<1>3. \A a, b, c : a[1] \in Labels /\ b[1] \in Labels /\ c[1] \in Labels => Labelled(<<a, b, c>>)
  BY DEF Labelled
<1>4. \A a, b, c, d :
        a[1] \in Labels /\ b[1] \in Labels /\ c[1] \in Labels /\ d[1] \in Labels =>
          Labelled(<<a, b, c, d>>)
  BY DEF Labelled
<1> QED BY <1>1, <1>2, <1>3, <1>4

\* Wherever a thread is, its frames have labels.
LEMMA StacksLabelled ==
  ASSUME Calls, NEW t \in Waiters
  PROVE  Labelled(stack[t])
<1> DEFINE f == Head(stack[t])
<1>1. f[1] \in Noticed => f[1] \in Labels
  BY DEF Noticed, Labels
<1>2. /\ {"idle", "push", "precheck", "ticket", "turn", "chain", "key", "announce", "recheck",
          "cancel", "wait", "left", "try", "drained", "closed", "advance"} \subseteq Labels
      /\ Idle[1] = "idle"
  BY DEF Labels, Idle
<1> SUFFICES ASSUME NEW g, g = f PROVE Labelled(stack[t])
  OBVIOUS
<1> HIDE DEF f
<1>3. CASE t \in Producers
  <2>1. CASE Reserve = "cas"
    <3>1. InPush(stack[t])
      BY <1>3, <2>1, CallsOf
    <3> QED BY <1>1, <1>2, <3>1, LabelledOf, PushPlaces DEF f
  <2>2. CASE Reserve = "ticket"
    <3>1. InTicketPush(stack[t])
      BY <1>3, <2>2, CallsOf
    <3> QED BY <1>1, <1>2, <3>1, LabelledOf, TicketPlaces DEF f
  <2> QED BY <2>1, <2>2, CallsOf
<1>4. CASE t \in Consumers
  <2>1. InPop(stack[t])
    BY <1>4, CallsOf
  <2> QED BY <1>1, <1>2, <2>1, LabelledOf, PopPlaces DEF f
<1>5. CASE t = Closer
  <2>1. InClose(stack[t])
    BY <1>5, CallsOf
  <2> QED BY <1>2, <2>1, LabelledOf DEF InClose
<1> QED BY <1>3, <1>4, <1>5, Roles

\* The type invariant follows from the shapes of the calls and from the ring.
LEMMA TypesHold ==
  ASSUME Calls, SlotsInTurn
  PROVE  TypeOK
<1>1. /\ N \in Nat /\ N >= 2 /\ head \in Nat /\ tail \in Nat /\ head <= tail
      /\ \A q \in Window : q \in Nat /\ q >= head /\ q < head + N
      /\ \A i \in Slots : \E q \in Window : Slot(q) = i
  BY WindowOf DEF SlotsInTurn
<1>2. /\ closed \in BOOLEAN /\ seq \in [Slots -> AnyWord]
      /\ epoch \in [Counts -> Nat] /\ pending \in [Counts -> BOOLEAN]
      /\ sleepers \in [Counts -> SUBSET Waiters] /\ key \in [Waiters -> Nat]
      /\ pos \in [Producers -> Nat] /\ late \in [Producers -> BOOLEAN]
      /\ parked \in [Producers -> BOOLEAN] /\ budget \in 0..MaxPushes
      /\ Outline \subseteq {"not_empty"} /\ BufferTypes
  BY DEF Calls, StateTypes, RingTypes, CountTypes
<1>3. head \in 0..tail
  BY <1>1
<1>4. \A w \in AnyWord : w.n <= tail + N => w \in Words
  BY <1>1 DEF AnyWord, Words
<1>5. seq \in [Slots -> Words]
  <2> SUFFICES ASSUME NEW i \in Slots PROVE seq[i] \in Words
    BY <1>2
  <2>1. PICK q \in Window : Slot(q) = i
    BY <1>1
  <2>2. q \in Nat /\ q < head + N
    BY <1>1
  <2>3. /\ seq[i] \in AnyWord /\ seq[i].n \in Nat
        /\ seq[i].n = q \/ (seq[i].n = q + 1 /\ q < tail) \/ seq[i].n = q - N + 1
    BY <1>2, <2>1, SlotOf DEF AnyWord
  <2>4. seq[i].n <= tail + N
    BY <1>1, <2>2, <2>3
  <2> QED BY <1>4, <2>3, <2>4
<1>6. ASSUME NEW t \in Waiters
      PROVE  \/ buffer[t] = <<>>
             \/ buffer[t][1] \in [slot : Slots, word : Words] \cup [count : Counts]
  <2>1. ASSUME NEW e \in Counts, buffer[t] = <<ClearPending(e)>>
        PROVE  buffer[t][1] \in [count : Counts]
    BY <2>1 DEF ClearPending
  <2>2. ASSUME buffer[t] = <<[slot |-> StoredSlot(t), word |-> Stored(t)]>>,
               StoredSlot(t) \in Slots, Stored(t) \in AnyWord
        PROVE  buffer[t][1] \in [slot : Slots, word : Words]
    <3>1. buffer[t] # <<>> /\ Head(buffer[t]) = [slot |-> StoredSlot(t), word |-> Stored(t)]
      BY <2>2
    <3>2. Stores(t)
      BY <3>1 DEF Stores, IsClear
    <3>3. PICK q \in Window : /\ Stored(t).n = q \/ (Stored(t).n = q + 1 /\ q < tail)
      BY <3>2, StoreOf
    <3>4. q \in Nat /\ q < head + N /\ Stored(t).n \in Nat
      BY <1>1, <2>2 DEF AnyWord
    <3>5. Stored(t).n <= tail + N
      BY <1>1, <3>3, <3>4
    <3>6. Stored(t) \in Words
      BY <1>4, <2>2, <3>5
    <3>7. buffer[t][1] = [slot |-> StoredSlot(t), word |-> Stored(t)]
      BY <2>2
    <3> QED BY <2>2, <3>6, <3>7
  <2> QED BY <1>2, <2>1, <2>2 DEF BufferTypes
<1>7. \A t \in Waiters : stack[t] # <<>> /\ \A i \in DOMAIN stack[t] : stack[t][i][1] \in Labels
  BY StacksLabelled DEF Labelled
<1>8. \A t \in Waiters : key[t] \in Nat
  BY <1>2
<1> QED BY <1>1, <1>2, <1>3, <1>5, <1>6, <1>7, <1>8 DEF TypeOK

\* A wake in flight has somebody to carry it on, or to clear it.
LEMMA PendingIsCovered ==
  ASSUME Calls, CountsInv
  PROVE  PendingCovered
<1> SUFFICES ASSUME NEW e \in Counts, pending[e], sleepers[e] # {}
             PROVE  \E t \in Waiters :
                      \/ Doing(t)[1] \in {"advance", "wake"} /\ Doing(t)[2] = e
                      \/ buffer[t] = <<ClearPending(e)>>
                      \/ SleepsOn(t) = e /\ At(t, "wait") /\ key[t] # epoch[e] /\ t \notin sleepers[e]
  BY DEF PendingCovered
<1>1. \/ \E t \in Waiters : Doing(t)[1] \in {"advance", "wake"} /\ Doing(t)[2] = e
      \/ \E t \in Waiters : SleepsOn(t) = e /\ Woken(t)
  BY DEF CountsInv, WakesCarried
<1>2. ASSUME NEW t \in Waiters, SleepsOn(t) = e, Clears(t)
      PROVE  buffer[t] = <<ClearPending(e)>>
  <2>1. Head(buffer[t]).count = e
    BY <1>2 DEF CountsInv, ClearsInTime
  <2>0. BufferTypes
    BY DEF Calls, StateTypes
  <2>2. PICK d \in Counts : buffer[t] = <<ClearPending(d)>>
    BY <1>2, <2>0 DEF BufferTypes, Clears, IsClear
  <2>3. d = e
    BY <2>1, <2>2 DEF ClearPending
  <2> QED BY <2>2, <2>3
<1> QED BY <1>1, <1>2 DEF Woken, Settled

\* The books of the event counts, which a notifier relies on when it skips a wake:
\* waiters_ counts exactly who has announced itself, and pending_ set with a thread
\* asleep has somebody to advance, wake or clear.
THEOREM QueueEventCounts == Spec => []EventCountsSound
<1>1. Calls /\ RingInv /\ CountsInv => EventCountsSound
  <2> SUFFICES ASSUME Calls, RingInv, CountsInv PROVE EventCountsSound
    OBVIOUS
  <2>1. TypeOK
    BY TypesHold DEF RingInv
  <2>2. WaitersCounted
    BY DEF CountsInv
  <2> QED BY <2>1, <2>2, PendingIsCovered DEF EventCountsSound
<1> QED BY <1>1, QueueCalls, QueueRing, QueueCounts, PTL

(* ------------------------------ the wakes -------------------------------- *)
\* Who has been told that the epoch moved will look.
LEMMA WokenLooks ==
  ASSUME Calls, CountsInv, NEW t \in Waiters, Woken(t),
         SleepsOn(t) = "not_full" => Reserve = "cas"
  PROVE  WillLook(t)
<1>1. CASE At(t, "wait") /\ ~Settled(t)
  <2>1. t \in Producers \/ t \in Consumers
    BY <1>1, WaitPlaces DEF At
  <2>2. CASE t \in Consumers
    BY <1>1, <2>2 DEF WillLook, WillPop, At
  <2>3. CASE t \in Producers
    <3>1. Reserve = "cas"
      BY <2>3, Roles
    <3>2. parked[t] /\ stack[t] = << <<"wait">>, <<"push">>, Idle>>
      BY <1>1, <2>3, <3>1, ProducerAt DEF Calls, Remembers
    <3>3. Has(stack[t], {"push", "recheck", "chain"})
      BY <3>2, HasOf
    <3> QED BY <1>1, <2>3, <3>2, <3>3 DEF WillLook, WillPush
  <2> QED BY <2>1, <2>2, <2>3
<1>2. CASE Clears(t) /\ Doing(t)[1] \in {"left", "push"}
  <2>1. ~Settled(t) /\ ~At(t, "drained")
    BY <1>2 DEF Settled, At
  <2>2. CASE t \in Consumers
    BY <2>1, <2>2 DEF WillLook, WillPop
  <2>3. CASE t \in Producers
    <3>1. Doing(t)[1] # "left"
      BY <2>3, CallsOf, PushPlaces, TicketPlaces DEF Doing, Noticed
    <3>2. At(t, "push") /\ parked[t]
      BY <1>2, <3>1 DEF CountsInv, ClearsInTime, At
    <3>3. stack[t] = << <<"push">>, Idle>>
      BY <2>3, <3>2, ProducerAt
    <3>4. Has(stack[t], {"push", "recheck", "chain"})
      BY <3>3, HasOf
    <3> QED BY <2>1, <2>3, <3>2, <3>4 DEF WillLook, WillPush
  <2>4. t # Closer
    <3>1. CASE t = Closer
      BY <1>2, <3>1, CallsOf, ClosePlaces DEF Doing, Noticed
    <3> QED BY <3>1
  <2> QED BY <2>2, <2>3, <2>4, Roles
<1> QED BY <1>1, <1>2 DEF Woken

\* Whoever looks looks still, if it does not move and its count is left alone.
LEMMA LookersStay ==
  ASSUME NEW t \in Waiters, UNCHANGED <<stack[t], key[t]>>, parked'[t] = parked[t] \/ t \notin Producers,
         epoch'[SleepsOn(t)] = epoch[SleepsOn(t)], sleepers'[SleepsOn(t)] = sleepers[SleepsOn(t)]
  PROVE  /\ WillLook(t)' <=> WillLook(t)
         /\ Settled(t)' <=> Settled(t)
<1>1. Settled(t)' <=> Settled(t)
  BY DEF Settled, At, Doing
<1> QED BY <1>1 DEF WillLook, WillPop, WillPush, Has, At, Doing

\* A step that tells nobody of e, and does not send its mover to sleep on e.
LEMMA AttendedStays ==
  ASSUME NEW e \in Counts, Attended(e), NEW t \in Waiters, OthersStay(t),
         epoch'[e] = epoch[e], sleepers'[e] = sleepers[e],
         \A u \in Waiters : u # t => key'[u] = key[u] /\ (u \in Producers => parked'[u] = parked[u]),
         SleepsOn(t) = e => ~At(t, "wait")' /\ (WillLook(t) => WillLook(t)'),
         Doing(t)[1] \notin Noticed \/ Doing(t)[2] # e
  PROVE  Attended(e)'
<1>1. \A u \in Waiters : u # t => stack'[u] = stack[u]
  BY DEF OthersStay
<1>2. Somebody(e) => Somebody(e)'
  <2>1. ASSUME NEW u \in Waiters, Doing(u)[1] \in {"look", "claim", "advance"}, Doing(u)[2] = e
        PROVE  Somebody(e)'
    <3>1. u # t
      BY <2>1 DEF Noticed
    <3>2. Doing(u)' = Doing(u)
      BY <1>1, <3>1 DEF Doing
    <3> QED BY <2>1, <3>2 DEF Somebody, Noticing
  <2>2. ASSUME NEW u \in Waiters, SleepsOn(u) = e, WillLook(u)
        PROVE  Somebody(e)'
    <3>1. CASE u = t
      BY <2>2, <3>1 DEF Somebody
    <3>2. CASE u # t
      <4>1. WillLook(u)'
        BY <1>1, <2>2, <3>2, LookersStay
      <4> QED BY <2>2, <4>1 DEF Somebody
    <3> QED BY <3>1, <3>2
  <2> QED BY <2>1, <2>2 DEF Somebody, Noticing
<1>3. Waking(e) => Waking(e)'
  <2> SUFFICES ASSUME NEW u \in Waiters, Doing(u) = <<"wake", e, "one">> PROVE Waking(e)'
    BY DEF Waking
  <2>1. u # t
    BY DEF Noticed
  <2> QED BY <1>1, <2>1 DEF Waking, Doing
<1>4. ASSUME NEW u \in Waiters, SleepsOn(u) = e, At(u, "wait")', key'[u] = epoch'[e]
      PROVE  Somebody(e)'
  <2>1. u # t
    BY <1>4
  <2>2. At(u, "wait") /\ key[u] = epoch[e]
    BY <1>1, <1>4, <2>1 DEF At, Doing
  <2> QED BY <1>2, <1>4, <2>2 DEF Attended
<1>5. sleepers'[e] # {} => Somebody(e)' \/ Waking(e)'
  BY <1>2, <1>3 DEF Attended
<1> QED BY <1>4, <1>5 DEF Attended

\* Somebody is enough.
LEMMA SomebodyAttends ==
  ASSUME NEW e, Somebody(e)'
  PROVE  Attended(e)'
  BY DEF Attended

\* A notification sends nobody to sleep.
LEMMA NoticeLooks ==
  ASSUME Calls, NEW t \in Waiters, NoticeSteps(t)
  PROVE  /\ UNCHANGED <<key, parked, ring>> /\ OthersStay(t) /\ Doing(t)[1] \in Noticed
         /\ ~At(t, "wait")' /\ ~At(t, "drained")'
         /\ WillLook(t) => WillLook(t)'
         /\ t \in Consumers => WillLook(t)'
<1>1. UNCHANGED <<key, parked, ring>>
  BY DEF NoticeSteps, Claims, ClaimWake, Advances, NotifyAdvance, Advance, Wakes, NotifyWake,
     WakeOne, WakesAll, NotifyAll, AdvanceAndWakeAll, NotifyLook, calling, counts
<1>2. OthersStay(t) /\ Doing(t)[1] \in Noticed
  BY NoticeStepsMove
<1>3. Doing(t)'[1] # "wait" /\ Doing(t)'[1] # "drained"
  <2>1. CASE Drops(t, Doing(t))
    <3>1. CASE t # Closer
      BY <2>1, <3>1, DropsTo
    <3>2. CASE t = Closer
      BY <2>1, <3>2, DropsTo
    <3> QED BY <3>1, <3>2
  <2>2. ASSUME NEW g, Becomes(t, Doing(t), g), g[1] \in Noticed
        PROVE  Doing(t)'[1] # "wait" /\ Doing(t)'[1] # "drained"
    BY <2>2, BecomesTo DEF Noticed
  <2>3. Drops(t, Doing(t)) \/ \E g : Becomes(t, Doing(t), g) /\ g[1] \in Noticed
    <3>1. /\ <<IF Doing(t)[3] = "one" THEN "claim" ELSE "advance",
               Doing(t)[2], Doing(t)[3]>>[1] \in Noticed
          /\ <<"advance", Doing(t)[2], "one">>[1] \in Noticed
          /\ <<"wake", Doing(t)[2], "one">>[1] \in Noticed
      BY DEF Noticed
    <3> QED BY <3>1, NoticeStepsMove
  <2> QED BY <2>1, <2>2, <2>3
<1>4. ~At(t, "wait")' /\ ~At(t, "drained")'
  BY <1>3 DEF At
<1>5. ~Settled(t)'
  BY <1>4 DEF Settled
<1>6. t \in Consumers => WillLook(t)'
  BY <1>4, <1>5 DEF WillLook, WillPop
<1>7. ASSUME t \in Producers, WillPush(t) PROVE WillLook(t)'
  <2>1. {"push", "recheck", "chain"} \cap Noticed = {}
    BY DEF Noticed
  <2>2. Has(stack'[t], {"push", "recheck", "chain"}) <=> Has(stack[t], {"push", "recheck", "chain"})
    BY <2>1, NoticeStepsKeep
  <2>3. WillPush(t)'
    BY <1>1, <1>5, <1>7, <2>2 DEF WillPush
  <2> QED BY <1>7, <2>3 DEF WillLook
<1> QED BY <1>1, <1>2, <1>4, <1>6, <1>7 DEF WillLook

\* Nobody who waits on e leaves it unseen who reads that there are none.
LEMMA NobodyWaits ==
  ASSUME Calls, CountsInv, NEW e \in Counts, e \notin Outline, waiters[e] = 0
  PROVE  /\ \A u \in Waiters : SleepsOn(u) = e => ~At(u, "wait")
         /\ sleepers[e] = {}
<1>1. \A u \in Waiters : SleepsOn(u) = e => ~Announced(u)
  <2>1. Cardinality(Counted(e)) = 0 /\ IsFiniteSet(Counted(e))
    BY CountedIsFinite DEF CountsInv, WaitersCounted, Counted
  <2>2. Counted(e) = {}
    BY <2>1, FS_EmptySet
  <2> QED BY <2>2 DEF Counted
<1>2. \A u \in Waiters : SleepsOn(u) = e => ~At(u, "wait")
  BY <1>1, AnnouncedAt
<1>3. sleepers[e] = {}
  BY <1>2 DEF CountsInv, SleepersWait, Calls, StateTypes, CountTypes
<1> QED BY <1>2, <1>3

\* When the epoch moves on, everybody's key is old.
LEMMA KeysOld ==
  ASSUME Calls, CountsInv, NEW e \in Counts, key' = key, epoch' = [epoch EXCEPT ![e] = @ + 1]
  PROVE  \A u \in Waiters : SleepsOn(u) = e => key'[u] # epoch'[e]
<1> SUFFICES ASSUME NEW u \in Waiters, SleepsOn(u) = e PROVE key[u] # epoch'[e]
  OBVIOUS
<1>1. epoch \in [Counts -> Nat] /\ key \in [Waiters -> Nat]
  BY DEF Calls, StateTypes, CountTypes
<1>2. key[u] <= epoch[e]
  BY DEF CountsInv, SleepersWait
<1>3. epoch'[e] = epoch[e] + 1 /\ epoch[e] \in Nat /\ key[u] \in Nat
  BY <1>1
<1> QED BY <1>2, <1>3

\* Who waits will look, once it is awake.
LEMMA WaitersReady ==
  ASSUME Calls, NEW t \in Waiters, At(t, "wait"), SleepsOn(t) = "not_full" => Reserve = "cas"
  PROVE  \/ t \in Consumers /\ ~At(t, "drained")
         \/ t \in Producers /\ parked[t] /\ Has(stack[t], {"push", "recheck", "chain"})
<1>1. t \in Producers \/ t \in Consumers
  BY WaitPlaces DEF At
<1>2. CASE t \in Consumers
  BY <1>2 DEF At
<1>3. CASE t \in Producers
  <2>1. Reserve = "cas"
    BY <1>3, Roles
  <2>2. parked[t] /\ stack[t] = << <<"wait">>, <<"push">>, Idle>>
    BY <1>3, <2>1, ProducerAt DEF Calls, Remembers
  <2>3. Has(stack[t], {"push", "recheck", "chain"})
    BY <2>2, HasOf
  <2> QED BY <1>3, <2>2, <2>3
<1> QED BY <1>1, <1>2, <1>3

\* A wake takes one sleeper, who has an old key and will look, or somebody else will.
LEMMA WakesAttended ==
  ASSUME Calls, CountsInv, UNCHANGED fixed, NEW t \in Waiters, Wakes(t), NEW e \in Counts,
         e = Doing(t)[2], Attended(e), e = "not_full" => Reserve = "cas"
  PROVE  Attended(e)'
<1>1. /\ At(t, "wake") /\ NoticeSteps(t) /\ UNCHANGED <<epoch, key, parked>>
      /\ sleepers \in [Counts -> SUBSET Waiters]
      /\ \/ sleepers[e] = {} /\ sleepers' = sleepers
         \/ \E w \in sleepers[e] : sleepers' = [sleepers EXCEPT ![e] = @ \ {w}]
  BY DEF Wakes, NotifyWake, WakeOne, NoticeSteps, calling, Calls, StateTypes, CountTypes
<1>2. /\ OthersStay(t) /\ ~At(t, "wait")' /\ (WillLook(t) => WillLook(t)')
      /\ \A u \in Waiters : u # t => stack'[u] = stack[u]
  BY <1>1, NoticeLooks DEF OthersStay
<1>3. sleepers'[e] \subseteq sleepers[e]
  BY <1>1
<1>4. Somebody(e) => Somebody(e)'
  <2>1. ASSUME NEW u \in Waiters, Doing(u)[1] \in {"look", "claim", "advance"}, Doing(u)[2] = e
        PROVE  Somebody(e)'
    <3>1. u # t
      BY <1>1, <2>1 DEF At
    <3>2. Doing(u)' = Doing(u)
      BY <1>2, <3>1 DEF Doing
    <3> QED BY <2>1, <3>2 DEF Somebody, Noticing
  <2>2. ASSUME NEW u \in Waiters, SleepsOn(u) = e, WillLook(u)
        PROVE  Somebody(e)'
    <3>1. CASE u = t
      BY <1>2, <2>2, <3>1 DEF Somebody
    <3>2. CASE u # t
      <4>1. stack'[u] = stack[u] /\ key'[u] = key[u] /\ parked'[u] = parked[u] /\ epoch' = epoch
        BY <1>1, <1>2, <3>2
      <4>2. Settled(u)' => Settled(u)
        BY <1>3, <2>2, <4>1 DEF Settled, At, Doing
      <4>3. WillLook(u)'
        BY <2>2, <4>1, <4>2 DEF WillLook, WillPop, WillPush, Has, At, Doing
      <4> QED BY <2>2, <4>3 DEF Somebody
    <3> QED BY <3>1, <3>2
  <2> QED BY <2>1, <2>2 DEF Somebody, Noticing
<1>5. ASSUME NEW u \in Waiters, SleepsOn(u) = e, At(u, "wait")', key'[u] = epoch'[e]
      PROVE  Somebody(e)'
  <2>1. u # t
    BY <1>2, <1>5
  <2>2. At(u, "wait") /\ key[u] = epoch[e]
    BY <1>1, <1>2, <1>5, <2>1 DEF At, Doing
  <2> QED BY <1>4, <1>5, <2>2 DEF Attended
<1>6. ASSUME sleepers'[e] # {}, ~Somebody(e) PROVE Somebody(e)'
  <2>1. PICK w \in sleepers[e] : sleepers' = [sleepers EXCEPT ![e] = @ \ {w}]
    BY <1>1, <1>6
  <2>2. w \in Waiters /\ SleepsOn(w) = e /\ At(w, "wait") /\ w # t
    BY <1>1, <2>1 DEF CountsInv, SleepersWait, At
  <2>3. key[w] # epoch[e]
    BY <1>6, <2>2 DEF Attended
  <2>4. w \notin sleepers'[e]
    BY <1>1, <2>1
  <2>5. stack'[w] = stack[w] /\ key'[w] = key[w] /\ parked'[w] = parked[w] /\ epoch' = epoch
    BY <1>1, <1>2, <2>2
  <2>6. ~Settled(w)'
    BY <2>2, <2>3, <2>4, <2>5 DEF Settled
  <2>7. WillLook(w)'
    BY <2>2, <2>5, <2>6, WaitersReady DEF WillLook, WillPop, WillPush, Has, At, Doing
  <2> QED BY <2>2, <2>7 DEF Somebody
<1>7. sleepers'[e] # {} => Somebody(e)'
  BY <1>4, <1>6
<1> QED BY <1>5, <1>7 DEF Attended

\* A step of a notification leaves nobody unattended: who reads zero leaves nobody
\* behind, and who finds a wake in flight leaves it to those who carry that one.
LEMMA NoticeAttended ==
  ASSUME Calls, CountsInv, UNCHANGED fixed, NEW t \in Waiters, NoticeSteps(t),
         NEW e \in Counts, Attended(e), e = "not_full" => Reserve = "cas"
  PROVE  Attended(e)'
<1>0. /\ UNCHANGED <<key, parked, ring>> /\ OthersStay(t) /\ Doing(t)[1] \in Noticed
      /\ ~At(t, "wait")' /\ (WillLook(t) => WillLook(t)')
      /\ Doing(t)[2] \in Counts /\ IsNotice(Doing(t), Doing(t)[2], Doing(t)[3])
      /\ \A u \in Waiters : u # t => stack'[u] = stack[u]
  BY NoticeLooks, NoticeOf DEF OthersStay
<1>1. CASE Doing(t)[2] # e
  <2>1. epoch'[e] = epoch[e] /\ sleepers'[e] = sleepers[e]
    <3>1. epoch \in [Counts -> Nat] /\ sleepers \in [Counts -> SUBSET Waiters]
      BY DEF Calls, StateTypes, CountTypes
    <3> QED BY <1>1, <3>1 DEF NoticeSteps, Claims, ClaimWake, Advances, NotifyAdvance, Advance, Wakes,
                    NotifyWake, WakeOne, WakesAll, NotifyAll, AdvanceAndWakeAll, NotifyLook, counts
  <2> QED BY <1>0, <1>1, <2>1, AttendedStays
<1>2. CASE Doing(t)[2] = e
  <2>1. CASE NotifyLook(t)
    <3>0. /\ UNCHANGED <<epoch, sleepers, key>> /\ At(t, "look") /\ e \notin Outline
          /\ IF AnyWaiter(e) THEN Then(t, << <<IF Doing(t)[3] = "one" THEN "claim" ELSE "advance",
                                               e, Doing(t)[3]>> >>)
             ELSE Then(t, <<>>)
      <4>1. At(t, "look") /\ UNCHANGED <<epoch, sleepers, key>>
        BY <2>1 DEF NotifyLook, counts
      <4>2. e \notin Outline
        BY <1>0, <1>2, <4>1 DEF IsNotice, At
      <4> QED BY <1>2, <2>1, <4>1, <4>2 DEF NotifyLook
    <3>1. CASE AnyWaiter(e)
      <4>1. t # Closer /\ Doing(t)[3] # "all"
        <5>1. t # Closer
          BY <1>0, <3>0, NoticeOf DEF At
        <5> QED BY <1>0, <5>1, NoticeOf
      <4>2. Doing(t)' = <<IF Doing(t)[3] = "one" THEN "claim" ELSE "advance", e, Doing(t)[3]>>
        BY <1>0, <3>0, <3>1, <4>1, NoticeBecomes, BecomesTo
      <4>3. Doing(t)'[1] \in {"look", "claim", "advance"} /\ Doing(t)'[2] = e
        BY <4>2
      <4> QED BY <4>3, SomebodyAttends DEF Somebody, Noticing
    <3>2. CASE ~AnyWaiter(e)
      <4>1. sleepers[e] = {} /\ \A u \in Waiters : SleepsOn(u) = e => ~At(u, "wait")
        BY <3>0, <3>2, NobodyWaits DEF AnyWaiter
      <4>2. \A u \in Waiters : SleepsOn(u) = e => ~At(u, "wait")'
        BY <1>0, <4>1 DEF At, Doing
      <4> QED BY <3>0, <4>1, <4>2 DEF Attended
    <3> QED BY <3>1, <3>2
  <2>2. CASE At(t, "claim") /\ WakeInFlight(e) /\ Then(t, <<>>) /\ UNCHANGED <<counts, buffer, ring, calling>>
    <3>0. /\ UNCHANGED <<epoch, sleepers, key>> /\ pending[e]
          /\ e \notin Outline /\ (e = "not_full" => Reserve = "cas")
          /\ ClaimsReach /\ SleepersWait /\ ClearsInTime
          /\ sleepers[e] # {} =>
               \/ \E u \in Waiters : Doing(u)[1] \in {"advance", "wake"} /\ Doing(u)[2] = e
               \/ \E u \in Waiters : SleepsOn(u) = e /\ Woken(u)
      BY <2>2 DEF counts, WakeInFlight, CountsInv, WakesCarried
    <3>1. ASSUME NEW u \in Waiters, SleepsOn(u) = e, At(u, "wait")', key'[u] = epoch'[e]
          PROVE  Somebody(e)'
      <4>1. u # t
        BY <1>0, <3>1
      <4>2. At(u, "wait") /\ key[u] = epoch[e]
        BY <1>0, <3>0, <3>1, <4>1 DEF At, Doing
      <4>3. Announced(u) /\ ~Clears(u)
        BY <3>0, <4>2, AnnouncedAt DEF ClearsInTime, At
      <4>4. PICK v \in Waiters : Doing(v) = <<"advance", e, "one">>
        BY <3>0, <3>1, <4>2, <4>3 DEF ClaimsReach, Advancing
      <4>5. v # t
        BY <2>2, <4>4 DEF At
      <4>6. Doing(v)'[1] = "advance" /\ Doing(v)'[2] = e
        BY <1>0, <4>4, <4>5 DEF Doing
      <4> QED BY <4>6 DEF Somebody, Noticing
    <3>2. ASSUME NEW u \in Waiters, Doing(u)[1] \in {"advance", "wake"}, Doing(u)[2] = e
          PROVE  Somebody(e)' \/ Waking(e)'
      <4>1. u # t
        BY <2>2, <3>2 DEF At
      <4>2. Doing(u)' = Doing(u)
        BY <1>0, <4>1 DEF Doing
      <4>3. CASE Doing(u)[1] = "advance"
        BY <3>2, <4>2, <4>3 DEF Somebody, Noticing
      <4>4. CASE Doing(u)[1] = "wake"
        <5>1. IsNotice(Doing(u), e, Doing(u)[3])
          BY <3>2, <4>4, NoticeOf DEF Noticed
        <5>2. Doing(u) = <<"wake", e, "one">>
          BY <4>4, <5>1 DEF IsNotice
        <5> QED BY <4>2, <5>2 DEF Waking
      <4> QED BY <3>2, <4>3, <4>4
    <3>3. ASSUME NEW u \in Waiters, SleepsOn(u) = e, Woken(u)
          PROVE  Somebody(e)'
      <4>1. WillLook(u)
        BY <3>0, <3>3, WokenLooks
      <4>2. CASE u = t
        BY <1>0, <3>3, <4>1, <4>2 DEF Somebody
      <4>3. CASE u # t
        <5>1. WillLook(u)'
          BY <1>0, <3>0, <4>1, <4>3, LookersStay
        <5> QED BY <3>3, <5>1 DEF Somebody
      <4> QED BY <4>2, <4>3
    <3>4. sleepers'[e] # {} => Somebody(e)' \/ Waking(e)'
      BY <3>0, <3>2, <3>3
    <3> QED BY <3>1, <3>4 DEF Attended
  <2>3. CASE Claims(t)
    <3>1. Doing(t)' = <<"advance", e, "one">>
      BY <1>2, <2>3, NoticeStepsMove, BecomesTo DEF Claims, At, NotifyLook, Advances, NotifyAdvance
    <3>2. Doing(t)'[1] = "advance" /\ Doing(t)'[2] = e
      BY <3>1
    <3> QED BY <3>2, SomebodyAttends DEF Somebody, Noticing
  <2>4. CASE Advances(t)
    <3>1. Doing(t)' = <<"wake", e, "one">>
      BY <1>2, <2>4, NoticeStepsMove, BecomesTo DEF Claims, At, NotifyLook, Advances, NotifyAdvance
    <3>2. Waking(e)'
      BY <3>1 DEF Waking
    <3>3. epoch' = [epoch EXCEPT ![e] = @ + 1]
      BY <1>2, <2>4 DEF Advances, NotifyAdvance, Advance
    <3>4. \A u \in Waiters : SleepsOn(u) = e => key'[u] # epoch'[e]
      BY <1>0, <3>3, KeysOld
    <3> QED BY <3>2, <3>4 DEF Attended
  <2>5. CASE Wakes(t)
    BY <1>2, <2>5, WakesAttended
  <2>6. CASE WakesAll(t)
    <3>1. /\ epoch' = [epoch EXCEPT ![e] = @ + 1]
          /\ sleepers' = [sleepers EXCEPT ![e] = {}] /\ sleepers \in [Counts -> SUBSET Waiters]
      BY <1>2, <2>6 DEF WakesAll, NotifyAll, AdvanceAndWakeAll, Calls, StateTypes, CountTypes
    <3>2. \A u \in Waiters : SleepsOn(u) = e => key'[u] # epoch'[e]
      BY <1>0, <3>1, KeysOld
    <3>3. sleepers'[e] = {}
      BY <3>1
    <3> QED BY <3>2, <3>3 DEF Attended
  <2> QED BY <1>2, <2>1, <2>2, <2>3, <2>4, <2>5, <2>6 DEF NoticeSteps
<1> QED BY <1>1, <1>2

\* A waiter that moves on looks if it was going to, and if it leaves its wait.
LEMMA WaitingLooks ==
  ASSUME Calls, NEW t \in Waiters, WaitingSteps(t)
  PROVE  /\ UNCHANGED <<epoch, parked, ring>> /\ OthersStay(t) /\ Doing(t)[1] \notin Noticed
         /\ \A u \in Waiters : u # t => key'[u] = key[u]
         /\ ~At(t, "wait")' /\ (WillLook(t) => WillLook(t)')
         /\ Leaves(t) /\ (SleepsOn(t) = "not_full" => Reserve = "cas") => WillLook(t)'
         /\ ~Leaves(t) => sleepers' = sleepers
         /\ Leaves(t) => sleepers' = [sleepers EXCEPT ![SleepsOn(t)] = @ \ {t}]
<1>1. /\ UNCHANGED <<epoch, parked, ring>>
      /\ ~Leaves(t) => sleepers' = sleepers
      /\ Leaves(t) => sleepers' = [sleepers EXCEPT ![SleepsOn(t)] = @ \ {t}]
  BY DEF WaitingSteps, Keys, ReadKey, Announces, Announce, Cancels, CancelWait, Leaves, LeaveWait, calling
<1>2. OthersStay(t) /\ Doing(t)[1] \notin Noticed
  BY WaitingStepsMove DEF Noticed
<1>3. \A u \in Waiters : u # t => key'[u] = key[u]
  <2>1. key \in [Waiters -> Nat]
    BY DEF Calls, StateTypes, CountTypes
  <2>2. key' = key \/ key' = [key EXCEPT ![t] = epoch[SleepsOn(t)]]
    BY DEF WaitingSteps, Keys, ReadKey, Announces, Announce, Cancels, CancelWait, Leaves, LeaveWait
  <2> QED BY <2>1, <2>2
<1>4. t \in Producers \/ t \in Consumers
  BY WaitingStepsMove, Roles
<1>5. CASE t \in Consumers
  <2>1. \/ Goes(t, << <<"key">>, <<"recheck">> >>, << <<"recheck">> >>)
        \/ Goes(t, << <<"key">>, <<"recheck">> >>, << <<"announce">>, <<"recheck">> >>)
        \/ Goes(t, << <<"announce">>, <<"recheck">> >>, << <<"recheck">> >>)
        \/ Goes(t, << <<"cancel">>, <<"try">> >>, << <<"try">> >>)
        \/ Goes(t, << <<"wait">>, <<"left">> >>, << <<"left">> >>)
    BY <1>5, KeyMoves, AnnounceMoves, CancelMoves, LeaveMoves
       DEF WaitingSteps, Keys, Announces, Cancels, Leaves
  <2>2. ~At(t, "wait")' /\ ~At(t, "drained")'
    BY <2>1 DEF Goes, At, Doing
  <2>3. WillLook(t)'
    BY <1>5, <2>2 DEF WillLook, WillPop, Settled
  <2> QED BY <1>1, <1>2, <1>3, <2>2, <2>3
<1>6. CASE t \in Producers
  <2> DEFINE L == {"push", "recheck", "chain"}
  <2>1. \/ Goes(t, << <<"key">>, <<"recheck">>, Idle>>, << <<"announce">>, <<"recheck">>, Idle>>)
        \/ Goes(t, << <<"announce">>, <<"recheck">>, Idle>>, << <<"recheck">>, Idle>>)
        \/ Goes(t, << <<"cancel">>, Idle>>, <<Idle>>)
        \/ Goes(t, << <<"cancel">>, <<"chain">>, Idle>>, << <<"chain">>, Idle>>)
        \/ Goes(t, << <<"cancel">>, <<"turn">>, Idle>>, << <<"turn">>, Idle>>)
        \/ Goes(t, << <<"wait">>, <<"push">>, Idle>>, << <<"push">>, Idle>>)
        \/ Goes(t, << <<"wait">>, <<"turn">>, Idle>>, << <<"turn">>, Idle>>)
    BY <1>6, CallsOf, KeyMoves, AnnounceMoves, CancelMoves, LeaveMoves
       DEF WaitingSteps, Keys, Announces, Cancels, Leaves
  <2>2. ~At(t, "wait")'
    BY <2>1 DEF Goes, At, Doing, Idle
  <2>3. Has(stack[t], L) => Has(stack'[t], L)
    <3>1. /\ Has(<< <<"announce">>, <<"recheck">>, Idle>>, L) /\ Has(<< <<"recheck">>, Idle>>, L)
          /\ Has(<< <<"chain">>, Idle>>, L) /\ Has(<< <<"push">>, Idle>>, L)
          /\ ~Has(<< <<"cancel">>, Idle>>, L) /\ ~Has(<< <<"cancel">>, <<"turn">>, Idle>>, L)
          /\ ~Has(<< <<"wait">>, <<"turn">>, Idle>>, L)
      BY HasOf DEF Idle
    <3> QED BY <2>1, <3>1 DEF Goes
  <2>4. WillPush(t) => WillPush(t)'
    BY <1>1, <2>2, <2>3 DEF WillPush, Settled
  <2>5. ASSUME Leaves(t), Reserve = "cas" PROVE WillPush(t)'
    <3>1. parked[t] /\ Goes(t, << <<"wait">>, <<"push">>, Idle>>, << <<"push">>, Idle>>)
      BY <1>6, <2>5, LeaveMoves DEF Leaves, Calls, Remembers
    <3>2. Has(stack'[t], L)
      BY <3>1, HasOf DEF Goes
    <3> QED BY <1>1, <2>2, <3>1, <3>2 DEF WillPush, Settled
  <2> QED BY <1>1, <1>2, <1>3, <1>6, <2>2, <2>4, <2>5, Roles DEF WillLook
<1> QED BY <1>4, <1>5, <1>6

\* A waiter that moves on leaves nobody unattended.
LEMMA WaitingAttended ==
  ASSUME Calls, NEW t \in Waiters, WaitingSteps(t), NEW e \in Counts, Attended(e),
         e = "not_full" => Reserve = "cas"
  PROVE  Attended(e)'
<1>1. CASE Leaves(t) /\ SleepsOn(t) = e
  BY <1>1, WaitingLooks, SomebodyAttends DEF Somebody
<1>2. CASE ~(Leaves(t) /\ SleepsOn(t) = e)
  <2>1. epoch'[e] = epoch[e] /\ sleepers'[e] = sleepers[e]
    <3>1. sleepers \in [Counts -> SUBSET Waiters]
      BY DEF Calls, StateTypes, CountTypes
    <3> QED BY <1>2, <3>1, WaitingLooks
  <2>2. /\ OthersStay(t) /\ Doing(t)[1] \notin Noticed /\ ~At(t, "wait")' /\ (WillLook(t) => WillLook(t)')
        /\ \A u \in Waiters : u # t => key'[u] = key[u] /\ (u \in Producers => parked'[u] = parked[u])
    BY WaitingLooks
  <2> QED BY <2>1, <2>2, AttendedStays
<1> QED BY <1>1, <1>2

\* Who falls asleep was waiting with the newest key.
LEMMA SleepsAttended ==
  ASSUME Calls, NEW t \in Waiters, Sleeps(t), NEW e \in Counts, Attended(e)
  PROVE  Attended(e)'
<1>1. /\ At(t, "wait") /\ key[t] = epoch[SleepsOn(t)]
      /\ UNCHANGED <<epoch, key, stack, parked>>
      /\ sleepers' = [sleepers EXCEPT ![SleepsOn(t)] = @ \cup {t}]
      /\ sleepers \in [Counts -> SUBSET Waiters]
  BY DEF Sleeps, Sleep, calling, Calls, StateTypes, CountTypes
<1>2. Somebody(e) => Somebody(e)'
  <2>1. ASSUME NEW u \in Waiters, SleepsOn(u) = e, WillLook(u) PROVE WillLook(u)'
    <3>1. u # t
      BY <1>1, <2>1 DEF WillLook, WillPop, WillPush, Settled
    <3>2. u \in sleepers'[SleepsOn(u)] <=> u \in sleepers[SleepsOn(u)]
      BY <1>1, <3>1, Roles
    <3> QED BY <1>1, <2>1, <3>2 DEF WillLook, WillPop, WillPush, Settled, Has, At, Doing
  <2> QED BY <1>1, <2>1 DEF Somebody, Noticing, Doing
<1>3. CASE SleepsOn(t) = e
  <2>1. Somebody(e)
    BY <1>1, <1>3 DEF Attended
  <2> QED BY <1>2, <2>1, SomebodyAttends
<1>4. CASE SleepsOn(t) # e
  <2>1. sleepers'[e] = sleepers[e]
    BY <1>1, <1>4, Roles
  <2> QED BY <1>1, <1>2, <2>1 DEF Attended, Waking, At, Doing
<1> QED BY <1>3, <1>4

\* A step that leaves the threads where they are.
LEMMA AttendedStill ==
  ASSUME NEW e, Attended(e), UNCHANGED <<epoch, sleepers, key, stack, parked>>
  PROVE  Attended(e)'
<1>1. \A u \in Waiters : WillLook(u)' <=> WillLook(u)
  BY DEF WillLook, WillPop, WillPush, Settled, Has, At, Doing
<1> QED BY <1>1 DEF Attended, Somebody, Noticing, Waking, At, Doing

\* The steps of push, pop and close by themselves.
CallSteps(t) ==
  \/ t \in Producers /\ (\/ BeginPush(t) \/ PushFull(t) \/ PushOk(t) \/ TakeTicket(t)
                         \/ PayTicket(t))
  \/ t \in Consumers /\ PopOk(t)
  \/ t = Closer /\ Close
  \/ CallLooks(t)

\* A step of push, pop or close moves one thread, which does not notify.
LEMMA CallStepsMove ==
  ASSUME Calls, NEW t \in Waiters, CallSteps(t)
  PROVE  /\ OthersStay(t) /\ UNCHANGED counts /\ Doing(t)[1] \notin Noticed
         /\ \A u \in Producers : u # t => parked'[u] = parked[u]
<1>1. UNCHANGED counts
  BY DEF CallSteps, CallLooks, BeginPush, PushFull, PushOk, TakeTicket, PayTicket, PopOk, Close,
     PushClosed, ChainFullWake, PrecheckClosed, AwaitTurn, PopEmpty, PopSleep, PopAgain, ChainBurst
<1>2. Doing(t)[1] \notin Noticed
  BY DEF CallSteps, CallLooks, BeginPush, PushFull, PushOk, TakeTicket, PayTicket, PopOk, Close,
     PushClosed, ChainFullWake, PrecheckClosed, AwaitTurn, PopEmpty, PopSleep, PopAgain, ChainBurst,
     Trying, At, Noticed
<1>3. \A u \in Producers : u # t => parked'[u] = parked[u]
  <2>1. parked \in [Producers -> BOOLEAN]
    BY DEF Calls, StateTypes
  <2>2. parked' = parked \/ \E b \in BOOLEAN : parked' = [parked EXCEPT ![t] = b]
    BY DEF CallSteps, CallLooks, BeginPush, PushFull, PushOk, TakeTicket, PayTicket, PopOk, Close,
       PushClosed, ChainFullWake, PrecheckClosed, AwaitTurn, PopEmpty, PopSleep, PopAgain,
       ChainBurst, calling
  <2> QED BY <2>1, <2>2
<1>4. OthersStay(t)
  <2>1. t \in Producers /\ (BeginPush(t) \/ PushFull(t) \/ PushOk(t) \/ TakeTicket(t) \/ PayTicket(t))
          => OthersStay(t)
    BY BeginPushMoves, PushFullMoves, PushOkMoves, TakeTicketMoves, PayTicketMoves
  <2>2. /\ t \in Consumers /\ PopOk(t) => OthersStay(t)
        /\ t = Closer /\ Close => OthersStay(t)
    BY PopOkMoves, CloseMoves
  <2>3. CallLooks(t) => OthersStay(t)
    BY LooksRight DEF Looks, CallLooks
  <2> QED BY <2>1, <2>2, <2>3 DEF CallSteps
<1> QED BY <1>1, <1>2, <1>3, <1>4

\* Who pops will look again.
LEMMA PopOkLooks ==
  ASSUME Calls, NEW c \in Consumers, PopOk(c)
  PROVE  ~At(c, "wait")' /\ WillLook(c)'
<1> DEFINE f == Notify("not_full", IF Reserve = "ticket" THEN "waiting" ELSE "one")
<1>1. f[1] \in {"look", "advance"}
  BY DEF Notify
<1> HIDE DEF f
<1>2. \/ stack'[c] \in {<<f, <<"try">> >>, <<f, <<"recheck">> >>, <<f, <<"left">> >>,
                        <<f, <<"cancel">>, <<"try">> >>, <<f, <<"chain">>, <<"try">> >>}
      \/ stack'[c] \in {<< <<"try">> >>, << <<"recheck">> >>, << <<"left">> >>,
                        << <<"cancel">>, <<"try">> >>, << <<"chain">>, <<"try">> >>}
  BY PopOkMoves DEF Goes, f
<1>3. Doing(c)'[1] \in {"look", "advance", "try", "recheck", "left", "cancel", "chain"}
  BY <1>1, <1>2 DEF Doing
<1>4. ~At(c, "wait")' /\ ~At(c, "drained")'
  BY <1>3 DEF At
<1> QED BY <1>4 DEF WillLook, WillPop, Settled

\* Where a call's step leaves its mover when a slot is ready: not asleep on it.
LEMMA EventsAfterCalls ==
  ASSUME Calls, SlotsInTurn, NEW t \in Waiters, CallSteps(t), ~closed,
         seq[Slot(head)].n = head + 1, Attended("not_empty")
  PROVE  Attended("not_empty")'
<1>1. "not_empty" \in Counts /\ OthersStay(t) /\ UNCHANGED counts /\ Doing(t)[1] \notin Noticed
  BY CallStepsMove, Roles
<1>2. ASSUME t \in Consumers PROVE ~At(t, "wait")' /\ WillLook(t)'
  <2>1. Ready(t)
    <3>1. head \in Nat /\ \A u \in Waiters : Stores(u) => StoredSlot(u) # Slot(head)
      BY WindowOf, PublishedFor
    <3>2. Load(t, head) = seq[Slot(head)]
      BY <3>1 DEF Load, Stores, StoredSlot, Fenced
    <3> QED BY <3>2 DEF Ready
  <2>2. PopOk(t) \/ ChainBurst(t)
    BY <1>2, <2>1, Roles DEF CallSteps, CallLooks, PopEmpty, PopSleep, PopAgain
  <2>3. CASE ChainBurst(t)
    <3>1. Doing(t)'[1] \in {"look", "advance", "try"}
      BY <1>2, <2>3, ChainBurstMoves DEF Goes, Doing, Notify
    <3>2. ~At(t, "wait")' /\ ~At(t, "drained")'
      BY <3>1 DEF At
    <3> QED BY <1>2, <3>2 DEF WillLook, WillPop, Settled
  <2> QED BY <1>2, <2>2, <2>3, PopOkLooks
<1>3. SleepsOn(t) = "not_empty" => t \in Consumers
  BY Roles
<1>4. epoch' = epoch /\ sleepers' = sleepers /\ key' = key
  BY <1>1 DEF counts
<1> QED BY <1>1, <1>2, <1>3, <1>4, AttendedStays, CallStepsMove

\* The same when the slot at the tail is free, for a push that has slept.
LEMMA RoomAfterCalls ==
  ASSUME Calls, SlotsInTurn, NEW t \in Waiters, CallSteps(t), ~closed, Reserve = "cas",
         seq[Slot(tail)].n = tail, Attended("not_full")
  PROVE  Attended("not_full")' \/ closed'
<1>1. "not_full" \in Counts /\ OthersStay(t) /\ UNCHANGED counts /\ Doing(t)[1] \notin Noticed
  BY CallStepsMove, Roles
<1>2. epoch' = epoch /\ sleepers' = sleepers /\ key' = key
  BY <1>1 DEF counts
<1>3. ASSUME SleepsOn(t) = "not_full" => ~At(t, "wait")' /\ (WillLook(t) => WillLook(t)')
      PROVE  Attended("not_full")'
  BY <1>1, <1>2, <1>3, AttendedStays, CallStepsMove
<1>4. CASE t \in Consumers
  BY <1>3, <1>4, Roles
<1>5. CASE t = Closer
  BY <1>5, Roles DEF CallSteps, CallLooks, Close
<1>6. CASE t \in Producers
  <2>1. Room(t)
    <3>1. tail \in Nat /\ head \in Nat /\ tail >= head
      BY WindowOf DEF SlotsInTurn
    <3>2. \A u \in Waiters : Stores(u) => StoredSlot(u) # Slot(tail)
      <4>1. \A u \in Waiters : Stores(u) /\ StoredSlot(u) = Slot(tail) => tail < tail
        BY <3>1, FreeFor
      <4>2. ~(tail < tail)
        BY <3>1
      <4> QED BY <4>1, <4>2
    <3>3. Load(t, tail) = seq[Slot(tail)]
      BY <3>2 DEF Load, Stores, StoredSlot, Fenced
    <3> QED BY <3>3 DEF Room
  <2>2. BeginPush(t) \/ PushOk(t) \/ ChainFullWake(t)
    <3>1. ~TakeTicket(t) /\ ~PayTicket(t) /\ ~PrecheckClosed(t) /\ ~AwaitTurn(t)
      BY <1>6, TakeTicketMoves, PayTicketMoves, PrecheckClosedMoves, AwaitTurnMoves
    <3> QED BY <1>6, <2>1, <3>1, Roles DEF CallSteps, CallLooks, PushFull, PushClosed
  <2>3. CASE BeginPush(t)
    <3>1. stack[t] = <<Idle>> /\ stack'[t] = << <<"push">>, Idle>>
      BY <1>6, <2>3, BeginPushMoves DEF Goes
    <3>2. ~Has(stack[t], {"push", "recheck", "chain"})
      BY <3>1, HasOf DEF Idle
    <3>3. ~WillLook(t) /\ ~At(t, "wait")'
      BY <1>6, <3>1, <3>2, Roles DEF WillLook, WillPush, At, Doing
    <3> QED BY <1>3, <3>3
  <2>4. CASE ChainFullWake(t)
    <3>1. stack'[t] = <<Notify("not_full", "one"), Idle>>
      BY <1>6, <2>1, <2>4, ChainFullWakeMoves DEF Goes
    <3>2. Doing(t)'[1] \in {"look", "advance"} /\ Doing(t)'[2] = "not_full"
      BY <3>1 DEF Doing, Notify
    <3> QED BY <3>2, SomebodyAttends DEF Somebody, Noticing
  <2>5. CASE PushOk(t)
    <3> DEFINE f == Notify("not_empty", "one")  L == {"push", "recheck", "chain"}
    <3>1. f[1] \in {"look", "advance"}
      BY DEF Notify
    <3>2. /\ stack'[t] \in {<<f, Idle>>, <<f, <<"chain">>, Idle>>, <<f, <<"cancel">>, Idle>>,
                            <<f, <<"cancel">>, <<"chain">>, Idle>>}
          /\ parked[t] => stack'[t] \in {<<f, <<"chain">>, Idle>>, <<f, <<"cancel">>, <<"chain">>, Idle>>}
      BY <1>6, <2>5, PushOkMoves DEF Goes
    <3> HIDE DEF f
    <3>3. ~At(t, "wait")'
      BY <3>1, <3>2 DEF At, Doing
    <3>4. Has(<<f, <<"chain">>, Idle>>, L) /\ Has(<<f, <<"cancel">>, <<"chain">>, Idle>>, L)
      BY HasOf
    <3>5. parked' = parked
      BY <2>5 DEF PushOk, calling
    <3>6. WillLook(t) => WillLook(t)'
      BY <1>6, <3>2, <3>3, <3>4, <3>5, Roles DEF WillLook, WillPush, Settled
    <3> QED BY <1>3, <3>3, <3>6
  <2> QED BY <2>2, <2>3, <2>4, <2>5
<1> QED BY <1>4, <1>5, <1>6, Roles

\* The steps of the event counts leave nobody unattended.
LEMMA CountStepsAttended ==
  ASSUME Calls, CountsInv, UNCHANGED fixed, CountSteps, NEW e \in Counts, Attended(e),
         e = "not_full" => Reserve = "cas"
  PROVE  Attended(e)'
<1>1. PICK t \in Waiters :
        \/ Keys(t) \/ Announces(t) \/ Cancels(t) \/ Sleeps(t) \/ Leaves(t)
        \/ Claims(t) \/ Advances(t) \/ Wakes(t) \/ WakesAll(t) \/ ClearArrives(t)
  BY DEF CountSteps
<1>2. CASE Keys(t) \/ Announces(t) \/ Cancels(t) \/ Leaves(t)
  BY <1>2, WaitingAttended DEF WaitingSteps
<1>3. CASE Claims(t) \/ Advances(t) \/ Wakes(t) \/ WakesAll(t)
  BY <1>3, NoticeAttended DEF NoticeSteps
<1>4. CASE Sleeps(t)
  BY <1>4, SleepsAttended
<1>5. CASE ClearArrives(t)
  <2>1. UNCHANGED <<epoch, sleepers, key, stack, parked>>
    BY <1>5 DEF ClearArrives, FlushClear, calling
  <2> QED BY <2>1, AttendedStill
<1> QED BY <1>1, <1>2, <1>3, <1>4, <1>5

\* A closed queue stays closed.
LEMMA ClosedStays ==
  ASSUME Next, closed
  PROVE  closed'
<1>1. RingSteps \/ CountSteps \/ OtherSteps
  BY StepsOf
<1>2. CASE RingSteps
  BY <1>2 DEF RingSteps, PushOk, TakeTicket, PayTicket, PopOk, StoreArrives, ring
<1>3. CASE CountSteps
  BY <1>3, CountStepLeaves DEF CountSteps, ring
<1>4. CASE OtherSteps
  BY <1>4, LooksLeave DEF OtherSteps, BeginPush, PushFull, Close, ring
<1> QED BY <1>1, <1>2, <1>3, <1>4

\* A slot is ready: the store that made it so is followed by a notification.
LEMMA EventsNext ==
  ASSUME Calls, RingInv, CountsInv, EventsNoticed, Next
  PROVE  EventsNoticed'
<1> SUFFICES ASSUME seq'[Slot(head')].n = head' + 1, ~closed' PROVE Attended("not_empty")'
  BY DEF EventsNoticed, Slot
<1>1. /\ UNCHANGED fixed /\ ~closed /\ "not_empty" \in Counts /\ SlotsInTurn /\ StoresAnnounced
      /\ RingSteps \/ CountSteps \/ OtherSteps
  BY StepsOf, ClosedStays, Roles DEF RingInv
<1>2. ASSUME UNCHANGED <<head, seq>> PROVE seq[Slot(head)].n = head + 1 /\ Attended("not_empty")
  BY <1>1, <1>2 DEF EventsNoticed
<1>3. ASSUME NEW t \in Waiters, CallSteps(t), UNCHANGED <<head, seq>> PROVE Attended("not_empty")'
  BY <1>1, <1>2, <1>3, EventsAfterCalls
<1>4. CASE RingSteps
  <2>1. ASSUME NEW p \in Producers, PushOk(p) \/ TakeTicket(p) \/ PayTicket(p)
        PROVE  Attended("not_empty")'
    <3>1. CallSteps(p) /\ UNCHANGED <<head, seq>>
      BY <2>1 DEF CallSteps, PushOk, TakeTicket, PayTicket, ring
    <3> QED BY <1>3, <3>1, Roles
  <2>2. ASSUME NEW c \in Consumers, PopOk(c) PROVE Attended("not_empty")'
    BY <2>2, PopOkLooks, SomebodyAttends, Roles DEF Somebody
  <2>3. ASSUME NEW t \in Waiters, StoreArrives(t) PROVE Attended("not_empty")'
    <3>1. /\ Stores(t) /\ seq' = [seq EXCEPT ![StoredSlot(t)] = Stored(t)] /\ head' = head
          /\ UNCHANGED <<epoch, sleepers, key, stack, parked>>
      BY <2>3 DEF StoreArrives, Stores, StoredSlot, Stored, Fenced, calling, counts
    <3>2. CASE seq[Slot(head)].n = head + 1
      BY <1>1, <3>1, <3>2, AttendedStill DEF EventsNoticed
    <3>3. CASE seq[Slot(head)].n # head + 1
      <4>1. head \in Nat /\ head \in Window /\ seq \in [Slots -> AnyWord] /\ Slot(head) \in Slots
        BY WindowOf, SlotRange DEF Calls, StateTypes, RingTypes
      <4>2. StoredSlot(t) = Slot(head) /\ Stored(t).n = head + 1
        BY <3>1, <3>3, <4>1
      <4>3. PICK q \in Window :
              /\ StoredSlot(t) = Slot(q)
              /\ \/ /\ t \in Consumers /\ Stored(t) = Word(q, FALSE) /\ Stored(t).n = q
                    /\ seq[Slot(q)].n = q - N + 1
                 \/ /\ t \in Producers /\ Stored(t).n = q + 1 /\ q < tail
                    /\ seq[Slot(q)] = Word(q, FALSE) /\ seq[Slot(q)].n = q
        BY <1>1, <3>1, StoreOf
      <4>4. q = head
        BY <4>1, <4>2, <4>3, WindowOf
      <4>5. t \in Producers
        <5>1. head # head + 1
          BY <4>1
        <5> QED BY <4>2, <4>3, <4>4, <5>1
      <4>6. Tells(t, "not_empty")
        BY <1>1, <3>1, <4>5 DEF StoresAnnounced
      <4>7. Noticing("not_empty")'
        BY <3>1, <4>6 DEF Noticing, Tells, Doing
      <4> QED BY <4>7, SomebodyAttends DEF Somebody
    <3> QED BY <3>2, <3>3
  <2> QED BY <1>4, <2>1, <2>2, <2>3 DEF RingSteps
<1>5. CASE CountSteps
  <2>1. UNCHANGED <<head, seq>>
    BY <1>5, CountStepLeaves DEF CountSteps, ring
  <2> QED BY <1>1, <1>2, <1>5, <2>1, CountStepsAttended
<1>6. CASE OtherSteps
  <2>1. ASSUME NEW t \in Waiters, Looks(t) PROVE Attended("not_empty")'
    <3>1. UNCHANGED <<head, seq>>
      BY <2>1, LooksLeave DEF ring
    <3>2. CallLooks(t) \/ NoticeSteps(t)
      BY <2>1, LooksAre
    <3> QED BY <1>1, <1>2, <1>3, <3>1, <3>2, NoticeAttended DEF CallSteps
  <2>2. ASSUME NEW p \in Producers, BeginPush(p) \/ PushFull(p) PROVE Attended("not_empty")'
    <3>1. CallSteps(p) /\ UNCHANGED <<head, seq>>
      BY <2>2 DEF CallSteps, BeginPush, PushFull, ring
    <3> QED BY <1>3, <3>1, Roles
  <2>3. ~Close
    BY DEF Close
  <2> QED BY <1>6, <2>1, <2>2, <2>3 DEF OtherSteps
<1> QED BY <1>1, <1>4, <1>5, <1>6

\* The tail's slot is free: the store that freed it is followed by a notification, and
\* a producer that has slept passes the wake on.
LEMMA RoomNext ==
  ASSUME Calls, RingInv, CountsInv, RoomNoticed, Next
  PROVE  RoomNoticed'
<1> SUFFICES ASSUME FullWakeEvery = 1, Reserve' = "cas", seq'[Slot(tail')].n = tail', ~closed'
             PROVE  Attended("not_full")'
  BY DEF RoomNoticed, Slot
<1>1. /\ UNCHANGED fixed /\ ~closed /\ "not_full" \in Counts /\ SlotsInTurn /\ StoresAnnounced
      /\ RingSteps \/ CountSteps \/ OtherSteps
      /\ Reserve = "cas"
  BY StepsOf, ClosedStays, Roles DEF RingInv, fixed
<1>2. ASSUME UNCHANGED <<tail, seq>> PROVE seq[Slot(tail)].n = tail /\ Attended("not_full")
  BY <1>1, <1>2 DEF RoomNoticed
<1>3. ASSUME NEW t \in Waiters, CallSteps(t), UNCHANGED <<tail, seq>> PROVE Attended("not_full")'
  BY <1>1, <1>2, <1>3, RoomAfterCalls
<1>4. CASE RingSteps
  <2>1. ASSUME NEW p \in Producers, PushOk(p) PROVE Attended("not_full")'
    <3>1. CallSteps(p) /\ Fenced(p) /\ Room(p)
      BY <2>1 DEF CallSteps, PushOk, Store
    <3>2. seq[Slot(tail)].n = tail
      BY <3>1, LoadFenced DEF Room
    <3> QED BY <1>1, <3>1, <3>2, RoomAfterCalls, Roles DEF RoomNoticed
  <2>2. ASSUME NEW p \in Producers PROVE ~TakeTicket(p) /\ ~PayTicket(p)
    BY <1>1, TakeTicketMoves, PayTicketMoves
  <2>3. ASSUME NEW c \in Consumers, PopOk(c) PROVE Attended("not_full")'
    <3>1. CallSteps(c) /\ UNCHANGED <<tail, seq>>
      BY <2>3 DEF CallSteps, PopOk
    <3> QED BY <1>3, <3>1, Roles
  <2>4. ASSUME NEW t \in Waiters, StoreArrives(t) PROVE Attended("not_full")'
    <3>1. /\ Stores(t) /\ seq' = [seq EXCEPT ![StoredSlot(t)] = Stored(t)] /\ tail' = tail
          /\ UNCHANGED <<epoch, sleepers, key, stack, parked>>
      BY <2>4 DEF StoreArrives, Stores, StoredSlot, Stored, Fenced, calling, counts
    <3>2. CASE seq[Slot(tail)].n = tail
      BY <1>1, <3>1, <3>2, AttendedStill DEF RoomNoticed
    <3>3. CASE seq[Slot(tail)].n # tail
      <4>1. /\ tail \in Nat /\ seq \in [Slots -> AnyWord] /\ Slot(tail) \in Slots
            /\ N \in Nat /\ N >= 2
        BY WindowOf, SlotRange DEF Calls, StateTypes, RingTypes
      <4>2. StoredSlot(t) = Slot(tail) /\ Stored(t).n = tail
        BY <3>1, <3>3, <4>1
      <4>3. PICK q \in Window :
              /\ StoredSlot(t) = Slot(q)
              /\ \/ /\ t \in Consumers /\ Stored(t) = Word(q, FALSE) /\ Stored(t).n = q
                    /\ seq[Slot(q)].n = q - N + 1
                 \/ /\ t \in Producers /\ Stored(t).n = q + 1 /\ q < tail
                    /\ seq[Slot(q)] = Word(q, FALSE) /\ seq[Slot(q)].n = q
        BY <1>1, <3>1, StoreOf
      <4>4. q \in Nat
        BY <4>3, WindowOf
      <4>5. t \in Consumers
        <5>1. CASE q + 1 = tail
          <6>1. q < tail /\ Slot(q) = Slot(tail)
            BY <4>1, <4>2, <4>3, <4>4, <5>1
          <6>2. q + N <= tail
            BY <4>1, <4>4, <6>1, SlotApart
          <6> QED BY <4>1, <4>4, <5>1, <6>2
        <5>2. CASE q + 1 # tail
          BY <4>2, <4>3, <5>2
        <5> QED BY <5>1, <5>2
      <4>6. Tells(t, "not_full")
        BY <1>1, <3>1, <4>5 DEF StoresAnnounced
      <4>7. Noticing("not_full")'
        BY <3>1, <4>6 DEF Noticing, Tells, Doing
      <4> QED BY <4>7, SomebodyAttends DEF Somebody
    <3> QED BY <3>2, <3>3
  <2> QED BY <1>4, <2>1, <2>2, <2>3, <2>4 DEF RingSteps
<1>5. CASE CountSteps
  <2>1. UNCHANGED <<tail, seq>>
    BY <1>5, CountStepLeaves DEF CountSteps, ring
  <2> QED BY <1>1, <1>2, <1>5, <2>1, CountStepsAttended
<1>6. CASE OtherSteps
  <2>1. ASSUME NEW t \in Waiters, Looks(t) PROVE Attended("not_full")'
    <3>1. UNCHANGED <<tail, seq>>
      BY <2>1, LooksLeave DEF ring
    <3>2. CallLooks(t) \/ NoticeSteps(t)
      BY <2>1, LooksAre
    <3> QED BY <1>1, <1>2, <1>3, <3>1, <3>2, NoticeAttended DEF CallSteps
  <2>2. ASSUME NEW p \in Producers, BeginPush(p) \/ PushFull(p) PROVE Attended("not_full")'
    <3>1. CallSteps(p) /\ UNCHANGED <<tail, seq>>
      BY <2>2 DEF CallSteps, BeginPush, PushFull, ring
    <3> QED BY <1>3, <3>1, Roles
  <2>3. ~Close
    BY DEF Close
  <2> QED BY <1>6, <2>1, <2>2, <2>3 DEF OtherSteps
<1> QED BY <1>1, <1>4, <1>5, <1>6

\* With tickets nobody is told of room one at a time.
LEMMA RoomIsForAll ==
  ASSUME Calls, Reserve = "ticket", NEW t \in Waiters, Doing(t)[1] \in Noticed,
         Doing(t)[2] = "not_full"
  PROVE  Doing(t)[1] \in {"look", "advance"} /\ Doing(t)[3] # "one" /\ t \notin Producers
<1>1. ~Publishing(Doing(t))
  BY DEF Publishing, IsNotice
<1>2. t \notin Producers
  BY <1>1, NoticeOf
<1>3. CASE t \in Consumers
  <2>1. IsNotice(Doing(t), "not_full", "waiting")
    BY <1>1, <1>3, NoticeOf DEF Releasing
  <2> QED BY <1>2, <2>1 DEF IsNotice
<1>4. CASE t = Closer
  BY <1>2, <1>4, NoticeOf
<1> QED BY <1>2, <1>3, <1>4, Roles

\* A step that tells nobody of room, frees no slot, and sends its mover to sleep only if
\* its turn has not come.
LEMMA TurnsStay ==
  ASSUME Calls, TurnsNoticed, UNCHANGED fixed, NEW t \in Waiters, OthersStay(t),
         epoch'["not_full"] = epoch["not_full"],
         sleepers'["not_full"] \subseteq sleepers["not_full"],
         seq' = seq,
         \A u \in Producers : u # t => key'[u] = key[u] /\ pos'[u] = pos[u],
         Doing(t)[1] \notin Noticed \/ Doing(t)[2] # "not_full",
         t \in Producers => \/ ~At(t, "wait")'
                            \/ /\ t \notin sleepers'["not_full"]
                               /\ seq[Slot(pos[t])] # Word(pos[t], FALSE) /\ pos'[t] = pos[t]
  PROVE  TurnsNoticed'
<1> SUFFICES ASSUME FullWakeEvery = 1, Reserve = "ticket", NEW p \in Producers, At(p, "wait")'
             PROVE  /\ p \in sleepers'["not_full"] => key'[p] = epoch'["not_full"]
                    /\ key'[p] = epoch'["not_full"] /\ seq'[Slot(pos'[p])] = Word(pos'[p], FALSE) =>
                         Noticing("not_full")'
  BY DEF TurnsNoticed, fixed, Slot, Word
<1>1. Noticing("not_full") => Noticing("not_full")'
  <2> SUFFICES ASSUME NEW u \in Waiters, Doing(u)[1] \in {"look", "claim", "advance"},
                      Doing(u)[2] = "not_full"
               PROVE  Noticing("not_full")'
    BY DEF Noticing
  <2>1. stack'[u] = stack[u]
    BY DEF OthersStay, Noticed
  <2> QED BY <2>1 DEF Noticing, Doing
<1>2. CASE p = t
  BY <1>2
<1>3. CASE p # t
  <2>1. p \in Waiters /\ stack'[p] = stack[p] /\ key'[p] = key[p] /\ pos'[p] = pos[p]
    BY <1>3, Roles DEF OthersStay
  <2>2. At(p, "wait")
    BY <2>1 DEF At, Doing
  <2>3. /\ p \in sleepers["not_full"] => key[p] = epoch["not_full"]
        /\ key[p] = epoch["not_full"] /\ seq[Slot(pos[p])] = Word(pos[p], FALSE) =>
             Noticing("not_full")
    BY <2>2 DEF TurnsNoticed
  <2> QED BY <1>1, <2>1, <2>3
<1> QED BY <1>2, <1>3

\* Nobody waits with the newest key, and nobody sleeps with an old one.
LEMMA TurnsMissed ==
  ASSUME sleepers'["not_full"] = {} \/ \A p \in Producers : ~At(p, "wait")',
         (\A p \in Producers : key'[p] # epoch'["not_full"]) \/ (\A p \in Producers : ~At(p, "wait")')
  PROVE  TurnsNoticed'
  BY DEF TurnsNoticed

\* The notification of room reaches every producer that waits for its turn.
LEMMA NoticeTurns ==
  ASSUME Calls, CountsInv, TurnsNoticed, UNCHANGED fixed, NEW t \in Waiters, NoticeSteps(t)
  PROVE  TurnsNoticed'
<1> SUFFICES ASSUME FullWakeEvery = 1, Reserve = "ticket" PROVE TurnsNoticed'
  BY DEF TurnsNoticed, fixed
<1> DEFINE e == "not_full"
<1>1. /\ UNCHANGED <<key, parked, ring>> /\ OthersStay(t) /\ Doing(t)[1] \in Noticed
      /\ ~At(t, "wait")' /\ e \in Counts /\ pos' = pos /\ seq' = seq
  BY NoticeLooks, Roles DEF ring, NoticeSteps, Claims, Advances, Wakes, WakesAll, calling
<1>2. epoch \in [Counts -> Nat] /\ sleepers \in [Counts -> SUBSET Waiters]
  BY DEF Calls, StateTypes, CountTypes
<1>3. CASE Doing(t)[2] # e
  <2>1. epoch'[e] = epoch[e] /\ sleepers'[e] = sleepers[e]
    BY <1>1, <1>2, <1>3 DEF NoticeSteps, NotifyLook, Claims, ClaimWake, Advances, NotifyAdvance,
       Advance, Wakes, NotifyWake, WakeOne, WakesAll, NotifyAll, AdvanceAndWakeAll, counts
  <2> QED BY <1>1, <1>3, <2>1, TurnsStay
<1>4. CASE Doing(t)[2] = e
  <2>1. Doing(t)[1] \in {"look", "advance"} /\ Doing(t)[3] # "one"
    BY <1>1, <1>4, RoomIsForAll
  <2>2. (NotifyLook(t) /\ UNCHANGED <<ring, calling>>) \/ WakesAll(t)
    BY <2>1 DEF NoticeSteps, At, Claims, Advances, NotifyAdvance, Wakes, NotifyWake
  <2>3. CASE NotifyLook(t) /\ AnyWaiter(e)
    <3>1. Doing(t)' = <<IF Doing(t)[3] = "one" THEN "claim" ELSE "advance", e, Doing(t)[3]>>
      <4>1. Then(t, << <<IF Doing(t)[3] = "one" THEN "claim" ELSE "advance", e, Doing(t)[3]>> >>)
        BY <1>4, <2>3 DEF NotifyLook
      <4> QED BY <4>1, ThenMoves DEF Doing
    <3>2. Doing(t)'[1] = "advance" /\ Doing(t)'[2] = e
      BY <2>1, <3>1
    <3>3. Noticing(e)'
      BY <3>2 DEF Noticing
    <3>4. epoch' = epoch /\ sleepers' = sleepers
      BY <2>3 DEF NotifyLook, counts
    <3>5. \A p \in Producers : At(p, "wait")' => At(p, "wait") /\ p # t
      BY <1>1, Roles DEF OthersStay, At, Doing
    <3> QED BY <1>1, <3>3, <3>4, <3>5 DEF TurnsNoticed
  <2>4. CASE NotifyLook(t) /\ ~AnyWaiter(e)
    <3>1. \A u \in Waiters : SleepsOn(u) = e => ~At(u, "wait")
      BY <1>1, <2>4, CallsOf, NobodyWaits DEF AnyWaiter
    <3>2. \A p \in Producers : ~At(p, "wait")'
      BY <1>1, <3>1, Roles DEF OthersStay, At, Doing
    <3> QED BY <3>2, TurnsMissed
  <2>5. CASE WakesAll(t)
    <3>1. epoch' = [epoch EXCEPT ![e] = @ + 1] /\ sleepers' = [sleepers EXCEPT ![e] = {}]
      BY <1>4, <2>5 DEF WakesAll, NotifyAll, AdvanceAndWakeAll
    <3>2. \A u \in Waiters : SleepsOn(u) = e => key'[u] # epoch'[e]
      BY <1>1, <3>1, KeysOld
    <3>3. sleepers'[e] = {}
      BY <1>1, <1>2, <3>1
    <3> QED BY <3>2, <3>3, Roles, TurnsMissed
  <2> QED BY <2>2, <2>3, <2>4, <2>5
<1> QED BY <1>3, <1>4

\* So does a step of a call: a producer waits only if its turn has not come.
LEMMA CallTurns ==
  ASSUME Calls, CountsInv, TurnsNoticed, UNCHANGED fixed, NEW t \in Waiters, CallSteps(t)
  PROVE  TurnsNoticed'
<1> SUFFICES ASSUME FullWakeEvery = 1, Reserve = "ticket" PROVE TurnsNoticed'
  BY DEF TurnsNoticed, fixed
<1>1. /\ OthersStay(t) /\ UNCHANGED counts /\ Doing(t)[1] \notin Noticed
  BY CallStepsMove
<1>2. epoch' = epoch /\ sleepers' = sleepers /\ key' = key
  BY <1>1 DEF counts
<1>3. seq' = seq
  BY DEF CallSteps, CallLooks, BeginPush, PushFull, PushOk, TakeTicket, PayTicket, PopOk, Close,
     PushClosed, ChainFullWake, PrecheckClosed, AwaitTurn, PopEmpty, PopSleep, PopAgain,
     ChainBurst, ring
<1>4. \A u \in Producers : u # t => pos'[u] = pos[u]
  <2>1. pos \in [Producers -> Nat]
    BY DEF Calls, StateTypes
  <2>2. pos' = pos \/ pos' = [pos EXCEPT ![t] = tail]
    BY DEF CallSteps, CallLooks, BeginPush, PushFull, PushOk, TakeTicket, PayTicket, PopOk, Close,
       PushClosed, ChainFullWake, PrecheckClosed, AwaitTurn, PopEmpty, PopSleep, PopAgain,
       ChainBurst, calling
  <2> QED BY <2>1, <2>2
<1>5. ASSUME t \in Producers
      PROVE  \/ ~At(t, "wait")'
             \/ /\ t \notin sleepers'["not_full"]
                /\ seq[Slot(pos[t])] # Word(pos[t], FALSE) /\ pos'[t] = pos[t]
  <2>1. BeginPush(t) \/ TakeTicket(t) \/ PayTicket(t) \/ PrecheckClosed(t) \/ AwaitTurn(t)
    <3>1. ~PushFull(t) /\ ~PushOk(t) /\ ~PushClosed(t) /\ ~ChainFullWake(t)
      BY <1>5, PushFullMoves, PushOkMoves, PushClosedMoves, ChainFullWakeMoves
    <3> QED BY <1>5, <3>1, Roles DEF CallSteps, CallLooks
  <2>2. CASE BeginPush(t) \/ TakeTicket(t) \/ PrecheckClosed(t)
    <3>1. \/ Goes(t, <<Idle>>, << <<"precheck">>, Idle>>)
          \/ Goes(t, << <<"ticket">>, Idle>>, << <<"turn">>, Idle>>)
          \/ Goes(t, << <<"precheck">>, Idle>>, <<Idle>>)
          \/ Goes(t, << <<"precheck">>, Idle>>, << <<"ticket">>, Idle>>)
      BY <1>5, <2>2, BeginPushMoves, TakeTicketMoves, PrecheckClosedMoves
    <3>2. ~At(t, "wait")'
      BY <3>1 DEF Goes, At, Doing, Idle
    <3> QED BY <3>2
  <2>3. CASE PayTicket(t)
    <3>1. \/ stack'[t] = <<Idle>>
          \/ stack'[t] = <<Notify("not_empty", "one"), Idle>>
      BY <1>5, <2>3, PayTicketMoves DEF Goes
    <3>2. Notify("not_empty", "one")[1] \in {"look", "advance"}
      BY NotifyTells, Roles
    <3>3. ~At(t, "wait")'
      BY <3>1, <3>2 DEF At, Doing, Idle
    <3> QED BY <3>3
  <2>4. CASE AwaitTurn(t)
    <3>1. /\ Fenced(t) /\ pos' = pos
          /\ \/ Goes(t, << <<"turn">>, Idle>>, << <<"key">>, <<"recheck">>, Idle>>)
             \/ Goes(t, << <<"recheck">>, Idle>>, << <<"cancel">>, <<"turn">>, Idle>>)
             \/ ~MyTurn(t) /\ Goes(t, << <<"recheck">>, Idle>>, << <<"wait">>, <<"turn">>, Idle>>)
      BY <1>5, <2>4, AwaitTurnMoves DEF AwaitTurn, calling
    <3>2. CASE ~MyTurn(t) /\ Goes(t, << <<"recheck">>, Idle>>, << <<"wait">>, <<"turn">>, Idle>>)
      <4>1. seq[Slot(pos[t])] # Word(pos[t], FALSE)
        BY <3>1, <3>2, LoadFenced DEF MyTurn
      <4>2. ~At(t, "wait")
        BY <3>2 DEF Goes, At, Doing
      <4>3. t \notin sleepers["not_full"]
        BY <4>2, Roles DEF CountsInv, SleepersWait
      <4> QED BY <1>2, <3>1, <4>1, <4>3
    <3>3. ASSUME \/ Goes(t, << <<"turn">>, Idle>>, << <<"key">>, <<"recheck">>, Idle>>)
                 \/ Goes(t, << <<"recheck">>, Idle>>, << <<"cancel">>, <<"turn">>, Idle>>)
          PROVE  ~At(t, "wait")'
      BY <3>3 DEF Goes, At, Doing
    <3> QED BY <3>1, <3>2, <3>3
  <2> QED BY <2>1, <2>2, <2>3, <2>4
<1> QED BY <1>1, <1>2, <1>3, <1>4, <1>5, TurnsStay

\* And the steps of the event counts.
LEMMA CountTurns ==
  ASSUME Calls, CountsInv, TurnsNoticed, UNCHANGED fixed, CountSteps
  PROVE  TurnsNoticed'
<1>1. PICK t \in Waiters :
        \/ Keys(t) \/ Announces(t) \/ Cancels(t) \/ Sleeps(t) \/ Leaves(t)
        \/ Claims(t) \/ Advances(t) \/ Wakes(t) \/ WakesAll(t) \/ ClearArrives(t)
  BY DEF CountSteps
<1>2. pos' = pos /\ seq' = seq
  BY <1>1, CountStepLeaves DEF ring, calling
<1>3. CASE Keys(t) \/ Announces(t) \/ Cancels(t) \/ Leaves(t)
  <2>1. WaitingSteps(t)
    BY <1>3 DEF WaitingSteps
  <2>2. /\ epoch' = epoch /\ OthersStay(t) /\ Doing(t)[1] \notin Noticed
        /\ \A u \in Waiters : u # t => key'[u] = key[u]
        /\ ~At(t, "wait")'
        /\ sleepers' = sleepers \/ sleepers' = [sleepers EXCEPT ![SleepsOn(t)] = @ \ {t}]
    BY <2>1, WaitingLooks
  <2>3. sleepers'["not_full"] \subseteq sleepers["not_full"]
    <3>1. sleepers \in [Counts -> SUBSET Waiters]
      BY DEF Calls, StateTypes, CountTypes
    <3> QED BY <2>2, <3>1, Roles
  <2> QED BY <1>2, <2>2, <2>3, TurnsStay, Roles
<1>4. CASE Claims(t) \/ Advances(t) \/ Wakes(t) \/ WakesAll(t)
  BY <1>4, NoticeTurns DEF NoticeSteps
<1>5. CASE Sleeps(t)
  <2>1. /\ key[t] = epoch[SleepsOn(t)] /\ UNCHANGED <<epoch, key, stack>>
        /\ sleepers' = [sleepers EXCEPT ![SleepsOn(t)] = @ \cup {t}]
        /\ sleepers \in [Counts -> SUBSET Waiters]
    BY <1>5 DEF Sleeps, Sleep, Calls, StateTypes, CountTypes
  <2>2. \A p \in Producers : p \in sleepers'["not_full"] =>
          p \in sleepers["not_full"] \/ key[p] = epoch["not_full"]
    BY <2>1, Roles
  <2>3. \A p \in Producers : At(p, "wait")' <=> At(p, "wait")
    BY <2>1 DEF At, Doing
  <2>4. Noticing("not_full") => Noticing("not_full")'
    BY <2>1 DEF Noticing, Doing
  <2> QED BY <1>2, <2>1, <2>2, <2>3, <2>4 DEF TurnsNoticed, fixed, Slot, Word
<1>6. CASE ClearArrives(t)
  <2>1. UNCHANGED <<epoch, sleepers, key, stack>>
    BY <1>6 DEF ClearArrives, FlushClear
  <2>2. Noticing("not_full") => Noticing("not_full")'
    BY <2>1 DEF Noticing, Doing
  <2> QED BY <1>2, <2>1, <2>2 DEF TurnsNoticed, fixed, Slot, Word, At, Doing
<1> QED BY <1>1, <1>3, <1>4, <1>5, <1>6

\* The store that brings a producer's turn is followed by a notification of room.
LEMMA StoreTurns ==
  ASSUME Calls, RingInv, TurnsNoticed, UNCHANGED fixed, NEW t \in Waiters, StoreArrives(t)
  PROVE  TurnsNoticed'
<1> SUFFICES ASSUME FullWakeEvery = 1, Reserve = "ticket", NEW p \in Producers, At(p, "wait")'
             PROVE  /\ p \in sleepers'["not_full"] => key'[p] = epoch'["not_full"]
                    /\ key'[p] = epoch'["not_full"] /\ seq'[Slot(pos'[p])] = Word(pos'[p], FALSE) =>
                         Noticing("not_full")'
  BY DEF TurnsNoticed, fixed, Slot, Word
<1>1. /\ Stores(t) /\ seq' = [seq EXCEPT ![StoredSlot(t)] = Stored(t)]
      /\ UNCHANGED <<epoch, sleepers, key, stack, pos>>
      /\ SlotsInTurn /\ StoresAnnounced /\ TicketsHeld
  BY DEF StoreArrives, Stores, StoredSlot, Stored, Fenced, calling, counts, RingInv
<1>2. /\ At(p, "wait") /\ (Noticing("not_full") => Noticing("not_full")')
      /\ p \in sleepers["not_full"] => key[p] = epoch["not_full"]
      /\ key[p] = epoch["not_full"] /\ seq[Slot(pos[p])] = Word(pos[p], FALSE) =>
           Noticing("not_full")
  BY <1>1 DEF TurnsNoticed, Noticing, At, Doing
<1>3. ASSUME seq'[Slot(pos[p])] = Word(pos[p], FALSE), seq[Slot(pos[p])] # Word(pos[p], FALSE)
      PROVE  Noticing("not_full")'
  <2> DEFINE m == pos[p]
  <2>1. m \in Nat /\ seq \in [Slots -> AnyWord] /\ Slot(m) \in Slots /\ N \in Nat /\ N >= 2
    BY SlotRange, RingAssumption DEF Calls, StateTypes, RingTypes
  <2>2. StoredSlot(t) = Slot(m) /\ Stored(t) = Word(m, FALSE) /\ Stored(t).n = m
    <3>1. StoredSlot(t) = Slot(m) /\ Stored(t) = Word(m, FALSE)
      BY <1>1, <1>3, <2>1
    <3> QED BY <3>1 DEF Word
  <2>3. PICK q \in Window :
          /\ StoredSlot(t) = Slot(q)
          /\ \/ /\ t \in Consumers /\ Stored(t) = Word(q, FALSE) /\ Stored(t).n = q
                /\ seq[Slot(q)].n = q - N + 1
             \/ /\ t \in Producers /\ Stored(t).n = q + 1 /\ q < tail
                /\ seq[Slot(q)] = Word(q, FALSE) /\ seq[Slot(q)].n = q
    BY <1>1, StoreOf
  <2>4. q \in Nat
    BY <2>3, WindowOf
  <2>5. t \in Consumers
    <3>1. CASE q + 1 = m
      <4>1. q < m /\ Slot(q) = Slot(m)
        BY <2>1, <2>2, <2>3, <2>4, <3>1
      <4>2. q + N <= m
        BY <2>1, <2>4, <4>1, SlotApart
      <4> QED BY <2>1, <2>4, <3>1, <4>2
    <3>2. CASE q + 1 # m
      BY <2>2, <2>3, <3>2
    <3> QED BY <3>1, <3>2
  <2>6. Tells(t, "not_full")
    BY <1>1, <2>5 DEF StoresAnnounced
  <2> QED BY <1>1, <2>6 DEF Noticing, Tells, Doing
<1> QED BY <1>1, <1>2, <1>3

\* Wakes reach the ticket holders whose turn has come, whatever the step.
LEMMA TurnsNext ==
  ASSUME Calls, RingInv, CountsInv, TurnsNoticed, Next
  PROVE  TurnsNoticed'
<1>1. UNCHANGED fixed /\ (RingSteps \/ CountSteps \/ OtherSteps)
  BY StepsOf
<1>2. CASE RingSteps
  BY <1>1, <1>2, StoreTurns, CallTurns, Roles DEF RingSteps, CallSteps
<1>3. CASE CountSteps
  BY <1>1, <1>3, CountTurns
<1>4. CASE OtherSteps
  <2>1. ASSUME NEW t \in Waiters, Looks(t) PROVE TurnsNoticed'
    BY <1>1, <2>1, LooksAre, NoticeTurns, CallTurns DEF CallSteps
  <2>2. ASSUME NEW p \in Producers, BeginPush(p) \/ PushFull(p) PROVE TurnsNoticed'
    BY <1>1, <2>2, CallTurns, Roles DEF CallSteps
  <2>3. Close => TurnsNoticed'
    BY <1>1, CallTurns, Roles DEF CallSteps
  <2> QED BY <1>4, <2>1, <2>2, <2>3 DEF OtherSteps
<1> QED BY <1>1, <1>2, <1>3, <1>4

\* A step of a thread but the closer, which does not settle after the close: whoever is
\* settled after it was settled before.
LEMMA ClosingStays ==
  ASSUME Calls, CountsInv, CloseReaches, UNCHANGED fixed, NEW t \in Waiters, OthersStay(t),
         t # Closer \/ stack'[t] = stack[t],
         closed' = closed,
         \A u \in Waiters : u # t => key'[u] = key[u],
         \A e \in Counts : epoch'[e] \in Nat /\ epoch[e] <= epoch'[e],
         \A e \in Counts : \A u \in sleepers'[e] : u \in sleepers[e] \/ key[u] = epoch[e],
         closed /\ Settled(t)' /\ (t \in Consumers \/ Reserve = "cas") => Settled(t)
  PROVE  CloseReaches'
<1>1. stack'[Closer] = stack[Closer]
  BY Roles DEF OthersStay
<1>2. \A e : Closing(e)' <=> Closing(e)
  BY <1>1 DEF Closing
<1>3. (closed <=> ~At(Closer, "idle"))'
  BY <1>1 DEF CloseReaches, At, Doing
<1>4. ASSUME NEW u \in Waiters, closed, Settled(u)', u \in Consumers \/ Reserve = "cas"
      PROVE  Settled(u)
  <2>1. CASE u = t
    BY <1>4, <2>1
  <2>2. CASE u # t
    <3> DEFINE e == SleepsOn(u)
    <3>1. stack'[u] = stack[u] /\ key'[u] = key[u] /\ e \in Counts
      BY <2>2, Roles DEF OthersStay
    <3>2. At(u, "wait") /\ (key[u] = epoch'[e] \/ u \in sleepers'[e])
      BY <1>4, <3>1 DEF Settled, At, Doing
    <3>3. CASE u \in sleepers'[e]
      BY <3>1, <3>2, <3>3 DEF Settled
    <3>4. CASE key[u] = epoch'[e]
      <4>1. key[u] \in Nat /\ epoch[e] \in Nat
        BY <3>1 DEF Calls, StateTypes, CountTypes
      <4>2. key[u] <= epoch[e]
        BY DEF CountsInv, SleepersWait
      <4>3. epoch'[e] \in Nat /\ epoch[e] <= epoch'[e]
        BY <3>1
      <4>4. key[u] = epoch[e]
        BY <3>4, <4>1, <4>2, <4>3
      <4> QED BY <3>2, <4>4 DEF Settled
    <3> QED BY <3>2, <3>3, <3>4
  <2> QED BY <2>1, <2>2
<1>5. ASSUME NEW u \in Waiters, closed, Settled(u)', u \in Consumers \/ Reserve = "cas"
      PROVE  Closing(SleepsOn(u))'
  BY <1>2, <1>4, <1>5 DEF CloseReaches
<1>6. \A u \in Waiters : closed' /\ Settled(u)' /\ (u \in Consumers \/ Reserve' = "cas") =>
        Closing(SleepsOn(u))'
  BY <1>5 DEF fixed
<1> QED BY <1>3, <1>6 DEF CloseReaches, SleepsOn

\* Nobody but a ticket holder settles once the queue is closed.
LEMMA CallClosing ==
  ASSUME Calls, CountsInv, CloseReaches, UNCHANGED fixed, NEW t \in Waiters, CallSteps(t), ~Close
  PROVE  CloseReaches'
<1>1. /\ OthersStay(t) /\ UNCHANGED counts /\ t # Closer
  BY CallStepsMove, Roles DEF CallSteps, CallLooks
<1>2. epoch' = epoch /\ sleepers' = sleepers /\ key' = key
  BY <1>1 DEF counts
<1>3. closed' = closed
  BY DEF CallSteps, CallLooks, BeginPush, PushFull, PushOk, TakeTicket, PayTicket, PopOk,
     PushClosed, ChainFullWake, PrecheckClosed, AwaitTurn, PopEmpty, PopSleep, PopAgain,
     ChainBurst, ring
<1>4. ASSUME closed, t \in Consumers PROVE ~At(t, "wait")'
  <2>1. PopOk(t) => ~At(t, "wait")'
    BY <1>4, PopOkLooks
  <2>2. PopEmpty(t) \/ PopSleep(t) \/ PopAgain(t) => ~At(t, "wait")'
    BY <1>4, PopEmptyMoves, PopSleepMoves, PopAgainMoves DEF Goes, At, Doing
  <2>3. ChainBurst(t) => ~At(t, "wait")'
    <3>1. Notify("not_empty", "one")[1] \in {"look", "advance"}
      BY NotifyTells, Roles
    <3> QED BY <1>4, <3>1, ChainBurstMoves DEF Goes, At, Doing
  <2> QED BY <1>4, <2>1, <2>2, <2>3, Roles DEF CallSteps, CallLooks
<1>5. ASSUME closed, t \in Producers, Reserve = "cas" PROVE ~At(t, "wait")'
  <2>1. BeginPush(t) \/ PushOk(t) \/ PushClosed(t) \/ ChainFullWake(t)
    <3>1. ~TakeTicket(t) /\ ~PayTicket(t) /\ ~PrecheckClosed(t) /\ ~AwaitTurn(t)
      BY <1>5, TakeTicketMoves, PayTicketMoves, PrecheckClosedMoves, AwaitTurnMoves
    <3>2. ~PushFull(t)
      BY <1>5 DEF PushFull
    <3> QED BY <1>5, <3>1, <3>2, Roles DEF CallSteps, CallLooks
  <2>2. BeginPush(t) \/ PushClosed(t) => ~At(t, "wait")'
    BY <1>5, BeginPushMoves, PushClosedMoves DEF Goes, At, Doing, Idle
  <2>3. ~PushOk(t)
    BY <1>5 DEF PushOk
  <2>4. ChainFullWake(t) => ~At(t, "wait")'
    <3>1. Notify("not_full", "one")[1] \in {"look", "advance"}
      BY NotifyTells, Roles
    <3> QED BY <1>5, <3>1, ChainFullWakeMoves DEF Goes, At, Doing, Idle
  <2> QED BY <2>1, <2>2, <2>3, <2>4
<1>6. closed /\ Settled(t)' /\ (t \in Consumers \/ Reserve = "cas") => Settled(t)
  BY <1>1, <1>4, <1>5, Roles DEF Settled
<1>7. \A e \in Counts : epoch'[e] \in Nat /\ epoch[e] <= epoch'[e]
  <2>1. epoch \in [Counts -> Nat]
    BY DEF Calls, StateTypes, CountTypes
  <2> QED BY <1>2, <2>1
<1> QED BY <1>1, <1>2, <1>3, <1>6, <1>7, ClosingStays

\* The steps of the event counts but those of the closer.
LEMMA CountClosing ==
  ASSUME Calls, CountsInv, CloseReaches, UNCHANGED fixed, NEW t \in Waiters,
         \/ Sleeps(t) \/ ClearArrives(t) \/ WaitingSteps(t)
         \/ NoticeSteps(t) /\ t # Closer
  PROVE  CloseReaches'
<1>1. epoch \in [Counts -> Nat] /\ sleepers \in [Counts -> SUBSET Waiters] /\ key \in [Waiters -> Nat]
  BY DEF Calls, StateTypes, CountTypes
<1>2. CASE WaitingSteps(t)
  <2>1. /\ epoch' = epoch /\ OthersStay(t) /\ ring' = ring
        /\ \A u \in Waiters : u # t => key'[u] = key[u]
        /\ ~At(t, "wait")'
        /\ sleepers' = sleepers \/ sleepers' = [sleepers EXCEPT ![SleepsOn(t)] = @ \ {t}]
    BY <1>2, WaitingLooks
  <2>2. \A e \in Counts : sleepers'[e] \subseteq sleepers[e]
    BY <1>1, <2>1
  <2>3. t # Closer /\ closed' = closed /\ ~Settled(t)'
    BY <1>2, <2>1, WaitingStepsMove DEF ring, Settled
  <2>4. \A e \in Counts : epoch'[e] \in Nat /\ epoch[e] <= epoch'[e]
    BY <1>1, <2>1
  <2> QED BY <2>1, <2>2, <2>3, <2>4, ClosingStays
<1>3. CASE NoticeSteps(t) /\ t # Closer
  <2>1. OthersStay(t) /\ key' = key /\ ring' = ring /\ ~At(t, "wait")'
    BY <1>3, NoticeLooks
  <2>2. closed' = closed /\ ~Settled(t)'
    BY <2>1 DEF ring, Settled
  <2>3. \/ UNCHANGED <<epoch, sleepers>>
        \/ epoch' = epoch /\ \E u : sleepers' = [sleepers EXCEPT ![Doing(t)[2]] = @ \ {u}]
        \/ epoch' = [epoch EXCEPT ![Doing(t)[2]] = @ + 1] /\ sleepers' = sleepers
        \/ /\ epoch' = [epoch EXCEPT ![Doing(t)[2]] = @ + 1]
           /\ sleepers' = [sleepers EXCEPT ![Doing(t)[2]] = {}]
    BY <1>3 DEF NoticeSteps, NotifyLook, Claims, ClaimWake, Advances, NotifyAdvance, Advance,
       Wakes, NotifyWake, WakeOne, WakesAll, NotifyAll, AdvanceAndWakeAll, counts
  <2>4. \A e \in Counts : epoch'[e] \in Nat /\ epoch[e] <= epoch'[e]
    BY <1>1, <2>3
  <2>5. \A e \in Counts : sleepers'[e] \subseteq sleepers[e]
    BY <1>1, <2>3
  <2> QED BY <1>3, <2>1, <2>2, <2>4, <2>5, ClosingStays
<1>4. CASE Sleeps(t) \/ ClearArrives(t)
  <2>1. /\ UNCHANGED <<epoch, key, stack>> /\ ring' = ring
        /\ \/ sleepers' = sleepers
           \/ /\ sleepers' = [sleepers EXCEPT ![SleepsOn(t)] = @ \cup {t}]
              /\ key[t] = epoch[SleepsOn(t)] /\ At(t, "wait")
    BY <1>4 DEF Sleeps, Sleep, ClearArrives, FlushClear
  <2>2. OthersStay(t) /\ closed' = closed
    BY <2>1 DEF OthersStay, Calls, StateTypes, ring
  <2>3. \A e \in Counts : \A u \in sleepers'[e] : u \in sleepers[e] \/ key[u] = epoch[e]
    BY <1>1, <2>1
  <2>4. Settled(t)' => Settled(t)
    BY <1>1, <2>1 DEF Settled, At, Doing
  <2>5. \A e \in Counts : epoch'[e] \in Nat /\ epoch[e] <= epoch'[e]
    BY <1>1, <2>1
  <2> QED BY <2>1, <2>2, <2>3, <2>4, <2>5, ClosingStays
<1> QED BY <1>2, <1>3, <1>4

\* The closer's wakes reach whoever sleeps or is about to.
LEMMA CloserWakes ==
  ASSUME Calls, CountsInv, CloseReaches, UNCHANGED fixed, NoticeSteps(Closer)
  PROVE  CloseReaches'
<1> DEFINE e == Doing(Closer)[2]
<1>1. /\ key' = key /\ ring' = ring /\ OthersStay(Closer) /\ Doing(Closer)[1] \in Noticed
      /\ ~At(Closer, "wait")'
  BY NoticeLooks, Roles
<1>2. \/ Doing(Closer) = <<"advance", "not_empty", "all">>
      \/ Doing(Closer) = <<"advance", "not_full", "all">>
  BY <1>1, NoticeOf, Roles
<1>3. WakesAll(Closer) /\ e \in Counts
  BY <1>2, Roles DEF NoticeSteps, NotifyLook, Claims, Advances, NotifyAdvance, Wakes, NotifyWake, At
<1>4. /\ epoch' = [epoch EXCEPT ![e] = @ + 1] /\ sleepers' = [sleepers EXCEPT ![e] = {}]
      /\ epoch \in [Counts -> Nat] /\ sleepers \in [Counts -> SUBSET Waiters]
  BY <1>3 DEF WakesAll, NotifyAll, AdvanceAndWakeAll, Calls, StateTypes, CountTypes
<1>5. \A u \in Waiters : SleepsOn(u) = e => ~Settled(u)'
  <2>1. \A u \in Waiters : SleepsOn(u) = e => key'[u] # epoch'[e]
    BY <1>1, <1>3, <1>4, KeysOld
  <2> QED BY <1>3, <1>4, <2>1 DEF Settled, SleepsOn
<1>6. closed' = closed /\ closed
  BY <1>1 DEF CloseReaches, At, Noticed, ring
<1>7. \/ stack'[Closer] = << <<"closed">> >> /\ e = "not_full"
         /\ stack[Closer] = << <<"advance", "not_full", "all">>, <<"closed">> >>
      \/ stack'[Closer] = << <<"advance", "not_full", "all">>, <<"closed">> >> /\ e = "not_empty"
  <2>1. Drops(Closer, Doing(Closer))
    BY <1>3, NoticeStepsMove, Roles
  <2> QED BY <1>2, <2>1, Roles DEF Drops, Goes
<1>8. ~At(Closer, "idle")'
  BY <1>7 DEF At, Doing
<1>9. ASSUME NEW u \in Waiters, Settled(u)', u \in Consumers \/ Reserve = "cas"
      PROVE  Closing(SleepsOn(u))'
  <2>1. u # Closer /\ SleepsOn(u) # e
    BY <1>1, <1>5, <1>9 DEF Settled
  <2>2. Settled(u)
    BY <1>1, <1>3, <1>4, <1>9, <2>1, Roles DEF Settled, At, Doing, OthersStay
  <2>3. Closing(SleepsOn(u))
    BY <1>6, <1>9, <2>2 DEF CloseReaches
  <2>4. CASE e = "not_empty"
    <3>1. SleepsOn(u) = "not_full" /\ stack'[Closer][1] = <<"advance", "not_full", "all">>
      BY <1>7, <2>1, <2>4 DEF SleepsOn
    <3>2. 1 \in DOMAIN stack'[Closer]
      BY <1>7, <2>4
    <3> QED BY <3>1, <3>2 DEF Closing
  <2>5. CASE e = "not_full"
    <3>1. stack[Closer] = << <<"advance", "not_full", "all">>, <<"closed">> >>
      BY <1>7, <2>5
    <3>2. SleepsOn(u) = "not_empty"
      BY <2>1, <2>5 DEF SleepsOn
    <3>3. \A i \in DOMAIN stack[Closer] : stack[Closer][i] # <<"advance", "not_empty", "all">>
      BY <3>1
    <3> QED BY <2>3, <3>2, <3>3 DEF Closing
  <2> QED BY <1>7, <2>4, <2>5
<1>10. \A u \in Waiters : closed' /\ Settled(u)' /\ (u \in Consumers \/ Reserve' = "cas") =>
         Closing(SleepsOn(u))'
  BY <1>9 DEF fixed
<1> QED BY <1>6, <1>8, <1>10 DEF CloseReaches, SleepsOn

\* The wakes of close reach everybody who settles before it, whatever the step.
LEMMA CloseNext ==
  ASSUME Calls, CountsInv, CloseReaches, Next
  PROVE  CloseReaches'
<1>1. UNCHANGED fixed /\ (RingSteps \/ CountSteps \/ OtherSteps)
  BY StepsOf
<1>2. CASE Close
  <2>1. /\ OthersStay(Closer)
        /\ stack'[Closer] = << <<"advance", "not_empty", "all">>, <<"advance", "not_full", "all">>,
                               <<"closed">> >>
        /\ closed'
    BY <1>2, CloseMoves DEF Close, Goes
  <2>2. stack'[Closer][1] = <<"advance", "not_empty", "all">> /\ 1 \in DOMAIN stack'[Closer]
        /\ stack'[Closer][2] = <<"advance", "not_full", "all">> /\ 2 \in DOMAIN stack'[Closer]
    BY <2>1
  <2>3. \A u \in Waiters : Closing(SleepsOn(u))'
    BY <2>2, Roles DEF Closing, SleepsOn
  <2>4. ~At(Closer, "idle")'
    BY <2>1 DEF At, Doing
  <2> QED BY <2>1, <2>3, <2>4 DEF CloseReaches
<1>3. ASSUME NEW t \in Waiters, CallSteps(t), ~Close PROVE CloseReaches'
  BY <1>1, <1>3, CallClosing
<1>4. ASSUME NEW t \in Waiters, NoticeSteps(t) PROVE CloseReaches'
  BY <1>1, <1>4, CountClosing, CloserWakes
<1>5. CASE RingSteps
  <2>1. ASSUME NEW t \in Waiters, StoreArrives(t) PROVE CloseReaches'
    <3>1. UNCHANGED <<epoch, sleepers, key, stack, closed>> /\ UNCHANGED fixed
      BY <1>1, <2>1 DEF StoreArrives, counts
    <3> QED BY <3>1 DEF CloseReaches, Settled, Closing, At, Doing, fixed, SleepsOn
  <2> QED BY <1>2, <1>3, <1>5, <2>1, Roles DEF RingSteps, CallSteps
<1>6. CASE CountSteps
  <2>1. PICK t \in Waiters :
          \/ Keys(t) \/ Announces(t) \/ Cancels(t) \/ Sleeps(t) \/ Leaves(t)
          \/ Claims(t) \/ Advances(t) \/ Wakes(t) \/ WakesAll(t) \/ ClearArrives(t)
    BY <1>6 DEF CountSteps
  <2> QED BY <1>1, <1>4, <2>1, CountClosing DEF WaitingSteps, NoticeSteps
<1>7. CASE OtherSteps
  BY <1>2, <1>3, <1>4, <1>7, LooksAre, Roles DEF OtherSteps, CallSteps
<1> QED BY <1>1, <1>5, <1>6, <1>7

(* ---------------------------- the invariant ------------------------------ *)
\* At first nobody waits, and nothing is published.
LEMMA WakesInvInit ==
  ASSUME Init
  PROVE  WakesInv
<1>1. /\ closed = FALSE
      /\ stack = [t \in Waiters |-> << <<IF t \in Consumers THEN "try" ELSE "idle">> >>]
      /\ sleepers = [e \in Counts |-> {}]
  BY DEF Init, EventCountInit
<1>2. \A t \in Waiters : ~At(t, "wait")
  <2> SUFFICES ASSUME NEW t \in Waiters PROVE ~At(t, "wait")
    OBVIOUS
  <2>1. Doing(t) = <<"try">> \/ Doing(t) = <<"idle">>
    BY <1>1 DEF Doing
  <2> QED BY <2>1 DEF At
<1>3. At(Closer, "idle")
  BY <1>1, Roles DEF At, Doing
<1>4. CloseReaches /\ TurnsNoticed
  BY <1>1, <1>2, <1>3, Roles DEF CloseReaches, TurnsNoticed
<1>5. Attended("not_empty") /\ Attended("not_full")
  BY <1>1, <1>2, Roles DEF Attended
<1> QED BY <1>4, <1>5 DEF WakesInv, EventsNoticed, RoomNoticed

\* Whoever waits when there is something to see has somebody who will look.
THEOREM QueueWakes == Spec => []WakesInv
<1>1. Init => WakesInv
  BY WakesInvInit
<1>2. Calls /\ RingInv /\ CountsInv /\ WakesInv /\ [Next \/ Over]_vars => WakesInv'
  <2> SUFFICES ASSUME Calls, RingInv, CountsInv, WakesInv, [Next \/ Over]_vars PROVE WakesInv'
    OBVIOUS
  <2>1. CASE Next
    BY <2>1, CloseNext, EventsNext, RoomNext, TurnsNext DEF WakesInv
  <2>2. CASE UNCHANGED vars
    <3>1. UNCHANGED <<Reserve, Outline, counts, ring, stack, calling>>
      BY <2>2 DEF vars, moving, fixed
    <3>2. UNCHANGED <<epoch, sleepers, key, stack, parked, pos, tail, closed, head, seq, Reserve>>
      BY <3>1 DEF counts, ring, calling
    <3>3. CloseReaches'
      BY <3>2 DEF WakesInv, CloseReaches, Settled, Closing, At, Doing, SleepsOn
    <3>4. EventsNoticed' /\ RoomNoticed'
      BY <3>2, AttendedStill DEF WakesInv, EventsNoticed, RoomNoticed, Slot
    <3>5. Noticing("not_full")' <=> Noticing("not_full")
      BY <3>2 DEF Noticing, Doing
    <3>6. TurnsNoticed'
      BY <3>2, <3>5 DEF WakesInv, TurnsNoticed, At, Doing, Slot, Word
    <3> QED BY <3>3, <3>4, <3>6 DEF WakesInv
  <2> QED BY <2>1, <2>2 DEF Over
<1> QED BY <1>1, <1>2, QueueCalls, QueueRing, QueueCounts, PTL DEF Spec

\* All of it together: the inductive invariant of the queue.
THEOREM QueueInvariant == Spec => []QueueInv
<1>1. Calls /\ RingInv /\ CountsInv /\ WakesInv => QueueInv
  BY DEF QueueInv
<1> QED BY <1>1, QueueCalls, QueueRing, QueueCounts, QueueWakes, PTL

(* ------------------------- what it says at rest -------------------------- *)
\* At rest nobody is on its way to look, to notify, to wake or to close.
LEMMA RestIsQuiet ==
  ASSUME Calls, CountsInv, AtRest
  PROVE  /\ \A t \in Waiters : ~Stores(t)
         /\ \A e \in Counts : /\ ~Somebody(e) /\ ~Noticing(e) /\ ~Waking(e) /\ ~Closing(e)
                              /\ \A t \in sleepers[e] : /\ t \in Waiters /\ SleepsOn(t) = e
                                                        /\ t # Closer /\ Settled(t) /\ At(t, "wait")
<1>1. \A t \in Waiters : /\ Fenced(t)
                         /\ \/ Doing(t)[1] \in {"idle", "drained", "closed"}
                            \/ At(t, "wait") /\ Settled(t)
  BY DEF AtRest, Settled
<1>2. \A t \in Waiters : ~Stores(t)
  BY <1>1 DEF Stores, Fenced
<1>3. \A t \in Waiters : Doing(t)[1] \notin Noticed
  BY <1>1 DEF At, Noticed
<1>4. ASSUME NEW t \in Waiters PROVE ~WillLook(t)
  <2>1. CASE t \in Consumers
    <3>1. At(t, "drained") \/ Settled(t)
      BY <1>1, <2>1, CallsOf, PopPlaces DEF At, Doing, Noticed
    <3> QED BY <2>1, <3>1, Roles DEF WillLook, WillPop
  <2>2. CASE t \in Producers
    <3>1. At(t, "idle") \/ Settled(t)
      BY <1>1, <2>2, CallsOf, PushPlaces, TicketPlaces DEF At, Doing, Noticed
    <3>2. At(t, "idle") => ~Has(stack[t], {"push", "recheck", "chain"})
      BY <2>2, ProducerAt, HasOf DEF Idle
    <3> QED BY <2>2, <3>1, <3>2, Roles DEF WillLook, WillPush
  <2> QED BY <2>1, <2>2 DEF WillLook
<1>5. /\ stack[Closer] = <<Idle>> \/ stack[Closer] = << <<"closed">> >>
      /\ ~At(Closer, "wait")
  BY <1>1, Roles, CallsOf, ClosePlaces DEF At, Doing, Noticed
<1>6. ASSUME NEW e \in Counts PROVE ~Closing(e)
  BY <1>5 DEF Closing, Idle
<1>7. ASSUME NEW e \in Counts PROVE ~Somebody(e) /\ ~Noticing(e) /\ ~Waking(e)
  BY <1>3, <1>4 DEF Somebody, Noticing, Waking, Noticed
<1>8. ASSUME NEW e \in Counts, NEW t \in sleepers[e]
      PROVE  t \in Waiters /\ SleepsOn(t) = e /\ t # Closer /\ Settled(t) /\ At(t, "wait")
  <2>1. t \in Waiters /\ SleepsOn(t) = e /\ At(t, "wait")
    BY DEF CountsInv, SleepersWait, Calls, StateTypes, CountTypes
  <2> QED BY <1>5, <2>1 DEF Settled
<1> QED BY <1>2, <1>6, <1>7, <1>8

\* No worker sleeps through a publication, with any policy and however often producers
\* are woken.
THEOREM QueueMissesNoEvent == Spec => []NoEventMissed
<1>1. Calls /\ CountsInv /\ WakesInv => NoEventMissed
  <2> SUFFICES ASSUME Calls, CountsInv, WakesInv, AtRest, sleepers["not_empty"] # {},
                      seq[Slot(head)].n = head + 1
               PROVE  FALSE
    BY DEF NoEventMissed
  <2>1. "not_empty" \in Counts
    BY Roles
  <2>2. PICK t \in sleepers["not_empty"] : TRUE
    OBVIOUS
  <2>3. t \in Waiters /\ SleepsOn(t) = "not_empty" /\ Settled(t) /\ t \in Consumers
    BY <2>1, RestIsQuiet, Roles
  <2>4. CASE closed
    BY <2>1, <2>3, <2>4, RestIsQuiet DEF WakesInv, CloseReaches
  <2>5. CASE ~closed
    <3>1. Attended("not_empty")
      BY <2>5 DEF WakesInv, EventsNoticed
    <3> QED BY <2>1, <3>1, RestIsQuiet DEF Attended
  <2> QED BY <2>4, <2>5
<1> QED BY <1>1, QueueCalls, QueueCounts, QueueWakes, PTL

\* No producer sleeps through a release, with either policy, when every release tells the
\* blocked producers; with batched wakes nothing of the sort is claimed.
THEOREM QueueMissesNoRoom == Spec => [](FullWakeEvery = 1 => NoRoomMissed)
<1>1. Calls /\ RingInv /\ CountsInv /\ WakesInv => (FullWakeEvery = 1 => NoRoomMissed)
  <2> SUFFICES ASSUME Calls, RingInv, CountsInv, WakesInv, FullWakeEvery = 1, AtRest,
                      sleepers["not_full"] # {}, seq[Slot(tail)].n = tail
               PROVE  FALSE
    BY DEF NoRoomMissed
  <2>1. "not_full" \in Counts
    BY Roles
  <2>2. PICK t \in sleepers["not_full"] : TRUE
    OBVIOUS
  <2>3. /\ t \in Waiters /\ SleepsOn(t) = "not_full" /\ Settled(t) /\ At(t, "wait")
        /\ t \in Producers
    <3>1. /\ t \in Waiters /\ SleepsOn(t) = "not_full" /\ Settled(t) /\ At(t, "wait")
          /\ t # Closer
      BY <2>1, RestIsQuiet
    <3>2. t \notin Consumers
      BY <3>1, Roles
    <3> QED BY <3>1, <3>2, Roles
  <2>4. CASE Reserve = "cas" /\ closed
    BY <2>1, <2>3, <2>4, RestIsQuiet DEF WakesInv, CloseReaches
  <2>5. CASE Reserve = "cas" /\ ~closed
    <3>1. Attended("not_full")
      BY <2>5 DEF WakesInv, RoomNoticed
    <3> QED BY <2>1, <3>1, RestIsQuiet DEF Attended
  <2>6. CASE Reserve = "ticket"
    <3>1. stack[t] = << <<"wait">>, <<"turn">>, Idle>>
      BY <2>3, <2>6, ProducerAt
    <3>2. Holds(t)
      BY <2>6, <3>1, HasOf DEF Holds
    <3>3. /\ head <= pos[t] /\ pos[t] < tail /\ seq[Slot(pos[t])].n # pos[t] + 1
          /\ SlotsInTurn
      BY <2>3, <3>2 DEF RingInv, TicketsHeld
    <3>4. /\ head \in Nat /\ tail \in Nat /\ pos[t] \in Nat /\ N \in Nat
          /\ \A q \in Window : q < head + N
          /\ \A q \in Nat : q >= head /\ q < head + N => q \in Window
      BY <2>3, WindowOf DEF Calls, StateTypes
    <3>5. tail >= head
      BY <3>3, <3>4
    <3>6. tail \in Window
      BY <3>3, <3>4, <3>5, FreeFor
    <3>7. pos[t] \in Window
      <4>1. tail < head + N
        BY <3>4, <3>6
      <4>2. pos[t] >= head /\ pos[t] < head + N
        BY <3>3, <3>4, <4>1
      <4> QED BY <3>4, <4>2
    <3>8. ~\E u \in Consumers : Stores(u) /\ StoredSlot(u) = Slot(pos[t])
      BY RestIsQuiet, Roles
    <3>9. seq[Slot(pos[t])] = Word(pos[t], FALSE)
      BY <3>3, <3>7, <3>8, SlotOf
    <3>10. key[t] = epoch["not_full"] /\ Noticing("not_full")
      BY <2>3, <2>6, <3>9 DEF WakesInv, TurnsNoticed
    <3> QED BY <2>1, <3>10, RestIsQuiet
  <2> QED BY <2>4, <2>5, <2>6, CallsOf
<1> QED BY <1>1, QueueCalls, QueueRing, QueueCounts, QueueWakes, PTL

\* close wakes everybody who pushes with a compare-exchange, and every worker with either
\* policy: at rest after it, none of them is asleep.
THEOREM QueueCloseWakesAll ==
  Spec => [](/\ Reserve = "cas" => NobodySleepsClosed
             /\ AtRest /\ At(Closer, "closed") => sleepers["not_empty"] = {})
<1>1. Calls /\ CountsInv /\ WakesInv =>
        /\ Reserve = "cas" => NobodySleepsClosed
        /\ AtRest /\ At(Closer, "closed") => sleepers["not_empty"] = {}
  <2> SUFFICES ASSUME Calls, CountsInv, WakesInv, AtRest, At(Closer, "closed"),
                      NEW e \in Counts, NEW t \in sleepers[e], Reserve = "cas" \/ e = "not_empty"
               PROVE  FALSE
    BY Roles DEF NobodySleepsClosed
  <2>1. t \in Waiters /\ SleepsOn(t) = e /\ Settled(t) /\ ~Closing(e)
    BY RestIsQuiet
  <2>2. t \in Consumers \/ Reserve = "cas"
    BY <2>1, Roles
  <2>3. closed
    BY DEF WakesInv, CloseReaches, At
  <2> QED BY <2>1, <2>2, <2>3 DEF WakesInv, CloseReaches
<1> QED BY <1>1, QueueCalls, QueueCounts, QueueWakes, PTL
=============================================================================
