----------------------------- MODULE DriverProofs -----------------------------
(***************************************************************************)
(* MutexQueue, as the driver calls it, implements WorkQueue, for any       *)
(* number of threads, any size of the ring and any runs: QueueIsALine.     *)
(*                                                                         *)
(* The argument is the lock's.  Between two steps of a batch its owner     *)
(* has mu_, and nobody else moves an item or closes (Holding); everything  *)
(* else is done in one step.  Then a Put appends to the line, a Take takes *)
(* its head, and no other step changes it.  What is put is an event of a   *)
(* run, because a producer that pushes before the close is within its      *)
(* quota (WithinQuota).                                                    *)
(*                                                                         *)
(* And the driver's books balance at the end of every run: BooksBalance.   *)
(* At any moment what was pushed is in the line, in a buffer or consumed   *)
(* (Delivery, Consumption), and a producer's counts differ from what it    *)
(* pushed by the call it is in (Accounts); a step of one thread keeps the  *)
(* books if it keeps its own (OthersKeepTheirs).  At the end the line and  *)
(* the buffers are empty, because a consumer was told that the queue is    *)
(* drained.  Sums over the threads are taken one thread after the other    *)
(* (TakingOut).                                                            *)
(***************************************************************************)
EXTENDS DriverInvariant, Laps, SequenceTheorems, FiniteSetTheorems

\* No consumer is told drained, and none forgets that it was.
Untold ==
  \A c \in Consumers : \/ pc'[c] = pc[c]
                       \/ pc[c] # "drained" /\ pc'[c] # "drained"

\* What a step does to the line.
Same == Line' = Line /\ closed' = closed /\ claimed' = claimed /\ Told' = Told
Accepting ==
  \E x \in Events : ~closed /\ size < N /\ Put(x) /\ UNCHANGED <<closed, claimed, Told>>
Giving ==
  \E c \in Consumers :
    /\ size > 0 /\ c \notin Told /\ Take(c)
    /\ claimed' = [claimed EXCEPT ![c] = Append(claimed[c], ring[head])]
    /\ UNCHANGED <<closed, Told>>
Shutting == closed' /\ UNCHANGED <<Line, claimed, Told>>
Draining ==
  \E c \in Consumers :
    closed /\ size = 0 /\ Told' = Told \cup {c} /\ UNCHANGED <<Line, closed, claimed>>
LineStep == Same \/ Accepting \/ Giving \/ Shutting \/ Draining

-----------------------------------------------------------------------------
(* Lemmas on the ring, the run and the buffers. *)

\* A position below the size of the ring is its own slot.
LEMMA LapSmall ==
  ASSUME NEW n \in Nat, n >= 1, NEW q \in 0..(n - 1)
  PROVE  q % n = q
<1> DEFINE m == q \div n
<1>1. m \in Int /\ q = n * m + (q % n) /\ q % n \in 0..(n - 1)
  BY LapDivision, LapRange
<1>2. ~(m >= 1)
  BY <1>1, LapMultiple
<1>3. ~(m <= -1)
  <2> SUFFICES ASSUME m <= -1 PROVE FALSE
    OBVIOUS
  <2>1. (-m) \in Int /\ (-m) >= 1 /\ n * (-m) = -(n * m)
    BY <1>1
  <2>2. n * (-m) >= n
    BY <2>1, LapMultiple
  <2> QED BY <2>1, <2>2, <1>1
<1>4. m = 0
  BY <1>1, <1>2, <1>3
<1> HIDE DEF m
<1> QED BY <1>1, <1>4

\* (head_ + size_) % capacity_: slots of the ring, and which positions share one.
LEMMA Slots ==
  /\ N \in Nat /\ N >= 1
  /\ \A q \in Nat : q % N \in 0..(N - 1)
  /\ \A q \in 0..(N - 1) : q % N = q
  /\ \A q \in Nat : (q + N) % N = q % N
  /\ \A q, r \in Nat : q < r /\ r < q + N => q % N # r % N
<1>1. N \in Nat /\ N >= 1
  BY MutexQueueAssumption
<1>2. \A q, r \in Nat : q < r /\ q % N = r % N => q + N <= r
  BY <1>1, LapApart, Zenon
<1>3. \A q \in Nat : (q + N) % N = q % N
  BY <1>1, LapNext, Zenon
<1>4. \A q \in 0..(N - 1) : q % N = q
  BY <1>1, LapSmall
<1>5. \A q \in Nat : q % N \in 0..(N - 1)
  BY <1>1
<1> QED BY <1>1, <1>2, <1>3, <1>4, <1>5

\* The line is a sequence, as long as size_ says.
LEMMA LineType ==
  ASSUME Types
  PROVE  Line \in Seq(Contents) /\ Len(Line) = size
<1>1. \A i \in 1..size : (head + i - 1) % N \in 0..(N - 1)
  <2> SUFFICES ASSUME NEW i \in 1..size PROVE (head + i - 1) % N \in 0..(N - 1)
    OBVIOUS
  <2>1. head + i - 1 \in Nat
    BY MutexQueueAssumption DEF Types
  <2> QED BY <2>1, Slots
<1>2. Line \in [1..size -> Contents]
  BY <1>1 DEF Types, Line
<1>3. size \in Nat
  BY MutexQueueAssumption DEF Types
<1>4. Line \in Seq(Contents)
  BY <1>2, <1>3
<1> QED BY <1>2, <1>3, <1>4

\* emplacing at (head_ + size_) % capacity_ appends to the line.
LEMMA PutAppends ==
  ASSUME Types, NEW x \in Contents, size < N, Put(x)
  PROVE  Line' = Append(Line, x)
<1>0. N \in Nat /\ N >= 1 /\ head \in Nat /\ size \in Nat
  BY MutexQueueAssumption DEF Types
<1>1. (head + size) % N \in 0..(N - 1)
  BY <1>0, Slots
<1>2. \A i \in 1..size : (head + i - 1) % N \in 0..(N - 1) /\ (head + i - 1) % N # (head + size) % N
  <2> SUFFICES ASSUME NEW i \in 1..size
               PROVE  (head + i - 1) % N \in 0..(N - 1) /\ (head + i - 1) % N # (head + size) % N
    OBVIOUS
  <2>1. /\ head + i - 1 \in Nat /\ head + size \in Nat
        /\ head + i - 1 < head + size /\ head + size < head + i - 1 + N
    BY <1>0
  <2> QED BY <2>1, Slots
<1>3. Line \in Seq(Contents) /\ Len(Line) = size
  BY LineType
<1>4. /\ ring'[(head + size) % N] = x
      /\ \A j \in 0..(N - 1) : j # (head + size) % N => ring'[j] = ring[j]
  BY <1>1 DEF Put, Types
<1>5. Line' = [i \in 1..(size + 1) |-> ring'[(head + i - 1) % N]]
  BY DEF Line, Put
<1>6. \A i \in 1..size : Line'[i] = Line[i]
  <2> SUFFICES ASSUME NEW i \in 1..size PROVE Line'[i] = Line[i]
    OBVIOUS
  <2>1. Line'[i] = ring'[(head + i - 1) % N]
    BY <1>0, <1>5
  <2>2. Line[i] = ring[(head + i - 1) % N]
    BY DEF Line
  <2> QED BY <1>2, <1>4, <2>1, <2>2
<1>7. Line'[size + 1] = x
  <2>1. size + 1 \in 1..(size + 1) /\ head + (size + 1) - 1 = head + size
    BY <1>0
  <2> QED BY <1>4, <1>5, <2>1
<1>8. Line' = [i \in 1..(size + 1) |-> Line'[i]]
  BY <1>5
<1>9. Line' \in Seq(Contents) /\ Len(Line') = size + 1
  <2>1. \A i \in 1..size : Line[i] \in Contents
    BY <1>3
  <2>2. \A i \in 1..(size + 1) : Line'[i] \in Contents
    BY <1>0, <1>6, <1>7, <2>1
  <2>3. Line' \in [1..(size + 1) -> Contents]
    BY <1>8, <2>2
  <2> QED BY <1>0, <2>3
<1>10. /\ Append(Line, x) \in Seq(Contents) /\ Len(Append(Line, x)) = size + 1
       /\ \A i \in 1..size : Append(Line, x)[i] = Line[i]
       /\ Append(Line, x)[size + 1] = x
  BY <1>3, AppendProperties
<1> QED BY <1>0, <1>6, <1>7, <1>9, <1>10, SeqEqual

\* Moving out of ring_[head_] and advancing head_ takes the head of the line.
LEMMA TakeHeads ==
  ASSUME Types, NEW c \in Consumers, size > 0, Take(c)
  PROVE  Line # <<>> /\ Head(Line) = ring[head] /\ Line' = Tail(Line)
<1>0. N \in Nat /\ N >= 1 /\ head \in Nat /\ head + 1 <= N /\ size \in Nat /\ size <= N
  BY MutexQueueAssumption DEF Types
<1>1. head % N = head
  BY Slots DEF Types
<1>2. Line \in Seq(Contents) /\ Len(Line) = size
  BY LineType
<1>3. Line[1] = ring[head]
  <2>1. 1 \in 1..size /\ head + 1 - 1 = head
    BY <1>0
  <2> QED BY <1>1, <2>1 DEF Line
<1>4. \A i \in 1..(size - 1) : /\ (head' + i - 1) % N = (head + i) % N
                              /\ (head + i) % N \in 0..(N - 1) /\ (head + i) % N # head
  <2> SUFFICES ASSUME NEW i \in 1..(size - 1)
               PROVE  /\ (head' + i - 1) % N = (head + i) % N
                      /\ (head + i) % N \in 0..(N - 1) /\ (head + i) % N # head
    OBVIOUS
  <2>0. head' = (head + 1) % N
    BY DEF Take
  <2>1. head + i \in Nat /\ head < head + i /\ head + i < head + N
    BY <1>0
  <2>2. (head + i) % N \in 0..(N - 1) /\ (head + i) % N # head
    BY <1>0, <1>1, <2>1, Slots
  <2>3. CASE head + 1 < N
    <3>1. head' = head + 1
      BY <1>0, <2>0, <2>3
    <3> QED BY <1>0, <3>1, <2>2
  <2>4. CASE head + 1 = N
    <3>1. head' = 0
      BY <1>0, <2>0, <2>4
    <3>2. i - 1 \in Nat /\ (i - 1) + N = head + i /\ head' + i - 1 = i - 1
      BY <1>0, <2>4, <3>1
    <3> QED BY <3>2, <2>2, Slots
  <2> QED BY <1>0, <2>3, <2>4
<1>5. /\ \A j \in 0..(N - 1) : j # head => ring'[j] = ring[j]
      /\ Line' = [i \in 1..(size - 1) |-> ring'[(head' + i - 1) % N]]
  BY DEF Line, Take, Types
<1>6. \A i \in 1..(size - 1) : Line'[i] = Line[i + 1]
  <2> SUFFICES ASSUME NEW i \in 1..(size - 1) PROVE Line'[i] = Line[i + 1]
    OBVIOUS
  <2>1. Line'[i] = ring'[(head' + i - 1) % N]
    BY <1>5
  <2>2. i + 1 \in 1..size /\ head + (i + 1) - 1 = head + i
    BY <1>0
  <2>3. Line[i + 1] = ring[(head + i) % N]
    BY <2>2 DEF Line
  <2> QED BY <1>4, <1>5, <2>1, <2>3
<1>7. Line # <<>>
  BY <1>0, <1>2
<1>8. Line' \in Seq(Contents) /\ Len(Line') = size - 1
  <2>1. \A i \in 1..(size - 1) : Line[i + 1] \in Contents
    BY <1>0, <1>2
  <2>2. \A i \in 1..(size - 1) : Line'[i] \in Contents
    BY <1>6, <2>1
  <2>3. Line' \in [1..(size - 1) -> Contents]
    BY <1>5, <2>2
  <2> QED BY <1>0, <2>3
<1>9. /\ Tail(Line) \in Seq(Contents) /\ Len(Tail(Line)) = size - 1
      /\ \A i \in 1..(size - 1) : Tail(Line)[i] = Line[i + 1]
  BY <1>2, <1>7, HeadTailProperties
<1>10. Line' = Tail(Line)
  BY <1>6, <1>8, <1>9, SeqEqual
<1>11. Head(Line) = Line[1]
  BY <1>2, <1>7
<1> QED BY <1>3, <1>7, <1>10, <1>11

\* The threads of a run are distinct, and the ring has a slot.
LEMMA Params ==
  /\ N \in Nat /\ N >= 1
  /\ \A p \in Producers : p \notin Consumers /\ p # Main /\ p # Free /\ p \in Threads
  /\ \A c \in Consumers : c # Main /\ c # Free /\ c \in Threads
  /\ Main \in Threads /\ \A t \in Threads : t # Free
  BY MutexQueueAssumption DEF Threads

\* RunSpec: quotas and batches are counts.
LEMMA QuotaType ==
  ASSUME spec \in RunSpecs
  PROVE  Quota \in Nat /\ spec.batch \in Nat /\ spec.batch >= 1
<1>1. spec \in RunSpecType /\ MaxEvents \in Nat
  BY DriverAssumption
<1> QED BY <1>1 DEF Quota, RunSpecType

\* An event within the quota is one that some run pushes.
LEMMA InQuota ==
  ASSUME spec \in RunSpecs, NEW s \in Nat, s < Quota
  PROVE  s \in Seqs
<1>1. Quota \in Nat /\ MaxEvents \in Nat /\ spec.events \in Nat
  BY QuotaType, DriverAssumption DEF RunSpecType
<1>2. CASE spec.events = 0
  BY <1>1, <1>2 DEF Quota, Seqs
<1>3. CASE spec.events # 0
  BY <1>1, <1>3 DEF Quota, Seqs
<1> QED BY <1>2, <1>3

\* std::min(spec.batch, quota - i): a batch does not exceed the quota.
LEMMA SizeType ==
  ASSUME Types, NEW p \in Producers
  PROVE  BatchSize(p) \in Int /\ BatchSize(p) <= Quota - seq[p]
         /\ (seq[p] <= Quota => BatchSize(p) \in Nat)
  BY QuotaType DEF BatchSize, Types

\* A put keeps the types of the ring.
LEMMA PutTypes ==
  ASSUME Types, NEW x \in Contents, size < N, Put(x)
  PROVE  ring' \in [0..(N - 1) -> Contents] /\ head' \in 0..(N - 1) /\ size' \in 0..N
<1>1. (head + size) % N \in 0..(N - 1)
  <2>1. head + size \in Nat
    BY Params DEF Types
  <2> QED BY <2>1, Slots
<1> QED BY <1>1, Params DEF Put, Types

\* A take keeps the types of the ring, and hands the item to its caller alone.
LEMMA TakeTypes ==
  ASSUME Types, NEW c \in Consumers, size > 0, Take(c)
  PROVE  /\ ring' \in [0..(N - 1) -> Contents] /\ head' \in 0..(N - 1) /\ size' \in 0..N
         /\ buf' \in [Consumers -> Seq(Contents)] /\ buf'[c] # <<>>
         /\ buf'[c] = Append(buf[c], ring[head])
         /\ \A d \in Consumers : d # c => buf'[d] = buf[d]
<1>1. (head + 1) % N \in 0..(N - 1)
  <2>1. head + 1 \in Nat
    BY Params DEF Types
  <2> QED BY <2>1, Slots
<1>2. ring[head] \in Contents /\ buf[c] \in Seq(Contents)
  BY DEF Types
<1>3. Append(buf[c], ring[head]) \in Seq(Contents) /\ Append(buf[c], ring[head]) # <<>>
  BY <1>2, AppendProperties
<1>4. buf' = [buf EXCEPT ![c] = Append(buf[c], ring[head])]
  BY DEF Take
<1>5. ring' \in [0..(N - 1) -> Contents]
  BY DEF Take, Types, Contents
<1>6. size' \in 0..N
  BY Params DEF Take, Types
<1>7. head' \in 0..(N - 1)
  BY <1>1 DEF Take
<1>8. buf' \in [Consumers -> Seq(Contents)] /\ buf'[c] = Append(buf[c], ring[head])
      /\ \A d \in Consumers : d # c => buf'[d] = buf[d]
  BY <1>3, <1>4 DEF Types
<1> QED BY <1>3, <1>5, <1>6, <1>7, <1>8

\* Who takes nothing claims nothing.
LEMMA ClaimsNothing ==
  ASSUME Types, Claims, buf' = buf
  PROVE  claimed' = claimed
<1>1. \A c \in Consumers : ~(Len(buf[c]) > Len(buf[c]))
  BY DEF Types
<1> QED BY <1>1 DEF Claims, Types

\* Who takes the item at the head claims it.
LEMMA ClaimsOne ==
  ASSUME Types, Claims, NEW c \in Consumers, size > 0, Take(c)
  PROVE  claimed' = [claimed EXCEPT ![c] = Append(claimed[c], ring[head])]
         /\ claimed' \in [Consumers -> Seq(Contents)]
<1>1. ring[head] \in Contents /\ buf[c] \in Seq(Contents) /\ claimed[c] \in Seq(Contents)
  BY DEF Types
<1>2. Len(buf'[c]) > Len(buf[c]) /\ Last(buf'[c]) = ring[head]
  <2>1. buf'[c] = Append(buf[c], ring[head])
    BY TakeTypes
  <2>2. Len(Append(buf[c], ring[head])) = Len(buf[c]) + 1
        /\ Append(buf[c], ring[head])[Len(buf[c]) + 1] = ring[head]
    BY <1>1, AppendProperties
  <2>3. Len(buf[c]) \in Nat
    BY <1>1
  <2> QED BY <2>1, <2>2, <2>3 DEF Last
<1>3. \A d \in Consumers : d # c => ~(Len(buf'[d]) > Len(buf[d]))
  BY TakeTypes DEF Types
<1>4. claimed' = [claimed EXCEPT ![c] = Append(claimed[c], ring[head])]
  BY <1>2, <1>3 DEF Claims, Types
<1>5. Append(claimed[c], ring[head]) \in Seq(Contents)
  BY <1>1, AppendProperties
<1> QED BY <1>4, <1>5 DEF Types

\* The line is a matter of the items alone.
LEMMA SameItems ==
  ASSUME UNCHANGED items
  PROVE  Line' = Line
  BY DEF items, Line

\* Where the head of a producer's loop leads.
LEMMA LoopGoes ==
  ASSUME Types, NEW p \in Producers, NEW i \in Int, ProducerLoop(p, i)
  PROVE  /\ pc' = [pc EXCEPT ![p] = pc'[p]]
         /\ pc'[p] \in {"push_batch", "try_push", "push", "finished"}
         /\ pc'[p] \in {"try_push", "push"} => closed \/ i < Quota
<1>1. CASE Goto(p, "finished")
  BY <1>1, Params DEF Goto, Types
<1>2. ASSUME NEW label \in {"push_batch", "try_push", "push"}, Goto(p, label), closed \/ i < Quota
      PROVE  /\ pc' = [pc EXCEPT ![p] = pc'[p]]
             /\ pc'[p] \in {"push_batch", "try_push", "push"}
             /\ closed \/ i < Quota
  BY <1>2, Params DEF Goto, Types
<1> QED BY <1>1, <1>2 DEF ProducerLoop

\* Where the head of a consumer's loop leads.
LEMMA ConsumerGoes ==
  ASSUME Types, NEW c \in Consumers, ConsumerLoop(c)
  PROVE  pc' = [pc EXCEPT ![c] = pc'[c]] /\ pc'[c] \in {"pop_batch", "try_pop", "pop"}
  BY Params DEF ConsumerLoop, Goto, Types

-----------------------------------------------------------------------------
(* Every step keeps the invariant. *)

\* try_push keeps the invariant.
LEMMA TryPushStep ==
  ASSUME Types, Holding, WithinQuota, InHand, NEW t \in Producers, NEW x,
         ~closed => x \in Events, TryPush(t, x), Claims, UNCHANGED <<spec, seq>>,
         spec.batch = 1
  PROVE  Types' /\ Holding' /\ WithinQuota' /\ InHand'
<1>1. Types'
  <2>1. spec' \in RunSpecs /\ mu' \in Threads \cup {Free}
    BY Params DEF TryPush, Types
  <2>2. ring' \in [0..(N - 1) -> Contents] /\ head' \in 0..(N - 1) /\ size' \in 0..N
    BY PutTypes, Params DEF TryPush, Full, Contents, items, Types
  <2>3. closed' \in BOOLEAN
    BY DEF TryPush, Types
  <2>4. pc' = [w \in Threads |-> pc'[w]]
    BY Params DEF TryPush, Enters, Full, Goto, Types
  <2>5. done' \in [Producers -> Nat] /\ seq' \in [Producers -> Nat]
    BY DEF TryPush, Types
  <2>6. buf' \in [Consumers -> Seq(Contents)]
    BY DEF TryPush, Types
  <2>7. claimed' \in [Consumers -> Seq(Contents)]
    BY ClaimsNothing DEF TryPush, Types
  <2> QED BY <2>1, <2>2, <2>3, <2>4, <2>5, <2>6, <2>7 DEF Types
<1>2. Holding'
  <2>1. \A w \in Threads : pc'[w] \in {"fill", "drain"} => pc[w] = pc'[w]
    BY Params DEF TryPush, Enters, Goto, Types
  <2>2. mu' = mu /\ closed' = closed
    BY DEF TryPush
  <2> QED BY <2>1, <2>2, Params DEF Holding
<1>3. WithinQuota'
  <2>1. \A p \in Producers : pc'[p] \in {"start", "line"} => pc[p] = pc'[p]
    BY Params DEF TryPush, Enters, Goto, Types
  <2>2. \A p \in Producers : pc'[p] \in {"push", "try_push", "asleep", "woken"} =>
             pc[p] \in {"push", "try_push", "asleep", "woken"}
    BY Params DEF TryPush, Enters, Goto, Types
  <2>3. spec' = spec /\ seq' = seq
    BY DEF TryPush
  <2>4. closed => closed'
    BY DEF TryPush
  <2> QED BY <2>1, <2>2, <2>3, <2>4 DEF WithinQuota, Quota
<1>4. InHand'
  <2>1. \A c \in Consumers :
         /\ pc'[c] \in {"taken", "batch_taken", "ok"} => pc[c] \in {"taken", "batch_taken", "ok"}
         /\ pc'[c] = "drain" => pc[c] = "drain"
    BY Params DEF TryPush, Enters, Goto, Types
  <2>2. buf' = buf
    BY DEF TryPush
  <2>3. size > 0 => size' > 0
    BY DEF Put, Types, items, TryPush
  <2> QED BY <2>1, <2>2, <2>3 DEF InHand
<1> QED BY <1>1, <1>2, <1>3, <1>4

\* push keeps the invariant.
LEMMA PushStep ==
  ASSUME Types, Holding, WithinQuota, InHand, NEW t \in Producers, NEW x,
         ~closed => x \in Events, Push(t, x), Claims, UNCHANGED <<spec, seq>>,
         spec.batch = 1
  PROVE  Types' /\ Holding' /\ WithinQuota' /\ InHand'
<1>1. Types'
  <2>1. spec' \in RunSpecs /\ mu' \in Threads \cup {Free}
    BY Params DEF Push, Types
  <2>2. ring' \in [0..(N - 1) -> Contents] /\ head' \in 0..(N - 1) /\ size' \in 0..N
    BY PutTypes, Params DEF Push, Full, Contents, items, Types
  <2>3. closed' \in BOOLEAN
    BY DEF Push, Types
  <2>4. pc' = [w \in Threads |-> pc'[w]]
    BY Params DEF Push, Enters, Full, Goto, Types
  <2>5. done' \in [Producers -> Nat] /\ seq' \in [Producers -> Nat]
    BY DEF Push, Types
  <2>6. buf' \in [Consumers -> Seq(Contents)]
    BY DEF Push, Types
  <2>7. claimed' \in [Consumers -> Seq(Contents)]
    BY ClaimsNothing DEF Push, Types
  <2> QED BY <2>1, <2>2, <2>3, <2>4, <2>5, <2>6, <2>7 DEF Types
<1>2. Holding'
  <2>1. \A w \in Threads : pc'[w] \in {"fill", "drain"} => pc[w] = pc'[w]
    BY Params DEF Push, Enters, Goto, Types
  <2>2. mu' = mu /\ closed' = closed
    BY DEF Push
  <2> QED BY <2>1, <2>2, Params DEF Holding
<1>3. WithinQuota'
  <2>1. \A p \in Producers : pc'[p] \in {"start", "line"} => pc[p] = pc'[p]
    BY Params DEF Push, Enters, Goto, Types
  <2>2. \A p \in Producers : pc'[p] \in {"push", "try_push", "asleep", "woken"} =>
             pc[p] \in {"push", "try_push", "asleep", "woken"}
    BY Params DEF Push, Enters, Goto, Types
  <2>3. spec' = spec /\ seq' = seq
    BY DEF Push
  <2>4. closed => closed'
    BY DEF Push
  <2> QED BY <2>1, <2>2, <2>3, <2>4 DEF WithinQuota, Quota
<1>4. InHand'
  <2>1. \A c \in Consumers :
         /\ pc'[c] \in {"taken", "batch_taken", "ok"} => pc[c] \in {"taken", "batch_taken", "ok"}
         /\ pc'[c] = "drain" => pc[c] = "drain"
    BY Params DEF Push, Enters, Goto, Types
  <2>2. buf' = buf
    BY DEF Push
  <2>3. size > 0 => size' > 0
    BY DEF Put, Types, items, Push
  <2> QED BY <2>1, <2>2, <2>3 DEF InHand
<1> QED BY <1>1, <1>2, <1>3, <1>4

\* The notification after a push keeps the invariant.
LEMMA PushNotifyStep ==
  ASSUME Types, Holding, WithinQuota, InHand, NEW t \in Producers, PushNotify(t), Claims,
         UNCHANGED <<spec, seq>>, spec.batch = 1
  PROVE  Types' /\ Holding' /\ WithinQuota' /\ InHand'
<1>1. Types'
  <2>1. spec' \in RunSpecs /\ mu' \in Threads \cup {Free}
    BY Params DEF PushNotify, NotifyOne, queue, Types
  <2>2. ring' \in [0..(N - 1) -> Contents] /\ head' \in 0..(N - 1) /\ size' \in 0..N
    BY DEF PushNotify, NotifyOne, queue, items, Types
  <2>3. closed' \in BOOLEAN
    BY DEF PushNotify, NotifyOne, queue, Types
  <2>4. pc' = [w \in Threads |-> pc'[w]]
    BY Params DEF PushNotify, NotifyOne, Asleep, Goto, Types
  <2>5. done' \in [Producers -> Nat] /\ seq' \in [Producers -> Nat]
    BY DEF PushNotify, NotifyOne, queue, Types
  <2>6. buf' \in [Consumers -> Seq(Contents)]
    BY DEF PushNotify, NotifyOne, queue, Types
  <2>7. claimed' \in [Consumers -> Seq(Contents)]
    BY ClaimsNothing DEF PushNotify, NotifyOne, queue, Types
  <2> QED BY <2>1, <2>2, <2>3, <2>4, <2>5, <2>6, <2>7 DEF Types
<1>2. Holding'
  <2>1. \A w \in Threads : pc'[w] \in {"fill", "drain"} => pc[w] = pc'[w]
    BY Params DEF PushNotify, NotifyOne, Asleep, Goto, Types
  <2>2. mu' = mu /\ closed' = closed
    BY DEF PushNotify, NotifyOne, queue
  <2> QED BY <2>1, <2>2, Params DEF Holding
<1>3. WithinQuota'
  <2>1. \A p \in Producers : pc'[p] \in {"start", "line"} => pc[p] = pc'[p]
    BY Params DEF PushNotify, NotifyOne, Asleep, Goto, Types
  <2>2. \A p \in Producers : pc'[p] \in {"push", "try_push", "asleep", "woken"} =>
             pc[p] \in {"push", "try_push", "asleep", "woken"}
    BY Params DEF PushNotify, NotifyOne, Asleep, Goto, Types
  <2>3. spec' = spec /\ seq' = seq
    BY DEF PushNotify, NotifyOne, queue
  <2>4. closed => closed'
    BY DEF PushNotify, NotifyOne, queue
  <2> QED BY <2>1, <2>2, <2>3, <2>4 DEF WithinQuota, Quota
<1>4. InHand'
  <2>1. \A c \in Consumers :
         /\ pc'[c] \in {"taken", "batch_taken", "ok"} => pc[c] \in {"taken", "batch_taken", "ok"}
         /\ pc'[c] = "drain" => pc[c] = "drain"
    BY Params DEF PushNotify, NotifyOne, Asleep, Goto, Types
  <2>2. buf' = buf
    BY DEF PushNotify, NotifyOne, queue
  <2>3. size > 0 => size' > 0
    BY DEF items, PushNotify, NotifyOne, queue
  <2> QED BY <2>1, <2>2, <2>3 DEF InHand
<1> QED BY <1>1, <1>2, <1>3, <1>4

\* push_batch keeps the invariant.
LEMMA BatchStep ==
  ASSUME Types, Holding, WithinQuota, InHand, NEW t \in Producers, NEW n \in Int, NEW b,
         \A k \in Nat : k < n => b[k] \in Events, Batch(t, n, b), Claims,
         UNCHANGED <<spec, seq>>, spec.batch > 1
  PROVE  Types' /\ Holding' /\ WithinQuota' /\ InHand'
<1>1. Types'
  <2>1. spec' \in RunSpecs /\ mu' \in Threads \cup {Free}
    BY Params DEF Batch, NotifyAll, queue, Types
  <2>2. ring' \in [0..(N - 1) -> Contents] /\ head' \in 0..(N - 1) /\ size' \in 0..N
    <3>1. CASE pc[t] = "fill" /\ done[t] < n /\ ~Full /\ Put(b[done[t]])
      <4>1. b[done[t]] \in Contents /\ size < N
        BY <3>1, Params DEF Types, Contents, Full
      <4> QED BY <3>1, <4>1, PutTypes
    <3>2. CASE UNCHANGED items
      BY <3>2 DEF items, Types
    <3> QED BY <3>1, <3>2 DEF Batch, NotifyAll, queue
  <2>3. closed' \in BOOLEAN
    BY DEF Batch, NotifyAll, queue, Types
  <2>4. pc' = [w \in Threads |-> pc'[w]]
    BY Params DEF Batch, Enters, Full, Goto, NotifyAll, Asleep, Types
  <2>5. done' \in [Producers -> Nat] /\ seq' \in [Producers -> Nat]
    <3>1. UNCHANGED done \/ done' = [done EXCEPT ![t] = @ + 1]
      BY DEF Batch, NotifyAll, queue
    <3>2. CASE UNCHANGED done
      BY <3>2 DEF Types
    <3>3. CASE done' = [done EXCEPT ![t] = @ + 1]
      <4>1. done[t] + 1 \in Nat
        BY DEF Types
      <4> QED BY <3>3, <4>1 DEF Types
    <3> QED BY <3>1, <3>2, <3>3
  <2>6. buf' \in [Consumers -> Seq(Contents)]
    BY DEF Batch, NotifyAll, queue, Types
  <2>7. claimed' \in [Consumers -> Seq(Contents)]
    BY ClaimsNothing DEF Batch, NotifyAll, queue, Types
  <2> QED BY <2>1, <2>2, <2>3, <2>4, <2>5, <2>6, <2>7 DEF Types
<1>2. Holding'
  <2>1. CASE mu = Free /\ mu' = t /\ Goto(t, "fill") /\ ~closed /\ closed' = closed
    <3>1. \A w \in Threads : pc[w] \notin {"fill", "drain"}
      BY <2>1, Params DEF Holding
    <3>2. pc'[t] = "fill" /\ \A w \in Threads : w # t => pc'[w] = pc[w]
      BY <2>1, Params DEF Goto, Types
    <3> QED BY <2>1, <3>1, <3>2, Params DEF Holding
  <2>2. CASE /\ mu' = mu /\ closed' = closed
             /\ \A w \in Threads : pc'[w] \in {"fill", "drain"} => pc'[w] = pc[w]
    BY <2>2, Params DEF Holding
  <2>3. CASE mu = t /\ mu' = Free /\ closed' = closed /\ Goto(t, "filled")
    BY <2>3, Params DEF Goto, Types, Holding
  <2>4. ASSUME NEW label \in {"asleep", "gave_up", "batch_done"}, Goto(t, label)
        PROVE  \A w \in Threads : pc'[w] \in {"fill", "drain"} => pc'[w] = pc[w]
    BY <2>4, Params DEF Goto, Types
  <2>5. ASSUME NEW from, NEW to \in {"relock", "batch_done"}, NotifyAll(t, from, Consumers, to)
        PROVE  \A w \in Threads : pc'[w] \in {"fill", "drain"} => pc'[w] = pc[w]
    BY <2>5, Params DEF NotifyAll, Asleep
  <2>6. pc[t] = "fill" => mu = t
    BY Params DEF Holding
  <2> QED BY <2>1, <2>2, <2>3, <2>4, <2>5, <2>6 DEF Batch, Enters, NotifyAll, queue
<1>3. WithinQuota'
  <2>1. \A p \in Producers : pc'[p] \in {"start", "line"} => pc[p] = pc'[p]
    BY Params DEF Batch, Goto, NotifyAll, Asleep, Types
  <2>2. spec' = spec /\ seq' = seq /\ spec.batch # 1
    BY QuotaType DEF Types
  <2> QED BY <2>1, <2>2 DEF WithinQuota, Quota
<1>4. InHand'
  <2>1. \A c \in Consumers :
         /\ pc'[c] \in {"taken", "batch_taken", "ok"} => pc[c] \in {"taken", "batch_taken", "ok"}
         /\ pc'[c] = "drain" => pc[c] = "drain"
    BY Params DEF Batch, Enters, Goto, NotifyAll, Asleep, Types
  <2>2. buf' = buf
    BY DEF Batch, NotifyAll, queue
  <2>3. size > 0 => size' > 0
    BY DEF Put, Types, items, Batch, NotifyAll, queue
  <2> QED BY <2>1, <2>2, <2>3 DEF InHand
<1> QED BY <1>1, <1>2, <1>3, <1>4

\* try_pop keeps the invariant.
LEMMA TryPopStep ==
  ASSUME Types, Holding, WithinQuota, InHand, NEW t \in Consumers, TryPop(t), Claims,
         UNCHANGED <<spec, seq>>
  PROVE  Types' /\ Holding' /\ WithinQuota' /\ InHand'
<1>1. Types'
  <2>1. spec' \in RunSpecs /\ mu' \in Threads \cup {Free}
    BY Params DEF TryPop, Types
  <2>2. ring' \in [0..(N - 1) -> Contents] /\ head' \in 0..(N - 1) /\ size' \in 0..N
    BY TakeTypes DEF TryPop, items, Types
  <2>3. closed' \in BOOLEAN
    BY DEF TryPop, Types
  <2>4. pc' = [w \in Threads |-> pc'[w]]
    BY Params DEF TryPop, Enters, Goto, Types
  <2>5. done' \in [Producers -> Nat] /\ seq' \in [Producers -> Nat]
    BY DEF TryPop, Types
  <2>6. buf' \in [Consumers -> Seq(Contents)]
    BY TakeTypes DEF TryPop, Types
  <2>7. claimed' \in [Consumers -> Seq(Contents)]
    BY TakeTypes, ClaimsNothing, ClaimsOne DEF TryPop, Types
  <2> QED BY <2>1, <2>2, <2>3, <2>4, <2>5, <2>6, <2>7 DEF Types
<1>2. Holding'
  <2>1. \A w \in Threads : pc'[w] \in {"fill", "drain"} => pc[w] = pc'[w]
    BY Params DEF TryPop, Enters, Goto, Types
  <2>2. mu' = mu /\ closed' = closed
    BY DEF TryPop
  <2> QED BY <2>1, <2>2, Params DEF Holding
<1>3. WithinQuota'
  <2>1. \A p \in Producers : pc'[p] \in {"start", "line"} => pc[p] = pc'[p]
    BY Params DEF TryPop, Enters, Goto, Types
  <2>2. \A p \in Producers : pc'[p] \in {"push", "try_push", "asleep", "woken"} =>
             pc[p] \in {"push", "try_push", "asleep", "woken"}
    BY Params DEF TryPop, Enters, Goto, Types
  <2>3. spec' = spec /\ seq' = seq
    BY DEF TryPop
  <2>4. closed => closed'
    BY DEF TryPop
  <2> QED BY <2>1, <2>2, <2>3, <2>4 DEF WithinQuota, Quota
<1>4. InHand'
  <2>1. CASE size > 0 /\ Take(t) /\ Goto(t, "taken")
    <3>1. \A d \in Consumers : pc[d] # "drain"
      BY Params DEF TryPop, Enters, Holding
    <3>2. pc'[t] = "taken" /\ \A d \in Consumers : d # t => pc'[d] = pc[d]
      BY <2>1, Params DEF Goto, Types
    <3>3. buf'[t] # <<>> /\ \A d \in Consumers : d # t => buf'[d] = buf[d]
      BY <2>1, TakeTypes
    <3> QED BY <3>1, <3>2, <3>3 DEF InHand
  <2>2. ASSUME NEW label \in {"empty", "drained", "asleep"}, Goto(t, label),
               UNCHANGED <<items, buf>>
        PROVE  InHand'
    BY <2>2, Params DEF Goto, items, Types, InHand
  <2> QED BY <2>1, <2>2 DEF TryPop
<1> QED BY <1>1, <1>2, <1>3, <1>4

\* pop keeps the invariant.
LEMMA PopStep ==
  ASSUME Types, Holding, WithinQuota, InHand, NEW t \in Consumers, Pop(t), Claims,
         UNCHANGED <<spec, seq>>
  PROVE  Types' /\ Holding' /\ WithinQuota' /\ InHand'
<1>1. Types'
  <2>1. spec' \in RunSpecs /\ mu' \in Threads \cup {Free}
    BY Params DEF Pop, Types
  <2>2. ring' \in [0..(N - 1) -> Contents] /\ head' \in 0..(N - 1) /\ size' \in 0..N
    BY TakeTypes DEF Pop, items, Types
  <2>3. closed' \in BOOLEAN
    BY DEF Pop, Types
  <2>4. pc' = [w \in Threads |-> pc'[w]]
    BY Params DEF Pop, Enters, Goto, Types
  <2>5. done' \in [Producers -> Nat] /\ seq' \in [Producers -> Nat]
    BY DEF Pop, Types
  <2>6. buf' \in [Consumers -> Seq(Contents)]
    BY TakeTypes DEF Pop, Types
  <2>7. claimed' \in [Consumers -> Seq(Contents)]
    BY TakeTypes, ClaimsNothing, ClaimsOne DEF Pop, Types
  <2> QED BY <2>1, <2>2, <2>3, <2>4, <2>5, <2>6, <2>7 DEF Types
<1>2. Holding'
  <2>1. \A w \in Threads : pc'[w] \in {"fill", "drain"} => pc[w] = pc'[w]
    BY Params DEF Pop, Enters, Goto, Types
  <2>2. mu' = mu /\ closed' = closed
    BY DEF Pop
  <2> QED BY <2>1, <2>2, Params DEF Holding
<1>3. WithinQuota'
  <2>1. \A p \in Producers : pc'[p] \in {"start", "line"} => pc[p] = pc'[p]
    BY Params DEF Pop, Enters, Goto, Types
  <2>2. \A p \in Producers : pc'[p] \in {"push", "try_push", "asleep", "woken"} =>
             pc[p] \in {"push", "try_push", "asleep", "woken"}
    BY Params DEF Pop, Enters, Goto, Types
  <2>3. spec' = spec /\ seq' = seq
    BY DEF Pop
  <2>4. closed => closed'
    BY DEF Pop
  <2> QED BY <2>1, <2>2, <2>3, <2>4 DEF WithinQuota, Quota
<1>4. InHand'
  <2>1. CASE size > 0 /\ Take(t) /\ Goto(t, "taken")
    <3>1. \A d \in Consumers : pc[d] # "drain"
      BY Params DEF Pop, Enters, Holding
    <3>2. pc'[t] = "taken" /\ \A d \in Consumers : d # t => pc'[d] = pc[d]
      BY <2>1, Params DEF Goto, Types
    <3>3. buf'[t] # <<>> /\ \A d \in Consumers : d # t => buf'[d] = buf[d]
      BY <2>1, TakeTypes
    <3> QED BY <3>1, <3>2, <3>3 DEF InHand
  <2>2. ASSUME NEW label \in {"empty", "drained", "asleep"}, Goto(t, label),
               UNCHANGED <<items, buf>>
        PROVE  InHand'
    BY <2>2, Params DEF Goto, items, Types, InHand
  <2> QED BY <2>1, <2>2 DEF Pop
<1> QED BY <1>1, <1>2, <1>3, <1>4

\* The notification after a pop keeps the invariant.
LEMMA PopNotifyStep ==
  ASSUME Types, Holding, WithinQuota, InHand, NEW t \in Consumers, PopNotify(t), Claims,
         UNCHANGED <<spec, seq>>
  PROVE  Types' /\ Holding' /\ WithinQuota' /\ InHand'
<1>1. Types'
  <2>1. spec' \in RunSpecs /\ mu' \in Threads \cup {Free}
    BY Params DEF PopNotify, NotifyOne, queue, Types
  <2>2. ring' \in [0..(N - 1) -> Contents] /\ head' \in 0..(N - 1) /\ size' \in 0..N
    BY DEF PopNotify, NotifyOne, queue, items, Types
  <2>3. closed' \in BOOLEAN
    BY DEF PopNotify, NotifyOne, queue, Types
  <2>4. pc' = [w \in Threads |-> pc'[w]]
    BY Params DEF PopNotify, NotifyOne, Asleep, Goto, Types
  <2>5. done' \in [Producers -> Nat] /\ seq' \in [Producers -> Nat]
    BY DEF PopNotify, NotifyOne, queue, Types
  <2>6. buf' \in [Consumers -> Seq(Contents)]
    BY DEF PopNotify, NotifyOne, queue, Types
  <2>7. claimed' \in [Consumers -> Seq(Contents)]
    BY ClaimsNothing DEF PopNotify, NotifyOne, queue, Types
  <2> QED BY <2>1, <2>2, <2>3, <2>4, <2>5, <2>6, <2>7 DEF Types
<1>2. Holding'
  <2>1. \A w \in Threads : pc'[w] \in {"fill", "drain"} => pc[w] = pc'[w]
    BY Params DEF PopNotify, NotifyOne, Asleep, Goto, Types
  <2>2. mu' = mu /\ closed' = closed
    BY DEF PopNotify, NotifyOne, queue
  <2> QED BY <2>1, <2>2, Params DEF Holding
<1>3. WithinQuota'
  <2>1. \A p \in Producers : pc'[p] \in {"start", "line"} => pc[p] = pc'[p]
    BY Params DEF PopNotify, NotifyOne, Asleep, Goto, Types
  <2>2. \A p \in Producers : pc'[p] \in {"push", "try_push", "asleep", "woken"} =>
             pc[p] \in {"push", "try_push", "asleep", "woken"}
    BY Params DEF PopNotify, NotifyOne, Asleep, Goto, Types
  <2>3. spec' = spec /\ seq' = seq
    BY DEF PopNotify, NotifyOne, queue
  <2>4. closed => closed'
    BY DEF PopNotify, NotifyOne, queue
  <2> QED BY <2>1, <2>2, <2>3, <2>4 DEF WithinQuota, Quota
<1>4. InHand'
  <2>1. \A c \in Consumers :
         /\ pc'[c] \in {"taken", "batch_taken", "ok"} => pc[c] \in {"taken", "batch_taken", "ok"}
         /\ pc'[c] = "drain" => pc[c] = "drain"
    BY Params DEF PopNotify, NotifyOne, Asleep, Goto, Types
  <2>2. buf' = buf
    BY DEF PopNotify, NotifyOne, queue
  <2>3. size > 0 => size' > 0
    BY DEF items, PopNotify, NotifyOne, queue
  <2> QED BY <2>1, <2>2, <2>3 DEF InHand
<1> QED BY <1>1, <1>2, <1>3, <1>4

\* pop_batch keeps the invariant.
LEMMA PopBatchStep ==
  ASSUME Types, Holding, WithinQuota, InHand, NEW t \in Consumers, NEW m \in Nat, m >= 1,
         PopBatch(t, m), Claims, UNCHANGED <<spec, seq>>
  PROVE  Types' /\ Holding' /\ WithinQuota' /\ InHand'
<1>1. Types'
  <2>1. spec' \in RunSpecs /\ mu' \in Threads \cup {Free}
    BY Params DEF PopBatch, NotifyAll, queue, Types
  <2>2. ring' \in [0..(N - 1) -> Contents] /\ head' \in 0..(N - 1) /\ size' \in 0..N
    BY TakeTypes DEF PopBatch, NotifyAll, queue, items, Types
  <2>3. closed' \in BOOLEAN
    BY DEF PopBatch, NotifyAll, queue, Types
  <2>4. pc' = [w \in Threads |-> pc'[w]]
    BY Params DEF PopBatch, Enters, Goto, NotifyAll, Asleep, Types
  <2>5. done' \in [Producers -> Nat] /\ seq' \in [Producers -> Nat]
    BY DEF PopBatch, NotifyAll, queue, Types
  <2>6. buf' \in [Consumers -> Seq(Contents)]
    BY TakeTypes DEF PopBatch, NotifyAll, queue, Types
  <2>7. claimed' \in [Consumers -> Seq(Contents)]
    BY TakeTypes, ClaimsNothing, ClaimsOne DEF PopBatch, NotifyAll, queue, Types
  <2> QED BY <2>1, <2>2, <2>3, <2>4, <2>5, <2>6, <2>7 DEF Types
<1>2. Holding'
  <2>1. CASE mu = Free /\ mu' = t /\ Goto(t, "drain") /\ closed' = closed
    <3>1. \A w \in Threads : pc[w] \notin {"fill", "drain"}
      BY <2>1, Params DEF Holding
    <3>2. pc'[t] = "drain" /\ \A w \in Threads : w # t => pc'[w] = pc[w]
      BY <2>1, Params DEF Goto, Types
    <3> QED BY <2>1, <3>1, <3>2, Params DEF Holding
  <2>2. CASE /\ mu' = mu /\ closed' = closed
             /\ \A w \in Threads : pc'[w] \in {"fill", "drain"} => pc'[w] = pc[w]
    BY <2>2, Params DEF Holding
  <2>3. CASE mu = t /\ mu' = Free /\ closed' = closed /\ Goto(t, "batch_taken")
    BY <2>3, Params DEF Goto, Types, Holding
  <2>4. ASSUME NEW label \in {"asleep", "drained"}, Goto(t, label)
        PROVE  \A w \in Threads : pc'[w] \in {"fill", "drain"} => pc'[w] = pc[w]
    BY <2>4, Params DEF Goto, Types
  <2>5. ASSUME NotifyAll(t, "batch_taken", Producers, "ok")
        PROVE  \A w \in Threads : pc'[w] \in {"fill", "drain"} => pc'[w] = pc[w]
    BY <2>5, Params DEF NotifyAll, Asleep
  <2>6. pc[t] = "drain" => mu = t
    BY Params DEF Holding
  <2> QED BY <2>1, <2>2, <2>3, <2>4, <2>5, <2>6 DEF PopBatch, Enters, NotifyAll, queue
<1>3. WithinQuota'
  <2>1. \A p \in Producers : pc'[p] \in {"start", "line"} => pc[p] = pc'[p]
    BY Params DEF PopBatch, Enters, Goto, NotifyAll, Asleep, Types
  <2>2. \A p \in Producers : pc'[p] \in {"push", "try_push", "asleep", "woken"} =>
             pc[p] \in {"push", "try_push", "asleep", "woken"}
    BY Params DEF PopBatch, Enters, Goto, NotifyAll, Asleep, Types
  <2>3. spec' = spec /\ seq' = seq
    BY DEF PopBatch, NotifyAll, queue
  <2>4. closed => closed'
    BY DEF PopBatch, NotifyAll, queue
  <2> QED BY <2>1, <2>2, <2>3, <2>4 DEF WithinQuota, Quota
<1>4. InHand'
  <2>1. CASE pc[t] = "drain" /\ size > 0 /\ Take(t) /\ UNCHANGED pc
    <3>1. \A d \in Consumers : d # t => pc[d] # "drain"
      BY <2>1, Params DEF Holding
    <3>2. buf'[t] # <<>> /\ \A d \in Consumers : d # t => buf'[d] = buf[d]
      BY <2>1, TakeTypes
    <3> QED BY <2>1, <3>1, <3>2 DEF InHand
  <2>2. CASE Goto(t, "drain") /\ size > 0 /\ UNCHANGED <<items, buf>>
    BY <2>2, Params DEF Goto, items, Types, InHand
  <2>3. ASSUME NEW label \in {"drained", "asleep"}, Goto(t, label), UNCHANGED <<items, buf>>
        PROVE  InHand'
    BY <2>3, Params DEF Goto, items, Types, InHand
  <2>4. CASE /\ pc[t] = "drain" /\ (Len(buf[t]) = m \/ size = 0) /\ Goto(t, "batch_taken")
             /\ UNCHANGED <<items, buf>>
    <3>1. buf[t] # <<>>
      <4>1. CASE Len(buf[t]) = m
        BY <4>1
      <4>2. CASE size = 0
        BY <2>4, <4>2 DEF InHand
      <4> QED BY <2>4, <4>1, <4>2
    <3> QED BY <2>4, <3>1, Params DEF Goto, items, Types, InHand
  <2>5. CASE NotifyAll(t, "batch_taken", Producers, "ok")
    BY <2>5, Params DEF NotifyAll, Asleep, queue, items, Types, InHand
  <2> QED BY <2>1, <2>2, <2>3, <2>4, <2>5 DEF PopBatch
<1> QED BY <1>1, <1>2, <1>3, <1>4

\* Waiting at the start line keeps the invariant.
LEMMA WaitGoStep ==
  ASSUME Types, Holding, WithinQuota, InHand, NEW t \in Producers \cup Consumers, WaitGo(t)
  PROVE  Types' /\ Holding' /\ WithinQuota' /\ InHand'
<1>0. /\ \A w \in Threads : w # t => pc'[w] = pc[w]
      /\ pc'[t] \in {"line", "push_batch", "try_push", "push", "finished",
                     "pop_batch", "try_pop", "pop"}
      /\ pc'[t] = "line" => pc[t] = "start"
      /\ pc'[t] \in {"try_push", "push"} => pc[t] = "line" /\ (closed \/ 0 < Quota)
  <2>1. CASE pc[t] = "start" /\ Goto(t, "line")
    BY <2>1, Params DEF Goto, Types
  <2>2. CASE pc[t] = "line" /\ t \in Producers /\ ProducerLoop(t, 0)
    BY <2>2, LoopGoes, Params DEF Types
  <2>3. CASE t \in Consumers /\ ConsumerLoop(t)
    BY <2>3, ConsumerGoes, Params DEF Types
  <2> QED BY <2>1, <2>2, <2>3 DEF WaitGo
<1>9. UNCHANGED <<queue, spec, seq>>
  BY DEF WaitGo, running
<1>1. Types'
  <2>1. spec' \in RunSpecs /\ mu' \in Threads \cup {Free}
    BY Params DEF WaitGo, queue, running, items, Types
  <2>2. ring' \in [0..(N - 1) -> Contents] /\ head' \in 0..(N - 1) /\ size' \in 0..N
    BY DEF WaitGo, queue, running, items, Types
  <2>3. closed' \in BOOLEAN
    BY DEF WaitGo, queue, running, items, Types
  <2>4. pc' = [w \in Threads |-> pc'[w]]
    BY Params DEF WaitGo, ProducerLoop, ConsumerLoop, Goto, Types
  <2>5. done' \in [Producers -> Nat] /\ seq' \in [Producers -> Nat]
    BY DEF WaitGo, queue, running, items, Types
  <2>6. buf' \in [Consumers -> Seq(Contents)]
    BY DEF WaitGo, queue, running, items, Types
  <2>7. claimed' \in [Consumers -> Seq(Contents)]
    BY DEF WaitGo, queue, running, items, Types
  <2> QED BY <2>1, <2>2, <2>3, <2>4, <2>5, <2>6, <2>7 DEF Types
<1>2. Holding'
  <2>1. \A w \in Threads : pc'[w] \in {"fill", "drain"} => pc[w] = pc'[w]
    BY <1>0
  <2>2. mu' = mu /\ closed' = closed
    BY <1>9 DEF queue
  <2> QED BY <2>1, <2>2, Params DEF Holding
<1>3. WithinQuota'
  <2>1. \A p \in Producers : pc'[p] \in {"start", "line"} => pc[p] \in {"start", "line"}
    BY <1>0, Params
  <2>2. \A p \in Producers : pc'[p] \in {"push", "try_push", "asleep", "woken"} =>
          \/ pc[p] = pc'[p]
          \/ seq[p] = 0 /\ (closed \/ 0 < Quota)
    BY <1>0, Params DEF WithinQuota
  <2>3. seq' = seq /\ spec' = spec /\ closed' = closed
    BY <1>9 DEF queue
  <2> QED BY <2>1, <2>2, <2>3 DEF WithinQuota, Quota
<1>4. InHand'
  BY <1>0, <1>9, Params DEF InHand, queue, items
<1> QED BY <1>1, <1>2, <1>3, <1>4

\* The accounting of a push keeps the invariant.
LEMMA PushReturnsStep ==
  ASSUME Types, Holding, WithinQuota, InHand, NEW t \in Producers, PushReturns(t), ~(spec.batch > 1)
  PROVE  Types' /\ Holding' /\ WithinQuota' /\ InHand'
<1>0. /\ \A w \in Threads : w # t => pc'[w] = pc[w]
      /\ pc'[t] \in {"push_batch", "try_push", "push", "finished"}
      /\ pc'[t] \in {"try_push", "push"} => closed \/ seq[t] + 1 < Quota
  <2>1. seq[t] + 1 \in Int
    BY DEF Types
  <2>2. CASE Goto(t, "finished")
    BY <2>2, Params DEF Goto, Types
  <2>3. CASE ProducerLoop(t, seq[t] + 1)
    BY <2>1, <2>3, LoopGoes, Params DEF Types
  <2> QED BY <2>2, <2>3 DEF PushReturns, AfterPush
<1>1. Types'
  <2>1. spec' \in RunSpecs /\ mu' \in Threads \cup {Free}
    BY Params DEF PushReturns, queue, items, Types
  <2>2. ring' \in [0..(N - 1) -> Contents] /\ head' \in 0..(N - 1) /\ size' \in 0..N
    BY DEF PushReturns, queue, items, Types
  <2>3. closed' \in BOOLEAN
    BY DEF PushReturns, queue, items, Types
  <2>4. pc' = [w \in Threads |-> pc'[w]]
    BY Params DEF PushReturns, AfterPush, ProducerLoop, Goto, Types
  <2>5. done' \in [Producers -> Nat] /\ seq' \in [Producers -> Nat]
    BY DEF PushReturns, queue, items, Types
  <2>6. buf' \in [Consumers -> Seq(Contents)]
    BY DEF PushReturns, queue, items, Types
  <2>7. claimed' \in [Consumers -> Seq(Contents)]
    BY DEF PushReturns, queue, items, Types
  <2> QED BY <2>1, <2>2, <2>3, <2>4, <2>5, <2>6, <2>7 DEF Types
<1>2. Holding'
  <2>1. \A w \in Threads : pc'[w] \in {"fill", "drain"} => pc[w] = pc'[w]
    BY <1>0, Params
  <2>2. mu' = mu /\ closed' = closed
    BY DEF PushReturns, queue
  <2> QED BY <2>1, <2>2, Params DEF Holding
<1>3. WithinQuota'
  <2>1. spec' = spec /\ closed' = closed /\ seq' = [seq EXCEPT ![t] = @ + 1] /\ spec.batch = 1
    BY QuotaType DEF PushReturns, queue, Types
  <2>2. \A p \in Producers : p # t => pc'[p] = pc[p] /\ seq'[p] = seq[p]
    BY <1>0, <2>1, Params DEF Types
  <2>3. seq'[t] = seq[t] + 1
    BY <2>1 DEF Types
  <2>4. pc'[t] \in {"push", "try_push"} => closed' \/ seq'[t] < Quota
    BY <1>0, <2>1, <2>3
  <2> QED BY <1>0, <2>1, <2>2, <2>4 DEF WithinQuota, Quota
<1>4. InHand'
  <2>1. \A c \in Consumers :
         /\ pc'[c] \in {"taken", "batch_taken", "ok"} => pc[c] \in {"taken", "batch_taken", "ok"}
         /\ pc'[c] = "drain" => pc[c] = "drain"
    BY <1>0, Params
  <2>2. buf' = buf
    BY DEF PushReturns, queue
  <2>3. size > 0 => size' > 0
    BY DEF items, PushReturns, queue
  <2> QED BY <2>1, <2>2, <2>3 DEF InHand
<1> QED BY <1>1, <1>2, <1>3, <1>4

\* The accounting of a batch keeps the invariant.
LEMMA BatchReturnsStep ==
  ASSUME Types, Holding, WithinQuota, InHand, NEW t \in Producers, BatchReturns(t), spec.batch > 1
  PROVE  Types' /\ Holding' /\ WithinQuota' /\ InHand'
<1>0. /\ \A w \in Threads : w # t => pc'[w] = pc[w]
      /\ pc'[t] \in {"batch_done", "push_batch", "try_push", "push", "finished"}
  <2>1. seq[t] + BatchSize(t) \in Int
    BY SizeType DEF Types
  <2>2. CASE Goto(t, "finished")
    BY <2>2, Params DEF Goto, Types
  <2>3. CASE ProducerLoop(t, seq[t] + BatchSize(t))
    BY <2>1, <2>3, LoopGoes, Params DEF Types
  <2>4. CASE UNCHANGED pc /\ pc[t] = "batch_done"
    BY <2>4
  <2> QED BY <2>2, <2>3, <2>4 DEF BatchReturns, AfterPush
<1>1. Types'
  <2>1. spec' \in RunSpecs /\ mu' \in Threads \cup {Free}
    BY Params DEF BatchReturns, Types
  <2>2. ring' \in [0..(N - 1) -> Contents] /\ head' \in 0..(N - 1) /\ size' \in 0..N
    BY DEF BatchReturns, items, Types
  <2>3. closed' \in BOOLEAN
    BY DEF BatchReturns, Types
  <2>4. pc' = [w \in Threads |-> pc'[w]]
    BY Params DEF BatchReturns, AfterPush, ProducerLoop, Goto, Types
  <2>5. done' \in [Producers -> Nat] /\ seq' \in [Producers -> Nat]
    <3>1. BatchSize(t) \in Nat
      BY SizeType DEF WithinQuota
    <3>2. UNCHANGED seq \/ seq' = [seq EXCEPT ![t] = @ + BatchSize(t)]
      BY DEF BatchReturns
    <3>3. UNCHANGED done \/ done' = [done EXCEPT ![t] = 0]
      BY DEF BatchReturns
    <3>4. seq' \in [Producers -> Nat]
      <4>1. seq[t] + BatchSize(t) \in Nat
        BY <3>1 DEF Types
      <4> QED BY <3>2, <4>1 DEF Types
    <3>5. done' \in [Producers -> Nat]
      <4>1. CASE done' = done
        BY <4>1 DEF Types
      <4>2. CASE done' = [done EXCEPT ![t] = 0]
        BY <4>2 DEF Types
      <4> QED BY <3>3, <4>1, <4>2
    <3> QED BY <3>4, <3>5
  <2>6. buf' \in [Consumers -> Seq(Contents)]
    BY DEF BatchReturns, Types
  <2>7. claimed' \in [Consumers -> Seq(Contents)]
    BY DEF BatchReturns, Types
  <2> QED BY <2>1, <2>2, <2>3, <2>4, <2>5, <2>6, <2>7 DEF Types
<1>2. Holding'
  <2>1. \A w \in Threads : pc'[w] \in {"fill", "drain"} => pc[w] = pc'[w]
    BY <1>0, Params
  <2>2. mu' = mu /\ closed' = closed
    BY DEF BatchReturns
  <2> QED BY <2>1, <2>2, Params DEF Holding
<1>3. WithinQuota'
  <2>1. spec' = spec /\ spec.batch # 1
    BY QuotaType DEF BatchReturns, Types
  <2>2. \A p \in Producers : pc'[p] \in {"start", "line"} => p # t /\ pc[p] = pc'[p]
    BY <1>0, Params
  <2>3. CASE UNCHANGED seq
    BY <2>1, <2>2, <2>3 DEF WithinQuota, Quota
  <2>4. CASE seq' = [seq EXCEPT ![t] = @ + BatchSize(t)]
    <3>1. \A p \in Producers : p # t => seq'[p] = seq[p]
      BY <2>4 DEF Types
    <3>2. seq'[t] <= Quota
      <4>1. BatchSize(t) \in Int /\ BatchSize(t) <= Quota - seq[t] /\ seq[t] \in Nat /\ Quota \in Nat
        BY SizeType, QuotaType DEF Types
      <4>2. seq'[t] = seq[t] + BatchSize(t)
        BY <2>4 DEF Types
      <4> QED BY <4>1, <4>2
    <3> QED BY <2>1, <2>2, <3>1, <3>2 DEF WithinQuota, Quota
  <2> QED BY <2>3, <2>4 DEF BatchReturns
<1>4. InHand'
  <2>1. \A c \in Consumers :
         /\ pc'[c] \in {"taken", "batch_taken", "ok"} => pc[c] \in {"taken", "batch_taken", "ok"}
         /\ pc'[c] = "drain" => pc[c] = "drain"
    BY <1>0, Params
  <2>2. buf' = buf
    BY DEF BatchReturns
  <2>3. size > 0 => size' > 0
    BY DEF items, BatchReturns
  <2> QED BY <2>1, <2>2, <2>3 DEF InHand
<1> QED BY <1>1, <1>2, <1>3, <1>4

\* take() in the consumer's loop keeps the invariant.
LEMMA PopReturnsStep ==
  ASSUME Types, Holding, WithinQuota, InHand, NEW t \in Consumers, PopReturns(t)
  PROVE  Types' /\ Holding' /\ WithinQuota' /\ InHand'
<1>1. Types'
  <2>1. spec' \in RunSpecs /\ mu' \in Threads \cup {Free}
    BY Params DEF PopReturns, queue, running, items, Types
  <2>2. ring' \in [0..(N - 1) -> Contents] /\ head' \in 0..(N - 1) /\ size' \in 0..N
    BY DEF PopReturns, queue, running, items, Types
  <2>3. closed' \in BOOLEAN
    BY DEF PopReturns, queue, running, items, Types
  <2>4. pc' = [w \in Threads |-> pc'[w]]
    BY Params DEF PopReturns, ConsumerLoop, Goto, Types
  <2>5. done' \in [Producers -> Nat] /\ seq' \in [Producers -> Nat]
    BY DEF PopReturns, queue, running, items, Types
  <2>6. buf' \in [Consumers -> Seq(Contents)]
    <3>1. \A c \in Consumers : buf[c] \in Seq(Contents)
      BY DEF Types
    <3>2. pc[t] = "ok" => Tail(buf[t]) \in Seq(Contents)
      BY <3>1 DEF InHand
    <3> QED BY <3>1, <3>2 DEF PopReturns, queue, Types
  <2>7. claimed' \in [Consumers -> Seq(Contents)]
    BY DEF PopReturns, queue, running, items, Types
  <2> QED BY <2>1, <2>2, <2>3, <2>4, <2>5, <2>6, <2>7 DEF Types
<1>2. Holding'
  <2>1. \A w \in Threads : pc'[w] \in {"fill", "drain"} => pc[w] = pc'[w]
    BY ConsumerGoes, Params DEF PopReturns, Goto, Types
  <2>2. mu' = mu /\ closed' = closed
    BY DEF PopReturns, queue
  <2> QED BY <2>1, <2>2, Params DEF Holding
<1>3. WithinQuota'
  <2>1. \A p \in Producers : pc'[p] \in {"start", "line"} => pc[p] = pc'[p]
    BY ConsumerGoes, Params DEF PopReturns, Goto, Types
  <2>2. \A p \in Producers : pc'[p] \in {"push", "try_push", "asleep", "woken"} =>
             pc[p] \in {"push", "try_push", "asleep", "woken"}
    BY ConsumerGoes, Params DEF PopReturns, Goto, Types
  <2>3. spec' = spec /\ seq' = seq
    BY DEF PopReturns, queue, running
  <2>4. closed => closed'
    BY DEF PopReturns, queue, running
  <2> QED BY <2>1, <2>2, <2>3, <2>4 DEF WithinQuota, Quota
<1>4. InHand'
  <2>1. size' = size /\ \A c \in Consumers : c # t => buf'[c] = buf[c]
    BY DEF PopReturns, queue, items, Types
  <2>2. \A c \in Consumers : c # t => pc'[c] = pc[c]
    BY ConsumerGoes, Params DEF PopReturns, Goto, Types
  <2>3. pc'[t] \in {"taken", "batch_taken", "ok", "drain"} => buf'[t] # <<>>
    <3>1. CASE pc[t] = "ok" /\ Len(buf[t]) = 1
      BY <3>1, ConsumerGoes, Params DEF PopReturns, Goto, Types
    <3>2. CASE pc[t] = "ok" /\ Len(buf[t]) # 1
      <4>1. buf[t] \in Seq(Contents) /\ buf[t] # <<>>
        BY <3>2 DEF Types, InHand
      <4>2. buf'[t] = Tail(buf[t])
        BY <3>2 DEF PopReturns, Types
      <4>3. Len(buf[t]) \in Nat /\ Len(buf[t]) # 0
        BY <4>1, EmptySeq
      <4>4. Len(Tail(buf[t])) = Len(buf[t]) - 1
        BY <4>1, HeadTailProperties
      <4>5. Len(Tail(buf[t])) # 0
        BY <3>2, <4>3, <4>4
      <4>6. Len(<<>>) = 0
        OBVIOUS
      <4> QED BY <4>2, <4>5, <4>6
    <3>3. CASE pc[t] = "empty"
      BY <3>3, Params DEF PopReturns, Goto, Types
    <3> QED BY <3>1, <3>2, <3>3 DEF PopReturns
  <2> QED BY <2>1, <2>2, <2>3 DEF InHand
<1> QED BY <1>1, <1>2, <1>3, <1>4

\* Releasing, closing and joining keeps the invariant.
LEMMA RunMainStep ==
  ASSUME Types, Holding, WithinQuota, InHand, RunMain
  PROVE  Types' /\ Holding' /\ WithinQuota' /\ InHand'
<1>1. Types'
  <2>1. spec' \in RunSpecs /\ mu' \in Threads \cup {Free}
    BY Params DEF RunMain, Close, NotifyAll, queue, running, items, Types
  <2>2. ring' \in [0..(N - 1) -> Contents] /\ head' \in 0..(N - 1) /\ size' \in 0..N
    BY DEF RunMain, Close, NotifyAll, queue, running, items, Types
  <2>3. closed' \in BOOLEAN
    BY DEF RunMain, Close, NotifyAll, queue, running, items, Types
  <2>4. pc' = [w \in Threads |-> pc'[w]]
    BY Params DEF RunMain, Goto, Close, Enters, NotifyAll, Asleep, Types
  <2>5. done' \in [Producers -> Nat] /\ seq' \in [Producers -> Nat]
    BY DEF RunMain, Close, NotifyAll, queue, running, items, Types
  <2>6. buf' \in [Consumers -> Seq(Contents)]
    BY DEF RunMain, Close, NotifyAll, queue, running, items, Types
  <2>7. claimed' \in [Consumers -> Seq(Contents)]
    BY DEF RunMain, Close, NotifyAll, queue, running, items, Types
  <2> QED BY <2>1, <2>2, <2>3, <2>4, <2>5, <2>6, <2>7 DEF Types
<1>2. Holding'
  <2>1. \A w \in Threads : pc'[w] \in {"fill", "drain"} => mu' = w
    BY Params DEF RunMain, Goto, Close, Enters, NotifyAll, Asleep, queue, items, running,
       Types, Holding
  <2>2. \A p \in Producers : pc'[p] = "fill" => ~closed'
    BY Params DEF RunMain, Goto, Close, Enters, NotifyAll, Asleep, queue, items, running,
       Types, Holding
  <2> QED BY <2>1, <2>2 DEF Holding
<1>3. WithinQuota'
  <2>1. \A p \in Producers : pc'[p] \in {"start", "line"} => pc[p] = pc'[p]
    BY Params DEF RunMain, Goto, Close, Enters, NotifyAll, Asleep, Types
  <2>2. \A p \in Producers : pc'[p] \in {"push", "try_push", "asleep", "woken"} =>
             pc[p] \in {"push", "try_push", "asleep", "woken"}
    BY Params DEF RunMain, Goto, Close, Enters, NotifyAll, Asleep, Types
  <2>3. spec' = spec /\ seq' = seq
    BY DEF RunMain, Close, NotifyAll, queue, running
  <2>4. closed => closed'
    BY DEF RunMain, Close, NotifyAll, queue, running
  <2> QED BY <2>1, <2>2, <2>3, <2>4 DEF WithinQuota, Quota
<1>4. InHand'
  <2>1. \A c \in Consumers :
         /\ pc'[c] \in {"taken", "batch_taken", "ok"} => pc[c] \in {"taken", "batch_taken", "ok"}
         /\ pc'[c] = "drain" => pc[c] = "drain"
    BY Params DEF RunMain, Goto, Close, Enters, NotifyAll, Asleep, Types
  <2>2. buf' = buf
    BY DEF RunMain, Close, NotifyAll, queue, running
  <2>3. size > 0 => size' > 0
    BY DEF items, RunMain, Close, NotifyAll, queue, running
  <2> QED BY <2>1, <2>2, <2>3 DEF InHand
<1> QED BY <1>1, <1>2, <1>3, <1>4

\* A wake without a notification keeps the invariant.
LEMMA WakeAloneStep ==
  ASSUME Types, Holding, WithinQuota, InHand, NEW t \in Producers \cup Consumers,
         WakeAlone(t), UNCHANGED running
  PROVE  Types' /\ Holding' /\ WithinQuota' /\ InHand'
<1>1. Types'
  <2>1. spec' \in RunSpecs /\ mu' \in Threads \cup {Free}
    BY Params DEF WakeAlone, queue, running, items, Types
  <2>2. ring' \in [0..(N - 1) -> Contents] /\ head' \in 0..(N - 1) /\ size' \in 0..N
    BY DEF WakeAlone, queue, running, items, Types
  <2>3. closed' \in BOOLEAN
    BY DEF WakeAlone, queue, running, items, Types
  <2>4. pc' = [w \in Threads |-> pc'[w]]
    BY Params DEF WakeAlone, Goto, Types
  <2>5. done' \in [Producers -> Nat] /\ seq' \in [Producers -> Nat]
    BY DEF WakeAlone, queue, running, items, Types
  <2>6. buf' \in [Consumers -> Seq(Contents)]
    BY DEF WakeAlone, queue, running, items, Types
  <2>7. claimed' \in [Consumers -> Seq(Contents)]
    BY DEF WakeAlone, queue, running, items, Types
  <2> QED BY <2>1, <2>2, <2>3, <2>4, <2>5, <2>6, <2>7 DEF Types
<1>2. Holding'
  <2>1. \A w \in Threads : pc'[w] \in {"fill", "drain"} => pc[w] = pc'[w]
    BY Params DEF WakeAlone, Goto, Types
  <2>2. mu' = mu /\ closed' = closed
    BY DEF WakeAlone, queue, running
  <2> QED BY <2>1, <2>2, Params DEF Holding
<1>3. WithinQuota'
  <2>1. \A p \in Producers : pc'[p] \in {"start", "line"} => pc[p] = pc'[p]
    BY Params DEF WakeAlone, Goto, Types
  <2>2. \A p \in Producers : pc'[p] \in {"push", "try_push", "asleep", "woken"} =>
             pc[p] \in {"push", "try_push", "asleep", "woken"}
    BY Params DEF WakeAlone, Goto, Types
  <2>3. spec' = spec /\ seq' = seq
    BY DEF WakeAlone, queue, running
  <2>4. closed => closed'
    BY DEF WakeAlone, queue, running
  <2> QED BY <2>1, <2>2, <2>3, <2>4 DEF WithinQuota, Quota
<1>4. InHand'
  <2>1. \A c \in Consumers :
         /\ pc'[c] \in {"taken", "batch_taken", "ok"} => pc[c] \in {"taken", "batch_taken", "ok"}
         /\ pc'[c] = "drain" => pc[c] = "drain"
    BY Params DEF WakeAlone, Goto, Types
  <2>2. buf' = buf
    BY DEF WakeAlone, queue, running
  <2>3. size > 0 => size' > 0
    BY DEF items, WakeAlone, queue, running
  <2> QED BY <2>1, <2>2, <2>3 DEF InHand
<1> QED BY <1>1, <1>2, <1>3, <1>4

-----------------------------------------------------------------------------
(* What every step does to the line. *)

\* If nobody is told drained, those told are the same.
LEMMA ToldStays ==
  ASSUME Untold
  PROVE  Told' = Told
  BY DEF Untold, Told

\* try_push appends its event to the line or leaves the line alone.
LEMMA TryPushLine ==
  ASSUME Types, NEW t \in Producers, NEW x, ~closed => x \in Events, TryPush(t, x), Claims
  PROVE  LineStep
<1>1. Untold
  BY Params DEF TryPush, Goto, Types, Untold
<1>2. closed' = closed /\ claimed' = claimed /\ Told' = Told
  <2>1. buf' = buf /\ closed' = closed
    BY DEF TryPush
  <2> QED BY <1>1, <2>1, ClaimsNothing, ToldStays
<1>3. CASE ~closed /\ ~Full /\ Put(x)
  <2>1. size < N
    BY <1>3, Params DEF Full, Types
  <2> QED BY <1>2, <1>3, <2>1 DEF LineStep, Accepting
<1>4. CASE UNCHANGED items
  BY <1>2, <1>4, SameItems DEF LineStep, Same
<1> QED BY <1>3, <1>4 DEF TryPush

\* push appends its event to the line or leaves the line alone.
LEMMA PushLine ==
  ASSUME Types, NEW t \in Producers, NEW x, ~closed => x \in Events, Push(t, x), Claims
  PROVE  LineStep
<1>1. Untold
  BY Params DEF Push, Goto, Types, Untold
<1>2. closed' = closed /\ claimed' = claimed /\ Told' = Told
  <2>1. buf' = buf /\ closed' = closed
    BY DEF Push
  <2> QED BY <1>1, <2>1, ClaimsNothing, ToldStays
<1>3. CASE ~closed /\ ~Full /\ Put(x)
  <2>1. size < N
    BY <1>3, Params DEF Full, Types
  <2> QED BY <1>2, <1>3, <2>1 DEF LineStep, Accepting
<1>4. CASE UNCHANGED items
  BY <1>2, <1>4, SameItems DEF LineStep, Same
<1> QED BY <1>3, <1>4 DEF Push

\* The notification after a push leaves the line alone.
LEMMA PushNotifyLine ==
  ASSUME Types, NEW t \in Producers, PushNotify(t), Claims
  PROVE  LineStep
<1>1. Untold
  BY Params DEF PushNotify, NotifyOne, Asleep, Goto, Types, Untold
<1>2. UNCHANGED queue
  BY DEF PushNotify, NotifyOne
<1> QED BY <1>1, <1>2, ClaimsNothing, ToldStays, SameItems DEF queue, LineStep, Same

\* The notification after a pop leaves the line alone.
LEMMA PopNotifyLine ==
  ASSUME Types, NEW t \in Consumers, PopNotify(t), Claims
  PROVE  LineStep
<1>1. Untold
  BY Params DEF PopNotify, NotifyOne, Asleep, Goto, Types, Untold
<1>2. UNCHANGED queue
  BY DEF PopNotify, NotifyOne
<1> QED BY <1>1, <1>2, ClaimsNothing, ToldStays, SameItems DEF queue, LineStep, Same

\* push_batch appends an event at a time, while it has mu_.
LEMMA BatchLine ==
  ASSUME Types, Holding, NEW t \in Producers, NEW n \in Int, NEW b,
         \A k \in Nat : k < n => b[k] \in Events,
         Batch(t, n, b), Claims
  PROVE  LineStep
<1>1. Untold
  <2>1. ASSUME NEW label, Goto(t, label) PROVE Untold
    BY <2>1, Params DEF Goto, Types, Untold
  <2>2. ASSUME NEW from, NEW to, NotifyAll(t, from, Consumers, to)
        PROVE  Untold
    BY <2>2, Params DEF NotifyAll, Asleep, Untold
  <2>3. CASE UNCHANGED pc
    BY <2>3 DEF Untold
  <2> QED BY <2>1, <2>2, <2>3 DEF Batch
<1>2. closed' = closed /\ claimed' = claimed /\ Told' = Told
  <2>1. buf' = buf /\ closed' = closed
    BY DEF Batch, NotifyAll, queue
  <2> QED BY <1>1, <2>1, ClaimsNothing, ToldStays
<1>3. CASE pc[t] = "fill" /\ done[t] < n /\ ~Full /\ Put(b[done[t]])
  <2>1. size < N /\ b[done[t]] \in Events
    BY <1>3, Params DEF Full, Types
  <2>2. ~closed
    BY <1>3 DEF Holding
  <2> QED BY <1>2, <1>3, <2>1, <2>2 DEF LineStep, Accepting
<1>4. CASE UNCHANGED items
  BY <1>2, <1>4, SameItems DEF LineStep, Same
<1> QED BY <1>3, <1>4 DEF Batch, NotifyAll, queue

\* try_pop takes the head of the line or leaves the line alone.
LEMMA TryPopLine ==
  ASSUME Types, NEW t \in Consumers, TryPop(t), Claims
  PROVE  LineStep
<1>1. CASE size > 0 /\ Take(t) /\ Goto(t, "taken")
  <2>1. claimed' = [claimed EXCEPT ![t] = Append(claimed[t], ring[head])]
    BY <1>1, ClaimsOne
  <2>2. pc[t] # "drained" /\ pc'[t] # "drained" /\ \A c \in Consumers : c # t => pc'[c] = pc[c]
    BY <1>1, Params DEF TryPop, Enters, Goto, Types, Untold
  <2>3. t \notin Told /\ Told' = Told
    BY <2>2, ToldStays DEF Told
  <2>4. closed' = closed
    BY DEF TryPop
  <2> QED BY <1>1, <2>1, <2>3, <2>4 DEF LineStep, Giving
<1>2. ASSUME NEW label \in {"empty", "asleep"}, Goto(t, label), UNCHANGED <<items, buf>>
      PROVE  LineStep
  <2>1. Untold
    BY <1>2, Params DEF TryPop, Enters, Goto, Types, Untold
  <2>2. closed' = closed
    BY DEF TryPop
  <2> QED BY <1>2, <2>1, <2>2, ClaimsNothing, ToldStays, SameItems DEF LineStep, Same
<1> QED BY <1>1, <1>2 DEF TryPop

\* pop takes the head of the line, is told drained or leaves the line alone.
LEMMA PopLine ==
  ASSUME Types, NEW t \in Consumers, Pop(t), Claims
  PROVE  LineStep
<1>1. CASE size > 0 /\ Take(t) /\ Goto(t, "taken")
  <2>1. claimed' = [claimed EXCEPT ![t] = Append(claimed[t], ring[head])]
    BY <1>1, ClaimsOne
  <2>2. pc[t] # "drained" /\ pc'[t] # "drained" /\ \A c \in Consumers : c # t => pc'[c] = pc[c]
    BY <1>1, Params DEF Pop, Enters, Goto, Types, Untold
  <2>3. t \notin Told /\ Told' = Told
    BY <2>2, ToldStays DEF Told
  <2>4. closed' = closed
    BY DEF Pop
  <2> QED BY <1>1, <2>1, <2>3, <2>4 DEF LineStep, Giving
<1>2. ASSUME NEW label \in {"empty", "asleep"}, Goto(t, label), UNCHANGED <<items, buf>>
      PROVE  LineStep
  <2>1. Untold
    BY <1>2, Params DEF Pop, Enters, Goto, Types, Untold
  <2>2. closed' = closed
    BY DEF Pop
  <2> QED BY <1>2, <2>1, <2>2, ClaimsNothing, ToldStays, SameItems DEF LineStep, Same
<1>3. CASE size = 0 /\ closed /\ Goto(t, "drained") /\ UNCHANGED <<items, buf>>
  <2>1. pc'[t] = "drained" /\ \A c \in Consumers : c # t => pc'[c] = pc[c]
    BY <1>3, Params DEF Goto, Types, Untold
  <2>2. Told' = Told \cup {t}
    BY <2>1 DEF Told
  <2>3. closed' = closed
    BY DEF Pop
  <2> QED BY <1>3, <2>2, <2>3, ClaimsNothing, SameItems DEF LineStep, Draining
<1> QED BY <1>1, <1>2, <1>3 DEF Pop

\* pop_batch takes one item at a time from the head, while it has mu_.
LEMMA PopBatchLine ==
  ASSUME Types, NEW t \in Consumers, NEW m, PopBatch(t, m), Claims
  PROVE  LineStep
<1>1. CASE pc[t] = "drain" /\ size > 0 /\ Take(t) /\ UNCHANGED <<pc, closed>>
  <2>1. claimed' = [claimed EXCEPT ![t] = Append(claimed[t], ring[head])]
    BY <1>1, ClaimsOne
  <2>2. t \notin Told /\ Told' = Told
    BY <1>1 DEF Told
  <2> QED BY <1>1, <2>1, <2>2 DEF LineStep, Giving
<1>2. ASSUME NEW label \in {"drain", "asleep", "batch_taken"}, Goto(t, label),
             UNCHANGED <<items, buf, closed>>,
             pc[t] # "drained"
      PROVE  LineStep
  <2>1. Untold
    BY <1>2, Params DEF Goto, Types, Untold
  <2> QED BY <1>2, <2>1, ClaimsNothing, ToldStays, SameItems DEF LineStep, Same
<1>3. CASE size = 0 /\ closed /\ Goto(t, "drained") /\ UNCHANGED <<items, buf, closed>>
  <2>1. pc'[t] = "drained" /\ \A c \in Consumers : c # t => pc'[c] = pc[c]
    BY <1>3, Params DEF Goto, Types, Untold
  <2>2. Told' = Told \cup {t}
    BY <2>1 DEF Told
  <2> QED BY <1>3, <2>2, ClaimsNothing, SameItems DEF LineStep, Draining
<1>4. CASE NotifyAll(t, "batch_taken", Producers, "ok")
  <2>1. Untold
    BY <1>4, Params DEF NotifyAll, Asleep, Untold
  <2>2. UNCHANGED queue
    BY <1>4 DEF NotifyAll
  <2> QED BY <2>1, <2>2, ClaimsNothing, ToldStays, SameItems DEF queue, LineStep, Same
<1> QED BY <1>1, <1>2, <1>3, <1>4 DEF PopBatch, Enters

\* Waiting at the start line leaves the line alone.
LEMMA WaitGoLine ==
  ASSUME Types, NEW t \in Producers \cup Consumers, WaitGo(t)
  PROVE  LineStep
<1>1. Untold
  <2>1. CASE pc[t] = "start" /\ Goto(t, "line")
    BY <2>1, Params DEF Goto, Types, Untold
  <2>2. CASE t \in Producers /\ ProducerLoop(t, 0)
    <3>1. pc' = [pc EXCEPT ![t] = pc'[t]]
      BY <2>2, LoopGoes
    <3> QED BY <2>2, <3>1, Params DEF Types, Untold
  <2>3. CASE pc[t] = "line" /\ t \in Consumers /\ ConsumerLoop(t)
    BY <2>3, ConsumerGoes, Params DEF Types, Untold
  <2> QED BY <2>1, <2>2, <2>3 DEF WaitGo
<1>2. UNCHANGED <<items, closed, claimed>>
  BY DEF WaitGo, queue, running
<1> QED BY <1>1, <1>2, ToldStays, SameItems DEF LineStep, Same

\* The accounting of a push leaves the line alone.
LEMMA PushReturnsLine ==
  ASSUME Types, NEW t \in Producers, PushReturns(t)
  PROVE  LineStep
<1>1. Untold
  <2>1. seq[t] + 1 \in Int
    BY SizeType DEF Types
  <2>2. CASE Goto(t, "finished")
    BY <2>2, Params DEF Goto, Types, Untold
  <2>3. ASSUME NEW i \in Int, ProducerLoop(t, i) PROVE Untold
    BY <2>3, LoopGoes, Params DEF Types, Untold
  <2>4. CASE UNCHANGED pc
    BY <2>4 DEF Untold
  <2> QED BY <2>1, <2>2, <2>3, <2>4 DEF PushReturns, AfterPush
<1>2. UNCHANGED <<items, closed, claimed>>
  BY DEF PushReturns, queue
<1> QED BY <1>1, <1>2, ToldStays, SameItems DEF LineStep, Same

\* The accounting of a batch leaves the line alone.
LEMMA BatchReturnsLine ==
  ASSUME Types, NEW t \in Producers, BatchReturns(t)
  PROVE  LineStep
<1>1. Untold
  <2>1. seq[t] + BatchSize(t) \in Int
    BY SizeType DEF Types
  <2>2. CASE Goto(t, "finished")
    BY <2>2, Params DEF Goto, Types, Untold
  <2>3. ASSUME NEW i \in Int, ProducerLoop(t, i) PROVE Untold
    BY <2>3, LoopGoes, Params DEF Types, Untold
  <2>4. CASE UNCHANGED pc
    BY <2>4 DEF Untold
  <2> QED BY <2>1, <2>2, <2>3, <2>4 DEF BatchReturns, AfterPush
<1>2. UNCHANGED <<items, closed, claimed>>
  BY DEF BatchReturns, queue
<1> QED BY <1>1, <1>2, ToldStays, SameItems DEF LineStep, Same

\* take() in the consumer's loop leaves the line alone.
LEMMA PopReturnsLine ==
  ASSUME Types, NEW t \in Consumers, PopReturns(t)
  PROVE  LineStep
<1>1. Untold
  BY ConsumerGoes, Params DEF PopReturns, Goto, Types, Untold
<1>2. UNCHANGED <<items, closed, claimed>>
  BY DEF PopReturns, queue, running
<1> QED BY <1>1, <1>2, ToldStays, SameItems DEF LineStep, Same

\* close() shuts the line; the rest of the calling thread's steps leave it alone.
LEMMA RunMainLine ==
  ASSUME Types, RunMain
  PROVE  LineStep
<1>1. Untold
  <2>1. ASSUME NEW label, Goto(Main, label) PROVE Untold
    BY <2>1, Params DEF Goto, Types, Untold
  <2>2. ASSUME NEW from, NEW group, NEW to, NotifyAll(Main, from, group, to)
        PROVE  Untold
    BY <2>2, Params DEF NotifyAll, Asleep, Untold
  <2> QED BY <2>1, <2>2 DEF RunMain, Close
<1>2. UNCHANGED <<items, claimed>> /\ (closed' = closed \/ closed')
  BY DEF RunMain, Close, NotifyAll, queue, running
<1> QED BY <1>1, <1>2, ToldStays, SameItems DEF LineStep, Same, Shutting

\* A wake without a notification leaves the line alone.
LEMMA WakeAloneLine ==
  ASSUME Types, NEW t \in Producers \cup Consumers, WakeAlone(t), UNCHANGED running
  PROVE  LineStep
<1>1. Untold
  BY Params DEF WakeAlone, Goto, Types, Untold
<1>2. UNCHANGED <<items, closed, claimed>>
  BY DEF WakeAlone, queue, running
<1> QED BY <1>1, <1>2, ToldStays, SameItems DEF LineStep, Same

\* push_batch is called with events of the run.
LEMMA NextBatchEvents ==
  ASSUME Types, NEW p \in Producers
  PROVE  /\ BatchSize(p) \in Int
         /\ \A k \in Nat : k < BatchSize(p) => NextBatch(p)[k] \in Events
<1>1. BatchSize(p) \in Int /\ BatchSize(p) <= Quota - seq[p] /\ seq[p] \in Nat /\ Quota \in Nat
  BY SizeType, QuotaType DEF Types
<1> SUFFICES ASSUME NEW k \in Nat, k < BatchSize(p) PROVE NextBatch(p)[k] \in Events
  BY <1>1
<1>2. seq[p] + k \in Seqs
  <2>1. seq[p] + k \in Nat /\ seq[p] + k < Quota
    BY <1>1
  <2> QED BY <2>1, InQuota DEF Types
<1>3. NextBatch(p)[k] = Event(p, seq[p] + k)
  BY <1>1 DEF NextBatch
<1> QED BY <1>2, <1>3 DEF Events

\* Before the close, push is called with an event of the run.
LEMMA NextEvent ==
  ASSUME Types, WithinQuota, NEW p \in Producers, spec.batch = 1,
         pc[p] \in {"push", "try_push", "asleep", "woken"}, ~closed
  PROVE  Event(p, seq[p]) \in Events
<1>1. seq[p] \in Nat /\ seq[p] < Quota
  BY DEF Types, WithinQuota
<1> QED BY <1>1, InQuota DEF Types, Events

-----------------------------------------------------------------------------
(* All steps together. *)

\* Every call of MutexQueue keeps the invariant and treats the line as it should.
LEMMA CallStep ==
  ASSUME LineInv, NEW t \in Producers \cup Consumers, Calls(t)
  PROVE  LineInv' /\ LineStep
<1>0. Types /\ Holding /\ WithinQuota /\ InHand /\ Claims /\ UNCHANGED <<spec, seq>>
  BY DEF LineInv, Calls
<1>1. CASE t \in Producers /\ spec.batch > 1
  <2>1. Batch(t, BatchSize(t), NextBatch(t))
    BY <1>1, Params DEF Calls
  <2>2. BatchSize(t) \in Int /\ \A k \in Nat : k < BatchSize(t) => NextBatch(t)[k] \in Events
    BY <1>0, <1>1, NextBatchEvents
  <2>3. Types' /\ Holding' /\ WithinQuota' /\ InHand'
    BY <1>0, <1>1, <2>1, <2>2, BatchStep
  <2>4. LineStep
    BY <1>0, <1>1, <2>1, <2>2, BatchLine
  <2> QED BY <2>3, <2>4 DEF LineInv
<1>2. CASE t \in Producers /\ ~(spec.batch > 1)
  <2>1. TryPush(t, Event(t, seq[t])) \/ Push(t, Event(t, seq[t])) \/ PushNotify(t)
    BY <1>2, Params DEF Calls
  <2>2. spec.batch = 1
    BY <1>0, <1>2, QuotaType DEF Types
  <2>3. CASE TryPush(t, Event(t, seq[t]))
    <3>1. ~closed => Event(t, seq[t]) \in Events
      BY <1>0, <1>2, <2>2, <2>3, NextEvent DEF TryPush, Enters
    <3>2. Types' /\ Holding' /\ WithinQuota' /\ InHand'
      BY <1>0, <1>2, <2>2, <2>3, <3>1, TryPushStep
    <3>3. LineStep
      BY <1>0, <1>2, <2>3, <3>1, TryPushLine
    <3> QED BY <3>2, <3>3 DEF LineInv
  <2>4. CASE Push(t, Event(t, seq[t]))
    <3>1. ~closed => Event(t, seq[t]) \in Events
      BY <1>0, <1>2, <2>2, <2>4, NextEvent DEF Push, Enters
    <3>2. Types' /\ Holding' /\ WithinQuota' /\ InHand'
      BY <1>0, <1>2, <2>2, <2>4, <3>1, PushStep
    <3>3. LineStep
      BY <1>0, <1>2, <2>4, <3>1, PushLine
    <3> QED BY <3>2, <3>3 DEF LineInv
  <2>5. CASE PushNotify(t)
    BY <1>0, <1>2, <2>2, <2>5, PushNotifyStep, PushNotifyLine DEF LineInv
  <2> QED BY <2>1, <2>3, <2>4, <2>5
<1>3. CASE t \in Consumers
  <2>1. PopBatch(t, spec.batch) \/ TryPop(t) \/ Pop(t) \/ PopNotify(t)
    BY <1>3, Params DEF Calls
  <2>2. spec.batch \in Nat /\ spec.batch >= 1
    BY <1>0, QuotaType DEF Types
  <2>3. CASE PopBatch(t, spec.batch)
    BY <1>0, <1>3, <2>2, <2>3, PopBatchStep, PopBatchLine DEF LineInv
  <2>4. CASE TryPop(t)
    BY <1>0, <1>3, <2>4, TryPopStep, TryPopLine DEF LineInv
  <2>5. CASE Pop(t)
    BY <1>0, <1>3, <2>5, PopStep, PopLine DEF LineInv
  <2>6. CASE PopNotify(t)
    BY <1>0, <1>3, <2>6, PopNotifyStep, PopNotifyLine DEF LineInv
  <2> QED BY <2>1, <2>3, <2>4, <2>5, <2>6
<1> QED BY <1>1, <1>2, <1>3

\* So does every step of driver and queue.
LEMMA NextStep ==
  ASSUME LineInv, [Next \/ Over]_vars
  PROVE  LineInv' /\ LineStep
<1>0. Types /\ Holding /\ WithinQuota /\ InHand
  BY DEF LineInv
<1>1. ASSUME NEW p \in Producers, Produces(p) PROVE LineInv' /\ LineStep
  <2>1. CASE WaitGo(p)
    BY <1>0, <2>1, WaitGoStep, WaitGoLine DEF LineInv
  <2>2. CASE Calls(p)
    BY <2>2, CallStep
  <2>3. CASE spec.batch > 1 /\ BatchReturns(p)
    BY <1>0, <2>3, BatchReturnsStep, BatchReturnsLine DEF LineInv
  <2>4. CASE ~(spec.batch > 1) /\ PushReturns(p)
    BY <1>0, <2>4, PushReturnsStep, PushReturnsLine DEF LineInv
  <2> QED BY <1>1, <2>1, <2>2, <2>3, <2>4 DEF Produces
<1>2. ASSUME NEW c \in Consumers, Consumes(c) PROVE LineInv' /\ LineStep
  <2>1. CASE WaitGo(c)
    BY <1>0, <2>1, WaitGoStep, WaitGoLine DEF LineInv
  <2>2. CASE PopReturns(c)
    BY <1>0, <2>2, PopReturnsStep, PopReturnsLine DEF LineInv
  <2>3. CASE Calls(c)
    BY <2>3, CallStep
  <2> QED BY <1>2, <2>1, <2>2, <2>3 DEF Consumes
<1>3. CASE RunMain
  BY <1>0, <1>3, RunMainStep, RunMainLine DEF LineInv
<1>4. ASSUME NEW t \in Producers \cup Consumers, WakeAlone(t), UNCHANGED running
      PROVE  LineInv' /\ LineStep
  BY <1>0, <1>4, WakeAloneStep, WakeAloneLine DEF LineInv
<1>5. CASE UNCHANGED vars
  <2>1. UNCHANGED <<ring, head, size, closed, mu, pc, done, buf, spec, seq, claimed>>
    BY <1>5 DEF vars, queue, items
  <2>2. Types' /\ Holding' /\ WithinQuota' /\ InHand'
    BY <1>0, <2>1 DEF Types, Holding, WithinQuota, InHand, Quota
  <2>3. Same
    BY <2>1, SameItems DEF Same, Told, items
  <2> QED BY <2>2, <2>3 DEF LineInv, LineStep
<1> QED BY <1>1, <1>2, <1>3, <1>4, <1>5 DEF Next, Over

\* At the start the line is empty and open.
LEMMA InitLine ==
  ASSUME Init
  PROVE  LineInv /\ Line = <<>> /\ ~closed /\ claimed = [c \in Consumers |-> <<>>] /\ Told = {}
<1>1. Types
  <2>1. /\ spec \in RunSpecs /\ pc = [t \in Threads |-> pc[t]] /\ mu \in Threads \cup {Free}
        /\ ring \in [0..(N - 1) -> Contents] /\ head \in 0..(N - 1) /\ size \in 0..N
        /\ done \in [Producers -> Nat] /\ seq \in [Producers -> Nat]
    BY Params DEF Init, QueueInit, Contents
  <2>2. closed \in BOOLEAN
    BY DEF Init, QueueInit
  <2>3. buf \in [Consumers -> Seq(Contents)] /\ claimed \in [Consumers -> Seq(Contents)]
    <3>1. <<>> \in Seq(Contents)
      OBVIOUS
    <3> QED BY <3>1 DEF Init, QueueInit
  <2> QED BY <2>1, <2>2, <2>3 DEF Types
<1>2. Holding /\ InHand
  BY Params DEF Init, QueueInit, Holding, InHand
<1>3. WithinQuota
  <2>1. Quota \in Nat
    BY QuotaType DEF Init
  <2> QED BY <2>1, Params DEF Init, WithinQuota
<1>4. Line = <<>>
  BY DEF Init, QueueInit, Line
<1>5. Told = {}
  BY Params DEF Init, Told
<1> QED BY <1>1, <1>2, <1>3, <1>4, <1>5 DEF LineInv, Init, QueueInit

\* What steps do to the line is what WorkQueue allows.
LEMMA LineImplements ==
  ASSUME LineInv, LineStep
  PROVE  [Abstract!Next]_<<Line, ~closed, claimed, Told>>
<1>0. Types /\ Line \in Seq(Contents) /\ Len(Line) = size /\ size \in Nat
  BY LineType, Params DEF LineInv, Types
<1>1. CASE Same
  BY <1>1 DEF Same
<1>2. CASE Accepting
  <2>1. PICK x \in Events : ~closed /\ size < N /\ Put(x) /\ UNCHANGED <<closed, claimed, Told>>
    BY <1>2 DEF Accepting
  <2>2. Line' = Append(Line, x)
    BY <1>0, <2>1, PutAppends DEF Contents
  <2>3. Abstract!Accept
    BY <1>0, <2>1, <2>2 DEF Abstract!Accept
  <2> QED BY <2>3 DEF Abstract!Next
<1>3. CASE Giving
  <2>1. PICK c \in Consumers :
          /\ size > 0 /\ c \notin Told /\ Take(c)
          /\ claimed' = [claimed EXCEPT ![c] = Append(claimed[c], ring[head])]
          /\ UNCHANGED <<closed, Told>>
    BY <1>3 DEF Giving
  <2>2. Line # <<>> /\ Head(Line) = ring[head] /\ Line' = Tail(Line)
    BY <1>0, <2>1, TakeHeads
  <2>3. Abstract!Give(c)
    BY <2>1, <2>2 DEF Abstract!Give
  <2> QED BY <2>3 DEF Abstract!Next
<1>4. CASE Shutting
  <2>1. CASE closed
    BY <1>4, <2>1 DEF Shutting
  <2>2. CASE ~closed
    BY <1>4, <2>2 DEF Shutting, Abstract!Shut, Abstract!Next
  <2> QED BY <2>1, <2>2
<1>5. CASE Draining
  <2>1. PICK c \in Consumers :
          closed /\ size = 0 /\ Told' = Told \cup {c} /\ UNCHANGED <<Line, closed, claimed>>
    BY <1>5 DEF Draining
  <2>2. Line = <<>>
    BY <1>0, <2>1
  <2>3. Abstract!SayDrained(c)
    BY <2>1, <2>2 DEF Abstract!SayDrained
  <2> QED BY <2>3 DEF Abstract!Next
<1> QED BY <1>1, <1>2, <1>3, <1>4, <1>5 DEF LineStep

\* The invariant of the driver and its MutexQueue: who has mu_, what is in hand and
\* how far producers have got.
THEOREM QueueInvariant == Spec => []LineInv
<1>1. Init => LineInv
  BY InitLine
<1>2. LineInv /\ [Next \/ Over]_vars => LineInv'
  BY NextStep
<1> QED BY <1>1, <1>2, PTL DEF Spec

\* MutexQueue under the driver is the line that WorkQueue promises: what is accepted is
\* given out once, in order, nothing is accepted after close(), and drained is final.
THEOREM QueueIsALine == Spec => ImplementsWorkQueue
<1>1. Init => Abstract!Init
  BY InitLine DEF Abstract!Init
<1>2. LineInv /\ [Next \/ Over]_vars => [Abstract!Next]_<<Line, ~closed, claimed, Told>>
  BY NextStep, LineImplements
<1> QED BY <1>1, <1>2, QueueInvariant, PTL DEF Spec, ImplementsWorkQueue, Abstract!Spec

-----------------------------------------------------------------------------
(* Sums over finite sets. *)

\* What holds of the empty set, and of any set of which it holds after one element has
\* been taken out, holds of every finite set.
LEMMA TakingOut ==
  ASSUME NEW D, IsFiniteSet(D), NEW F \in SUBSET (SUBSET D), {} \in F,
         \A s \in SUBSET D : s # {} /\ s \ {CHOOSE x \in s : TRUE} \in F => s \in F
  PROVE  F = SUBSET D
<1> DEFINE R == StrictSubsetOrdering(D)
           T == (SUBSET D) \ F
<1>1. IsWellFoundedOn(R, FiniteSubsetsOf(D))
  BY FS_StrictSubsetOrderingWellFounded
<1>2. T \subseteq FiniteSubsetsOf(D)
  BY FS_Subset DEF FiniteSubsetsOf
<1>3. \A s, r \in SUBSET D : r \subseteq s /\ r # s => <<r, s>> \in R
  BY DEF StrictSubsetOrdering
<1> HIDE DEF R
<1> SUFFICES ASSUME T # {} PROVE FALSE
  OBVIOUS
<1>4. {} \notin T
  OBVIOUS
<1>5. \A s \in T : s \in SUBSET D /\ s \ {CHOOSE x \in s : TRUE} \in SUBSET D
  OBVIOUS
<1>6. \A s \in T : s # {} => s \ {CHOOSE x \in s : TRUE} \in T
  BY <1>5
<1> HIDE DEF T
<1>7. PICK s \in T : \A r \in T : <<r, s>> \notin R
  BY <1>1, <1>2, WFMin
<1>8. s # {} /\ (CHOOSE x \in s : TRUE) \in s
  BY <1>4, <1>7
<1>9. <<s \ {CHOOSE x \in s : TRUE}, s>> \in R
  BY <1>3, <1>5, <1>7, <1>8
<1> QED BY <1>6, <1>7, <1>8, <1>9

\* One pair for each unit that f counts for an element of s.
Units(f, s) == UNION {{<<x, i>> : i \in 1..f[x]} : x \in s}

\* There are as many units as all counts together.
LEMMA UnitsOfOneMore ==
  ASSUME NEW D, IsFiniteSet(D), NEW f, DOMAIN f = D, \A x \in D : f[x] \in Nat
  PROVE  \A s \in SUBSET D :
           /\ IsFiniteSet(Units(f, s)) /\ Cardinality(Units(f, s)) \in Nat
           /\ \A x \in s : Cardinality(Units(f, s)) = f[x] + Cardinality(Units(f, s \ {x}))
<1>1. \A x \in D : LET own == {<<x, i>> : i \in 1..f[x]} IN
        IsFiniteSet(own) /\ Cardinality(own) = f[x]
  <2> SUFFICES ASSUME NEW x \in D
               PROVE  LET own == {<<x, i>> : i \in 1..f[x]} IN
                        IsFiniteSet(own) /\ Cardinality(own) = f[x]
    OBVIOUS
  <2> DEFINE own == {<<x, i>> : i \in 1..f[x]}
             pair == [i \in 1..f[x] |-> <<x, i>>]
  <2>0. f[x] \in Nat
    OBVIOUS
  <2>1. pair \in Bijection(1..f[x], own)
    BY DEF Bijection, Injection, Surjection, IsInjective
  <2>2. IsFiniteSet(1..f[x]) /\ Cardinality(1..f[x]) = f[x]
    BY <2>0, FS_Interval
  <2>3. ExistsBijection(1..f[x], own)
    BY <2>1 DEF ExistsBijection
  <2> QED BY <2>2, <2>3, FS_Bijection
<1>2. \A s \in SUBSET D : IsFiniteSet(Units(f, s))
  <2> DEFINE F == {s \in SUBSET D : IsFiniteSet(Units(f, s))}
  <2>1. {} \in F
    <3>1. Units(f, {}) = {}
      BY DEF Units
    <3> QED BY <3>1, FS_EmptySet
  <2>2. ASSUME NEW s \in SUBSET D, s # {}, s \ {CHOOSE x \in s : TRUE} \in F PROVE s \in F
    <3> DEFINE x == CHOOSE y \in s : TRUE
               own == {<<x, i>> : i \in 1..f[x]}
    <3>1. x \in s
      BY <2>2
    <3> HIDE DEF x
    <3>2. Units(f, s) = own \cup Units(f, s \ {x})
      BY <3>1 DEF Units
    <3>3. IsFiniteSet(own) /\ IsFiniteSet(Units(f, s \ {x}))
      BY <1>1, <2>2, <3>1 DEF x
    <3>4. IsFiniteSet(own \cup Units(f, s \ {x}))
      BY <3>3, FS_Union
    <3> QED BY <3>2, <3>4
  <2>3. F = SUBSET D
    <3> HIDE DEF F
    <3>1. F \in SUBSET (SUBSET D)
      BY DEF F
    <3> QED BY <2>1, <2>2, <3>1, TakingOut
  <2> QED BY <2>3
<1>3. ASSUME NEW s \in SUBSET D, NEW x \in s
      PROVE  Cardinality(Units(f, s)) = f[x] + Cardinality(Units(f, s \ {x}))
  <2> DEFINE own == {<<x, i>> : i \in 1..f[x]}
             rest == Units(f, s \ {x})
  <2>1. Units(f, s) = own \cup rest
    BY DEF Units
  <2>2. own \cap rest = {}
    BY DEF Units
  <2>3. IsFiniteSet(own) /\ Cardinality(own) = f[x] /\ IsFiniteSet(rest)
    BY <1>1, <1>2
  <2>4. Cardinality(rest) \in Nat /\ Cardinality({}) = 0 /\ f[x] \in Nat
    BY <2>3, FS_CardinalityType, FS_EmptySet
  <2> HIDE DEF own, rest
  <2>5. Cardinality(own \cup rest) = Cardinality(own) + Cardinality(rest) - Cardinality(own \cap rest)
    BY <2>3, FS_Union
  <2>6. Cardinality(own \cup rest) = f[x] + Cardinality(rest)
    <3>1. Cardinality(own \cap rest) = 0
      BY <2>2, <2>4
    <3> QED BY <2>3, <2>4, <2>5, <3>1
  <2>7. Cardinality(Units(f, s)) = f[x] + Cardinality(rest)
    BY <2>1, <2>6
  <2> QED BY <2>7 DEF rest
<1> QED BY <1>2, <1>3, FS_CardinalityType

\* g has the sums of f over the sets of D, each from that of a smaller one.
Accumulates(g, f, D) ==
  /\ g[{}] = 0
  /\ \A s \in SUBSET D : s # {} => LET x == CHOOSE y \in s : TRUE IN g[s] = f[x] + g[s \ {x}]

\* SumFunction adds one element after the other to the sum of the others.
LEMMA SumByOne ==
  ASSUME NEW D, IsFiniteSet(D), NEW f, DOMAIN f = D, \A x \in D : f[x] \in Nat
  PROVE  \E g : SumFunction(f) = g[D] /\ Accumulates(g, f, D)
<1> DEFINE G(g) == g = [s \in SUBSET D |-> IF s = {} THEN 0
                          ELSE f[CHOOSE x \in s : TRUE] + g[s \ {CHOOSE x \in s : TRUE}]]
           h == [s \in SUBSET D |-> Cardinality(Units(f, s))]
           g == CHOOSE k : G(k)
<1>1. G(h)
  <2>1. h[{}] = 0
    <3>1. Units(f, {}) = {}
      BY DEF Units
    <3> QED BY <3>1, FS_EmptySet
  <2>2. ASSUME NEW s \in SUBSET D, s # {}
        PROVE  h[s] = f[CHOOSE x \in s : TRUE] + h[s \ {CHOOSE x \in s : TRUE}]
    <3> DEFINE x == CHOOSE y \in s : TRUE
    <3>1. x \in s
      BY <2>2
    <3> HIDE DEF x
    <3>2. h[s] = f[x] + h[s \ {x}]
      BY <3>1, UnitsOfOneMore
    <3> QED BY <3>2 DEF x
  <2> QED BY <2>1, <2>2
<1>2. G(g)
  BY <1>1
<1>3. SumFunction(f) = g[D]
  BY DEF SumFunction, SumFunctionOnSet, FoldFunctionOnSet, MapThenFoldSet
<1> HIDE DEF g
<1>4. g[{}] = 0
  BY <1>2
<1>5. \A s \in SUBSET D : s # {} =>
        LET x == CHOOSE y \in s : TRUE IN g[s] = f[x] + g[s \ {x}]
  BY <1>2
<1> QED BY <1>3, <1>4, <1>5 DEF Accumulates

\* A sum of zeros is zero.
LEMMA SumOfZeros ==
  ASSUME NEW D, IsFiniteSet(D), NEW f, DOMAIN f = D, \A x \in D : f[x] = 0
  PROVE  SumFunction(f) = 0
<1>1. PICK g : SumFunction(f) = g[D] /\ Accumulates(g, f, D)
  BY SumByOne
<1> DEFINE F == {s \in SUBSET D : g[s] = 0}
<1>2. ASSUME NEW s \in SUBSET D, s # {}, s \ {CHOOSE x \in s : TRUE} \in F PROVE s \in F
  <2> DEFINE x == CHOOSE y \in s : TRUE
  <2>1. x \in s /\ x \in D
    BY <1>2
  <2>2. g[s] = f[x] + g[s \ {x}] /\ g[s \ {x}] = 0
    BY <1>1, <1>2 DEF Accumulates
  <2> HIDE DEF x
  <2> QED BY <2>1, <2>2
<1>3. F \in SUBSET (SUBSET D) /\ {} \in F
  BY <1>1 DEF Accumulates
<1> HIDE DEF F
<1>4. F = SUBSET D
  BY <1>2, <1>3, TakingOut
<1> QED BY <1>1, <1>4 DEF F

\* The sum of what adds up in every place adds up.
LEMMA SumOfSums ==
  ASSUME NEW D, IsFiniteSet(D),
         NEW a, DOMAIN a = D, NEW b, DOMAIN b = D, NEW c, DOMAIN c = D, NEW f, DOMAIN f = D,
         \A x \in D : a[x] \in Nat /\ b[x] \in Nat /\ c[x] \in Nat /\ f[x] = a[x] + b[x] + c[x]
  PROVE  SumFunction(f) = SumFunction(a) + SumFunction(b) + SumFunction(c)
<1>1. PICK ga : SumFunction(a) = ga[D] /\ Accumulates(ga, a, D)
  BY SumByOne
<1>2. PICK gb : SumFunction(b) = gb[D] /\ Accumulates(gb, b, D)
  BY SumByOne
<1>3. PICK gc : SumFunction(c) = gc[D] /\ Accumulates(gc, c, D)
  BY SumByOne
<1>4. PICK gf : SumFunction(f) = gf[D] /\ Accumulates(gf, f, D)
  <2>1. \A x \in D : f[x] \in Nat
    OBVIOUS
  <2> QED BY <2>1, SumByOne
<1> DEFINE F == {s \in SUBSET D : /\ ga[s] \in Nat /\ gb[s] \in Nat /\ gc[s] \in Nat
                                  /\ gf[s] = ga[s] + gb[s] + gc[s]}
<1>5. ASSUME NEW s \in SUBSET D, s # {}, s \ {CHOOSE x \in s : TRUE} \in F PROVE s \in F
  <2> DEFINE x == CHOOSE y \in s : TRUE
  <2>1. x \in s /\ x \in D
    BY <1>5
  <2>2. ga[s] = a[x] + ga[s \ {x}] /\ gb[s] = b[x] + gb[s \ {x}]
        /\ gc[s] = c[x] + gc[s \ {x}] /\ gf[s] = f[x] + gf[s \ {x}]
    BY <1>1, <1>2, <1>3, <1>4, <1>5 DEF Accumulates
  <2>3. ga[s \ {x}] \in Nat /\ gb[s \ {x}] \in Nat /\ gc[s \ {x}] \in Nat
        /\ gf[s \ {x}] = ga[s \ {x}] + gb[s \ {x}] + gc[s \ {x}]
    BY <1>5
  <2> HIDE DEF x
  <2>4. a[x] \in Nat /\ b[x] \in Nat /\ c[x] \in Nat /\ f[x] = a[x] + b[x] + c[x]
    BY <2>1
  <2>5. ga[s] \in Nat /\ gb[s] \in Nat /\ gc[s] \in Nat /\ gf[s] = ga[s] + gb[s] + gc[s]
    BY <2>2, <2>3, <2>4
  <2> QED BY <2>5
<1>6. F \in SUBSET (SUBSET D) /\ {} \in F
  BY <1>1, <1>2, <1>3, <1>4 DEF Accumulates
<1> HIDE DEF F
<1>7. F = SUBSET D
  BY <1>5, <1>6, TakingOut
<1>8. D \in F
  BY <1>7
<1> QED BY <1>1, <1>2, <1>3, <1>4, <1>8 DEF F

\* Bags of one of each kind, no kind in two of them, add up to one of every kind.
LEMMA SumOfBags ==
  ASSUME NEW D, IsFiniteSet(D), NEW f, DOMAIN f = D, NEW Kinds,
         \A d \in D : f[d] = SetToBag(Kinds[d]),
         \A d, e \in D : d # e => Kinds[d] \cap Kinds[e] = {}
  PROVE  Together(f) = SetToBag(UNION {Kinds[d] : d \in D})
<1> DEFINE U(s) == UNION {Kinds[d] : d \in s}
           G(g) == g = [s \in SUBSET D |-> IF s = {} THEN EmptyBag
                          ELSE f[CHOOSE x \in s : TRUE] (+) g[s \ {CHOOSE x \in s : TRUE}]]
           h == [s \in SUBSET D |-> SetToBag(U(s))]
           g == CHOOSE k : G(k)
<1>1. \A A, B : A \cap B = {} => SetToBag(A) (+) SetToBag(B) = SetToBag(A \cup B)
  BY DEF SetToBag, (+)
<1>2. SetToBag({}) = EmptyBag
  BY DEF EmptyBag
<1>3. ASSUME NEW s \in SUBSET D, s # {}
      PROVE  SetToBag(U(s)) = f[CHOOSE x \in s : TRUE] (+) SetToBag(U(s \ {CHOOSE x \in s : TRUE}))
  <2> DEFINE x == CHOOSE y \in s : TRUE
  <2>1. x \in s /\ x \in D
    BY <1>3
  <2> HIDE DEF x
  <2>2. U(s) = Kinds[x] \cup U(s \ {x}) /\ Kinds[x] \cap U(s \ {x}) = {}
    BY <2>1
  <2>3. f[x] = SetToBag(Kinds[x])
    BY <2>1
  <2> HIDE DEF U
  <2>4. SetToBag(U(s)) = f[x] (+) SetToBag(U(s \ {x}))
    <3>1. SetToBag(Kinds[x]) (+) SetToBag(U(s \ {x})) = SetToBag(Kinds[x] \cup U(s \ {x}))
      BY <1>1, <2>2, Zenon
    <3> QED BY <2>2, <2>3, <3>1, Zenon
  <2> QED BY <2>4 DEF x
<1>4. U({}) = {}
  OBVIOUS
<1> HIDE DEF U
<1>5. G(h)
  <2>1. h[{}] = EmptyBag
    BY <1>2, <1>4
  <2> QED BY <1>3, <2>1
<1>6. G(g)
  BY <1>5
<1>7. Together(f) = g[D]
  BY DEF Together, FoldFunction, FoldFunctionOnSet, MapThenFoldSet
<1> HIDE DEF g
<1> DEFINE F == {s \in SUBSET D : g[s] = SetToBag(U(s))}
<1>8. ASSUME NEW s \in SUBSET D, s # {}, s \ {CHOOSE x \in s : TRUE} \in F PROVE s \in F
  BY <1>3, <1>6, <1>8
<1>9. F \in SUBSET (SUBSET D) /\ {} \in F
  BY <1>2, <1>4, <1>6
<1> HIDE DEF F
<1>10. F = SUBSET D
  BY <1>8, <1>9, TakingOut
<1>11. D \in F
  BY <1>10
<1> QED BY <1>7, <1>11 DEF F, U

-----------------------------------------------------------------------------
(* Lists of events. *)

\* The range of a list with an item more, and of its tail.
LEMMA RangeOfAppend ==
  ASSUME NEW A, NEW list \in Seq(A), NEW x \in A
  PROVE  Range(Append(list, x)) = Range(list) \cup {x}
<1>1. /\ Len(list) \in Nat /\ DOMAIN list = 1..Len(list)
      /\ Append(list, x) \in Seq(A) /\ Len(Append(list, x)) = Len(list) + 1
      /\ \A i \in 1..Len(list) : Append(list, x)[i] = list[i]
      /\ Append(list, x)[Len(list) + 1] = x
  BY AppendProperties, LenProperties
<1>2. DOMAIN Append(list, x) = 1..(Len(list) + 1)
  BY <1>1, LenProperties
<1>3. \A i : i \in 1..(Len(list) + 1) <=> i \in 1..Len(list) \/ i = Len(list) + 1
  BY <1>1
<1> QED BY <1>1, <1>2, <1>3 DEF Range

LEMMA RangeOfTail ==
  ASSUME NEW A, NEW list \in Seq(A), list # <<>>
  PROVE  Range(list) = Range(Tail(list)) \cup {Head(list)}
<1>1. /\ Len(list) \in Nat \ {0} /\ DOMAIN list = 1..Len(list)
      /\ Tail(list) \in Seq(A) /\ Len(Tail(list)) = Len(list) - 1
      /\ \A i \in 1..(Len(list) - 1) : Tail(list)[i] = list[i + 1]
  BY HeadTailProperties, LenProperties, EmptySeq
<1>2. DOMAIN Tail(list) = 1..(Len(list) - 1) /\ Head(list) = list[1]
  BY <1>1, LenProperties
<1>3. \A i \in 1..Len(list) : i = 1 \/ (i - 1 \in 1..(Len(list) - 1) /\ list[i] = Tail(list)[i - 1])
  BY <1>1
<1>4. \A i \in 1..(Len(list) - 1) : i + 1 \in 1..Len(list)
  BY <1>1
<1>5. 1 \in 1..Len(list)
  BY <1>1
<1>6. Range(list) \subseteq Range(Tail(list)) \cup {Head(list)}
  <2> SUFFICES ASSUME NEW i \in 1..Len(list)
               PROVE  list[i] \in Range(Tail(list)) \/ list[i] = Head(list)
    BY <1>1 DEF Range
  <2>1. CASE i = 1
    BY <1>2, <2>1
  <2>2. CASE i - 1 \in DOMAIN Tail(list) /\ list[i] = Tail(list)[i - 1]
    BY <2>2 DEF Range
  <2> QED BY <1>2, <1>3, <2>1, <2>2
<1>7. Range(Tail(list)) \cup {Head(list)} \subseteq Range(list)
  BY <1>1, <1>2, <1>4, <1>5 DEF Range
<1> QED BY <1>6, <1>7

\* Events have a producer and a number.
LEMMA EventFields ==
  \A e \in Events : e.producer \in Producers /\ e.seq \in Nat /\ e = Event(e.producer, e.seq)
<1>1. Seqs \subseteq Nat
  BY DriverAssumption DEF Seqs, RunSpecType
<1> QED BY <1>1 DEF Events, Event

\* An event with a later number than all of its producer's so far may join the line.
LEMMA PutDelivers ==
  ASSUME NEW list, NEW got, NEW pushed, Delivered(list, got, pushed), NEW p \in Producers, NEW n \in Nat,
         Event(p, n) \in Events, DOMAIN pushed = Producers, \A s \in pushed[p] : s < n
  PROVE  Delivered(Append(list, Event(p, n)), got, [pushed EXCEPT ![p] = @ \cup {n}])
<1> DEFINE e == Event(p, n)
           more == Append(list, e)
           plus == [pushed EXCEPT ![p] = @ \cup {n}]
           before == UNION {{Event(q, s) : s \in pushed[q]} : q \in Producers}
           after == UNION {{Event(q, s) : s \in plus[q]} : q \in Producers}
           taken == UNION {Range(got[c]) : c \in Consumers}
<1>0. e \in Events /\ e.producer = p /\ e.seq = n
  BY DEF Event
<1>1. /\ list \in Seq(Events) /\ Len(list) \in Nat /\ DOMAIN list = 1..Len(list)
      /\ more \in Seq(Events) /\ DOMAIN more = 1..(Len(list) + 1)
      /\ \A i \in 1..Len(list) : more[i] = list[i]
      /\ more[Len(list) + 1] = e
  <2>1. list \in Seq(Events)
    BY DEF Delivered
  <2>2. /\ more \in Seq(Events) /\ Len(more) = Len(list) + 1
        /\ \A i \in 1..Len(list) : more[i] = list[i]
        /\ more[Len(list) + 1] = e
    BY <1>0, <2>1, AppendProperties
  <2> QED BY <2>1, <2>2, LenProperties
<1>2. \A x : x \in Range(list) \/ (\E c \in Consumers : x \in Range(got[c])) =>
        (x.producer = p => x.seq < n)
  <2> SUFFICES ASSUME NEW x, x \in Range(list) \/ (\E c \in Consumers : x \in Range(got[c])),
                      x.producer = p
               PROVE  x.seq < n
    OBVIOUS
  <2>1. x \in UNION {{Event(q, s) : s \in pushed[q]} : q \in Producers}
    BY DEF Delivered
  <2>2. PICK q \in Producers : \E s \in pushed[q] : x = Event(q, s)
    BY <2>1
  <2> QED BY <2>2 DEF Event
<1>3. \A i \in 1..Len(list) : list[i].producer = p => list[i].seq < n
  BY <1>1, <1>2 DEF Range
<1>4. \A c \in Consumers : \A i \in DOMAIN got[c] : got[c][i].producer = p => got[c][i].seq < n
  BY <1>2 DEF Range
<1> HIDE DEF e, more, plus
<1>5. InOrder(more)
  <2> SUFFICES ASSUME NEW i \in 1..(Len(list) + 1), NEW j \in 1..(Len(list) + 1),
                      i < j, more[i].producer = more[j].producer
               PROVE  more[i].seq < more[j].seq
    BY <1>1 DEF InOrder
  <2>1. i \in 1..Len(list)
    BY <1>1
  <2>2. CASE j = Len(list) + 1
    BY <1>0, <1>1, <1>3, <2>1, <2>2
  <2>3. CASE j \in 1..Len(list)
    <3>1. InOrder(list)
      BY DEF Delivered
    <3> QED BY <1>1, <2>1, <2>3, <3>1 DEF InOrder
  <2> QED BY <1>1, <2>2, <2>3
<1>6. \A c \in Consumers :
       /\ got[c] \in Seq(Events) /\ InOrder(got[c])
       /\ \A i \in DOMAIN got[c], j \in DOMAIN more :
            got[c][i].producer = more[j].producer => got[c][i].seq < more[j].seq
       /\ \A d \in Consumers \ {c} : Range(got[c]) \cap Range(got[d]) = {}
  <2> SUFFICES ASSUME NEW c \in Consumers
               PROVE  \A i \in DOMAIN got[c], j \in DOMAIN more :
                        got[c][i].producer = more[j].producer => got[c][i].seq < more[j].seq
    BY DEF Delivered
  <2> SUFFICES ASSUME NEW i \in DOMAIN got[c], NEW j \in 1..(Len(list) + 1),
                      got[c][i].producer = more[j].producer
               PROVE  got[c][i].seq < more[j].seq
    BY <1>1
  <2>2. CASE j = Len(list) + 1
    BY <1>0, <1>1, <1>4, <2>2
  <2>3. CASE j \in 1..Len(list)
    <3>1. more[j] = list[j] /\ j \in DOMAIN list
      BY <1>1, <2>3
    <3>2. got[c][i].producer = list[j].producer => got[c][i].seq < list[j].seq
      BY <3>1 DEF Delivered
    <3> QED BY <3>1, <3>2
  <2> QED BY <1>1, <2>2, <2>3
<1>7. Range(more) = Range(list) \cup {e}
  BY <1>0, <1>1, RangeOfAppend DEF more
<1>8. after = before \cup {e}
  <2>1. plus[p] = pushed[p] \cup {n} /\ \A q \in Producers : q # p => plus[q] = pushed[q]
    BY DEF plus
  <2>2. \A x : (\E q \in Producers : \E s \in plus[q] : x = Event(q, s))
               <=> (\E q \in Producers : \E s \in pushed[q] : x = Event(q, s)) \/ x = e
    BY <2>1, Zenon DEF e
  <2>3. \A x : x \in after <=> (\E q \in Producers : \E s \in plus[q] : x = Event(q, s))
    OBVIOUS
  <2>4. \A x : x \in before <=> (\E q \in Producers : \E s \in pushed[q] : x = Event(q, s))
    OBVIOUS
  <2> HIDE DEF before, after
  <2>5. \A x : x \in after <=> x \in before \/ x = e
    BY <2>2, <2>3, <2>4, Zenon
  <2> QED BY <2>5
<1>9. Range(list) \cup taken = before
  BY DEF Delivered
<1>10. Range(more) \cup taken = after
  <2> HIDE DEF taken, before, after
  <2> QED BY <1>7, <1>8, <1>9
<1> QED BY <1>1, <1>5, <1>6, <1>10 DEF Delivered, e, more, plus

\* The head of the line may go to any consumer.
LEMMA TakeDelivers ==
  ASSUME NEW list, NEW got, NEW pushed, Delivered(list, got, pushed), NEW c \in Consumers,
         DOMAIN got = Consumers, list # <<>>
  PROVE  Delivered(Tail(list), [got EXCEPT ![c] = Append(got[c], Head(list))], pushed)
<1> DEFINE e == Head(list)
           rest == Tail(list)
           more == Append(got[c], e)
           new == [got EXCEPT ![c] = more]
<1>1. /\ list \in Seq(Events) /\ DOMAIN list = 1..Len(list) /\ Len(list) \in Nat \ {0}
      /\ e \in Events /\ e = list[1]
      /\ rest \in Seq(Events) /\ DOMAIN rest = 1..(Len(list) - 1)
      /\ \A i \in 1..(Len(list) - 1) : rest[i] = list[i + 1]
  <2>1. list \in Seq(Events)
    BY DEF Delivered
  <2>2. /\ e \in Events /\ rest \in Seq(Events) /\ Len(rest) = Len(list) - 1
        /\ \A i \in 1..Len(rest) : rest[i] = list[i + 1]
    BY <2>1, HeadTailProperties
  <2>3. Len(list) \in Nat \ {0} /\ DOMAIN list = 1..Len(list) /\ DOMAIN rest = 1..Len(rest)
    BY <2>1, <2>2, LenProperties, EmptySeq
  <2>4. e = list[1]
    BY <2>1, <2>3
  <2> QED BY <2>1, <2>2, <2>3, <2>4
<1>2. /\ got[c] \in Seq(Events) /\ DOMAIN got[c] = 1..Len(got[c]) /\ Len(got[c]) \in Nat
      /\ more \in Seq(Events) /\ DOMAIN more = 1..(Len(got[c]) + 1)
      /\ \A i \in 1..Len(got[c]) : more[i] = got[c][i]
      /\ more[Len(got[c]) + 1] = e
  <2>1. got[c] \in Seq(Events)
    BY DEF Delivered
  <2>2. /\ more \in Seq(Events) /\ Len(more) = Len(got[c]) + 1
        /\ \A i \in 1..Len(got[c]) : more[i] = got[c][i]
        /\ more[Len(got[c]) + 1] = e
    BY <1>1, <2>1, AppendProperties
  <2> QED BY <2>1, <2>2, LenProperties
<1>3. new[c] = more /\ \A d \in Consumers : d # c => new[d] = got[d]
  OBVIOUS
<1>4. \A d \in Consumers : \A i \in DOMAIN got[d] : \A j \in 1..Len(list) :
        got[d][i].producer = list[j].producer => got[d][i].seq < list[j].seq
  BY <1>1 DEF Delivered
<1>5. \A i, j \in 1..Len(list) :
        i < j /\ list[i].producer = list[j].producer => list[i].seq < list[j].seq
  BY <1>1 DEF Delivered, InOrder
<1>6. \A i, j \in 1..Len(got[c]) :
        i < j /\ got[c][i].producer = got[c][j].producer => got[c][i].seq < got[c][j].seq
  BY <1>2 DEF Delivered, InOrder
<1>7. 1 \in 1..Len(list) /\ \A j \in 1..(Len(list) - 1) : j + 1 \in 1..Len(list) /\ 1 < j + 1
  BY <1>1
<1> HIDE DEF e, rest, more, new
<1>8. InOrder(rest)
  <2> SUFFICES ASSUME NEW i \in 1..(Len(list) - 1), NEW j \in 1..(Len(list) - 1),
                      i < j, rest[i].producer = rest[j].producer
               PROVE  rest[i].seq < rest[j].seq
    BY <1>1 DEF InOrder
  <2>1. /\ rest[i] = list[i + 1] /\ i + 1 \in 1..Len(list)
        /\ rest[j] = list[j + 1] /\ j + 1 \in 1..Len(list) /\ i + 1 < j + 1
    BY <1>1, <1>7
  <2> QED BY <1>5, <2>1
<1>9. InOrder(more)
  <2> SUFFICES ASSUME NEW i \in 1..(Len(got[c]) + 1), NEW j \in 1..(Len(got[c]) + 1),
                      i < j, more[i].producer = more[j].producer
               PROVE  more[i].seq < more[j].seq
    BY <1>2 DEF InOrder
  <2>1. i \in 1..Len(got[c])
    BY <1>2
  <2>2. CASE j = Len(got[c]) + 1
    <3>1. more[j] = list[1] /\ more[i] = got[c][i] /\ i \in DOMAIN got[c]
      BY <1>1, <1>2, <2>1, <2>2
    <3> QED BY <1>4, <1>7, <3>1
  <2>3. CASE j \in 1..Len(got[c])
    BY <1>2, <1>6, <2>1, <2>3
  <2> QED BY <1>2, <2>2, <2>3
<1>10. \A i \in DOMAIN more, j \in DOMAIN rest :
         more[i].producer = rest[j].producer => more[i].seq < rest[j].seq
  <2> SUFFICES ASSUME NEW i \in 1..(Len(got[c]) + 1), NEW j \in 1..(Len(list) - 1),
                      more[i].producer = rest[j].producer
               PROVE  more[i].seq < rest[j].seq
    BY <1>1, <1>2
  <2>1. rest[j] = list[j + 1] /\ j + 1 \in 1..Len(list) /\ 1 < j + 1
    BY <1>1, <1>7
  <2>2. CASE i = Len(got[c]) + 1
    BY <1>1, <1>2, <1>5, <1>7, <2>1, <2>2
  <2>3. CASE i \in 1..Len(got[c])
    BY <1>2, <1>4, <2>1, <2>3
  <2> QED BY <1>2, <2>2, <2>3
<1>11. \A d \in Consumers : d # c => \A i \in DOMAIN got[d], j \in DOMAIN rest :
         got[d][i].producer = rest[j].producer => got[d][i].seq < rest[j].seq
  <2> SUFFICES ASSUME NEW d \in Consumers, NEW i \in DOMAIN got[d], NEW j \in 1..(Len(list) - 1),
                      got[d][i].producer = rest[j].producer
               PROVE  got[d][i].seq < rest[j].seq
    BY <1>1
  <2>1. rest[j] = list[j + 1] /\ j + 1 \in 1..Len(list)
    BY <1>1, <1>7
  <2> QED BY <1>4, <2>1
<1>12. Range(more) = Range(got[c]) \cup {e} /\ Range(list) = Range(rest) \cup {e}
  BY <1>1, <1>2, RangeOfAppend, RangeOfTail DEF more, rest, e
<1>13. \A d \in Consumers : d # c => e \notin Range(got[d])
  <2> SUFFICES ASSUME NEW d \in Consumers, NEW i \in DOMAIN got[d], got[d][i] = e PROVE FALSE
    BY DEF Range
  <2>1. e.seq < e.seq
    BY <1>1, <1>4, <1>7
  <2> QED BY <1>1, <2>1, EventFields
<1>14. \A d, b \in Consumers : d # b => Range(got[d]) \cap Range(got[b]) = {}
  BY DEF Delivered
<1>15. \A d, b \in Consumers : d # b => Range(new[d]) \cap Range(new[b]) = {}
  <2> SUFFICES ASSUME NEW d \in Consumers, NEW b \in Consumers, d # b
               PROVE  Range(new[d]) \cap Range(new[b]) = {}
    OBVIOUS
  <2>1. CASE d = c
    BY <1>3, <1>12, <1>13, <1>14, <2>1
  <2>2. CASE b = c
    BY <1>3, <1>12, <1>13, <1>14, <2>2
  <2>3. CASE d # c /\ b # c
    BY <1>3, <1>14, <2>3
  <2> QED BY <2>1, <2>2, <2>3
<1>16. UNION {Range(new[d]) : d \in Consumers} = {e} \cup UNION {Range(got[d]) : d \in Consumers}
  BY <1>3, <1>12
<1>17. Range(list) \cup UNION {Range(got[d]) : d \in Consumers}
         = UNION {{Event(p, s) : s \in pushed[p]} : p \in Producers}
  BY DEF Delivered
<1>18. Range(rest) \cup UNION {Range(new[d]) : d \in Consumers}
         = UNION {{Event(p, s) : s \in pushed[p]} : p \in Producers}
  BY <1>12, <1>16, <1>17
<1>19. \A d \in Consumers :
       /\ new[d] \in Seq(Events) /\ InOrder(new[d])
       /\ \A i \in DOMAIN new[d], j \in DOMAIN rest :
            new[d][i].producer = rest[j].producer => new[d][i].seq < rest[j].seq
       /\ \A b \in Consumers \ {d} : Range(new[d]) \cap Range(new[b]) = {}
  <2> SUFFICES ASSUME NEW d \in Consumers
               PROVE  /\ new[d] \in Seq(Events) /\ InOrder(new[d])
                      /\ \A i \in DOMAIN new[d], j \in DOMAIN rest :
                           new[d][i].producer = rest[j].producer => new[d][i].seq < rest[j].seq
    BY <1>15
  <2>1. CASE d = c
    BY <1>2, <1>3, <1>9, <1>10, <2>1
  <2>2. CASE d # c
    <3>1. got[d] \in Seq(Events) /\ InOrder(got[d])
      BY DEF Delivered
    <3> QED BY <1>3, <1>11, <2>2, <3>1
  <2> QED BY <2>1, <2>2
<1> QED BY <1>1, <1>8, <1>18, <1>19 DEF Delivered, e, rest, more, new

-----------------------------------------------------------------------------
(* What a step may leave as it was, and what of the books it must keep. *)

\* A thread that does not run may at most be woken.
Quiet(t) == pc'[t] = pc[t] \/ (pc[t] = "asleep" /\ pc'[t] = "woken")

\* The books of a producer, and of a consumer, stay as they are.
SameBooks(p) ==
  /\ accepted'[p] = accepted[p] /\ offered'[p] = offered[p]
  /\ rejected'[p] = rejected[p] /\ refused'[p] = refused[p]
  /\ seq'[p] = seq[p] /\ done'[p] = done[p]
SameTakings(c) ==
  consumed'[c] = consumed[c] /\ torn'[c] = torn[c] /\ claimed'[c] = claimed[c] /\ buf'[c] = buf[c]

\* Being woken changes nothing in the books of a producer, nor does a close that it has
\* not seen.
LEMMA QuietProducer ==
  ASSUME NEW p \in Producers, Accounts(p), Refusals(p), Quiet(p), SameBooks(p),
         spec' = spec, closed => closed'
  PROVE  Accounts(p)' /\ Refusals(p)' /\ Pushed(p)' = Pushed(p)
<1>1. pc'[p] \in {"put", "ok"} <=> pc[p] \in {"put", "ok"}
  BY DEF Quiet
<1>2. Upto(p)' = Upto(p)
  BY <1>1 DEF Upto, SameBooks
<1>3. BatchSize(p)' = BatchSize(p)
  BY DEF BatchSize, Quota, SameBooks
<1>4. /\ pc[p] \in Idle \cup Single => pc'[p] \in Idle \cup Single
      /\ pc[p] \in Idle \cup Batched => pc'[p] \in Idle \cup Batched
      /\ pc'[p] \in Idle => pc[p] \in Idle
      /\ pc'[p] = "batch_done" <=> pc[p] = "batch_done"
      /\ pc'[p] = "finished" <=> pc[p] = "finished"
      /\ pc'[p] = "closed" => pc[p] = "closed"
  BY DEF Quiet, Idle, Single, Batched
<1>5. Accounts(p)'
  BY <1>2, <1>3, <1>4 DEF Accounts, SameBooks
<1>6. Refusals(p)'
  BY <1>4 DEF Refusals, SameBooks
<1>7. Pushed(p)' = Pushed(p)
  BY <1>2 DEF Pushed, SameBooks
<1> QED BY <1>5, <1>6, <1>7

\* Being woken changes nothing in the books of a consumer.
LEMMA QuietConsumer ==
  ASSUME NEW c \in Consumers, Consumption(c), Quiet(c), SameTakings(c)
  PROVE  Consumption(c)'
  BY DEF Consumption, Quiet, SameTakings

\* The same line, the same claims and the same pushes balance as they did.
LEMMA SameDelivers ==
  ASSUME Delivery, Line' = Line, claimed' = claimed, \A p \in Producers : Pushed(p)' = Pushed(p)
  PROVE  Delivery'
<1>1. [p \in Producers |-> Pushed(p)]' = [p \in Producers |-> Pushed(p)]
  OBVIOUS
<1>2. Delivery' = Delivered(Line', claimed', [p \in Producers |-> Pushed(p)]')
  BY DEF Delivery
<1> QED BY <1>1, <1>2 DEF Delivery

\* The step of one thread keeps the books if it keeps those of that thread.
LEMMA OthersKeepTheirs ==
  ASSUME BooksInv, NEW t, spec' = spec, closed => closed',
         \A p \in Producers : p # t => Quiet(p) /\ SameBooks(p),
         \A c \in Consumers : c # t => Quiet(c) /\ SameTakings(c),
         t \in Producers => Accounts(t)' /\ Refusals(t)',
         t \in Consumers => Consumption(t)',
         BookTypes', Stages', Delivery'
  PROVE  BooksInv'
<1>1. \A p \in Producers : Accounts(p)' /\ Refusals(p)'
  BY QuietProducer DEF BooksInv
<1>2. \A c \in Consumers : Consumption(c)'
  BY QuietConsumer DEF BooksInv
<1> QED BY <1>1, <1>2 DEF BooksInv

\* A thread of the run that goes on with its work is no concern of the calling thread.
LEMMA WorkerGoesOn ==
  ASSUME Stages, NEW t \in Workers, UNCHANGED <<spec, ready, go, closed>>,
         pc'[Main] = pc[Main], \A w \in Workers : w # t => Quiet(w),
         pc[t] \notin {"absent", "start", "finished", "drained"}, pc'[t] \notin {"absent", "start"},
         (\E c \in Consumers : pc'[c] = "drained") => closed /\ size' = 0
  PROVE  Stages'
<1>1. \A w \in Workers : /\ pc'[w] \in {"start", "absent"} <=> pc[w] \in {"start", "absent"}
                         /\ pc[w] = "absent" => pc'[w] = "absent"
                         /\ pc[w] \in {"finished", "drained"} => pc'[w] = pc[w]
  BY DEF Quiet
<1>2. Started' = Started
  BY <1>1 DEF Started
<1>3. Running' = Running /\ \A group : Joined(group) /\ group \subseteq Workers => Joined(group)'
  BY <1>1 DEF Joined, Running
<1>4. Producers \subseteq Workers
  BY DEF Workers
<1>5. \A w \in Workers : w \notin Running' => pc'[w] = "absent"
  BY <1>1, <1>3 DEF Stages
<1> QED BY <1>2, <1>3, <1>4, <1>5 DEF Stages

\* A call of a producer keeps the books, if it puts the next event or nothing.
LEMMA ProducerCall ==
  ASSUME LineInv, BooksInv, NEW p \in Producers, UNCHANGED <<spec, ready, go, seq, books, closed, buf>>,
         Claims, pc'[Main] = pc[Main], \A w \in Workers : w # p => Quiet(w),
         \A q \in Producers : q # p => done'[q] = done[q],
         pc[p] \notin Idle \cup {"batch_done"}, pc'[p] \notin Idle, pc'[p] = "closed" => closed,
         spec.batch = 1 => pc'[p] \in Single /\ done'[p] = done[p],
         spec.batch > 1 => pc'[p] \in Batched /\ done'[p] <= BatchSize(p),
         \/ UNCHANGED items /\ Upto(p)' = Upto(p)
         \/ /\ ~closed /\ size < N /\ Event(p, Upto(p)) \in Events
            /\ Put(Event(p, Upto(p))) /\ Upto(p)' = Upto(p) + 1
  PROVE  BooksInv'
<1>0. Types /\ Stages /\ Delivery /\ Accounts(p) /\ Refusals(p) /\ claimed' = claimed
  BY ClaimsNothing DEF LineInv, BooksInv
<1>1. Upto(p) \in Nat /\ BatchSize(p)' = BatchSize(p) /\ offered[p] \in Nat /\ seq[p] \in Nat
      /\ spec.batch \in Nat /\ spec.batch >= 1
  BY <1>0, QuotaType DEF Upto, Types, BatchSize, Quota, Accounts
<1>2. Accounts(p)'
  <2>1. /\ accepted'[p] = accepted[p] /\ offered'[p] = offered[p] /\ rejected'[p] = rejected[p]
        /\ refused'[p] = refused[p] /\ seq'[p] = seq[p] /\ spec' = spec
    BY DEF books
  <2>2. \A s \in accepted[p] : s < offered[p] /\ s < Upto(p)'
    BY <1>0, <1>1 DEF Accounts
  <2>3. CASE spec.batch = 1
    BY <1>0, <2>1, <2>2, <2>3 DEF Accounts
  <2>4. CASE spec.batch > 1
    <3>1. offered[p] = seq[p]
      BY <1>0, <2>4 DEF Accounts
    <3>2. \A s \in seq[p]..(offered[p] - 1) : FALSE
      BY <1>1, <3>1
    <3> QED BY <1>0, <1>1, <2>1, <2>2, <2>4, <3>1, <3>2 DEF Accounts
  <2> QED BY <1>1, <2>3, <2>4
<1>3. Refusals(p)'
  BY <1>0 DEF Refusals, Idle, books
<1>4. \A q \in Producers : q # p => Quiet(q) /\ SameBooks(q)
  BY DEF SameBooks, books, Workers
<1>5. \A q \in Producers : q # p => Pushed(q)' = Pushed(q)
  BY <1>4, QuietProducer DEF BooksInv
<1>6. \A c \in Consumers : c # p => Quiet(c) /\ SameTakings(c)
  BY <1>0 DEF SameTakings, books, Workers
<1>7. /\ p \notin Consumers /\ p \in Workers
      /\ pc[p] \notin {"absent", "start", "finished", "drained"} /\ pc'[p] \notin {"absent", "start"}
  <2>1. pc[p] \in Idle \cup Single \cup Batched
    BY <1>0, <1>1 DEF Accounts
  <2> QED BY <2>1, Params DEF Workers, Idle, Single, Batched
<1>8. \A c \in Consumers : pc'[c] = "drained" => closed /\ size = 0
  BY <1>0, <1>6, <1>7 DEF Quiet, Stages
<1>9. BookTypes'
  BY DEF BookTypes, BooksInv, books
<1>10. CASE UNCHANGED items /\ Upto(p)' = Upto(p)
  <2>1. Stages'
    BY <1>0, <1>7, <1>8, <1>10, WorkerGoesOn DEF items
  <2>2. Pushed(p)' = Pushed(p)
    BY <1>10 DEF Pushed, books
  <2>3. Delivery'
    BY <1>0, <1>5, <1>10, <2>2, SameItems, SameDelivers
  <2> QED BY <1>2, <1>3, <1>4, <1>6, <1>7, <1>9, <2>1, <2>3, OthersKeepTheirs
<1>11. CASE /\ ~closed /\ size < N /\ Event(p, Upto(p)) \in Events
            /\ Put(Event(p, Upto(p))) /\ Upto(p)' = Upto(p) + 1
  <2>1. Stages'
    BY <1>0, <1>7, <1>8, <1>11, WorkerGoesOn
  <2>2. Line' = Append(Line, Event(p, Upto(p)))
    BY <1>0, <1>11, PutAppends DEF Contents
  <2>3. Pushed(p)' = Pushed(p) \cup {Upto(p)}
    <3>1. seq[p]..(Upto(p)' - 1) = seq[p]..(Upto(p) - 1) \cup {Upto(p)}
      <4>1. seq[p] <= Upto(p)
        BY <1>1, <1>0 DEF Upto, Types
      <4> QED BY <1>1, <1>11, <4>1
    <3> QED BY <3>1 DEF Pushed, books
  <2>4. \A s \in Pushed(p) : s < Upto(p)
    BY <1>0, <1>1 DEF Pushed, Accounts
  <2> DEFINE pushed == [q \in Producers |-> Pushed(q)]
  <2>5. pushed' = [pushed EXCEPT ![p] = @ \cup {Upto(p)}]
    BY <1>5, <2>3
  <2>6. Delivered(Append(Line, Event(p, Upto(p))), claimed, [pushed EXCEPT ![p] = @ \cup {Upto(p)}])
    <3>1. Delivered(Line, claimed, pushed) /\ DOMAIN pushed = Producers /\ pushed[p] = Pushed(p)
      BY <1>0 DEF Delivery
    <3> HIDE DEF pushed
    <3> QED BY <1>1, <1>11, <2>4, <3>1, PutDelivers
  <2>7. Delivered(Line', claimed', pushed')
    BY <1>0, <2>2, <2>5, <2>6
  <2>8. Delivery'
    BY <2>7 DEF Delivery
  <2> QED BY <1>2, <1>3, <1>4, <1>6, <1>7, <1>9, <2>1, <2>8, OthersKeepTheirs
<1> QED BY <1>10, <1>11

\* What is appended to the second of two lists is appended to both.
LEMMA AppendJoins ==
  ASSUME NEW A, NEW list \in Seq(A), NEW one \in Seq(A), NEW two \in Seq(A), NEW x \in A,
         Joins(list, one, two)
  PROVE  Joins(Append(list, x), one, Append(two, x))
<1>1. /\ Len(one) \in Nat /\ Len(two) \in Nat /\ Len(list) = Len(one) + Len(two)
      /\ Len(Append(list, x)) = Len(list) + 1 /\ Len(Append(two, x)) = Len(two) + 1
  BY AppendProperties, LenProperties DEF Joins
<1>2. /\ \A i \in 1..Len(list) : Append(list, x)[i] = list[i]
      /\ Append(list, x)[Len(list) + 1] = x
  BY AppendProperties
<1>3. /\ \A i \in 1..Len(two) : Append(two, x)[i] = two[i]
      /\ Append(two, x)[Len(two) + 1] = x
  BY AppendProperties
<1> DEFINE more == Append(list, x)
           rest == Append(two, x)
<1> HIDE DEF more, rest
<1>4. \A i \in 1..Len(one) : more[i] = one[i]
  <2>1. \A i \in 1..Len(one) : i \in 1..Len(list)
    BY <1>1
  <2> QED BY <1>2, <2>1 DEF Joins, more
<1>5. \A i \in 1..(Len(two) + 1) : more[Len(one) + i] = rest[i]
  <2> SUFFICES ASSUME NEW i \in 1..(Len(two) + 1) PROVE more[Len(one) + i] = rest[i]
    OBVIOUS
  <2>1. CASE i = Len(two) + 1
    <3>1. Len(one) + i = Len(list) + 1
      BY <1>1, <2>1
    <3> QED BY <1>2, <1>3, <2>1, <3>1 DEF more, rest
  <2>2. CASE i \in 1..Len(two)
    <3>1. Len(one) + i \in 1..Len(list)
      BY <1>1, <2>2
    <3>2. more[Len(one) + i] = list[Len(one) + i] /\ rest[i] = two[i]
      BY <1>2, <1>3, <2>2, <3>1 DEF more, rest
    <3> QED BY <2>2, <3>2 DEF Joins
  <2> QED BY <1>1, <2>1, <2>2
<1>6. Len(more) = Len(one) + Len(rest) /\ Len(rest) = Len(two) + 1
  BY <1>1 DEF more, rest
<1>7. Joins(more, one, rest)
  BY <1>4, <1>5, <1>6 DEF Joins
<1> QED BY <1>7 DEF more, rest

\* Moving the head of the second list behind the first.
LEMMA MoveJoins ==
  ASSUME NEW A, NEW list, NEW one \in Seq(A), NEW two \in Seq(A), two # <<>>,
         Joins(list, one, two)
  PROVE  Joins(list, Append(one, Head(two)), Tail(two))
<1>1. /\ Len(two) \in Nat \ {0} /\ Head(two) = two[1] /\ Head(two) \in A
      /\ Len(Tail(two)) = Len(two) - 1
      /\ \A i \in 1..(Len(two) - 1) : Tail(two)[i] = two[i + 1]
  <2>1. Len(two) \in Nat \ {0}
    BY EmptySeq
  <2>2. Head(two) \in A /\ Len(Tail(two)) = Len(two) - 1
        /\ \A i \in 1..Len(Tail(two)) : Tail(two)[i] = two[i + 1]
    BY HeadTailProperties
  <2> QED BY <2>1, <2>2
<1> DEFINE x == Head(two)
           rest == Tail(two)
           more == Append(one, x)
<1>2. x \in A /\ x = two[1]
  BY <1>1
<1>3. Len(rest) = Len(two) - 1 /\ \A i \in 1..(Len(two) - 1) : rest[i] = two[i + 1]
  BY <1>1
<1> HIDE DEF x, rest
<1>4. /\ Len(one) \in Nat /\ Len(more) = Len(one) + 1
      /\ \A i \in 1..Len(one) : more[i] = one[i]
      /\ more[Len(one) + 1] = x
  BY <1>2, AppendProperties, LenProperties
<1> HIDE DEF more
<1>5. /\ Len(list) = Len(one) + Len(two)
      /\ \A i \in 1..Len(one) : list[i] = one[i]
      /\ \A i \in 1..Len(two) : list[Len(one) + i] = two[i]
  BY DEF Joins
<1>6. 1 \in 1..Len(two)
  BY <1>1
<1>7. \A i \in 1..Len(more) : list[i] = more[i]
  <2> SUFFICES ASSUME NEW i \in 1..Len(more) PROVE list[i] = more[i]
    OBVIOUS
  <2>1. CASE i = Len(one) + 1
    BY <1>2, <1>4, <1>5, <1>6, <2>1
  <2>2. CASE i \in 1..Len(one)
    BY <1>4, <1>5, <2>2
  <2> QED BY <1>4, <2>1, <2>2
<1>8. \A i \in 1..Len(rest) : list[Len(more) + i] = rest[i]
  <2> SUFFICES ASSUME NEW i \in 1..(Len(two) - 1) PROVE list[Len(more) + i] = rest[i]
    BY <1>3
  <2>1. Len(more) + i = Len(one) + (i + 1) /\ i + 1 \in 1..Len(two)
    BY <1>1, <1>4
  <2>2. list[Len(one) + (i + 1)] = two[i + 1]
    BY <1>5, <2>1
  <2> QED BY <1>3, <2>1, <2>2
<1>9. Len(list) = Len(more) + Len(rest)
  BY <1>1, <1>3, <1>4, <1>5
<1>10. Joins(list, more, rest)
  BY <1>7, <1>8, <1>9 DEF Joins
<1> QED BY <1>10 DEF more, rest, x

\* Nothing joins to nothing more.
LEMMA JoinsNothing ==
  ASSUME NEW A, NEW list \in Seq(A), NEW one \in Seq(A)
  PROVE  Joins(list, one, <<>>) => list = one
<1> SUFFICES ASSUME Joins(list, one, <<>>) PROVE list = one
  OBVIOUS
<1>1. Len(list) = Len(one) /\ \A i \in 1..Len(one) : list[i] = one[i]
  BY LenProperties, EmptySeq DEF Joins
<1> QED BY <1>1, SeqEqual

\* Where a consumer is while it has events in its buffer, and where it may be besides.
Handed == {"taken", "drain", "batch_taken", "ok"}
Asking == {"pop", "try_pop", "pop_batch", "asleep", "woken", "empty", "drained"}

\* A call of a consumer keeps the books, if it takes the head of the line or nothing.
LEMMA ConsumerCall ==
  ASSUME LineInv, BooksInv, NEW c \in Consumers,
         UNCHANGED <<spec, ready, go, seq, books, closed, done>>,
         Claims, pc'[Main] = pc[Main], \A w \in Workers : w # c => Quiet(w),
         pc[c] \in (Asking \cup Handed) \ {"drained"}, pc'[c] \in Asking \cup Handed,
         pc'[c] = "drained" => closed /\ size = 0,
         pc'[c] \in Asking => pc[c] \in Asking,
         \/ UNCHANGED <<items, buf>>
         \/ size > 0 /\ Take(c) /\ pc'[c] \in Handed
  PROVE  BooksInv'
<1>0. Types /\ Stages /\ Delivery /\ Consumption(c)
  BY DEF LineInv, BooksInv
<1>1. c \in Workers /\ c \notin Producers /\ \A q \in Producers : q \in Workers
  BY Params DEF Workers
<1>2. \A q \in Producers : q # c => Quiet(q) /\ SameBooks(q)
  BY <1>1 DEF SameBooks, books
<1>3. \A q \in Producers : Pushed(q)' = Pushed(q)
  BY <1>1, <1>2, QuietProducer DEF BooksInv
<1>4. BookTypes'
  BY DEF BookTypes, BooksInv, books
<1>5. \A d \in Consumers : d # c /\ pc'[d] = "drained" => closed /\ size = 0
  BY <1>0 DEF Quiet, Stages, Workers
<1>6. pc[c] \notin {"absent", "start", "finished", "drained"} /\ pc'[c] \notin {"absent", "start"}
  BY DEF Asking, Handed
<1>7. CASE UNCHANGED <<items, buf>>
  <2>1. claimed' = claimed
    BY <1>0, <1>7, ClaimsNothing
  <2>2. Stages'
    BY <1>0, <1>1, <1>5, <1>6, <1>7, WorkerGoesOn DEF items
  <2>3. Delivery'
    BY <1>0, <1>3, <1>7, <2>1, SameItems, SameDelivers
  <2>4. \A d \in Consumers : d # c => Quiet(d) /\ SameTakings(d)
    BY <1>7, <2>1 DEF SameTakings, books, Workers
  <2>5. Consumption(c)'
    BY <1>0, <1>7, <2>1 DEF Consumption, books, Asking, Handed
  <2> QED BY <1>1, <1>2, <1>4, <2>2, <2>3, <2>4, <2>5, OthersKeepTheirs
<1>8. CASE size > 0 /\ Take(c) /\ pc'[c] \in Handed
  <2> DEFINE e == ring[head]
  <2>1. /\ claimed' = [claimed EXCEPT ![c] = Append(claimed[c], e)]
        /\ claimed'[c] = Append(claimed[c], e)
        /\ \A d \in Consumers : d # c => claimed'[d] = claimed[d]
    BY <1>0, <1>8, ClaimsOne DEF Types
  <2>2. buf'[c] = Append(buf[c], e) /\ \A d \in Consumers : d # c => buf'[d] = buf[d]
    BY <1>0, <1>8, TakeTypes
  <2>3. Line # <<>> /\ Head(Line) = e /\ Line' = Tail(Line)
    BY <1>0, <1>8, TakeHeads
  <2>4. \A d \in Consumers : pc'[d] # "drained"
    BY <1>0, <1>5, <1>8 DEF Types, Handed
  <2>5. Stages'
    BY <1>0, <1>1, <1>6, <2>4, WorkerGoesOn
  <2>6. Delivery'
    <3> DEFINE pushed == [q \in Producers |-> Pushed(q)]
    <3>1. pushed' = pushed
      BY <1>3
    <3>2. Delivered(Line, claimed, pushed) /\ DOMAIN claimed = Consumers
      BY <1>0 DEF Delivery, Types
    <3>3. Delivered(Line', claimed', pushed')
      <4> HIDE DEF pushed
      <4>1. Delivered(Tail(Line), [claimed EXCEPT ![c] = Append(claimed[c], Head(Line))], pushed)
        BY <2>3, <3>2, TakeDelivers
      <4> QED BY <2>1, <2>3, <3>1, <4>1
    <3> QED BY <3>3 DEF Delivery
  <2>7. \A d \in Consumers : d # c => Quiet(d) /\ SameTakings(d)
    BY <2>1, <2>2 DEF SameTakings, books, Workers
  <2>8. Consumption(c)'
    <3>1. consumed[c] \in Seq(Events) /\ Joins(claimed[c], consumed[c], buf[c])
      BY <1>0 DEF Consumption
    <3>2. /\ consumed[c] \in Seq(Contents) /\ claimed[c] \in Seq(Contents)
          /\ buf[c] \in Seq(Contents) /\ e \in Contents
      BY <1>0, <3>1, SeqMonotonic DEF Contents, Types
    <3> HIDE DEF e
    <3>3. Joins(Append(claimed[c], e), consumed[c], Append(buf[c], e))
      BY <3>1, <3>2, AppendJoins
    <3>4. Joins(claimed'[c], consumed'[c], buf'[c])
      BY <2>1, <2>2, <3>3 DEF books
    <3> QED BY <1>0, <1>8, <3>4 DEF Consumption, books, Handed
  <2> QED BY <1>1, <1>2, <1>4, <2>5, <2>6, <2>7, <2>8, OthersKeepTheirs
<1> QED BY <1>7, <1>8

-----------------------------------------------------------------------------
(* The books, step by step. *)

\* What a call leaves as it was.
Untouched == UNCHANGED <<spec, ready, go, seq, books>>

\* try_push keeps the books.
LEMMA TryPushBooks ==
  ASSUME LineInv, BooksInv, NEW p \in Producers, TryPush(p, Event(p, seq[p])), Claims, Untouched,
         spec.batch = 1, ~closed => Event(p, seq[p]) \in Events
  PROVE  BooksInv'
<1>0. Types /\ seq[p] \in Nat
  BY DEF LineInv, Types
<1>1. PICK label \in {"closed", "full", "put"} :
        /\ pc' = [pc EXCEPT ![p] = label] /\ (label = "closed" => closed)
        /\ \/ UNCHANGED items /\ label # "put"
           \/ ~closed /\ ~Full /\ Put(Event(p, seq[p])) /\ label = "put"
  BY DEF TryPush, Goto
<1>2. pc[p] = "try_push" /\ pc'[p] = label /\ \A w \in Threads : w # p => pc'[w] = pc[w]
  BY <1>0, <1>1, Params DEF TryPush, Enters, Types
<1>3. Upto(p) = seq[p] /\ Upto(p)' = seq[p] + (IF label = "put" THEN 1 ELSE 0)
  BY <1>0, <1>1, <1>2 DEF Upto, Untouched
<1>4. size < N \/ Full
  BY <1>0, Params DEF Full, Types
<1>5. pc'[Main] = pc[Main] /\ \A w \in Workers : w # p => Quiet(w)
  BY <1>2, Params DEF Quiet, Workers
<1>6. UNCHANGED <<spec, ready, go, seq, books, closed, buf>>
      /\ \A q \in Producers : done'[q] = done[q]
  BY DEF TryPush, Untouched
<1>7. pc[p] \notin Idle \cup {"batch_done"} /\ pc'[p] \notin Idle /\ pc'[p] \in Single
      /\ (pc'[p] = "closed" => closed)
  BY <1>1, <1>2 DEF Idle, Single
<1>8. \/ UNCHANGED items /\ Upto(p)' = Upto(p)
      \/ /\ ~closed /\ size < N /\ Event(p, Upto(p)) \in Events
         /\ Put(Event(p, Upto(p))) /\ Upto(p)' = Upto(p) + 1
  BY <1>0, <1>1, <1>3, <1>4
<1> QED BY <1>5, <1>6, <1>7, <1>8, ProducerCall

\* push keeps the books.
LEMMA PushBooks ==
  ASSUME LineInv, BooksInv, NEW p \in Producers, Push(p, Event(p, seq[p])), Claims, Untouched,
         spec.batch = 1, ~closed => Event(p, seq[p]) \in Events
  PROVE  BooksInv'
<1>0. Types /\ seq[p] \in Nat
  BY DEF LineInv, Types
<1>1. PICK label \in {"closed", "asleep", "timeout", "put"} :
        /\ pc' = [pc EXCEPT ![p] = label] /\ (label = "closed" => closed)
        /\ \/ UNCHANGED items /\ label # "put"
           \/ ~closed /\ ~Full /\ Put(Event(p, seq[p])) /\ label = "put"
  BY DEF Push, Goto
<1>2. pc[p] \in {"push", "woken"} /\ pc'[p] = label /\ \A w \in Threads : w # p => pc'[w] = pc[w]
  BY <1>0, <1>1, Params DEF Push, Enters, Types
<1>3. Upto(p) = seq[p] /\ Upto(p)' = seq[p] + (IF label = "put" THEN 1 ELSE 0)
  BY <1>0, <1>1, <1>2 DEF Upto, Untouched
<1>4. size < N \/ Full
  BY <1>0, Params DEF Full, Types
<1>5. pc'[Main] = pc[Main] /\ \A w \in Workers : w # p => Quiet(w)
  BY <1>2, Params DEF Quiet, Workers
<1>6. UNCHANGED <<spec, ready, go, seq, books, closed, buf>>
      /\ \A q \in Producers : done'[q] = done[q]
  BY DEF Push, Untouched
<1>7. pc[p] \notin Idle \cup {"batch_done"} /\ pc'[p] \notin Idle /\ pc'[p] \in Single
      /\ (pc'[p] = "closed" => closed)
  BY <1>1, <1>2 DEF Idle, Single
<1>8. \/ UNCHANGED items /\ Upto(p)' = Upto(p)
      \/ /\ ~closed /\ size < N /\ Event(p, Upto(p)) \in Events
         /\ Put(Event(p, Upto(p))) /\ Upto(p)' = Upto(p) + 1
  BY <1>0, <1>1, <1>3, <1>4
<1> QED BY <1>5, <1>6, <1>7, <1>8, ProducerCall

\* NotifyOne wakes a sleeper at most; NotifyAll wakes them all.
LEMMA NotifyOneGoes ==
  ASSUME Types, NEW t \in Workers, NEW from, NEW group \in {Producers, Consumers}, NEW to,
         from # "asleep", NotifyOne(t, from, group, to)
  PROVE  /\ pc[t] = from /\ pc'[t] = to /\ (pc[Main] # "asleep" => pc'[Main] = pc[Main])
         /\ \A w \in Workers : w # t => Quiet(w)
  BY Params DEF NotifyOne, Asleep, Goto, Types, Quiet, Workers

LEMMA NotifyAllGoes ==
  ASSUME Types, NEW t \in Threads, NEW from, NEW group \in {Producers, Consumers}, NEW to,
         from # "asleep", NotifyAll(t, from, group, to)
  PROVE  /\ pc[t] = from /\ pc'[t] = to /\ (t # Main => pc'[Main] = pc[Main])
         /\ \A w \in Workers : w # t => Quiet(w)
  BY Params DEF NotifyAll, Asleep, Types, Quiet, Workers

\* The notification after a push keeps the books.
LEMMA PushNotifyBooks ==
  ASSUME LineInv, BooksInv, NEW p \in Producers, PushNotify(p), Claims, Untouched, spec.batch = 1
  PROVE  BooksInv'
<1>0. Types /\ Stages /\ p \in Workers
  BY DEF LineInv, BooksInv, Workers
<1>1. pc[p] = "put" /\ pc'[p] = "ok" /\ pc'[Main] = pc[Main] /\ \A w \in Workers : w # p => Quiet(w)
  <2>1. pc[Main] # "asleep"
    BY <1>0 DEF Stages, Closing
  <2>2. NotifyOne(p, "put", Consumers, "ok") /\ "put" # "asleep"
    BY DEF PushNotify
  <2>3. pc[p] = "put" /\ pc'[p] = "ok" /\ (pc[Main] # "asleep" => pc'[Main] = pc[Main])
        /\ \A w \in Workers : w # p => Quiet(w)
    BY <1>0, <2>2, NotifyOneGoes, Zenon
  <2> QED BY <2>1, <2>3
<1>2. UNCHANGED <<spec, ready, go, seq, books, closed, buf, done, items>>
  BY DEF PushNotify, NotifyOne, queue, Untouched
<1>3. Upto(p)' = Upto(p)
  BY <1>1, <1>2 DEF Upto
<1> QED BY <1>1, <1>2, <1>3, ProducerCall DEF Idle, Single

\* push_batch keeps the books.
LEMMA BatchBooks ==
  ASSUME LineInv, BooksInv, NEW p \in Producers, Batch(p, BatchSize(p), NextBatch(p)), Claims,
         Untouched, spec.batch > 1
  PROVE  BooksInv'
<1>0. Types /\ Stages /\ Accounts(p) /\ p \in Workers /\ p \in Threads /\ pc[Main] # "asleep"
  BY Params DEF LineInv, BooksInv, Workers, Stages, Closing
<1>1. /\ seq[p] \in Nat /\ done[p] \in Nat /\ Upto(p) = seq[p] + done[p] /\ done[p] <= BatchSize(p)
      /\ BatchSize(p) \in Int /\ spec' = spec /\ seq' = seq
  BY <1>0, SizeType DEF Types, Upto, Accounts, Untouched
<1>2. UNCHANGED <<spec, ready, go, seq, books, closed, buf>>
  BY DEF Batch, NotifyAll, queue, Untouched
<1>3. spec.batch # 1
  BY <1>0, QuotaType DEF Types
<1>4. CASE /\ pc[p] = "fill" /\ done[p] < BatchSize(p) /\ ~Full /\ Put(NextBatch(p)[done[p]])
           /\ done' = [done EXCEPT ![p] = @ + 1] /\ UNCHANGED pc
  <2>1. NextBatch(p)[done[p]] = Event(p, Upto(p)) /\ Event(p, Upto(p)) \in Events
    <3>1. NextBatch(p)[done[p]] = Event(p, Upto(p))
      BY <1>1, <1>4 DEF NextBatch
    <3> QED BY <1>0, <1>1, <1>4, <3>1, NextBatchEvents
  <2>2. size < N /\ ~closed
    <3>1. size < N
      BY <1>0, <1>4, Params DEF Full, Types
    <3>2. ~closed
      BY <1>4 DEF LineInv, Holding
    <3> QED BY <3>1, <3>2
  <2>3. done'[p] = done[p] + 1 /\ \A q \in Producers : q # p => done'[q] = done[q]
    BY <1>0, <1>4 DEF Types
  <2>4. Upto(p)' = Upto(p) + 1
    BY <1>1, <2>3 DEF Upto
  <2>5. done'[p] <= BatchSize(p) /\ pc'[p] = "fill"
    BY <1>1, <1>4, <2>3
  <2>6. pc'[Main] = pc[Main] /\ \A w \in Workers : w # p => Quiet(w)
    BY <1>4 DEF Quiet
  <2> QED BY <1>2, <1>3, <1>4, <2>1, <2>2, <2>3, <2>4, <2>5, <2>6, ProducerCall DEF Idle, Batched
<1>5. CASE UNCHANGED <<items, done>>
  <2>1. /\ pc[p] \in {"push_batch", "relock", "woken", "fill", "filled", "gave_up"}
        /\ pc'[p] \in {"fill", "asleep", "gave_up", "batch_done", "filled", "relock"}
        /\ pc'[Main] = pc[Main] /\ \A w \in Workers : w # p => Quiet(w)
    <3>1. ASSUME NEW label \in {"fill", "asleep", "gave_up", "batch_done", "filled"}, Goto(p, label)
          PROVE  /\ pc'[p] \in {"fill", "asleep", "gave_up", "batch_done", "filled", "relock"}
                 /\ pc'[Main] = pc[Main] /\ \A w \in Workers : w # p => Quiet(w)
      BY <1>0, <3>1, Params DEF Goto, Types, Quiet, Workers
    <3>2. ASSUME NEW from \in {"filled", "gave_up"}, NEW to \in {"relock", "batch_done"},
                 NotifyAll(p, from, Consumers, to)
          PROVE  /\ pc[p] = from /\ pc'[p] = to
                 /\ pc'[Main] = pc[Main] /\ \A w \in Workers : w # p => Quiet(w)
      BY <1>0, <3>2, NotifyAllGoes, Params
    <3>3. done[p] + 1 # done[p]
      BY <1>1
    <3>4. done' # [done EXCEPT ![p] = @ + 1]
      BY <1>0, <1>5, <3>3 DEF Types
    <3> QED BY <3>1, <3>2, <3>4 DEF Batch, Enters
  <2>2. Upto(p)' = Upto(p)
    BY <1>1, <1>5, <1>3 DEF Upto
  <2> QED BY <1>1, <1>2, <1>3, <1>5, <2>1, <2>2, ProducerCall DEF Idle, Batched
<1> QED BY <1>4, <1>5 DEF Batch, NotifyAll, queue

\* try_pop keeps the books.
LEMMA TryPopBooks ==
  ASSUME LineInv, BooksInv, NEW c \in Consumers, TryPop(c), Claims, Untouched
  PROVE  BooksInv'
<1>0. Types
  BY DEF LineInv
<1>1. UNCHANGED <<spec, ready, go, seq, books, closed, done>> /\ pc[c] = "try_pop"
  BY DEF TryPop, Enters, Untouched
<1>2. ASSUME NEW label \in {"empty", "taken"}, Goto(c, label),
             \/ UNCHANGED <<items, buf>> /\ label # "taken"
             \/ size > 0 /\ Take(c) /\ label = "taken"
      PROVE  BooksInv'
  <2>1. pc'[c] = label /\ pc'[Main] = pc[Main] /\ \A w \in Workers : w # c => Quiet(w)
    BY <1>0, <1>2, Params DEF Goto, Types, Quiet, Workers
  <2> QED BY <1>1, <1>2, <2>1, ConsumerCall DEF Asking, Handed
<1> QED BY <1>2 DEF TryPop

\* pop keeps the books.
LEMMA PopBooks ==
  ASSUME LineInv, BooksInv, NEW c \in Consumers, Pop(c), Claims, Untouched
  PROVE  BooksInv'
<1>0. Types
  BY DEF LineInv
<1>1. UNCHANGED <<spec, ready, go, seq, books, closed, done>> /\ pc[c] \in {"pop", "woken"}
  BY DEF Pop, Enters, Untouched
<1>2. ASSUME NEW label \in {"drained", "asleep", "taken"}, Goto(c, label),
             label = "drained" => closed /\ size = 0,
             \/ UNCHANGED <<items, buf>> /\ label # "taken"
             \/ size > 0 /\ Take(c) /\ label = "taken"
      PROVE  BooksInv'
  <2>1. pc'[c] = label /\ pc'[Main] = pc[Main] /\ \A w \in Workers : w # c => Quiet(w)
    BY <1>0, <1>2, Params DEF Goto, Types, Quiet, Workers
  <2> QED BY <1>1, <1>2, <2>1, ConsumerCall DEF Asking, Handed
<1> QED BY <1>2 DEF Pop

\* The notification after a pop keeps the books.
LEMMA PopNotifyBooks ==
  ASSUME LineInv, BooksInv, NEW c \in Consumers, PopNotify(c), Claims, Untouched
  PROVE  BooksInv'
<1>0. Types /\ Stages /\ c \in Workers /\ pc[Main] # "asleep"
  BY DEF LineInv, BooksInv, Workers, Stages, Closing
<1>1. UNCHANGED <<spec, ready, go, seq, books, closed, done, items, buf>>
  BY DEF PopNotify, NotifyOne, queue, Untouched
<1>2. pc[c] = "taken" /\ pc'[c] = "ok" /\ pc'[Main] = pc[Main] /\ \A w \in Workers : w # c => Quiet(w)
  <2>1. NotifyOne(c, "taken", Producers, "ok") /\ "taken" # "asleep"
    BY DEF PopNotify
  <2> QED BY <1>0, <2>1, NotifyOneGoes, Zenon
<1> QED BY <1>1, <1>2, ConsumerCall DEF Asking, Handed

\* pop_batch keeps the books.
LEMMA PopBatchBooks ==
  ASSUME LineInv, BooksInv, NEW c \in Consumers, NEW m, PopBatch(c, m), Claims, Untouched
  PROVE  BooksInv'
<1>0. Types /\ c \in Workers /\ c \in Threads
  BY Params DEF LineInv, Workers
<1>1. UNCHANGED <<spec, ready, go, seq, books, closed, done>>
  BY DEF PopBatch, NotifyAll, queue, Untouched
<1>2. CASE pc[c] = "drain" /\ size > 0 /\ Take(c) /\ UNCHANGED pc
  <2>1. pc'[Main] = pc[Main] /\ \A w \in Workers : w # c => Quiet(w)
    BY <1>2 DEF Quiet
  <2> QED BY <1>1, <1>2, <2>1, ConsumerCall DEF Asking, Handed
<1>4. CASE NotifyAll(c, "batch_taken", Producers, "ok")
  <2>1. pc[c] = "batch_taken" /\ pc'[c] = "ok" /\ pc'[Main] = pc[Main]
        /\ \A w \in Workers : w # c => Quiet(w)
    <3>1. c # Main
      BY Params
    <3>2. Producers \in {Producers, Consumers} /\ "batch_taken" # "asleep"
      OBVIOUS
    <3>3. /\ pc[c] = "batch_taken" /\ pc'[c] = "ok" /\ (c # Main => pc'[Main] = pc[Main])
          /\ \A w \in Workers : w # c => Quiet(w)
      BY <1>0, <1>4, <3>2, NotifyAllGoes, Zenon
    <3> QED BY <3>1, <3>3
  <2>2. UNCHANGED <<items, buf>>
    BY <1>4 DEF NotifyAll, queue
  <2> QED BY <1>1, <2>1, <2>2, ConsumerCall DEF Asking, Handed
<1>5. ASSUME UNCHANGED <<items, buf>>,
             \/ /\ pc[c] \in {"pop_batch", "woken"}
                /\ \/ Goto(c, "drain") \/ Goto(c, "asleep")
                   \/ closed /\ size = 0 /\ Goto(c, "drained")
             \/ pc[c] = "drain" /\ Goto(c, "batch_taken")
      PROVE  BooksInv'
  <2>1. PICK label \in {"drain", "drained", "asleep", "batch_taken"} :
          /\ pc' = [pc EXCEPT ![c] = label] /\ (label = "drained" => closed /\ size = 0)
          /\ (label # "batch_taken" => pc[c] \in {"pop_batch", "woken"})
          /\ (label = "batch_taken" => pc[c] = "drain")
    BY <1>5 DEF Goto
  <2>2. pc'[c] = label /\ pc'[Main] = pc[Main] /\ \A w \in Workers : w # c => Quiet(w)
    BY <1>0, <2>1, Params DEF Types, Quiet, Workers
  <2> QED BY <1>1, <1>5, <2>1, <2>2, ConsumerCall DEF Asking, Handed
<1>6. CASE pc[c] \in {"pop_batch", "woken"}
           /\ (Goto(c, "drain") \/ Goto(c, "asleep") \/ (closed /\ size = 0 /\ Goto(c, "drained")))
           /\ UNCHANGED <<items, buf>>
  BY <1>5, <1>6
<1>7. CASE pc[c] = "drain" /\ Goto(c, "batch_taken") /\ UNCHANGED <<items, buf>>
  BY <1>5, <1>7
<1> QED BY <1>2, <1>4, <1>6, <1>7 DEF PopBatch, Enters

\* take() in the consumer's loop keeps the books: what was claimed is an event.
LEMMA PopReturnsBooks ==
  ASSUME LineInv, BooksInv, NEW c \in Consumers, PopReturns(c)
  PROVE  BooksInv'
<1>0. Types /\ Stages /\ Delivery /\ Consumption(c) /\ InHand /\ c \in Workers
  BY DEF LineInv, BooksInv, Workers
<1>1. UNCHANGED <<items, closed, mu, done, spec, ready, go, seq, accepted, offered,
                  rejected, refused, claimed>>
  BY DEF PopReturns, queue, running, books
<1>2. /\ pc[c] \in {"ok", "empty"} /\ pc'[Main] = pc[Main] /\ \A w \in Workers : w # c => Quiet(w)
      /\ pc'[c] \in {"ok", "pop_batch", "try_pop", "pop"}
  <2>1. CASE ConsumerLoop(c)
    BY <1>0, <2>1, ConsumerGoes, Params DEF PopReturns, Types, Quiet, Workers
  <2>2. CASE UNCHANGED pc /\ pc[c] = "ok"
    BY <2>2 DEF Quiet
  <2>3. CASE Goto(c, "pop")
    BY <1>0, <2>3, Params DEF PopReturns, Goto, Types, Quiet, Workers
  <2> QED BY <2>1, <2>2, <2>3 DEF PopReturns
<1>3. /\ \A q \in Producers : q # c => Quiet(q) /\ SameBooks(q)
      /\ \A q \in Producers : Pushed(q)' = Pushed(q)
  <2>1. \A q \in Producers : q # c => Quiet(q) /\ SameBooks(q)
    BY <1>1, <1>2 DEF SameBooks, Workers
  <2> QED BY <2>1, Params, QuietProducer, <1>1 DEF BooksInv
<1>4. Delivery'
  BY <1>0, <1>1, <1>3, SameItems, SameDelivers
<1>5. Stages'
  <2>1. (\E d \in Consumers : pc'[d] = "drained") => closed /\ size' = 0
    BY <1>0, <1>1, <1>2 DEF Quiet, Stages, Workers, items
  <2> QED BY <1>0, <1>1, <1>2, <2>1, WorkerGoesOn
<1>6. CASE pc[c] = "ok"
  <2>1. buf[c] \in Seq(Contents) /\ buf[c] # <<>> /\ consumed[c] \in Seq(Events)
        /\ consumed[c] \in Seq(Contents) /\ Joins(claimed[c], consumed[c], buf[c])
    BY <1>0, <1>6, SeqMonotonic DEF Types, InHand, Consumption, Contents
  <2>2. Head(buf[c]) \in Events
    <3>1. Len(buf[c]) \in Nat \ {0} /\ Head(buf[c]) = buf[c][1]
      BY <2>1, EmptySeq
    <3>2. Len(consumed[c]) \in Nat /\ Len(consumed[c]) + 1 \in 1..Len(claimed[c])
      <4>1. Len(consumed[c]) \in Nat
        BY <2>1, LenProperties
      <4>2. Len(claimed[c]) = Len(consumed[c]) + Len(buf[c])
        BY <2>1 DEF Joins
      <4>3. \A a \in Nat, b \in Nat \ {0} : a + 1 \in 1..(a + b)
        OBVIOUS
      <4> QED BY <3>1, <4>1, <4>2, <4>3
    <3>3. Head(buf[c]) = claimed[c][Len(consumed[c]) + 1]
      <4>1. 1 \in 1..Len(buf[c])
        BY <3>1
      <4> QED BY <2>1, <3>1, <4>1 DEF Joins
    <3>4. claimed[c] \in Seq(Events)
      BY <1>0 DEF Delivery, Delivered
    <3> QED BY <3>2, <3>3, <3>4, ElementOfSeq
  <2>3. Intact(Head(buf[c]))
    BY <2>2, DriverAssumption DEF Intact
  <2>4. /\ consumed' = [consumed EXCEPT ![c] = Append(@, Head(buf[c]))] /\ torn' = torn
        /\ buf' = [buf EXCEPT ![c] = Tail(@)]
        /\ IF Len(buf[c]) = 1 THEN ConsumerLoop(c) ELSE UNCHANGED pc
    BY <1>6, <2>3 DEF PopReturns
  <2>5. DOMAIN consumed = Consumers /\ BookTypes
    BY DEF BooksInv, BookTypes
  <2>6. consumed'[c] = Append(consumed[c], Head(buf[c])) /\ buf'[c] = Tail(buf[c])
        /\ \A d \in Consumers : d # c => consumed'[d] = consumed[d] /\ buf'[d] = buf[d]
    BY <1>0, <2>4, <2>5 DEF Types
  <2>7. Append(consumed[c], Head(buf[c])) \in Seq(Events)
    BY <2>1, <2>2, AppendProperties
  <2>8. Joins(claimed[c], Append(consumed[c], Head(buf[c])), Tail(buf[c]))
    BY <2>1, MoveJoins
  <2>9. pc'[c] # "ok" => buf'[c] = <<>>
    <3>1. pc'[c] # "ok" => Len(buf[c]) = 1
      BY <1>6, <2>4
    <3>2. Tail(buf[c]) \in Seq(Contents) /\ Len(Tail(buf[c])) = Len(buf[c]) - 1
      BY <2>1, HeadTailProperties
    <3>3. Len(buf[c]) = 1 => Len(Tail(buf[c])) = 0
      BY <3>2
    <3>4. Len(Tail(buf[c])) = 0 => Tail(buf[c]) = <<>>
      BY <3>2, EmptySeq
    <3> QED BY <2>6, <3>1, <3>3, <3>4
  <2>10. Consumption(c)'
    BY <1>0, <1>1, <1>2, <2>4, <2>6, <2>7, <2>8, <2>9 DEF Consumption
  <2>11. BookTypes'
    BY <1>1, <2>4, <2>5 DEF BookTypes
  <2>12. \A d \in Consumers : d # c => Quiet(d) /\ SameTakings(d)
    BY <1>1, <1>2, <2>4, <2>6 DEF SameTakings, Workers
  <2> QED BY <1>1, <1>3, <1>4, <1>5, <2>10, <2>11, <2>12, Params, OthersKeepTheirs
<1>7. CASE pc[c] = "empty"
  <2>1. Goto(c, "pop") /\ UNCHANGED <<queue, running>>
    BY <1>7 DEF PopReturns
  <2>2. pc'[c] = "pop" /\ UNCHANGED <<buf, consumed, torn>>
    BY <1>0, <2>1, Params DEF Goto, Types, queue, running, books
  <2>3. Consumption(c)'
    BY <1>0, <1>1, <1>7, <2>2 DEF Consumption
  <2>4. BookTypes'
    BY <1>1, <2>2 DEF BookTypes, BooksInv
  <2>5. \A d \in Consumers : d # c => Quiet(d) /\ SameTakings(d)
    BY <1>1, <1>2, <2>2 DEF SameTakings, Workers
  <2> QED BY <1>1, <1>3, <1>4, <1>5, <2>3, <2>4, <2>5, Params, OthersKeepTheirs
<1> QED BY <1>2, <1>6, <1>7

\* A step of the calling thread, or a wake, keeps the books if the close and the joins
\* come when they should.
LEMMA NoBooks ==
  ASSUME LineInv, BooksInv, UNCHANGED <<spec, ready, seq, books, claimed, items, done, buf>>,
         \A w \in Workers : Quiet(w), closed => closed', go' \in BOOLEAN,
         pc'[Main] \in {"start", "released", "close"} \cup Closing,
         closed' => pc'[Main] \in Closing,
         pc'[Main] \in {"close"} \cup Closing => spec.close_after \/ Joined(Producers),
         pc'[Main] = "over" => Joined(Workers)
  PROVE  BooksInv'
<1>0. Types /\ Stages /\ Delivery
  BY DEF LineInv, BooksInv
<1>1. \A p \in Producers : Quiet(p) /\ SameBooks(p)
  BY DEF SameBooks, books, Workers
<1>2. \A c \in Consumers : Quiet(c) /\ SameTakings(c)
  BY DEF SameTakings, books, Workers
<1>3. \A p \in Producers : Pushed(p)' = Pushed(p)
  BY <1>1, QuietProducer DEF BooksInv
<1>4. BookTypes'
  BY DEF BookTypes, BooksInv, books
<1>5. Delivery'
  BY <1>0, <1>3, SameItems, SameDelivers
<1>6. Stages'
  <2>1. \A w \in Workers : /\ pc'[w] \in {"start", "absent"} <=> pc[w] \in {"start", "absent"}
                           /\ pc[w] = "absent" => pc'[w] = "absent"
                           /\ pc[w] \in {"finished", "drained"} => pc'[w] = pc[w]
                           /\ pc'[w] = "drained" => pc[w] = "drained"
    BY DEF Quiet
  <2>2. Started' = Started
    BY <2>1 DEF Started
  <2>3. Running' = Running /\ \A group : Joined(group) /\ group \subseteq Workers => Joined(group)'
    BY <2>1 DEF Joined, Running
  <2>4. Producers \subseteq Workers /\ Consumers \subseteq Workers
    BY DEF Workers
  <2>5. \A w \in Workers : w \notin Running' => pc'[w] = "absent"
    BY <1>0, <2>1, <2>3 DEF Stages
  <2>6. (\E c \in Consumers : pc'[c] = "drained") => closed' /\ size' = 0
    BY <1>0, <2>1, <2>4 DEF Stages, items
  <2>7. Joined(Producers) => Joined(Producers)'
    BY <2>3, <2>4
  <2>8. Joined(Workers) => Joined(Workers)'
    BY <2>3
  <2> QED BY <1>0, <2>2, <2>5, <2>6, <2>7, <2>8 DEF Stages
<1>7. Main \notin Producers /\ Main \notin Consumers
  BY Params
<1> QED BY <1>1, <1>2, <1>4, <1>5, <1>6, <1>7, OthersKeepTheirs

\* The calling thread keeps the books.
LEMMA RunMainBooks ==
  ASSUME LineInv, BooksInv, RunMain
  PROVE  BooksInv'
<1>0. Types /\ Stages /\ Main \in Threads
  BY Params DEF LineInv, BooksInv
<1>1. UNCHANGED <<spec, ready, seq, books, claimed, items, done, buf>>
  BY DEF RunMain, Close, NotifyAll, running, queue
<1>2. ASSUME NEW label, Goto(Main, label) PROVE pc'[Main] = label /\ \A w \in Workers : Quiet(w)
  BY <1>0, <1>2, Params DEF Goto, Types, Quiet, Workers
<1>3. CASE pc[Main] = "start" /\ go' = TRUE /\ Goto(Main, "released") /\ UNCHANGED queue
  <2>1. pc'[Main] = "released" /\ \A w \in Workers : Quiet(w)
    BY <1>2, <1>3
  <2>2. closed' = closed /\ ~closed
    BY <1>0, <1>3 DEF Stages, Closing, queue
  <2> QED BY <1>1, <1>3, <2>1, <2>2, NoBooks DEF Closing
<1>4. CASE pc[Main] = "released" /\ (spec.close_after \/ Joined(Producers))
           /\ Goto(Main, "close") /\ UNCHANGED <<queue, running>>
  <2>1. pc'[Main] = "close" /\ \A w \in Workers : Quiet(w)
    BY <1>2, <1>4
  <2>2. closed' = closed /\ ~closed /\ go' \in BOOLEAN
    BY <1>0, <1>4 DEF Stages, Closing, queue, running
  <2> QED BY <1>1, <1>4, <2>1, <2>2, NoBooks DEF Closing
<1>5. CASE pc[Main] = "close" /\ closed' = TRUE /\ Goto(Main, "tell_consumers") /\ UNCHANGED running
  <2>1. pc'[Main] = "tell_consumers" /\ \A w \in Workers : Quiet(w)
    BY <1>2, <1>5
  <2>2. go' \in BOOLEAN /\ (spec.close_after \/ Joined(Producers))
    BY <1>0, <1>5 DEF Stages, Closing, running
  <2> QED BY <1>1, <1>5, <2>1, <2>2, NoBooks DEF Closing
<1>6. ASSUME NEW from \in {"tell_consumers", "tell_producers"}, NEW to \in {"tell_producers", "ok"},
             NEW group \in {Producers, Consumers},
             NotifyAll(Main, from, group, to), UNCHANGED running
      PROVE  BooksInv'
  <2>1. pc[Main] = from /\ pc'[Main] = to /\ \A w \in Workers : Quiet(w)
    BY <1>0, <1>6, Params DEF NotifyAll, Asleep, Types, Quiet, Workers
  <2>2. closed' = closed /\ go' \in BOOLEAN /\ (spec.close_after \/ Joined(Producers))
    BY <1>0, <1>6, <2>1 DEF Stages, Closing, running, NotifyAll, queue
  <2> QED BY <1>1, <1>6, <2>1, <2>2, NoBooks DEF Closing
<1>7. CASE pc[Main] = "ok" /\ Joined(Producers \cup Consumers) /\ Goto(Main, "over")
           /\ UNCHANGED <<queue, running>>
  <2>1. pc'[Main] = "over" /\ \A w \in Workers : Quiet(w)
    BY <1>2, <1>7
  <2>2. closed' = closed /\ go' \in BOOLEAN /\ (spec.close_after \/ Joined(Producers))
        /\ Joined(Workers)
    BY <1>0, <1>7 DEF Stages, Closing, running, queue, Workers
  <2> QED BY <1>1, <1>7, <2>1, <2>2, NoBooks DEF Closing
<1>8. CASE Close /\ UNCHANGED running
  <2>1. CASE Enters(Main, "close") /\ closed' = TRUE /\ Goto(Main, "tell_consumers")
    BY <1>5, <1>8, <2>1 DEF Enters
  <2>2. CASE NotifyAll(Main, "tell_consumers", Consumers, "tell_producers")
    BY <1>6, <1>8, <2>2
  <2>3. CASE NotifyAll(Main, "tell_producers", Producers, "ok")
    BY <1>6, <1>8, <2>3
  <2> QED BY <1>8, <2>1, <2>2, <2>3 DEF Close
<1> QED BY <1>3, <1>4, <1>7, <1>8 DEF RunMain

\* A wake without a notification keeps the books.
LEMMA WakeAloneBooks ==
  ASSUME LineInv, BooksInv, NEW t \in Workers, WakeAlone(t), UNCHANGED running
  PROVE  BooksInv'
<1>0. Types /\ Stages /\ t \in Threads /\ t # Main
  BY Params DEF LineInv, BooksInv, Workers
<1>1. UNCHANGED <<spec, ready, go, seq, books, claimed, items, done, buf, closed>>
  BY DEF WakeAlone, running, queue
<1>2. pc'[Main] = pc[Main] /\ \A w \in Workers : Quiet(w)
  BY <1>0, Params DEF WakeAlone, Goto, Types, Quiet, Workers
<1> QED BY <1>0, <1>1, <1>2, NoBooks DEF Stages

-----------------------------------------------------------------------------
(* Producers at the head of their loop. *)

\* A producer that is past its push, or past the start line, keeps the books if it
\* keeps its own.
LEMMA ProducerReturns ==
  ASSUME LineInv, BooksInv, NEW p \in Producers,
         UNCHANGED <<items, closed, buf, claimed, spec, ready, go, consumed, torn>>,
         \A w \in Threads : w # p => pc'[w] = pc[w],
         pc[p] \notin {"absent", "start", "finished", "drained"},
         pc'[p] \notin {"absent", "start", "drained"},
         \A q \in Producers : q # p => SameBooks(q),
         BookTypes', Accounts(p)', Refusals(p)', Pushed(p)' = Pushed(p)
  PROVE  BooksInv'
<1>0. Types /\ Stages /\ Delivery /\ p \in Workers /\ p \notin Consumers
  BY Params DEF LineInv, BooksInv, Workers
<1>1. pc'[Main] = pc[Main] /\ \A w \in Workers : w # p => pc'[w] = pc[w] /\ Quiet(w)
  BY Params DEF Quiet, Workers
<1>2. \A q \in Producers : q # p => Quiet(q) /\ SameBooks(q)
  BY <1>1 DEF Workers
<1>3. \A q \in Producers : Pushed(q)' = Pushed(q)
  <2>1. \A q \in Producers : q # p => Pushed(q)' = Pushed(q)
    BY <1>2, QuietProducer DEF BooksInv
  <2> QED BY <2>1
<1>4. Delivery'
  BY <1>0, <1>3, SameItems, SameDelivers
<1>5. (\E c \in Consumers : pc'[c] = "drained") => closed /\ size' = 0
  BY <1>0, <1>1 DEF Stages, Workers, items
<1>6. Stages'
  BY <1>0, <1>1, <1>5, WorkerGoesOn
<1>7. \A c \in Consumers : c # p => Quiet(c) /\ SameTakings(c)
  BY <1>1 DEF SameTakings, Workers
<1> QED BY <1>0, <1>2, <1>4, <1>6, <1>7, OthersKeepTheirs

\* What a producer's loop leads to depends on the batch, and it ends with the quota or
\* the time.
LEMMA LoopEnds ==
  ASSUME Types, NEW p \in Producers, NEW i \in Int, ProducerLoop(p, i)
  PROVE  /\ \A w \in Threads : w # p => pc'[w] = pc[w]
         /\ spec.batch = 1 => pc'[p] \in {"try_push", "push", "finished"}
         /\ spec.batch > 1 => pc'[p] \in {"push_batch", "finished"}
         /\ pc'[p] = "finished" => (i = Quota /\ spec.events # 0) \/ spec.paced
<1>1. CASE Goto(p, "finished") /\ ((i = Quota /\ spec.events # 0) \/ spec.paced)
  BY <1>1, Params DEF Goto, Types
<1>2. CASE Goto(p, IF spec.batch > 1 THEN "push_batch"
                   ELSE IF Mode(p) = "reject" THEN "try_push" ELSE "push")
  BY <1>2, Params DEF Goto, Types
<1> QED BY <1>1, <1>2 DEF ProducerLoop

\* As long as a producer has not been joined, a close that waits for it has not come.
LEMMA OpenUntilJoined ==
  ASSUME Stages, ~spec.close_after, NEW p \in Producers, pc[p] \notin {"absent", "finished", "drained"}
  PROVE  ~closed
  BY DEF Stages, Joined, Workers, Closing

\* The start line keeps the books.
LEMMA WaitGoBooks ==
  ASSUME LineInv, BooksInv, NEW t \in Workers, WaitGo(t)
  PROVE  BooksInv'
<1>0. Types /\ Stages /\ Delivery /\ t \in Threads /\ t # Main
  BY Params DEF LineInv, BooksInv, Workers
<1>1. CASE pc[t] = "start" /\ ready' = ready + 1 /\ Goto(t, "line")
           /\ UNCHANGED <<queue, spec, go, seq, books, claimed>>
  <2>1. pc'[t] = "line" /\ \A w \in Threads : w # t => pc'[w] = pc[w]
    BY <1>0, <1>1 DEF Goto, Types
  <2>2. pc'[Main] = pc[Main] /\ \A w \in Workers : w # t => pc'[w] = pc[w] /\ Quiet(w)
    BY <1>0, <2>1, Params DEF Quiet, Workers
  <2>3. UNCHANGED <<spec, go, seq, books, claimed, items, closed, done, buf>>
    BY <1>1 DEF queue
  <2>4. \A p \in Producers : p # t => Quiet(p) /\ SameBooks(p)
    BY <2>2, <2>3 DEF SameBooks, books, Workers
  <2>5. \A c \in Consumers : c # t => Quiet(c) /\ SameTakings(c)
    BY <2>2, <2>3 DEF SameTakings, books, Workers
  <2>6. t \in Producers => Accounts(t)' /\ Refusals(t)' /\ Pushed(t)' = Pushed(t)
    <3>1. SUFFICES ASSUME t \in Producers
                   PROVE  Accounts(t)' /\ Refusals(t)' /\ Pushed(t)' = Pushed(t)
      OBVIOUS
    <3>2. Accounts(t) /\ Refusals(t)
      BY <3>1 DEF BooksInv
    <3>3. Upto(t)' = Upto(t) /\ BatchSize(t)' = BatchSize(t)
      BY <1>1, <2>1, <2>3 DEF Upto, BatchSize, Quota
    <3>4. pc[t] \in Idle /\ pc'[t] \in Idle /\ pc'[t] # "batch_done"
      BY <1>1, <2>1 DEF Idle
    <3>5. Accounts(t)'
      BY <1>1, <2>3, <3>2, <3>3, <3>4 DEF Accounts, books
    <3>6. Refusals(t)'
      BY <1>1, <2>1, <2>3, <3>2 DEF Refusals, books
    <3> QED BY <2>3, <3>3, <3>5, <3>6 DEF Pushed, books
  <2>7. t \in Consumers => Consumption(t)'
    BY <1>1, <2>1, <2>3 DEF BooksInv, Consumption, books
  <2>8. \A p \in Producers : Pushed(p)' = Pushed(p)
    BY <2>4, <2>6, <2>3, QuietProducer DEF BooksInv
  <2>9. Delivery'
    BY <1>0, <2>3, <2>8, SameItems, SameDelivers
  <2>10. BookTypes'
    BY <2>3 DEF BookTypes, BooksInv, books
  <2>11. Stages'
    <3>1. Started' = Started \cup {t} /\ t \notin Started
      <4>1. \A w : w \in Started' <=> w \in Started \/ w = t
        BY <2>1, <2>2 DEF Started
      <4> QED BY <1>1, <4>1 DEF Started
    <3>2. IsFiniteSet(Started)
      <4>1. Started \in SUBSET Workers /\ IsFiniteSet(Workers)
        BY DriverAssumption DEF Started, Workers
      <4> QED BY <4>1, FS_Subset
    <3>3. ready' = Cardinality(Started')
      <4>1. Cardinality(Started \cup {t}) = Cardinality(Started) + 1
        BY <3>1, <3>2, FS_AddElement
      <4> QED BY <1>0, <1>1, <3>1, <4>1 DEF Stages
    <3>4. Running' = Running /\ t \in Running
      BY <1>0, <1>1, <2>3 DEF Running, Stages
    <3>5. \A group : Joined(group) /\ group \subseteq Workers => Joined(group)'
      BY <1>1, <2>2, <3>4 DEF Joined
    <3>6. Producers \subseteq Workers
      BY DEF Workers
    <3>7. \A w \in Workers : w \notin Running' => pc'[w] = "absent"
      BY <1>0, <2>2, <3>4 DEF Stages
    <3>8. (\E c \in Consumers : pc'[c] = "drained") => closed' /\ size' = 0
      BY <1>0, <2>1, <2>2, <2>3 DEF Stages, items, Workers
    <3> QED BY <1>0, <2>2, <2>3, <3>3, <3>5, <3>6, <3>7, <3>8 DEF Stages
  <2> QED BY <2>3, <2>4, <2>5, <2>6, <2>7, <2>9, <2>10, <2>11, OthersKeepTheirs
<1>2. CASE pc[t] = "line" /\ t \in Producers /\ ProducerLoop(t, 0) /\ UNCHANGED <<queue, running>>
  <2>1. UNCHANGED <<items, closed, buf, claimed, spec, ready, go, books, seq, done>>
    BY <1>2 DEF queue, running
  <2>2. /\ \A w \in Threads : w # t => pc'[w] = pc[w]
        /\ pc'[t] \in {"push_batch", "try_push", "push", "finished"}
        /\ spec.batch = 1 => pc'[t] \in {"try_push", "push", "finished"}
        /\ spec.batch > 1 => pc'[t] \in {"push_batch", "finished"}
        /\ pc'[t] = "finished" => (0 = Quota /\ spec.events # 0) \/ spec.paced
    BY <1>0, <1>2, LoopGoes, LoopEnds
  <2>3. Accounts(t) /\ Refusals(t) /\ seq[t] = 0
    BY <1>2 DEF BooksInv, LineInv, WithinQuota
  <2>4. ~(0 = Quota /\ spec.events # 0)
    BY DEF Quota
  <2>5. Upto(t)' = Upto(t) /\ BatchSize(t)' = BatchSize(t)
    BY <1>2, <2>1, <2>2 DEF Upto, BatchSize, Quota
  <2>6. /\ pc'[t] \notin {"absent", "start", "drained", "batch_done", "closed"}
        /\ spec.batch = 1 => pc'[t] \in Idle \cup Single
        /\ spec.batch > 1 => pc'[t] \in Idle \cup Batched
        /\ pc[t] \in Idle /\ pc[t] # "batch_done"
    BY <1>2, <2>2 DEF Idle, Single, Batched
  <2>7. Accounts(t)'
    BY <2>1, <2>3, <2>5, <2>6 DEF Accounts, books
  <2>8. Refusals(t)'
    BY <1>2, <2>1, <2>2, <2>3, <2>4, <2>6 DEF Refusals, books
  <2>9. \A q \in Producers : q # t => SameBooks(q)
    BY <2>1 DEF SameBooks, books
  <2>10. BookTypes' /\ Pushed(t)' = Pushed(t)
    BY <2>1, <2>5 DEF BookTypes, BooksInv, books, Pushed
  <2>11. consumed' = consumed /\ torn' = torn
    BY <2>1 DEF books
  <2> QED BY <1>2, <2>1, <2>2, <2>6, <2>7, <2>8, <2>9, <2>10, <2>11, ProducerReturns
<1>3. CASE pc[t] = "line" /\ t \in Consumers /\ ConsumerLoop(t) /\ UNCHANGED <<queue, running>>
  <2>1. UNCHANGED <<spec, ready, go, seq, books, claimed, items, closed, done, buf>>
    BY <1>3 DEF queue, running
  <2>2. pc'[t] \in {"pop_batch", "try_pop", "pop"} /\ \A w \in Threads : w # t => pc'[w] = pc[w]
    <3>1. pc' = [pc EXCEPT ![t] = pc'[t]] /\ pc'[t] \in {"pop_batch", "try_pop", "pop"}
      BY <1>0, <1>3, ConsumerGoes
    <3> QED BY <1>0, <3>1 DEF Types
  <2>3. pc'[Main] = pc[Main] /\ \A w \in Workers : w # t => pc'[w] = pc[w] /\ Quiet(w)
    BY <1>0, <2>2, Params DEF Quiet, Workers
  <2>4. t \notin Producers
    BY <1>3, Params
  <2>5. \A p \in Producers : p # t => Quiet(p) /\ SameBooks(p)
    BY <2>1, <2>3 DEF SameBooks, books, Workers
  <2>6. \A p \in Producers : Pushed(p)' = Pushed(p)
    BY <2>1, <2>4, <2>5, QuietProducer DEF BooksInv
  <2>7. Delivery' /\ BookTypes'
    <3>1. Delivery'
      BY <1>0, <2>1, <2>6, SameItems, SameDelivers
    <3> QED BY <2>1, <3>1 DEF BookTypes, BooksInv, books
  <2>8. (\E c \in Consumers : pc'[c] = "drained") => closed /\ size' = 0
    BY <1>0, <2>1, <2>2, <2>3 DEF Stages, Workers, items
  <2>9. Stages'
    BY <1>0, <1>3, <2>1, <2>2, <2>3, <2>8, WorkerGoesOn
  <2>10. \A c \in Consumers : c # t => Quiet(c) /\ SameTakings(c)
    BY <2>1, <2>3 DEF SameTakings, books, Workers
  <2>11. Consumption(t)'
    BY <1>3, <2>1, <2>2 DEF BooksInv, Consumption, books
  <2> QED BY <2>1, <2>4, <2>5, <2>7, <2>9, <2>10, <2>11, OthersKeepTheirs
<1>4. t \in Producers \/ t \in Consumers
  BY DEF Workers
<1> QED BY <1>1, <1>2, <1>3, <1>4, Params DEF WaitGo

\* The account of a push keeps the books.
LEMMA PushReturnsBooks ==
  ASSUME LineInv, BooksInv, NEW p \in Producers, PushReturns(p), spec.batch = 1
  PROVE  BooksInv'
<1>0. Types /\ Stages /\ p \in Threads /\ Accounts(p) /\ Refusals(p)
  BY Params DEF LineInv, BooksInv
<1>1. /\ UNCHANGED <<items, closed, buf, done, claimed, spec, ready, go, consumed, torn>>
      /\ pc[p] \in {"ok", "full", "closed", "timeout"}
  BY DEF PushReturns, queue
<1>2. /\ seq[p] \in Nat /\ offered[p] = seq[p] /\ done[p] = 0
      /\ accepted[p] \in SUBSET Nat /\ IsFiniteSet(accepted[p])
      /\ rejected[p] \in Nat /\ refused[p] \in Nat
      /\ offered[p] = Cardinality(accepted[p]) + rejected[p] + refused[p]
      /\ \A s \in accepted[p] : s < seq[p]
  BY <1>0 DEF Accounts, Types
<1>3. Cardinality(accepted[p]) \in Nat /\ seq[p] \notin accepted[p]
  BY <1>2, FS_CardinalityType
<1>4. BookTypes /\ BookTypes'
  BY <1>1 DEF BooksInv, BookTypes, PushReturns, Account
<1>5. /\ offered'[p] = offered[p] + 1 /\ seq'[p] = seq[p] + 1
      /\ accepted'[p] = IF pc[p] = "ok" THEN accepted[p] \cup {seq[p]} ELSE accepted[p]
      /\ refused'[p] = IF pc[p] = "closed" THEN refused[p] + 1 ELSE refused[p]
      /\ rejected'[p] = IF pc[p] \in {"full", "timeout"} THEN rejected[p] + 1 ELSE rejected[p]
  BY <1>0, <1>4 DEF BookTypes, PushReturns, Account, Types
<1>6. \A q \in Producers : q # p => SameBooks(q)
  BY <1>0, <1>1, <1>4 DEF BookTypes, PushReturns, Account, SameBooks, Types
<1>7. /\ \A w \in Threads : w # p => pc'[w] = pc[w]
      /\ pc'[p] \in {"try_push", "push", "finished"}
      /\ pc[p] = "closed" => pc'[p] = "finished"
      /\ pc[p] # "closed" /\ pc'[p] = "finished" =>
           (seq[p] + 1 = Quota /\ spec.events # 0) \/ spec.paced
  <2>1. CASE pc[p] = "closed" /\ Goto(p, "finished")
    BY <1>0, <2>1 DEF Goto, Types
  <2>2. CASE pc[p] # "closed" /\ ProducerLoop(p, seq[p] + 1)
    <3>1. seq[p] + 1 \in Int
      BY <1>2
    <3> QED BY <1>0, <2>2, <3>1, LoopEnds
  <2> QED BY <2>1, <2>2 DEF PushReturns, AfterPush
<1>8. Upto(p) = (IF pc[p] = "ok" THEN seq[p] + 1 ELSE seq[p]) /\ Upto(p)' = seq[p] + 1
  <2>1. spec' = spec /\ done'[p] = 0 /\ done[p] = 0
    BY <1>1, <1>2
  <2>2. seq[p] \in Nat
    BY <1>2
  <2>3. seq'[p] = seq[p] + 1
    BY <1>5
  <2>4. spec'.batch = 1 /\ ~(1 > 1)
    BY <2>1
  <2>5. Upto(p) = seq[p] + (IF pc[p] = "ok" THEN 1 ELSE 0)
    BY <1>1, <2>4 DEF Upto
  <2>6. Upto(p)' = seq'[p] + 0
    BY <1>7, <2>4 DEF Upto
  <2> QED BY <2>2, <2>3, <2>5, <2>6
<1>9. Accounts(p)'
  <2>1. /\ IsFiniteSet(accepted'[p])
        /\ Cardinality(accepted'[p]) =
             IF pc[p] = "ok" THEN Cardinality(accepted[p]) + 1 ELSE Cardinality(accepted[p])
    <3>1. IsFiniteSet(accepted[p]) /\ seq[p] \notin accepted[p]
      BY <1>2, <1>3
    <3>2. /\ IsFiniteSet(accepted[p] \cup {seq[p]})
          /\ Cardinality(accepted[p] \cup {seq[p]}) = Cardinality(accepted[p]) + 1
      BY <3>1, FS_AddElement
    <3> QED BY <1>5, <3>1, <3>2
  <2>2. accepted'[p] \in SUBSET Nat /\ \A s \in accepted'[p] : s < seq[p] + 1
    <3>1. /\ seq[p] \in Nat /\ accepted[p] \subseteq Nat
          /\ \A s \in accepted[p] : s < seq[p]
          /\ \A s \in accepted'[p] : s \in accepted[p] \/ s = seq[p]
      BY <1>2, <1>5
    <3>2. \A s \in accepted'[p] : s \in Nat /\ s < seq[p] + 1
      <4> SUFFICES ASSUME NEW s \in accepted'[p] PROVE s \in Nat /\ s < seq[p] + 1
        OBVIOUS
      <4>1. CASE s \in accepted[p]
        <5>1. s \in Nat /\ s < seq[p] /\ seq[p] \in Nat
          BY <3>1, <4>1
        <5> QED BY <5>1
      <4>2. CASE s = seq[p]
        BY <3>1, <4>2
      <4> QED BY <3>1, <4>1, <4>2
    <3> QED BY <3>2
  <2>3. offered'[p] = Cardinality(accepted'[p]) + rejected'[p] + refused'[p]
    BY <1>1, <1>2, <1>3, <1>5, <2>1
  <2>4. rejected'[p] \in Nat /\ refused'[p] \in Nat /\ offered'[p] = seq[p] + 1
    BY <1>2, <1>5
  <2>5. pc'[p] \in Idle \cup Single /\ spec'.batch = 1 /\ done'[p] = 0
    BY <1>1, <1>2, <1>7 DEF Idle, Single
  <2>6. spec'.batch = 1 /\ ~(1 > 1) /\ seq'[p] = seq[p] + 1 /\ offered'[p] \in Nat
    <3>1. seq[p] + 1 \in Nat
      BY <1>2
    <3> QED BY <1>5, <2>4, <2>5, <3>1
  <2>7. \A s \in accepted'[p] : s < offered'[p] /\ s < Upto(p)'
    BY <1>8, <2>2, <2>4
  <2> QED BY <2>1, <2>2, <2>3, <2>4, <2>5, <2>6, <2>7 DEF Accounts
<1>10. Refusals(p)'
  <2>1. ~spec.close_after => pc[p] # "closed"
    BY <1>0, <1>1, OpenUntilJoined DEF Refusals
  <2>2. spec.events # 0 => Quota = spec.events
    BY DEF Quota
  <2>3. ~spec.close_after =>
          /\ refused'[p] = 0
          /\ pc'[p] = "finished" /\ ~spec.paced => offered'[p] = spec.events
    BY <1>0, <1>2, <1>5, <1>7, <2>1, <2>2 DEF Refusals
  <2>4. spec.events = 0 /\ ~spec.paced => refused'[p] = IF pc'[p] = "finished" THEN 1 ELSE 0
    BY <1>0, <1>1, <1>2, <1>5, <1>7 DEF Refusals
  <2> QED BY <1>1, <1>7, <2>3, <2>4 DEF Refusals
<1>11. Pushed(p)' = Pushed(p)
  <2>1. seq'[p]..(Upto(p)' - 1) = {}
    <3>1. seq[p] \in Nat /\ seq'[p] = seq[p] + 1 /\ Upto(p)' = seq[p] + 1
      BY <1>2, <1>5, <1>8
    <3> QED BY <3>1
  <2>2. seq[p]..(Upto(p) - 1) = IF pc[p] = "ok" THEN {seq[p]} ELSE {}
    <3>1. seq[p] \in Nat /\ Upto(p) = (IF pc[p] = "ok" THEN seq[p] + 1 ELSE seq[p])
      BY <1>2, <1>8
    <3>2. seq[p]..seq[p] + 1 - 1 = {seq[p]} /\ seq[p]..seq[p] - 1 = {}
      BY <3>1
    <3>3. CASE pc[p] = "ok"
      BY <3>1, <3>2, <3>3
    <3>4. CASE pc[p] # "ok"
      BY <3>1, <3>2, <3>4
    <3> QED BY <3>3, <3>4
  <2> QED BY <1>5, <2>1, <2>2 DEF Pushed
<1> QED BY <1>1, <1>4, <1>6, <1>7, <1>9, <1>10, <1>11, ProducerReturns

\* The account of a batch, event by event, keeps the books.
LEMMA BatchReturnsBooks ==
  ASSUME LineInv, BooksInv, NEW p \in Producers, BatchReturns(p), spec.batch > 1
  PROVE  BooksInv'
<1> DEFINE result == IF offered[p] - seq[p] < done[p] THEN "ok"
                     ELSE IF closed THEN "closed" ELSE "timeout"
<1>0. Types /\ Stages /\ WithinQuota /\ p \in Threads /\ Accounts(p) /\ Refusals(p)
  BY Params DEF LineInv, BooksInv
<1>1. /\ items' = items /\ closed' = closed /\ mu' = mu /\ buf' = buf /\ spec' = spec
      /\ ready' = ready /\ go' = go /\ consumed' = consumed /\ torn' = torn /\ claimed' = claimed
      /\ pc[p] = "batch_done"
  BY DEF BatchReturns
<1>2. /\ seq[p] \in Nat /\ offered[p] \in Nat /\ done[p] \in Nat
      /\ spec.batch \in Nat /\ spec.batch # 1
      /\ BatchSize(p) \in Nat /\ BatchSize(p) <= Quota - seq[p] /\ Quota \in Nat
      /\ offered[p] >= seq[p] /\ offered[p] <= seq[p] + BatchSize(p) /\ done[p] <= BatchSize(p)
  <2>1. seq[p] <= Quota
    BY <1>0 DEF WithinQuota
  <2>2. BatchSize(p) \in Nat /\ BatchSize(p) <= Quota - seq[p] /\ Quota \in Nat
        /\ spec.batch \in Nat
    BY <1>0, <2>1, SizeType, QuotaType DEF Types
  <2>3. seq[p] \in Nat /\ done[p] \in Nat
    BY <1>0 DEF Types
  <2>4. offered[p] \in Nat /\ offered[p] >= seq[p] /\ offered[p] <= seq[p] + BatchSize(p)
        /\ done[p] <= BatchSize(p)
    BY <1>0 DEF Accounts
  <2> QED BY <2>2, <2>3, <2>4
<1>3. /\ accepted[p] \in SUBSET Nat /\ IsFiniteSet(accepted[p])
      /\ Cardinality(accepted[p]) \in Nat /\ rejected[p] \in Nat /\ refused[p] \in Nat
      /\ offered[p] = Cardinality(accepted[p]) + rejected[p] + refused[p]
  BY <1>0, FS_CardinalityType DEF Accounts
<1>4. /\ \A s \in accepted[p] : s < offered[p] /\ s < Upto(p)
      /\ \A s \in seq[p]..(offered[p] - 1) : s < Upto(p) => s \in accepted[p]
      /\ Upto(p) = seq[p] + done[p] /\ offered[p] \notin accepted[p]
  BY <1>0, <1>2 DEF Accounts, Upto
<1>5. BookTypes /\ BookTypes'
  BY <1>1 DEF BooksInv, BookTypes, BatchReturns, Account
<1>6. \A q \in Producers : q # p => SameBooks(q)
  BY <1>0, <1>5 DEF BookTypes, BatchReturns, Account, SameBooks, Types
<1>7. ~spec.close_after => result # "closed"
  BY <1>0, <1>1, OpenUntilJoined
<1>8. CASE offered[p] - seq[p] < BatchSize(p)
  <2>1. Account(p, result, offered[p]) /\ pc' = pc /\ seq' = seq /\ done' = done
    BY <1>8 DEF BatchReturns
  <2>2. /\ offered'[p] = offered[p] + 1 /\ seq'[p] = seq[p] /\ done'[p] = done[p]
        /\ accepted'[p] = IF offered[p] - seq[p] < done[p]
                            THEN accepted[p] \cup {offered[p]} ELSE accepted[p]
        /\ refused'[p] = IF result = "closed" THEN refused[p] + 1 ELSE refused[p]
        /\ rejected'[p] = IF result \in {"full", "timeout"} THEN rejected[p] + 1 ELSE rejected[p]
    BY <1>5, <2>1 DEF BookTypes, Account
  <2>3. Upto(p)' = Upto(p) /\ BatchSize(p)' = BatchSize(p)
    BY <1>1, <2>1 DEF Upto, BatchSize, Quota
  <2>4. offered[p] < Upto(p) <=> offered[p] - seq[p] < done[p]
    BY <1>2, <1>4
  <2>5. Accounts(p)'
    <3>1. /\ IsFiniteSet(accepted'[p])
          /\ Cardinality(accepted'[p]) = IF offered[p] - seq[p] < done[p]
               THEN Cardinality(accepted[p]) + 1 ELSE Cardinality(accepted[p])
      <4>1. /\ IsFiniteSet(accepted[p] \cup {offered[p]})
            /\ Cardinality(accepted[p] \cup {offered[p]}) = Cardinality(accepted[p]) + 1
        BY <1>3, <1>4, FS_AddElement
      <4> QED BY <1>3, <2>2, <4>1
    <3>2. rejected'[p] \in Nat /\ refused'[p] \in Nat /\ offered'[p] \in Nat
      BY <1>2, <1>3, <2>2
    <3>3. offered'[p] = Cardinality(accepted'[p]) + rejected'[p] + refused'[p]
      <4>1. CASE offered[p] - seq[p] < done[p]
        BY <1>3, <2>2, <3>1, <4>1
      <4>2. CASE ~(offered[p] - seq[p] < done[p]) /\ closed
        BY <1>3, <2>2, <3>1, <4>2
      <4>3. CASE ~(offered[p] - seq[p] < done[p]) /\ ~closed
        BY <1>3, <2>2, <3>1, <4>3
      <4> QED BY <4>1, <4>2, <4>3
    <3>4. /\ accepted'[p] \in SUBSET Nat
          /\ \A s \in accepted'[p] : s < offered'[p] /\ s < Upto(p)'
      <4>1. \A s \in accepted'[p] : s \in accepted[p] \/ (s = offered[p] /\ offered[p] < Upto(p))
        BY <2>2, <2>4
      <4>2. offered[p] \in Nat /\ accepted[p] \subseteq Nat /\ offered'[p] = offered[p] + 1
        BY <1>2, <1>3, <2>2
      <4>3. \A s \in accepted[p] : s \in Nat /\ s < offered[p] /\ s < Upto(p)
        BY <1>4, <4>2
      <4> SUFFICES ASSUME NEW s \in accepted'[p]
                   PROVE  s \in Nat /\ s < offered'[p] /\ s < Upto(p)'
        OBVIOUS
      <4>4. CASE s \in accepted[p]
        <5>1. s \in Nat /\ s < offered[p] /\ s < Upto(p)
          BY <4>3, <4>4
        <5> QED BY <2>3, <4>2, <5>1
      <4>5. CASE s = offered[p] /\ offered[p] < Upto(p)
        BY <2>3, <4>2, <4>5
      <4> QED BY <4>1, <4>4, <4>5
    <3>5. offered'[p] >= seq'[p] /\ offered'[p] <= seq'[p] + BatchSize(p)' /\ done'[p] <= BatchSize(p)'
      <4>1. offered[p] + 1 >= seq[p] /\ offered[p] + 1 <= seq[p] + BatchSize(p)
        BY <1>2, <1>8
      <4> QED BY <1>2, <2>2, <2>3, <4>1
    <3>6. \A s \in seq'[p]..(offered'[p] - 1) : s < Upto(p)' => s \in accepted'[p]
      <4> SUFFICES ASSUME NEW s \in seq[p]..offered[p], s < Upto(p) PROVE s \in accepted'[p]
        BY <1>2, <2>2, <2>3
      <4>1. CASE s = offered[p]
        BY <2>2, <2>4, <4>1
      <4>2. CASE s \in seq[p]..(offered[p] - 1)
        BY <1>4, <2>2, <4>2
      <4> QED BY <1>2, <4>1, <4>2
    <3>7. pc'[p] = "batch_done" /\ "batch_done" \in Batched /\ "batch_done" \notin Idle
      BY <1>1, <2>1 DEF Batched, Idle
    <3>8. spec'.batch # 1
      BY <1>1, <1>2
    <3> QED BY <3>1, <3>2, <3>3, <3>4, <3>5, <3>6, <3>7, <3>8 DEF Accounts
  <2>6. Refusals(p)'
    <3>1. ~spec.close_after => refused'[p] = 0
      BY <1>0, <1>7, <2>2 DEF Refusals
    <3>2. pc'[p] = "batch_done" /\ spec'.batch # 1 /\ spec' = spec
      BY <1>1, <1>2, <2>1
    <3> QED BY <3>1, <3>2 DEF Refusals
  <2>7. Pushed(p)' = Pushed(p)
    <3>1. offered[p] - seq[p] < done[p] => offered[p] \in seq[p]..(Upto(p) - 1)
      BY <1>2, <1>4
    <3> QED BY <2>2, <2>3, <3>1 DEF Pushed
  <2>8. \A w \in Threads : w # p => pc'[w] = pc[w]
    BY <2>1
  <2>9. pc'[p] = "batch_done"
    BY <1>1, <2>1
  <2> QED BY <1>1, <1>5, <1>6, <2>5, <2>6, <2>7, <2>8, <2>9, ProducerReturns
<1>9. CASE ~(offered[p] - seq[p] < BatchSize(p))
  <2>1. /\ seq' = [seq EXCEPT ![p] = @ + BatchSize(p)] /\ done' = [done EXCEPT ![p] = 0]
        /\ AfterPush(p, IF done[p] < BatchSize(p) THEN result ELSE "ok", seq[p] + BatchSize(p))
        /\ accepted' = accepted /\ offered' = offered /\ rejected' = rejected /\ refused' = refused
    BY <1>9 DEF BatchReturns
  <2>2. offered[p] = seq[p] + BatchSize(p)
    BY <1>2, <1>9
  <2>3. seq'[p] = offered[p] /\ done'[p] = 0
    <3>1. seq'[p] = seq[p] + BatchSize(p) /\ done'[p] = 0
      BY <1>0, <2>1 DEF Types
    <3> QED BY <2>2, <3>1
  <2>4. /\ \A w \in Threads : w # p => pc'[w] = pc[w]
        /\ pc'[p] \in {"push_batch", "finished"}
        /\ ~spec.close_after /\ pc'[p] = "finished" => (offered[p] = Quota /\ spec.events # 0) \/ spec.paced
    <3>1. CASE Goto(p, "finished") /\ result = "closed"
      BY <1>0, <1>7, <3>1 DEF Goto, Types
    <3>2. CASE ProducerLoop(p, seq[p] + BatchSize(p))
      <4>1. seq[p] + BatchSize(p) \in Int
        BY <1>2
      <4> QED BY <1>0, <2>2, <3>2, <4>1, LoopEnds
    <3> QED BY <2>1, <3>1, <3>2 DEF AfterPush
  <2>5. Upto(p)' = offered[p]
    <3>1. Upto(p)' = seq'[p] + done'[p]
      BY <1>1 DEF Upto
    <3> QED BY <1>2, <2>3, <3>1
  <2>6. BatchSize(p)' \in Nat
    <3>1. offered[p] <= Quota
      BY <1>2, <2>2
    <3>2. BatchSize(p)' = IF spec.batch < Quota - offered[p] THEN spec.batch ELSE Quota - offered[p]
      BY <1>1, <2>3 DEF BatchSize, Quota
    <3> QED BY <1>2, <3>1, <3>2
  <2>7. Accounts(p)'
    <3>1. /\ offered'[p] >= seq'[p] /\ offered'[p] <= seq'[p] + BatchSize(p)'
          /\ done'[p] <= BatchSize(p)' /\ offered'[p] = seq'[p]
      BY <1>2, <2>1, <2>3, <2>6
    <3>2. \A s \in accepted'[p] : s < offered'[p] /\ s < Upto(p)'
      BY <1>4, <2>1, <2>5
    <3>3. \A s \in seq'[p]..(offered'[p] - 1) : FALSE
      BY <1>2, <2>1, <2>3
    <3>4. pc'[p] \in Idle \cup Batched /\ spec'.batch # 1
      BY <1>1, <1>2, <2>4 DEF Idle, Batched
    <3> QED BY <1>2, <1>3, <2>1, <2>3, <3>1, <3>2, <3>3, <3>4 DEF Accounts
  <2>8. Refusals(p)'
    <3>1. spec.events # 0 => Quota = spec.events
      BY DEF Quota
    <3>2. spec'.batch # 1 /\ spec' = spec /\ offered'[p] = offered[p] /\ refused'[p] = refused[p]
      BY <1>1, <1>2, <2>1
    <3> QED BY <1>0, <2>4, <3>1, <3>2 DEF Refusals
  <2>9. Pushed(p)' = Pushed(p)
    <3>1. seq'[p]..(Upto(p)' - 1) = {}
      BY <1>2, <2>3, <2>5
    <3>2. seq[p]..(Upto(p) - 1) \subseteq accepted[p]
      <4> SUFFICES ASSUME NEW s \in seq[p]..(Upto(p) - 1) PROVE s \in accepted[p]
        OBVIOUS
      <4>1. s \in seq[p]..(offered[p] - 1) /\ s < Upto(p)
        BY <1>2, <1>4, <2>2
      <4> QED BY <1>4, <4>1
    <3> QED BY <2>1, <3>1, <3>2 DEF Pushed
  <2> QED BY <1>1, <1>5, <1>6, <2>4, <2>7, <2>8, <2>9, ProducerReturns
<1> QED BY <1>8, <1>9

\* Every call of MutexQueue keeps the books.
LEMMA CallBooks ==
  ASSUME LineInv, BooksInv, NEW t \in Workers, Calls(t)
  PROVE  BooksInv'
<1>0. Types /\ WithinQuota /\ Claims /\ Untouched /\ spec.batch \in Nat /\ spec.batch >= 1
  <2>1. Types /\ WithinQuota
    BY DEF LineInv
  <2> QED BY <2>1, QuotaType DEF Calls, Untouched, Types
<1>1. CASE t \in Producers /\ spec.batch > 1
  <2>1. Batch(t, BatchSize(t), NextBatch(t))
    BY <1>1, Params DEF Calls
  <2> QED BY <1>0, <1>1, <2>1, BatchBooks
<1>2. CASE t \in Producers /\ ~(spec.batch > 1)
  <2>1. TryPush(t, Event(t, seq[t])) \/ Push(t, Event(t, seq[t])) \/ PushNotify(t)
    BY <1>2, Params DEF Calls
  <2>2. spec.batch = 1
    BY <1>0, <1>2
  <2>3. CASE TryPush(t, Event(t, seq[t]))
    <3>1. ~closed => Event(t, seq[t]) \in Events
      BY <1>0, <1>2, <2>2, <2>3, NextEvent DEF TryPush, Enters
    <3> QED BY <1>0, <1>2, <2>2, <2>3, <3>1, TryPushBooks
  <2>4. CASE Push(t, Event(t, seq[t]))
    <3>1. ~closed => Event(t, seq[t]) \in Events
      BY <1>0, <1>2, <2>2, <2>4, NextEvent DEF Push, Enters
    <3> QED BY <1>0, <1>2, <2>2, <2>4, <3>1, PushBooks
  <2>5. CASE PushNotify(t)
    BY <1>0, <1>2, <2>2, <2>5, PushNotifyBooks
  <2> QED BY <2>1, <2>3, <2>4, <2>5
<1>3. CASE t \in Consumers
  <2>1. PopBatch(t, spec.batch) \/ TryPop(t) \/ Pop(t) \/ PopNotify(t)
    BY <1>3, Params DEF Calls
  <2> QED BY <1>0, <1>3, <2>1, PopBatchBooks, TryPopBooks, PopBooks, PopNotifyBooks
<1> QED BY <1>1, <1>2, <1>3 DEF Workers

\* So does every step of driver and queue.
LEMMA NextBooks ==
  ASSUME LineInv, BooksInv, [Next \/ Over]_vars
  PROVE  BooksInv'
<1>0. Types /\ spec.batch \in Nat /\ spec.batch >= 1
  BY QuotaType DEF LineInv, Types
<1>1. ASSUME NEW p \in Producers, Produces(p) PROVE BooksInv'
  <2>0. p \in Workers
    BY DEF Workers
  <2>1. CASE WaitGo(p)
    BY <2>0, <2>1, WaitGoBooks
  <2>2. CASE Calls(p)
    BY <2>0, <2>2, CallBooks
  <2>3. CASE spec.batch > 1 /\ BatchReturns(p)
    BY <2>3, BatchReturnsBooks
  <2>4. CASE ~(spec.batch > 1) /\ PushReturns(p)
    <3>1. spec.batch = 1
      BY <1>0, <2>4
    <3> QED BY <2>4, <3>1, PushReturnsBooks
  <2> QED BY <1>1, <2>1, <2>2, <2>3, <2>4 DEF Produces
<1>2. ASSUME NEW c \in Consumers, Consumes(c) PROVE BooksInv'
  <2>0. c \in Workers
    BY DEF Workers
  <2>1. CASE WaitGo(c)
    BY <2>0, <2>1, WaitGoBooks
  <2>2. CASE PopReturns(c)
    BY <2>2, PopReturnsBooks
  <2>3. CASE Calls(c)
    BY <2>0, <2>3, CallBooks
  <2> QED BY <1>2, <2>1, <2>2, <2>3 DEF Consumes
<1>3. CASE RunMain
  BY <1>3, RunMainBooks
<1>4. ASSUME NEW t \in Producers \cup Consumers, WakeAlone(t), UNCHANGED running
      PROVE  BooksInv'
  BY <1>4, WakeAloneBooks DEF Workers
<1>5. CASE UNCHANGED vars
  <2>1. Stages
    BY DEF BooksInv
  <2>2. UNCHANGED <<spec, ready, go, seq, books, claimed, items, done, buf, closed, pc>>
    BY <1>5 DEF vars, queue
  <2>3. \A w \in Workers : Quiet(w)
    BY <2>2 DEF Quiet
  <2> QED BY <2>1, <2>2, <2>3, NoBooks DEF Stages
<1> QED BY <1>1, <1>2, <1>3, <1>4, <1>5 DEF Next, Over

\* At the start the books are empty.
LEMMA InitBooks ==
  ASSUME Init
  PROVE  BooksInv
<1>0. /\ Types /\ WithinQuota /\ Line = <<>> /\ ~closed
      /\ claimed = [c \in Consumers |-> <<>>]
  BY InitLine DEF LineInv
<1>1. /\ \A t \in Threads : pc[t] \in {"start", "absent"}
      /\ \A t \in Workers : t \notin Running => pc[t] = "absent"
      /\ pc[Main] = "start"
  BY Params DEF Init, Workers, Threads
<1>2. Stages
  <2>1. Started = {}
    BY <1>1 DEF Started, Workers, Threads
  <2>2. ready = Cardinality(Started)
    BY <2>1, FS_EmptySet DEF Init
  <2>3. \A c \in Consumers : pc[c] # "drained"
    BY <1>1, Params
  <2> QED BY <1>0, <1>1, <2>2, <2>3 DEF Stages, Init, Closing
<1>3. BookTypes
  BY DEF BookTypes, Init
<1>4. ASSUME NEW p \in Producers PROVE Accounts(p) /\ Refusals(p) /\ Pushed(p) = {}
  <2>1. /\ accepted[p] = {} /\ offered[p] = 0 /\ rejected[p] = 0 /\ refused[p] = 0
        /\ seq[p] = 0 /\ done[p] = 0 /\ pc[p] \in {"start", "absent"}
    BY <1>1, Params DEF Init, QueueInit
  <2>2. BatchSize(p) \in Nat
    <3>1. Quota \in Nat /\ seq[p] <= Quota
      BY <1>0, <2>1, QuotaType DEF Types
    <3> QED BY <1>0, <3>1, SizeType
  <2>3. Upto(p) = 0
    BY <2>1 DEF Upto
  <2>4. IsFiniteSet({}) /\ Cardinality({}) = 0
    BY FS_EmptySet
  <2>5. pc[p] \in Idle /\ pc[p] \notin {"batch_done", "finished", "closed"}
    BY <2>1 DEF Idle
  <2>6. Accounts(p)
    BY <2>1, <2>2, <2>3, <2>4, <2>5 DEF Accounts
  <2>7. Refusals(p)
    BY <2>1, <2>5 DEF Refusals
  <2>8. Pushed(p) = {}
    BY <2>1, <2>3 DEF Pushed
  <2> QED BY <2>6, <2>7, <2>8
<1>5. ASSUME NEW c \in Consumers PROVE Consumption(c)
  <2>1. /\ torn[c] = 0 /\ consumed[c] = <<>> /\ buf[c] = <<>> /\ claimed[c] = <<>>
        /\ pc[c] \in {"start", "absent"}
    BY <1>0, <1>1, Params DEF Init, QueueInit
  <2>2. <<>> \in Seq(Events) /\ Joins(<<>>, <<>>, <<>>)
    BY DEF Joins
  <2> QED BY <2>1, <2>2 DEF Consumption
<1>6. Delivery
  <2> DEFINE pushed == [p \in Producers |-> Pushed(p)]
  <2>1. \A p \in Producers : pushed[p] = {}
    BY <1>4
  <2>2. \A c \in Consumers : claimed[c] = <<>>
    BY <1>0
  <2>3. <<>> \in Seq(Events) /\ InOrder(<<>>) /\ DOMAIN <<>> = {} /\ Range(<<>>) = {}
    BY DEF InOrder, Range
  <2>4. Delivered(<<>>, claimed, pushed)
    <3> HIDE DEF pushed
    <3>1. UNION {Range(claimed[c]) : c \in Consumers} = {}
      BY <2>2, <2>3
    <3>2. UNION {{Event(p, s) : s \in pushed[p]} : p \in Producers} = {}
      BY <2>1
    <3> QED BY <2>2, <2>3, <3>1, <3>2 DEF Delivered
  <2> QED BY <1>0, <2>4 DEF Delivery
<1> QED BY <1>2, <1>3, <1>4, <1>5, <1>6 DEF BooksInv

\* The books at any moment: what was pushed is in the line, in a buffer or consumed,
\* and has been counted or will be by the thread that pushed it.
THEOREM BooksInvariant == Spec => []BooksInv
<1>1. Init => BooksInv
  BY InitBooks
<1>2. LineInv /\ BooksInv /\ [Next \/ Over]_vars => BooksInv'
  BY NextBooks
<1> QED BY <1>1, <1>2, QueueInvariant, PTL DEF Spec

-----------------------------------------------------------------------------
(* The end of a run. *)

\* When the run is over everybody has joined, a consumer of the run has been told
\* that the queue is drained, and so everything that was accepted has been consumed.
LEMMA AtTheEnd ==
  ASSUME LineInv, BooksInv, pc[Main] = "over"
  PROVE  /\ closed /\ Line = <<>>
         /\ \A p \in Producers : /\ Pushed(p) = accepted[p] /\ done[p] = 0
                                 /\ p \in spec.producers => pc[p] = "finished"
         /\ \A c \in Consumers : consumed[c] = claimed[c]
<1>0. Types /\ Stages /\ spec \in RunSpecType /\ spec.consumers # {}
      /\ spec.batch \in Nat /\ spec.batch >= 1
  <2>1. Types
    BY DEF LineInv
  <2> QED BY <2>1, DriverAssumption, QuotaType DEF BooksInv, Types
<1>1. \A w \in Workers : /\ pc[w] \in {"absent", "finished", "drained"}
                         /\ w \in Running => pc[w] \in {"finished", "drained"}
  BY <1>0 DEF Stages, Joined
<1>2. \A p \in Producers : /\ pc[p] \in {"absent", "finished"}
                           /\ p \in spec.producers => pc[p] = "finished"
  <2> SUFFICES ASSUME NEW p \in Producers
               PROVE  /\ pc[p] \in {"absent", "finished"}
                      /\ p \in spec.producers => pc[p] = "finished"
    OBVIOUS
  <2>1. pc[p] \in Idle \cup Single \cup Batched
    BY <1>0 DEF BooksInv, Accounts
  <2> QED BY <1>1, <2>1 DEF Workers, Idle, Single, Batched, Running
<1>3. \A c \in Consumers : /\ pc[c] \in {"absent", "drained"}
                           /\ c \in spec.consumers => pc[c] = "drained"
  <2> SUFFICES ASSUME NEW c \in Consumers
               PROVE  /\ pc[c] \in {"absent", "drained"}
                      /\ c \in spec.consumers => pc[c] = "drained"
    OBVIOUS
  <2>1. pc[c] # "finished"
    BY DEF BooksInv, Consumption
  <2> QED BY <1>1, <2>1 DEF Workers, Running
<1>4. closed /\ size = 0
  <2>1. PICK c \in spec.consumers : c \in Consumers
    BY <1>0 DEF RunSpecType
  <2> QED BY <1>0, <1>3, <2>1 DEF Stages
<1>5. Line = <<>>
  BY <1>0, <1>4, LineType, EmptySeq
<1>6. ASSUME NEW p \in Producers PROVE Pushed(p) = accepted[p] /\ done[p] = 0
  <2>1. Accounts(p) /\ seq[p] \in Nat /\ pc[p] \in Idle /\ pc[p] \notin {"put", "ok"}
    BY <1>0, <1>2 DEF BooksInv, Types, Idle
  <2>2. done[p] = 0
    BY <1>0, <2>1 DEF Accounts
  <2>3. Upto(p) = seq[p]
    BY <2>1, <2>2 DEF Upto
  <2>4. seq[p]..(seq[p] - 1) = {}
    BY <2>1
  <2> QED BY <2>2, <2>3, <2>4 DEF Pushed
<1>7. ASSUME NEW c \in Consumers PROVE consumed[c] = claimed[c]
  <2>1. /\ consumed[c] \in Seq(Events) /\ Joins(claimed[c], consumed[c], buf[c]) /\ buf[c] = <<>>
    BY <1>3 DEF BooksInv, Consumption
  <2>2. claimed[c] \in Seq(Events)
    BY DEF BooksInv, Delivery, Delivered
  <2> QED BY <2>1, <2>2, JoinsNothing
<1> QED BY <1>2, <1>4, <1>5, <1>6, <1>7

\* A list in order has nothing twice, and no disorder.
LEMMA OrderedOnce ==
  ASSUME NEW list \in Seq(Events), InOrder(list)
  PROVE  /\ ToBag(list) = SetToBag(Range(list))
         /\ {j \in DOMAIN list : \E i \in 1..(j - 1) : /\ list[i].producer = list[j].producer
                                                       /\ list[i].seq >= list[j].seq} = {}
<1>1. /\ DOMAIN list = 1..Len(list) /\ Len(list) \in Nat
      /\ \A i \in DOMAIN list : list[i] \in Events /\ list[i].seq \in Nat
  <2>1. DOMAIN list = 1..Len(list) /\ Len(list) \in Nat
    BY LenProperties
  <2>2. \A i \in DOMAIN list : list[i] \in Events
    BY <2>1, ElementOfSeq
  <2> QED BY <2>1, <2>2, EventFields
<1>2. \A i, j \in DOMAIN list :
        i < j /\ list[i].producer = list[j].producer => list[i].seq < list[j].seq
  BY DEF InOrder
<1>3. \A i, j \in DOMAIN list : list[i] = list[j] => i = j
  <2> SUFFICES ASSUME NEW i \in DOMAIN list, NEW j \in DOMAIN list, list[i] = list[j], i # j
               PROVE  FALSE
    OBVIOUS
  <2>1. list[i].seq \in Nat /\ i \in Nat /\ j \in Nat
    BY <1>1
  <2>2. i < j \/ j < i
    BY <2>1
  <2>3. list[i].seq < list[i].seq
    BY <1>2, <2>2
  <2> QED BY <2>1, <2>3
<1>4. \A x \in Range(list) : Cardinality({i \in DOMAIN list : list[i] = x}) = 1
  <2> SUFFICES ASSUME NEW k \in DOMAIN list
               PROVE  Cardinality({i \in DOMAIN list : list[i] = list[k]}) = 1
    BY DEF Range
  <2>1. {i \in DOMAIN list : list[i] = list[k]} = {k}
    BY <1>3
  <2> QED BY <2>1, FS_Singleton
<1>5. ToBag(list) = SetToBag(Range(list))
  BY <1>4 DEF ToBag, SetToBag
<1>6. ASSUME NEW j \in DOMAIN list, NEW i \in 1..(j - 1), list[i].producer = list[j].producer,
             list[i].seq >= list[j].seq
      PROVE  FALSE
  <2>1. i \in DOMAIN list /\ i < j
    BY <1>1
  <2>2. list[i].seq < list[j].seq
    BY <1>2, <1>6, <2>1
  <2>3. list[i].seq \in Nat /\ list[j].seq \in Nat
    BY <1>1, <2>1
  <2> QED BY <1>6, <2>2, <2>3
<1> QED BY <1>5, <1>6

\* What was offered was accepted, rejected or refused.
LEMMA SumsBalance ==
  ASSUME BooksInv
  PROVE  SumFunction(offered) =
           SumFunction([p \in Producers |-> Cardinality(accepted[p])])
             + SumFunction(rejected) + SumFunction(refused)
<1> DEFINE counted == [p \in Producers |-> Cardinality(accepted[p])]
<1>1. DOMAIN offered = Producers /\ DOMAIN rejected = Producers /\ DOMAIN refused = Producers
      /\ DOMAIN counted = Producers
  BY DEF BooksInv, BookTypes
<1>2. IsFiniteSet(Producers)
  <2>1. Producers \in SUBSET (Producers \cup Consumers)
    OBVIOUS
  <2> QED BY <2>1, DriverAssumption, FS_Subset
<1>3. \A p \in Producers : /\ counted[p] \in Nat /\ rejected[p] \in Nat /\ refused[p] \in Nat
                           /\ offered[p] = counted[p] + rejected[p] + refused[p]
  <2> SUFFICES ASSUME NEW p \in Producers
               PROVE  /\ counted[p] \in Nat /\ rejected[p] \in Nat /\ refused[p] \in Nat
                      /\ offered[p] = counted[p] + rejected[p] + refused[p]
    OBVIOUS
  <2>1. Accounts(p)
    BY DEF BooksInv
  <2>2. Cardinality(accepted[p]) \in Nat
    BY <2>1, FS_CardinalityType DEF Accounts
  <2> QED BY <2>1, <2>2 DEF Accounts
<1> HIDE DEF counted
<1>4. SumFunction(offered) = SumFunction(counted) + SumFunction(rejected) + SumFunction(refused)
  BY <1>1, <1>2, <1>3, SumOfSums
<1> QED BY <1>4 DEF counted

\* What was accepted has been consumed, each event once.
LEMMA TalliesAgree ==
  ASSUME LineInv, BooksInv, pc[Main] = "over"
  PROVE  TallyAccepted = TallyConsumed
<1> DEFINE f == [c \in Consumers |-> ToBag(consumed[c])]
           Kinds == [c \in Consumers |-> Range(consumed[c])]
<1>1. /\ Delivered(<<>>, claimed, [p \in Producers |-> Pushed(p)])
      /\ \A c \in Consumers : consumed[c] = claimed[c]
      /\ \A p \in Producers : Pushed(p) = accepted[p]
  BY AtTheEnd DEF BooksInv, Delivery
<1>2. \A c \in Consumers : /\ consumed[c] \in Seq(Events) /\ InOrder(consumed[c])
                           /\ \A d \in Consumers : c # d =>
                                Range(consumed[c]) \cap Range(consumed[d]) = {}
  BY <1>1 DEF Delivered
<1>3. \A c \in Consumers : f[c] = SetToBag(Kinds[c])
  BY <1>2, OrderedOnce
<1>4. \A c, d \in Consumers : c # d => Kinds[c] \cap Kinds[d] = {}
  BY <1>2
<1>5. UNION {Kinds[c] : c \in Consumers} = UNION {{Event(p, s) : s \in accepted[p]} : p \in Producers}
  <2>1. Range(<<>>) = {}
    BY DEF Range
  <2>2. UNION {Range(claimed[c]) : c \in Consumers}
          = UNION {{Event(p, s) : s \in Pushed(p)} : p \in Producers}
    <3> DEFINE pushed == [p \in Producers |-> Pushed(p)]
    <3>1. Range(<<>>) \cup UNION {Range(claimed[c]) : c \in Consumers}
            = UNION {{Event(p, s) : s \in pushed[p]} : p \in Producers}
      <4> HIDE DEF pushed
      <4>1. Delivered(<<>>, claimed, pushed)
        BY <1>1 DEF pushed
      <4> QED BY <4>1 DEF Delivered
    <3>2. UNION {{Event(p, s) : s \in pushed[p]} : p \in Producers}
            = UNION {{Event(p, s) : s \in Pushed(p)} : p \in Producers}
      OBVIOUS
    <3> QED BY <2>1, <3>1, <3>2
  <2>3. UNION {Kinds[c] : c \in Consumers} = UNION {Range(claimed[c]) : c \in Consumers}
    BY <1>1
  <2>4. UNION {{Event(p, s) : s \in Pushed(p)} : p \in Producers}
          = UNION {{Event(p, s) : s \in accepted[p]} : p \in Producers}
    BY <1>1
  <2> QED BY <2>2, <2>3, <2>4
<1>6. IsFiniteSet(Consumers) /\ DOMAIN f = Consumers
  <2>1. Consumers \in SUBSET (Producers \cup Consumers)
    OBVIOUS
  <2> QED BY <2>1, DriverAssumption, FS_Subset
<1>7. TallyConsumed = Together(f)
  BY DEF TallyConsumed
<1> HIDE DEF f, Kinds
<1>8. Together(f) = SetToBag(UNION {Kinds[c] : c \in Consumers})
  BY <1>3, <1>4, <1>6, SumOfBags
<1> QED BY <1>5, <1>7, <1>8 DEF TallyAccepted

\* The types that a run keeps to.
LEMMA BookedTypes ==
  ASSUME LineInv, BooksInv
  PROVE  TypeOK
<1>0. Types /\ Stages
  BY DEF LineInv, BooksInv
<1>1. ready \in 0..Cardinality(Producers \cup Consumers)
  <2>1. Started \in SUBSET (Producers \cup Consumers) /\ IsFiniteSet(Producers \cup Consumers)
    BY DriverAssumption DEF Started, Workers
  <2>2. /\ IsFiniteSet(Started) /\ Cardinality(Started) \in Nat
        /\ Cardinality(Producers \cup Consumers) \in Nat
        /\ Cardinality(Started) <= Cardinality(Producers \cup Consumers)
    BY <2>1, FS_Subset, FS_CardinalityType
  <2> QED BY <1>0, <2>2 DEF Stages
<1>2. ASSUME NEW p \in Producers PROVE done[p] \in 0..spec.batch /\ seq[p] \in Nat
  <2>1. spec.batch \in Nat /\ spec.batch >= 1 /\ Quota \in Nat /\ seq[p] \in Nat /\ done[p] \in Nat
    BY <1>0, QuotaType DEF Types
  <2>2. Accounts(p)
    BY DEF BooksInv
  <2>3. CASE spec.batch = 1
    BY <2>1, <2>2, <2>3 DEF Accounts
  <2>4. CASE spec.batch > 1
    <3>1. done[p] <= BatchSize(p)
      BY <2>2, <2>4 DEF Accounts
    <3>2. BatchSize(p) <= spec.batch /\ BatchSize(p) \in Int
      BY <2>1 DEF BatchSize
    <3> QED BY <2>1, <3>1, <3>2
  <2> QED BY <2>1, <2>3, <2>4
<1>3. /\ size \in 0..N /\ head \in 0..(N - 1) /\ closed \in BOOLEAN
      /\ mu \in Threads \cup {Free} /\ go \in BOOLEAN
  BY <1>0 DEF Types, Stages
<1> QED BY <1>1, <1>2, <1>3 DEF TypeOK

\* check_run passes when the run is over.
LEMMA ChecksOut ==
  ASSUME LineInv, BooksInv, pc[Main] = "over"
  PROVE  check_run(Result)
<1>0. spec \in RunSpecType /\ spec.consumers # {}
  BY DriverAssumption DEF LineInv, Types
<1>1. IsFiniteSet(Consumers)
  <2>1. Consumers \in SUBSET (Producers \cup Consumers)
    OBVIOUS
  <2> QED BY <2>1, DriverAssumption, FS_Subset
<1>2. SumFunction(torn) = 0
  <2>1. DOMAIN torn = Consumers /\ \A c \in Consumers : torn[c] = 0
    BY DEF BooksInv, BookTypes, Consumption
  <2> QED BY <1>1, <2>1, SumOfZeros
<1>3. SumFunction([c \in Consumers |-> Cardinality(Disorder(c))]) = 0
  <2> DEFINE disorder == [c \in Consumers |-> Cardinality(Disorder(c))]
  <2>1. \A c \in Consumers : disorder[c] = 0
    <3> SUFFICES ASSUME NEW c \in Consumers PROVE Cardinality(Disorder(c)) = 0
      OBVIOUS
    <3>1. consumed[c] = claimed[c] /\ claimed[c] \in Seq(Events) /\ InOrder(claimed[c])
      BY AtTheEnd DEF BooksInv, Delivery, Delivered
    <3>2. consumed[c] \in Seq(Events) /\ InOrder(consumed[c])
      BY <3>1
    <3>3. Disorder(c) = {}
      BY <3>2, OrderedOnce DEF Disorder
    <3> QED BY <3>3, FS_EmptySet
  <2>2. DOMAIN disorder = Consumers
    OBVIOUS
  <2>3. SumFunction(disorder) = 0
    <3> HIDE DEF disorder
    <3> QED BY <1>1, <2>1, <2>2, SumOfZeros
  <2> QED BY <2>3
<1>4. TallyAccepted = TallyConsumed
  BY TalliesAgree
<1>5. /\ Result.offered = SumFunction(offered)
      /\ Result.accepted = SumFunction([p \in Producers |-> Cardinality(accepted[p])])
      /\ Result.rejected = SumFunction(rejected)
      /\ Result.refused_closed = SumFunction(refused)
      /\ Result.torn = SumFunction(torn)
      /\ Result.disorder = SumFunction([c \in Consumers |-> Cardinality(Disorder(c))])
      /\ Result.exactly_once <=>
           spec.consumers # {} /\ TallyAccepted = TallyConsumed /\ SumFunction(torn) = 0
  BY DEF Result
<1>6. Result.offered = Result.accepted + Result.rejected + Result.refused_closed
  BY <1>5, SumsBalance
<1> QED BY <1>0, <1>2, <1>3, <1>4, <1>5, <1>6 DEF check_run

\* Producers have learned of the close as they should.
LEMMA RefusalsLearned ==
  ASSUME LineInv, BooksInv, pc[Main] = "over"
  PROVE  LearnedByRefusal(Result)
<1>0. /\ spec \in RunSpecType /\ (spec.events = 0 => spec.close_after \/ spec.paced)
      /\ \A p \in spec.producers : p \in Producers /\ pc[p] = "finished"
  <2>1. spec \in RunSpecs
    BY DEF LineInv, Types
  <2>2. spec \in RunSpecType /\ (spec.events = 0 => spec.close_after \/ spec.paced)
    BY <2>1, DriverAssumption
  <2>3. \A p \in spec.producers : p \in Producers
    BY <2>2 DEF RunSpecType
  <2> QED BY <2>2, <2>3, AtTheEnd
<1>1. /\ Result.refused_closed = SumFunction(refused)
      /\ Result.producers_unfinished = Cardinality({p \in spec.producers : ~FinishedQuota(p)})
  BY DEF Result
<1>2. ASSUME spec.events = 0, spec.batch = 1, ~spec.paced
      PROVE  /\ \A p \in spec.producers : refused[p] = 1
             /\ Result.producers_unfinished = Cardinality(spec.producers)
  <2>1. \A p \in spec.producers : refused[p] = 1
    BY <1>0, <1>2 DEF BooksInv, Refusals
  <2>2. {p \in spec.producers : ~FinishedQuota(p)} = spec.producers
    BY <1>2 DEF FinishedQuota
  <2> QED BY <1>1, <2>1, <2>2
<1>3. ASSUME ~spec.close_after
      PROVE  Result.refused_closed = 0 /\ Result.producers_unfinished = 0
  <2>1. DOMAIN refused = Producers /\ \A p \in Producers : refused[p] = 0
    BY <1>3 DEF BooksInv, BookTypes, Refusals
  <2>2. IsFiniteSet(Producers)
    <3>1. Producers \in SUBSET (Producers \cup Consumers)
      OBVIOUS
    <3> QED BY <3>1, DriverAssumption, FS_Subset
  <2>3. SumFunction(refused) = 0
    BY <2>1, <2>2, SumOfZeros
  <2>4. \A p \in spec.producers : FinishedQuota(p)
    BY <1>0, <1>3, <2>1 DEF BooksInv, Refusals, FinishedQuota
  <2>5. {p \in spec.producers : ~FinishedQuota(p)} = {}
    BY <2>4
  <2> QED BY <1>1, <2>3, <2>5, FS_EmptySet
<1> QED BY <1>2, <1>3 DEF LearnedByRefusal

\* check_run after every run: whenever the close comes and whatever the interleaving,
\* the counts add up, every accepted event was consumed exactly once and in its
\* producer's order, and producers learned of the close as they should.
THEOREM BooksBalance == Spec => []RunBalances
<1>1. LineInv /\ BooksInv => RunBalances
  BY BookedTypes, ChecksOut, RefusalsLearned DEF RunBalances
<1> QED BY <1>1, QueueInvariant, BooksInvariant, PTL
=============================================================================
