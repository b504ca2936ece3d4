--------------------------- MODULE DriverInvariant ---------------------------
(***************************************************************************)
(* The inductive invariants of Driver: who has the lock of the queue and   *)
(* what is in the line (LineInv), and what the books say of it at any      *)
(* moment (BooksInv).                                                      *)
(***************************************************************************)
EXTENDS Driver

\* What a slot may hold.
Contents == Events \cup {Moved}

Types ==
  /\ spec \in RunSpecs
  /\ ring \in [0..(N - 1) -> Contents] /\ head \in 0..(N - 1) /\ size \in 0..N
  /\ closed \in BOOLEAN /\ mu \in Threads \cup {Free}
  /\ pc = [t \in Threads |-> pc[t]]
  /\ done \in [Producers -> Nat] /\ seq \in [Producers -> Nat]
  /\ buf \in [Consumers -> Seq(Contents)] /\ claimed \in [Consumers -> Seq(Contents)]

\* Who is in the middle of a batch has mu_, and has seen the queue open.
Holding ==
  /\ \A t \in Threads : pc[t] \in {"fill", "drain"} => mu = t
  /\ \A p \in Producers : pc[p] = "fill" => ~closed

\* Producers start with the first event, and stay within their quota until the close.
WithinQuota ==
  /\ \A p \in Producers : pc[p] \in {"start", "line"} => seq[p] = 0
  /\ spec.batch > 1 => \A p \in Producers : seq[p] <= Quota
  /\ spec.batch = 1 => \A p \in Producers :
       pc[p] \in {"push", "try_push", "asleep", "woken"} => closed \/ seq[p] < Quota

\* A pop that returns something has something in its buffer.
InHand ==
  \A c \in Consumers :
    /\ pc[c] \in {"taken", "batch_taken", "ok"} => buf[c] # <<>>
    /\ pc[c] = "drain" => buf[c] # <<>> \/ size > 0

LineInv == Types /\ Holding /\ WithinQuota /\ InHand

-----------------------------------------------------------------------------
(* Who is where. *)

Workers == Producers \cup Consumers
Started == {t \in Workers : pc[t] \notin {"start", "absent"}}
Closing == {"tell_consumers", "tell_producers", "ok", "over"}

\* The main thread closes when its run says so, and ends after everybody; drained is
\* said of a queue that is closed and empty, and stays so.
Stages ==
  /\ ready = Cardinality(Started) /\ go \in BOOLEAN
  /\ \A t \in Workers : t \notin Running => pc[t] = "absent"
  /\ pc[Main] \in {"start", "released", "close"} \cup Closing
  /\ closed => pc[Main] \in Closing
  /\ pc[Main] \in {"close"} \cup Closing => spec.close_after \/ Joined(Producers)
  /\ pc[Main] = "over" => Joined(Workers)
  /\ (\E c \in Consumers : pc[c] = "drained") => closed /\ size = 0

-----------------------------------------------------------------------------
(* The books. *)

Idle == {"absent", "start", "line", "finished"}
Single == {"push", "try_push", "asleep", "woken", "put", "ok", "full", "closed", "timeout"}
Batched == {"push_batch", "fill", "filled", "relock", "asleep", "woken", "gave_up", "batch_done"}

\* The events of p from here on have not been pushed.
Upto(p) ==
  seq[p] + (IF spec.batch > 1 THEN done[p] ELSE IF pc[p] \in {"put", "ok"} THEN 1 ELSE 0)

\* A producer's counts add up; what it has pushed is accounted before it pushes more.
Accounts(p) ==
  /\ accepted[p] \in SUBSET Nat /\ IsFiniteSet(accepted[p])
  /\ offered[p] \in Nat /\ rejected[p] \in Nat /\ refused[p] \in Nat
  /\ offered[p] = Cardinality(accepted[p]) + rejected[p] + refused[p]
  /\ \A s \in accepted[p] : s < offered[p] /\ s < Upto(p)
  /\ spec.batch = 1 => offered[p] = seq[p] /\ done[p] = 0 /\ pc[p] \in Idle \cup Single
  /\ spec.batch > 1 =>
       /\ pc[p] \in Idle \cup Batched
       /\ done[p] <= BatchSize(p) /\ (pc[p] \in Idle => done[p] = 0)
       /\ offered[p] >= seq[p] /\ offered[p] <= seq[p] + BatchSize(p)
       /\ pc[p] # "batch_done" => offered[p] = seq[p]
       /\ \A s \in seq[p]..(offered[p] - 1) : s < Upto(p) => s \in accepted[p]

\* What the close does to a producer's books.
Refusals(p) ==
  /\ pc[p] = "closed" => closed
  /\ spec.events = 0 /\ spec.batch = 1 /\ ~spec.paced =>
       refused[p] = IF pc[p] = "finished" THEN 1 ELSE 0
  /\ ~spec.close_after =>
       /\ refused[p] = 0
       /\ pc[p] = "finished" /\ ~spec.paced => offered[p] = spec.events

\* The items of list are those of one and then those of two.
Joins(list, one, two) ==
  /\ Len(list) = Len(one) + Len(two)
  /\ \A i \in 1..Len(one) : list[i] = one[i]
  /\ \A i \in 1..Len(two) : list[Len(one) + i] = two[i]

\* What a consumer took from the queue is what it has consumed and what is in its
\* buffer.
Consumption(c) ==
  /\ torn[c] = 0 /\ consumed[c] \in Seq(Events) /\ Joins(claimed[c], consumed[c], buf[c])
  /\ pc[c] \in {"absent", "start", "line", "pop", "try_pop", "pop_batch", "asleep", "woken",
                "empty", "taken", "drain", "batch_taken", "ok", "drained"}
  /\ pc[c] \notin {"taken", "drain", "batch_taken", "ok"} => buf[c] = <<>>

\* The events of p that are in the queue or have been.
Pushed(p) == accepted[p] \cup seq[p]..(Upto(p) - 1)

InOrder(list) ==
  \A i, j \in DOMAIN list :
    i < j /\ list[i].producer = list[j].producer => list[i].seq < list[j].seq

\* What was pushed is in the line or claimed, once, and each producer's events in order.
Delivered(list, got, pushed) ==
  /\ list \in Seq(Events) /\ InOrder(list)
  /\ \A c \in Consumers :
       /\ got[c] \in Seq(Events) /\ InOrder(got[c])
       /\ \A i \in DOMAIN got[c], j \in DOMAIN list :
            got[c][i].producer = list[j].producer => got[c][i].seq < list[j].seq
       /\ \A d \in Consumers \ {c} : Range(got[c]) \cap Range(got[d]) = {}
  /\ Range(list) \cup UNION {Range(got[c]) : c \in Consumers}
       = UNION {{Event(p, s) : s \in pushed[p]} : p \in Producers}
Delivery == Delivered(Line, claimed, [p \in Producers |-> Pushed(p)])

\* The books are functions of the threads.
BookTypes ==
  /\ DOMAIN accepted = Producers /\ DOMAIN offered = Producers
  /\ DOMAIN rejected = Producers /\ DOMAIN refused = Producers
  /\ DOMAIN consumed = Consumers /\ DOMAIN torn = Consumers

BooksInv ==
  /\ Stages /\ BookTypes /\ Delivery
  /\ \A p \in Producers : Accounts(p) /\ Refusals(p)
  /\ \A c \in Consumers : Consumption(c)
=============================================================================
