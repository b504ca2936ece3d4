------------------------------- MODULE Driver -------------------------------
(***************************************************************************)
(* turnstile::bench::run (driver.hpp) over the mutex queue: producers and  *)
(* consumers released together, a close after the producers or in the      *)
(* middle of them, and the books that check_run balances at the end.       *)
(* Times, rates and latencies are left out: a pace only decides when a     *)
(* producer stops.                                                         *)
(***************************************************************************)
EXTENDS MutexQueue, Histogram

CONSTANTS
  RunSpecs,   \* the runs to make
  MaxEvents,  \* bound: pushes of a producer whose quota is unlimited
  Latencies   \* what a push may take, in ticks

\* RunSpec: events = 0 pushes until refused; rate > 0 until the time is up.
RunSpecType ==
  [producers : SUBSET Producers, consumers : SUBSET Consumers, mode : {"block", "reject", "mixed"},
   batch : Nat \ {0}, events : Nat, paced : BOOLEAN, close_after : BOOLEAN,
   latency : BOOLEAN, pop_latency : BOOLEAN]

\* RunSpec's defaults, and the runs that the invariants and shutdown phases make of
\* them: a quota each, the close in the middle of producers that push until refused,
\* and the same hammered.
DefaultSpec(P, C) ==
  [producers |-> P, consumers |-> C, mode |-> "block", batch |-> 1, events |-> MaxEvents,
   paced |-> FALSE, close_after |-> FALSE, latency |-> FALSE, pop_latency |-> FALSE]
Saturated(P, C, mode) == [DefaultSpec(P, C) EXCEPT !.mode = mode]
UntilRefused(P, C, mode) ==
  [DefaultSpec(P, C) EXCEPT !.events = 0, !.mode = mode, !.close_after = TRUE]
CloseUnderLoad(P, C) == UntilRefused(P, C, "block")
CloseVersusReserve(P, C, mode) == UntilRefused(P, C, mode)

\* What can be pushed in any of the runs.
Event(p, s) == [producer |-> p, seq |-> s]
Seqs == 0..MaxEvents \cup UNION {0..s.events : s \in RunSpecs}
Events == {Event(p, s) : p \in Producers, s \in Seqs}

\* Runs end, and have somebody to consume; an empty slot is not an event.
ASSUME DriverAssumption ==
  /\ Producers \subseteq Nat /\ MaxEvents \in Nat /\ IsFiniteSet(Producers \cup Consumers)
  /\ \A s \in RunSpecs : /\ s \in RunSpecType /\ (s.events = 0 => s.close_after \/ s.paced)
                         /\ s.batch > 1 => s.events # 0 /\ ~s.paced
                         /\ s.consumers # {}
  /\ Moved \notin Events

VARIABLES
  spec,                                 \* the run being made
  ready, go,                            \* the start line
  seq,                                  \* the next event of each producer
  accepted, offered, rejected, refused, \* ProducerState, accepted as a set of seqs
  timed,                                \* the ticks ProducerState::push has recorded
  consumed, torn,                       \* ConsumerState, consumed in order
  claimed                               \* history: what each consumer took from the queue

books == <<accepted, offered, rejected, refused, timed, consumed, torn>>
vars == <<queue, pc, spec, ready, go, seq, books, claimed>>

\* The threads this run starts.
Running == spec.producers \cup spec.consumers

Init ==
  /\ QueueInit
  /\ spec \in RunSpecs
  /\ pc = [t \in Threads |-> IF t \in Running \cup {Main} THEN "start" ELSE "absent"]
  /\ ready = 0 /\ go = FALSE
  /\ seq = [p \in Producers |-> 0]
  /\ accepted = [p \in Producers |-> {}] /\ offered = [p \in Producers |-> 0]
  /\ rejected = [p \in Producers |-> 0] /\ refused = [p \in Producers |-> 0]
  /\ timed = [p \in Producers |-> <<>>]
  /\ consumed = [c \in Consumers |-> <<>>] /\ torn = [c \in Consumers |-> 0]
  /\ claimed = [c \in Consumers |-> <<>>]

\* Everything but the queue and pc.
running == <<spec, ready, go, seq, books, claimed>>

-----------------------------------------------------------------------------
(* Producers. *)

\* mixed: even producers reject on full, odd ones block.
Mode(p) == IF spec.mode # "mixed" THEN spec.mode ELSE IF p % 2 = 1 THEN "block" ELSE "reject"

Quota == IF spec.events = 0 THEN MaxEvents ELSE spec.events

\* Events in the batch p pushes next.
BatchSize(p) == IF spec.batch < Quota - seq[p] THEN spec.batch ELSE Quota - seq[p]
NextBatch(p) == [k \in 0..(BatchSize(p) - 1) |-> Event(p, seq[p] + k)]

\* The head of a producer's loop, with i events behind it: another push, or the
\* end of the quota or of the time.  A producer without a quota waits at the bound
\* for the close.
ProducerLoop(p, i) ==
  \/ /\ i < Quota \/ (spec.events = 0 /\ ~spec.paced /\ closed)
     /\ Goto(p, IF spec.batch > 1 THEN "push_batch"
                ELSE IF Mode(p) = "reject" THEN "try_push" ELSE "push")
  \/ /\ (i = Quota /\ spec.events # 0) \/ spec.paced
     /\ Goto(p, "finished")

\* Where a producer goes after a push.
AfterPush(p, result, i) ==
  IF result = "closed" THEN Goto(p, "finished") ELSE ProducerLoop(p, i)

\* Faulty: a push that timed out is forgotten.
AccountNoTimeout(p, result, s) ==
  /\ offered' = [offered EXCEPT ![p] = @ + 1]
  /\ accepted' = IF result = "ok" THEN [accepted EXCEPT ![p] = @ \cup {s}] ELSE accepted
  /\ refused' = IF result = "closed" THEN [refused EXCEPT ![p] = @ + 1] ELSE refused
  /\ rejected' = IF result = "full" THEN [rejected EXCEPT ![p] = @ + 1] ELSE rejected

\* account
Account(p, result, s) ==
  /\ offered' = [offered EXCEPT ![p] = @ + 1]
  /\ accepted' = IF result = "ok" THEN [accepted EXCEPT ![p] = @ \cup {s}] ELSE accepted
  /\ refused' = IF result = "closed" THEN [refused EXCEPT ![p] = @ + 1] ELSE refused
  /\ rejected' = IF result \in {"full", "timeout"} THEN [rejected EXCEPT ![p] = @ + 1]
                 ELSE rejected

PushReturns(p) ==
  /\ pc[p] \in {"ok", "full", "closed", "timeout"}
  /\ Account(p, pc[p], seq[p])
  /\ seq' = [seq EXCEPT ![p] = @ + 1]
  /\ AfterPush(p, pc[p], seq[p] + 1)
  /\ IF spec.latency THEN \E v \in Latencies : timed' = [timed EXCEPT ![p] = Append(@, v)]
     ELSE UNCHANGED timed
  /\ UNCHANGED <<queue, spec, ready, go, consumed, torn, claimed>>

\* After push_batch, event by event: accepted if it was among the first done; if
\* not, closed() is asked, each time anew, whether to call it refused or timed out.
BatchReturns(p) ==
  LET k == offered[p] - seq[p]
      result == IF k < done[p] THEN "ok" ELSE IF closed THEN "closed" ELSE "timeout" IN
  /\ pc[p] = "batch_done" /\ (k < done[p] \/ mu = Free)
  /\ IF k < BatchSize(p)
       THEN Account(p, result, offered[p]) /\ UNCHANGED <<pc, seq>>
       ELSE /\ seq' = [seq EXCEPT ![p] = @ + BatchSize(p)]
            /\ AfterPush(p, IF done[p] < BatchSize(p) THEN result ELSE "ok", seq[p] + BatchSize(p))
            /\ UNCHANGED <<accepted, offered, rejected, refused>>
  /\ done' = IF k < BatchSize(p) THEN done ELSE [done EXCEPT ![p] = 0]
  /\ UNCHANGED <<items, closed, mu, buf, spec, ready, go, timed, consumed, torn, claimed>>

-----------------------------------------------------------------------------
(* Consumers. *)

ConsumerLoop(c) ==
  Goto(c, IF spec.batch > 1 THEN "pop_batch" ELSE IF spec.pop_latency THEN "try_pop" ELSE "pop")

\* An event is intact unless its slot had nothing in it.
Intact(e) == e # Moved

\* take, event by event, and around the loop; a try_pop that found nothing goes on
\* to pop.
PopReturns(c) ==
  \/ /\ pc[c] = "ok"
     /\ IF Intact(Head(buf[c]))
          THEN consumed' = [consumed EXCEPT ![c] = Append(@, Head(buf[c]))] /\ UNCHANGED torn
          ELSE torn' = [torn EXCEPT ![c] = @ + 1] /\ UNCHANGED consumed
     /\ buf' = [buf EXCEPT ![c] = Tail(@)]
     /\ IF Len(buf[c]) = 1 THEN ConsumerLoop(c) ELSE UNCHANGED pc
     /\ UNCHANGED <<items, closed, mu, done, spec, ready, go, seq, accepted, offered,
                    rejected, refused, timed, claimed>>
  \/ pc[c] = "empty" /\ Goto(c, "pop") /\ UNCHANGED <<queue, running>>

-----------------------------------------------------------------------------
(* The start line, and the calling thread. *)

WaitGo(t) ==
  \/ /\ pc[t] = "start" /\ ready' = ready + 1 /\ Goto(t, "line")
     /\ UNCHANGED <<queue, spec, go, seq, books, claimed>>
  \/ /\ pc[t] = "line" /\ go
     /\ IF t \in Producers THEN ProducerLoop(t, 0) ELSE ConsumerLoop(t)
     /\ UNCHANGED <<queue, running>>

Joined(group) == \A t \in group \cap Running : pc[t] \in {"finished", "drained"}

RunMain ==
  \/ /\ pc[Main] = "start" /\ ready = Cardinality(Running)
     /\ go' = TRUE /\ Goto(Main, "released")
     /\ UNCHANGED <<queue, spec, ready, seq, books, claimed>>
  \/ /\ pc[Main] = "released" /\ (spec.close_after \/ Joined(Producers))
     /\ Goto(Main, "close")
     /\ UNCHANGED <<queue, running>>
  \/ Close /\ UNCHANGED running
  \/ /\ pc[Main] = "ok" /\ Joined(Producers \cup Consumers) /\ Goto(Main, "over")
     /\ UNCHANGED <<queue, running>>

\* claimed follows buf.
Claims ==
  claimed' = [c \in Consumers |-> IF Len(buf'[c]) > Len(buf[c])
                                     THEN Append(claimed[c], Last(buf'[c])) ELSE claimed[c]]

\* A call to the queue.
Calls(t) ==
  /\ \/ t \in Producers /\ IF spec.batch > 1
                             THEN Batch(t, BatchSize(t), NextBatch(t))
                             ELSE \/ TryPush(t, Event(t, seq[t])) \/ Push(t, Event(t, seq[t]))
                                  \/ PushNotify(t)
     \/ t \in Consumers /\ IF spec.batch > 1 THEN PopBatch(t, spec.batch)
                           ELSE TryPop(t) \/ Pop(t) \/ PopNotify(t)
  /\ Claims /\ UNCHANGED <<spec, ready, go, seq, books>>

Produces(p) ==
  WaitGo(p) \/ Calls(p) \/ IF spec.batch > 1 THEN BatchReturns(p) ELSE PushReturns(p)
Consumes(c) == WaitGo(c) \/ PopReturns(c) \/ Calls(c)

Next ==
  \/ \E p \in Producers : Produces(p)
  \/ \E c \in Consumers : Consumes(c)
  \/ RunMain
  \/ \E t \in Producers \cup Consumers : WakeAlone(t) /\ UNCHANGED running

Over == pc[Main] = "over" /\ UNCHANGED vars

\* Every thread runs while it can; nobody is promised a wake of its own.
Spec ==
  /\ Init /\ [][Next \/ Over]_vars
  /\ \A p \in Producers : WF_vars(Produces(p))
  /\ \A c \in Consumers : WF_vars(Consumes(c))
  /\ WF_vars(RunMain)

-----------------------------------------------------------------------------
(* Properties. *)

TypeOK ==
  /\ size \in 0..N /\ head \in 0..(N - 1) /\ closed \in BOOLEAN
  /\ mu \in Threads \cup {Free}
  /\ ready \in 0..Cardinality(Producers \cup Consumers) /\ go \in BOOLEAN
  /\ \A p \in Producers : done[p] \in 0..spec.batch /\ seq[p] \in Nat

\* Tally: the events, each as often as it was counted.
TallyAccepted == SetToBag(UNION {{Event(p, s) : s \in accepted[p]} : p \in Producers})
Together(bags) == FoldFunction(LAMBDA a, b : a (+) b, EmptyBag, bags)
TallyConsumed == Together([c \in Consumers |-> ToBag(consumed[c])])

\* An event of a producer that arrives after a later one of the same producer.
Disorder(c) ==
  {j \in DOMAIN consumed[c] : \E i \in 1..(j - 1) :
     /\ consumed[c][i].producer = consumed[c][j].producer
     /\ consumed[c][i].seq >= consumed[c][j].seq}

\* A producer finished if it got to the end of its quota, or of its time without a
\* refusal.
FinishedQuota(p) ==
  IF spec.paced THEN refused[p] = 0 ELSE spec.events # 0 /\ offered[p] = spec.events

\* RunResult, once everybody has joined.
Result ==
  [offered |-> SumFunction(offered),
   accepted |-> SumFunction([p \in Producers |-> Cardinality(accepted[p])]),
   rejected |-> SumFunction(rejected), refused_closed |-> SumFunction(refused),
   torn |-> SumFunction(torn),
   disorder |-> SumFunction([c \in Consumers |-> Cardinality(Disorder(c))]),
   exactly_once |-> spec.consumers # {} /\ TallyAccepted = TallyConsumed /\ SumFunction(torn) = 0,
   producers_unfinished |-> Cardinality({p \in spec.producers : ~FinishedQuota(p)}),
   producers_refused |-> Cardinality({p \in spec.producers : rejected[p] > 0})]

\* What every run must satisfy: what was offered was accepted, rejected or refused;
\* what was accepted was consumed exactly once and intact; and each consumer saw each
\* producer's events in order.
check_run(r) ==
  /\ r.offered = r.accepted + r.rejected + r.refused_closed
  /\ r.torn = 0 /\ r.exactly_once /\ r.disorder = 0

\* Where producers push until refused, each of them learns of the close, by one
\* refusal, also those asleep when it came; where they have a quota and the close
\* waits for them, all of them finish and none is refused.
LearnedByRefusal(r) ==
  /\ spec.events = 0 /\ spec.batch = 1 /\ ~spec.paced =>
       /\ \A p \in spec.producers : refused[p] = 1
       /\ r.producers_unfinished = Cardinality(spec.producers)
  /\ ~spec.close_after => r.refused_closed = 0 /\ r.producers_unfinished = 0

\* The books of every run balance, whenever the close comes, and producers learn of
\* the close as they should.
RunBalances ==
  /\ TypeOK
  /\ pc[Main] = "over" =>
       LET r == Result IN check_run(r) /\ LearnedByRefusal(r)

\* The quantile of the merged latencies never under-reports the sample it stands
\* for, over-reports it by at most one part in 2^S, and never exceeds the largest
\* sample, wherever in the word the samples lie; and count_above misses none that
\* is further above than that.
QuantileSound ==
  pc[Main] = "over" /\ spec.latency =>
    LET all == FoldFunction(LAMBDA a, b : a \o b, <<>>, timed)
        sorted == SortSeq(all, <)
        above(Test(_)) == Len(SelectSeq(all, Test))
        push == FoldFunction(Merge, Empty, [p \in Producers |-> Recorded(timed[p])]) IN
    /\ \A num \in 0..4 :
         LET exact == sorted[Rank(Len(all), num, 4)]  q == Quantile(push, num, 4) IN
         exact <= q /\ (q - exact) * 2^S <= exact /\ q <= Last(sorted)
    /\ \A v \in Latencies :
         CountAbove(push, v) \in above(LAMBDA x : x > v /\ (x - v) * 2^S > x)
                                 ..above(LAMBDA x : x > v)

\* The run ends: everybody joins, with the close at any moment, and nobody sleeps
\* through the notification that was meant for it.
RunEnds == <>(pc[Main] = "over")

\* The line of the queue: its items from the head on.
Line == [i \in 1..size |-> ring[(head + i - 1) % N]]
Told == {c \in Consumers : pc[c] = "drained"}

\* The queue is the first-in first-out line that WorkQueue promises, batches included.
Abstract == INSTANCE WorkQueue WITH
  Objects <- Events,
  Takers <- Consumers, Capacity <- N,
  waiting <- Line, open <- ~closed, given <- claimed, ended <- Told
ImplementsWorkQueue == Abstract!Spec
=============================================================================
