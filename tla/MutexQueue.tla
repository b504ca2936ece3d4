----------------------------- MODULE MutexQueue -----------------------------
(***************************************************************************)
(* turnstile::MutexQueue (mutex_queue.hpp), the baseline: a ring, a mutex  *)
(* and two condition variables.  What one acquisition of the mutex does is *)
(* one step, except where a batch moves item after item with it held; the  *)
(* notification after the release is a step of its own.  A condition       *)
(* variable may wake a thread without being notified.                      *)
(*                                                                         *)
(* A call begins at pc = its name and ends at pc = what it returns.        *)
(***************************************************************************)
EXTENDS Naturals, Sequences

CONSTANTS Producers, Consumers, Main, N, Free, Moved

Threads == Producers \cup Consumers \cup {Main}

ASSUME MutexQueueAssumption ==
  /\ N \in Nat \ {0} /\ Free \notin Threads
  /\ Producers \cap Consumers = {} /\ Main \notin Producers \cup Consumers

VARIABLES
  ring, head, size, closed,   \* ring_, head_, size_, closed_
  mu,                         \* who holds mu_ from one step to the next, or Free
  pc,
  done,                       \* push_batch: items accepted so far
  buf                         \* pop, pop_batch: the caller's out

items == <<ring, head, size>>
queue == <<items, closed, mu, done, buf>>

QueueInit ==
  /\ ring = [i \in 0..(N - 1) |-> Moved] /\ head = 0 /\ size = 0 /\ closed = FALSE
  /\ mu = Free
  /\ done = [p \in Producers |-> 0]
  /\ buf = [c \in Consumers |-> <<>>]

\* Faulty: a slot too late.
PutLate(x) ==
  /\ ring' = [ring EXCEPT ![(head + size + 1) % N] = x]
  /\ size' = size + 1
  /\ UNCHANGED head

Put(x) ==
  /\ ring' = [ring EXCEPT ![(head + size) % N] = x]
  /\ size' = size + 1
  /\ UNCHANGED head

Take(c) ==
  /\ buf' = [buf EXCEPT ![c] = Append(@, ring[head])]
  /\ ring' = [ring EXCEPT ![head] = Moved]
  /\ head' = (head + 1) % N
  /\ size' = size - 1

Goto(t, label) == pc' = [pc EXCEPT ![t] = label]

\* t is at a call, or woken inside one, and has mu_.
Enters(t, call) == pc[t] = call /\ mu = Free

\* Producers sleep on not_full_, consumers on not_empty_.
Asleep(group) == {t \in group : pc[t] = "asleep"}

NotifyOne(t, from, group, to) ==
  /\ pc[t] = from
  /\ \/ Asleep(group) = {} /\ Goto(t, to)
     \/ \E w \in Asleep(group) : pc' = [pc EXCEPT ![t] = to, ![w] = "woken"]
  /\ UNCHANGED queue

NotifyAll(t, from, group, to) ==
  /\ pc[t] = from
  /\ pc' = [w \in Threads |-> IF w = t THEN to
                              ELSE IF w \in Asleep(group) THEN "woken" ELSE pc[w]]
  /\ UNCHANGED queue

\* A wait ends by itself, or because its deadline has come.
WakeAlone(t) == pc[t] = "asleep" /\ Goto(t, "woken") /\ UNCHANGED queue

-----------------------------------------------------------------------------
(* Producers. *)

\* Faulty: one item more than there are slots.
FullLate == size > N

Full == size = N

\* try_push: refused, or put.
TryPush(p, x) ==
  /\ Enters(p, "try_push")
  /\ \/ closed /\ Goto(p, "closed") /\ UNCHANGED items
     \/ ~closed /\ Full /\ Goto(p, "full") /\ UNCHANGED items
     \/ ~closed /\ ~Full /\ Put(x) /\ Goto(p, "put")
  /\ UNCHANGED <<closed, mu, done, buf>>

\* push, up to its wait or past it.  What a wait returned matters only if the
\* queue is still full: then its deadline may have passed.
Push(p, x) ==
  /\ Enters(p, "push") \/ Enters(p, "woken")
  /\ \/ closed /\ Goto(p, "closed") /\ UNCHANGED items
     \/ ~closed /\ Full /\ Goto(p, "asleep") /\ UNCHANGED items
     \/ ~closed /\ Full /\ pc[p] = "woken" /\ Goto(p, "timeout") /\ UNCHANGED items
     \/ ~closed /\ ~Full /\ Put(x) /\ Goto(p, "put")
  /\ UNCHANGED <<closed, mu, done, buf>>

PushNotify(p) == NotifyOne(p, "put", Consumers, "ok")

\* push_batch of batch[0..n - 1], which keeps mu_ while it puts.  It looks at the queue when it
\* begins, when it has reacquired mu_ after a notification, and when it wakes.
Batch(p, n, batch) ==
  \/ /\ Enters(p, "push_batch") \/ Enters(p, "relock") \/ Enters(p, "woken")
     /\ \/ done[p] < n /\ ~closed /\ ~Full /\ mu' = p /\ Goto(p, "fill")
        \/ done[p] < n /\ ~closed /\ Full /\ Goto(p, "asleep") /\ UNCHANGED mu
        \/ /\ done[p] < n /\ ~closed /\ Full /\ pc[p] = "woken"
           /\ Goto(p, "gave_up") /\ UNCHANGED mu
        \/ (done[p] = n \/ closed) /\ Goto(p, "batch_done") /\ UNCHANGED mu
     /\ UNCHANGED <<items, closed, done, buf>>
  \/ /\ pc[p] = "fill" /\ done[p] < n /\ ~Full
     /\ Put(batch[done[p]])
     /\ done' = [done EXCEPT ![p] = @ + 1]
     /\ UNCHANGED <<closed, mu, pc, buf>>
  \/ /\ pc[p] = "fill" /\ (done[p] = n \/ Full)
     /\ mu' = Free /\ Goto(p, "filled")
     /\ UNCHANGED <<items, closed, done, buf>>
  \/ NotifyAll(p, "filled", Consumers, "relock")
  \/ NotifyAll(p, "gave_up", Consumers, "batch_done")

-----------------------------------------------------------------------------
(* Consumers, and close. *)

TryPop(c) ==
  /\ Enters(c, "try_pop")
  /\ \/ size = 0 /\ Goto(c, "empty") /\ UNCHANGED <<items, buf>>
     \/ size > 0 /\ Take(c) /\ Goto(c, "taken")
  /\ UNCHANGED <<closed, mu, done>>

\* Faulty: a closed queue is drained, whatever it still holds.
PopClosedFirst(c) ==
  /\ Enters(c, "pop") \/ Enters(c, "woken")
  /\ \/ size > 0 /\ ~closed /\ Take(c) /\ Goto(c, "taken")
     \/ closed /\ Goto(c, "drained") /\ UNCHANGED <<items, buf>>
     \/ size = 0 /\ ~closed /\ Goto(c, "asleep") /\ UNCHANGED <<items, buf>>
  /\ UNCHANGED <<closed, mu, done>>

\* pop; its callers' deadline is an hour away, and never comes.
Pop(c) ==
  /\ Enters(c, "pop") \/ Enters(c, "woken")
  /\ \/ size > 0 /\ Take(c) /\ Goto(c, "taken")
     \/ size = 0 /\ closed /\ Goto(c, "drained") /\ UNCHANGED <<items, buf>>
     \/ size = 0 /\ ~closed /\ Goto(c, "asleep") /\ UNCHANGED <<items, buf>>
  /\ UNCHANGED <<closed, mu, done>>

PopNotify(c) == NotifyOne(c, "taken", Producers, "ok")

\* pop_batch, which keeps mu_ while it takes.
PopBatch(c, max) ==
  \/ /\ Enters(c, "pop_batch") \/ Enters(c, "woken")
     /\ \/ size > 0 /\ mu' = c /\ Goto(c, "drain")
        \/ size = 0 /\ closed /\ Goto(c, "drained") /\ UNCHANGED mu
        \/ size = 0 /\ ~closed /\ Goto(c, "asleep") /\ UNCHANGED mu
     /\ UNCHANGED <<items, closed, done, buf>>
  \/ /\ pc[c] = "drain" /\ Len(buf[c]) < max /\ size > 0
     /\ Take(c)
     /\ UNCHANGED <<closed, mu, pc, done>>
  \/ /\ pc[c] = "drain" /\ (Len(buf[c]) = max \/ size = 0)
     /\ mu' = Free /\ Goto(c, "batch_taken")
     /\ UNCHANGED <<items, closed, done, buf>>
  \/ NotifyAll(c, "batch_taken", Producers, "ok")

\* Faulty: the consumers are not told.
CloseForProducers ==
  \/ /\ Enters(Main, "close")
     /\ closed' = TRUE /\ Goto(Main, "tell_producers")
     /\ UNCHANGED <<items, mu, done, buf>>
  \/ NotifyAll(Main, "tell_producers", Producers, "ok")

Close ==
  \/ /\ Enters(Main, "close")
     /\ closed' = TRUE /\ Goto(Main, "tell_consumers")
     /\ UNCHANGED <<items, mu, done, buf>>
  \/ NotifyAll(Main, "tell_consumers", Consumers, "tell_producers")
  \/ NotifyAll(Main, "tell_producers", Producers, "ok")
=============================================================================
