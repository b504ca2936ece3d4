----------------------------- MODULE EventCount -----------------------------
(***************************************************************************)
(* The sleep half of turnstile's queues (eventcount.hpp): a set of event   *)
(* counts, and the steps of their waiters and notifiers.  A thread has a   *)
(* stack of things to do; the queue that extends this module puts "key"    *)
(* (prepare_wait), "cancel", "wait" and Notify(...) on it, and what comes  *)
(* after them.                                                             *)
(*                                                                         *)
(* Memory is x86's: a plain store waits in its thread's store buffer, where*)
(* only that thread sees it, until it is flushed, oldest first.  A         *)
(* read-modify-write and a seq_cst fence complete only once the buffer is  *)
(* empty.                                                                  *)
(***************************************************************************)
EXTENDS Naturals, Sequences

CONSTANTS
  Waiters,     \* the threads
  Counts,      \* the event counts
  Coalesce     \* BasicEventCount<Coalesce>

ASSUME CoalesceAssumption == Coalesce \in BOOLEAN

VARIABLES
  Outline,     \* the event counts that are an EpochWake, which never changes
  epoch,       \* epoch_
  waiters,     \* waiters_
  pending,     \* pending_
  sleepers,    \* the threads the kernel has blocked on epoch_
  key,         \* the key each thread got from prepare_wait
  buffer,      \* the stores each thread has not yet made visible
  stack        \* what each thread has to do, next first; the call it is in last

counts == <<epoch, waiters, pending, sleepers, key>>

EventCountInit ==
  /\ epoch = [e \in Counts |-> 0]
  /\ waiters = [e \in Counts |-> 0]
  /\ pending = [e \in Counts |-> FALSE]
  /\ sleepers = [e \in Counts |-> {}]
  /\ key = [t \in Waiters |-> 0]
  /\ buffer = [t \in Waiters |-> <<>>]

\* A read-modify-write or a fence of t can complete.
Fenced(t) == buffer[t] = <<>>

\* prepare_wait and wait end with a fence, but not those of EpochWake.
WaitFenced(t, e) == e \in Outline \/ Fenced(t)

\* pending_.store(false), on its way to memory, and its arrival.
ClearPending(e) == [count |-> e]
IsClear(store) == "count" \in DOMAIN store

FlushClear(t) ==
  /\ ~Fenced(t) /\ IsClear(Head(buffer[t]))
  /\ pending' = [pending EXCEPT ![Head(buffer[t]).count] = FALSE]
  /\ buffer' = [buffer EXCEPT ![t] = Tail(@)]
  /\ UNCHANGED <<epoch, waiters, sleepers, key, stack>>

\* What t does next, and the replacement of it by other things to do.
Doing(t) == Head(stack[t])
At(t, label) == Doing(t)[1] = label
Then(t, todo) == stack' = [stack EXCEPT ![t] = todo \o Tail(@)]

-----------------------------------------------------------------------------
(* Waiters. *)

\* prepare_wait: load the epoch as the key ...
ReadKey(t, e) ==
  /\ key' = [key EXCEPT ![t] = epoch[e]]
  /\ UNCHANGED <<epoch, waiters, pending, sleepers, buffer>>

\* Faulty: prepare_wait leaves pending_ as the last wake set it.
AnnounceQuietly(t, e) ==
  /\ Fenced(t)
  /\ waiters' = [waiters EXCEPT ![e] = @ + 1]
  /\ UNCHANGED <<epoch, pending, sleepers, key, buffer>>

\* ... join the waiters and clear pending_; the fence that ends it is a
\* WaitFenced guard on the caller's next step.
Announce(t, e) ==
  /\ Fenced(t)
  /\ waiters' = [waiters EXCEPT ![e] = @ + 1]
  /\ buffer' = [buffer EXCEPT ![t] = <<ClearPending(e)>>]
  /\ UNCHANGED <<epoch, pending, sleepers, key>>

\* Faulty: cancel_wait forgets to deregister.
CancelWaitUncounted(t, e) ==
  Fenced(t) /\ UNCHANGED <<epoch, waiters, pending, sleepers, key, buffer>>

\* cancel_wait; EpochWake counts nobody.
CancelWait(t, e) ==
  /\ \/ e \in Outline /\ UNCHANGED waiters
     \/ e \notin Outline /\ Fenced(t) /\ waiters' = [waiters EXCEPT ![e] = @ - 1]
  /\ UNCHANGED <<epoch, pending, sleepers, key, buffer>>

\* Faulty: it blocks without comparing, or compares before it blocks.
SleepBlindly(t, e) ==
  /\ t \notin sleepers[e]
  /\ sleepers' = [sleepers EXCEPT ![e] = @ \cup {t}]
  /\ UNCHANGED <<epoch, waiters, pending, key, buffer>>

\* wait: the kernel compares the epoch with the key and blocks, in one step.
Sleep(t, e) ==
  /\ epoch[e] = key[t]
  /\ t \notin sleepers[e]
  /\ sleepers' = [sleepers EXCEPT ![e] = @ \cup {t}]
  /\ UNCHANGED <<epoch, waiters, pending, key, buffer>>

\* wait returns: t is awake and the epoch has moved, or expired says that its time
\* is up.  It deregisters and clears pending_, and a fence follows.
LeaveWait(t, e, expired) ==
  /\ \/ t \notin sleepers[e] /\ epoch[e] # key[t]
     \/ expired
  /\ sleepers' = [sleepers EXCEPT ![e] = @ \ {t}]
  /\ IF e \in Outline
       THEN UNCHANGED <<waiters, buffer>>
       ELSE /\ Fenced(t)
            /\ waiters' = [waiters EXCEPT ![e] = @ - 1]
            /\ buffer' = [buffer EXCEPT ![t] = <<ClearPending(e)>>]
  /\ UNCHANGED <<epoch, pending, key>>

-----------------------------------------------------------------------------
(* Notifiers. *)

\* Is anyone counted as waiting?
AnyWaiter(e) == waiters[e] # 0

\* A wake is already on its way, and this notifier skips its own.
WakeInFlight(e) == Coalesce /\ pending[e]

\* pending_.exchange(true)
ClaimWake(t, e) ==
  /\ Fenced(t)
  /\ pending' = IF Coalesce THEN [pending EXCEPT ![e] = TRUE] ELSE pending
  /\ UNCHANGED <<epoch, waiters, sleepers, key, buffer>>

\* epoch_.fetch_add(1)
Advance(t, e) ==
  /\ Fenced(t)
  /\ epoch' = [epoch EXCEPT ![e] = @ + 1]
  /\ UNCHANGED <<waiters, pending, sleepers, key, buffer>>

\* wake_one: the kernel unblocks one of the sleepers, if there are any.
WakeOne(e) ==
  /\ \/ sleepers[e] = {} /\ UNCHANGED sleepers
     \/ \E t \in sleepers[e] : sleepers' = [sleepers EXCEPT ![e] = @ \ {t}]
  /\ UNCHANGED <<epoch, waiters, pending, key, buffer>>

\* epoch_.fetch_add(1), wake_all
AdvanceAndWakeAll(t, e) ==
  /\ Fenced(t)
  /\ epoch' = [epoch EXCEPT ![e] = @ + 1]
  /\ sleepers' = [sleepers EXCEPT ![e] = {}]
  /\ UNCHANGED <<waiters, pending, key, buffer>>

-----------------------------------------------------------------------------
(* The steps of a thread inside a call: notify_one ("one"),                 *)
(* notify_all_if_waiting ("waiting") and notify_all ("all"), then the wait. *)

Notify(e, how) ==
  <<IF how = "all" \/ e \in Outline THEN "advance" ELSE "look", e, how>>

\* Faulty: Bug::no_fence, the look at waiters_ may overtake the publication.
NotifyLookUnfenced(t) ==
  LET e == Doing(t)[2]  how == Doing(t)[3] IN
  /\ At(t, "look")
  /\ Then(t, IF ~AnyWaiter(e) THEN <<>>
             ELSE << <<IF how = "one" THEN "claim" ELSE "advance", e, how>> >>)
  /\ UNCHANGED <<counts, buffer>>

NotifyLook(t) ==
  LET e == Doing(t)[2]  how == Doing(t)[3] IN
  /\ At(t, "look") /\ Fenced(t)
  /\ Then(t, IF ~AnyWaiter(e) THEN <<>>
             ELSE << <<IF how = "one" THEN "claim" ELSE "advance", e, how>> >>)
  /\ UNCHANGED <<counts, buffer>>

NotifyClaim(t) ==
  LET e == Doing(t)[2] IN
  /\ At(t, "claim")
  /\ \/ WakeInFlight(e) /\ Then(t, <<>>) /\ UNCHANGED <<counts, buffer>>
     \/ ~WakeInFlight(e) /\ ClaimWake(t, e) /\ Then(t, << <<"advance", e, "one">> >>)

NotifyAdvance(t) ==
  /\ At(t, "advance") /\ Doing(t)[3] = "one"
  /\ Advance(t, Doing(t)[2])
  /\ Then(t, << <<"wake", Doing(t)[2], "one">> >>)

NotifyWake(t) ==
  /\ At(t, "wake")
  /\ WakeOne(Doing(t)[2])
  /\ Then(t, <<>>)

\* The epoch and wake_all are one step: in between, a sleeper stays asleep, and
\* who falls asleep has the new epoch as its key, sees nothing of this wake and
\* goes back to sleep.
NotifyAll(t) ==
  /\ At(t, "advance") /\ Doing(t)[3] # "one"
  /\ AdvanceAndWakeAll(t, Doing(t)[2])
  /\ Then(t, <<>>)

NotifySteps(t) ==
  NotifyLook(t) \/ NotifyClaim(t) \/ NotifyAdvance(t) \/ NotifyWake(t) \/ NotifyAll(t)

\* prepare_wait, cancel_wait and wait of t on e; timed says that wait may end
\* at its deadline.
WaitSteps(t, e, timed) ==
  \/ /\ At(t, "key")
     /\ ReadKey(t, e)
     /\ Then(t, IF e \in Outline THEN <<>> ELSE << <<"announce">> >>)
  \/ At(t, "announce") /\ Announce(t, e) /\ Then(t, <<>>)
  \/ At(t, "cancel") /\ CancelWait(t, e) /\ Then(t, <<>>)
  \/ At(t, "wait") /\ Sleep(t, e) /\ UNCHANGED stack
  \/ At(t, "wait") /\ LeaveWait(t, e, timed) /\ Then(t, <<>>)
=============================================================================
