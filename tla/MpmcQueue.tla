----------------------------- MODULE MpmcQueue -----------------------------
(***************************************************************************)
(* Blocking push, pop and close of turnstile::Queue (mpmc_queue.hpp): the  *)
(* ring, and the two event counts its threads sleep on.                    *)
(*                                                                         *)
(* try_push and try_pop are one step each: the compare-exchange that       *)
(* decides them and the store of the slot's sequence that follows it,      *)
(* which reaches memory whenever the store buffer is flushed.  MpmcRing    *)
(* has their inner steps.  What matters here is when a thread sleeps, who  *)
(* wakes it, and what it had seen before.                                  *)
(***************************************************************************)
EXTENDS EventCount, FiniteSets

CONSTANTS
  Producers, Consumers,
  Closer,         \* the thread that calls close
  N,              \* slots in the ring
  Configs,        \* what may run: a policy, the EpochWakes, the pushes in all
  FullWakeEvery,  \* kFullWakeEvery: releases per wake of a blocked producer
  MaxPushes,      \* bound: push calls in all, in any of them
  Closes,         \* does the closer call close
  Deadlines,      \* may a push or a pop run out of time
  Backstop        \* may a sleep be ended by the backstop

ASSUME RolesAssumption ==
  /\ Waiters = Producers \cup Consumers \cup {Closer} /\ IsFiniteSet(Waiters)
  /\ Producers \cap Consumers = {} /\ Closer \notin Producers \cup Consumers
  /\ Counts = {"not_empty", "not_full"}
ASSUME ConfigsAssumption ==
  /\ MaxPushes \in Nat
  /\ Configs \subseteq [reserve : {"cas", "ticket"}, outline : SUBSET {"not_empty"},
                        pushes : 0..MaxPushes]
ASSUME RingAssumption == N \in Nat /\ N >= 2 /\ FullWakeEvery \in 1..N

VARIABLES
  Reserve,   \* Options::reserve, which never changes
  tail, closed, head,
  seq,       \* Slot::seq: its number n and whether kDead is set
  pos,       \* ticket: the position a producer holds
  late,      \* ticket: the closed bit of the word it took
  parked,    \* push: has it slept since it began
  budget     \* push calls that may still begin

ring == <<tail, closed, head, seq>>
calling == <<pos, late, parked, budget>>
moving == <<counts, buffer, ring, stack, calling>>
fixed == <<Reserve, Outline>>
vars == <<fixed, moving>>

Slots == 0..(N - 1)
Slot(q) == q % N
Word(n, d) == [n |-> n, dead |-> d]
SleepsOn(t) == IF t \in Consumers THEN "not_empty" ELSE "not_full"

\* A worker pops again and again, so it is always at least trying.
Init ==
  /\ \E c \in Configs : Reserve = c.reserve /\ Outline = c.outline /\ budget = c.pushes
  /\ EventCountInit
  /\ tail = 0 /\ closed = FALSE /\ head = 0
  /\ seq = [i \in Slots |-> Word(i, FALSE)]
  /\ stack = [t \in Waiters |-> << <<IF t \in Consumers THEN "try" ELSE "idle">> >>]
  /\ pos = [p \in Producers |-> 0]
  /\ late = [p \in Producers |-> FALSE]
  /\ parked = [p \in Producers |-> FALSE]

\* t starts a call that ends where it is now.
Begin(t, label) == stack' = [stack EXCEPT ![t] = << <<label>> >> \o @]

\* t sees its own store before it is flushed.  A compare-exchange comes before
\* each of these stores, so a buffer holds one of them at most.
Load(t, q) ==
  IF ~Fenced(t) /\ ~IsClear(Head(buffer[t])) /\ Head(buffer[t]).slot = Slot(q)
    THEN Head(buffer[t]).word ELSE seq[Slot(q)]

\* slot(q).seq.store(w, release)
Store(t, q, w) ==
  /\ Fenced(t)
  /\ buffer' = [buffer EXCEPT ![t] = <<[slot |-> Slot(q), word |-> w]>>]

\* The hardware writes t's store to memory.
Flush(t) ==
  \/ FlushClear(t) /\ UNCHANGED <<ring, calling>>
  \/ /\ ~Fenced(t) /\ ~IsClear(Head(buffer[t]))
     /\ seq' = [seq EXCEPT ![Head(buffer[t]).slot] = Head(buffer[t]).word]
     /\ buffer' = [buffer EXCEPT ![t] = <<>>]
     /\ UNCHANGED <<counts, tail, closed, head, stack, calling>>

Notifying(t) == NotifySteps(t) /\ UNCHANGED <<ring, calling>>

\* A ticket holder sleeps for kTicketPoll at most, whatever the backstop.
Waiting(t) ==
  /\ WaitSteps(t, SleepsOn(t),
               Backstop \/ Deadlines \/ (t \in Producers /\ Reserve = "ticket"))
  /\ UNCHANGED <<ring, calling>>

-----------------------------------------------------------------------------
(* push *)

BeginPush(p) ==
  /\ At(p, "idle") /\ budget > 0
  /\ budget' = budget - 1
  /\ parked' = [parked EXCEPT ![p] = FALSE]
  /\ Begin(p, IF Reserve = "cas" THEN "push" ELSE "precheck")
  /\ UNCHANGED <<counts, buffer, ring, pos, late>>

\* The tail's slot is free, as t sees it.
Room(t) == Load(t, tail).n = tail

\* p is about to call try_push, for the first time or in the re-check.
Trying(p) == At(p, "push") \/ (At(p, "recheck") /\ Reserve = "cas")

\* In the re-check p has announced itself, and withdraws before it returns.
Withdraw(p) == IF At(p, "recheck") THEN << <<"cancel">> >> ELSE <<>>

\* try_push answers closed, and so does push.
PushClosed(p) ==
  /\ Trying(p) /\ Fenced(p) /\ closed
  /\ Then(p, Withdraw(p))
  /\ UNCHANGED <<counts, buffer, ring, calling>>

\* try_push reserves the tail and publishes: it stores pos + 1 and notifies one
\* consumer.  A push that had slept then passes the wake on.
PushOk(p) ==
  /\ Trying(p) /\ ~closed /\ Room(p)
  /\ tail' = tail + 1
  /\ Store(p, tail, Word(tail + 1, FALSE))
  /\ Then(p, <<Notify("not_empty", "one")>> \o Withdraw(p)
             \o (IF parked[p] THEN << <<"chain">> >> ELSE <<>>))
  /\ UNCHANGED <<counts, closed, head, seq, calling>>

\* try_push answers full: prepare to sleep; or, in the re-check, sleep or give up.
PushFull(p) ==
  /\ Trying(p) /\ Fenced(p) /\ ~closed /\ ~Room(p)
  /\ \/ At(p, "push") /\ Then(p, << <<"key">>, <<"recheck">> >>) /\ UNCHANGED parked
     \/ /\ At(p, "recheck") /\ Then(p, << <<"wait">>, <<"push">> >>)
        /\ parked' = [parked EXCEPT ![p] = TRUE]
     \/ At(p, "recheck") /\ Deadlines /\ Then(p, Withdraw(p)) /\ UNCHANGED parked
  /\ UNCHANGED <<counts, buffer, ring, pos, late, budget>>

\* chain_full_wake
ChainFullWake(p) ==
  /\ At(p, "chain")
  /\ Then(p, IF Room(p) THEN <<Notify("not_full", "one")>> ELSE <<>>)
  /\ UNCHANGED <<counts, buffer, ring, calling>>

-----------------------------------------------------------------------------
(* push with tickets *)

PrecheckClosed(p) ==
  /\ At(p, "precheck")
  /\ Then(p, IF closed THEN <<>> ELSE << <<"ticket">> >>)
  /\ UNCHANGED <<counts, buffer, ring, calling>>

TakeTicket(p) ==
  /\ At(p, "ticket") /\ Fenced(p)
  /\ tail' = tail + 1
  /\ pos' = [pos EXCEPT ![p] = tail]
  /\ late' = [late EXCEPT ![p] = closed]
  /\ Then(p, << <<"turn">> >>)
  /\ UNCHANGED <<counts, buffer, closed, head, seq, parked, budget>>

\* await_turn: the slot has been handed to this position.
MyTurn(p) == Load(p, pos[p]) = Word(pos[p], FALSE)

AwaitTurn(p) ==
  /\ Fenced(p)
  /\ \/ At(p, "turn") /\ ~MyTurn(p) /\ Then(p, << <<"key">>, <<"recheck">> >>)
     \/ /\ At(p, "recheck") /\ Reserve = "ticket"
        /\ Then(p, IF MyTurn(p) THEN << <<"cancel">>, <<"turn">> >>
                      ELSE << <<"wait">>, <<"turn">> >>)
  /\ UNCHANGED <<counts, buffer, ring, calling>>

\* The turn has come: publish, or pay a ticket taken from a closed queue with a
\* tombstone, of which nobody is notified.
PayTicket(p) ==
  /\ At(p, "turn") /\ MyTurn(p)
  /\ Store(p, pos[p], Word(pos[p] + 1, late[p]))
  /\ Then(p, IF late[p] THEN <<>> ELSE <<Notify("not_empty", "one")>>)
  /\ UNCHANGED <<counts, ring, calling>>

-----------------------------------------------------------------------------
(* pop *)

\* Faulty: a slot is taken for published one lap too soon.
ReadyTooSoon(t) == Load(t, head).n = head

\* The head's slot is published, as t sees it.
Ready(t) == Load(t, head).n = head + 1

\* Faulty: release hands the slot back and tells nobody.
FreesRoomSilently(q) == <<>>

\* release, and once per batch a wake for the blocked producers.
FreesRoom(q) ==
  IF q % FullWakeEvery # 0 THEN <<>>
  ELSE <<Notify("not_full", IF Reserve = "ticket" THEN "waiting" ELSE "one")>>

\* try_pop claims the head and stores pos + N, at the top of the loop, in the
\* re-check or after a wait.  Past a tombstone try_pop goes on.  With an object
\* pop returns, withdrawing first in the re-check, and after a wait looking for
\* the rest of a burst.
PopOk(c) ==
  /\ Ready(c) /\ Doing(c)[1] \in {"try", "recheck", "left"}
  /\ head' = head + 1
  /\ Store(c, head, Word(head + N, FALSE))
  /\ Then(c, FreesRoom(head) \o
             (IF Load(c, head).dead \/ At(c, "try") THEN <<Doing(c)>>
              ELSE IF At(c, "recheck") THEN << <<"cancel">>, <<"try">> >>
              ELSE << <<"chain">>, <<"try">> >>))
  /\ UNCHANGED <<counts, tail, closed, seq, calling>>

\* Faulty: drained is tested against the tail word, closed bit and all.
PopEmptyWord(c) ==
  /\ At(c, "try") /\ ~Ready(c)
  /\ \/ closed /\ head = tail + 1 /\ Then(c, << <<"drained">> >>)
     \/ closed /\ head # tail + 1 /\ UNCHANGED stack
     \/ ~closed /\ Then(c, << <<"key">>, <<"recheck">> >>)
  /\ UNCHANGED <<counts, buffer, ring, calling>>

\* try_pop finds nothing, and pop looks at the closed bit.  After a close nobody
\* parks: drained, or again.
PopEmpty(c) ==
  /\ At(c, "try") /\ ~Ready(c)
  /\ \/ closed /\ head = tail /\ Then(c, << <<"drained">> >>)
     \/ closed /\ head # tail /\ UNCHANGED stack
     \/ ~closed /\ Then(c, << <<"key">>, <<"recheck">> >>)
  /\ UNCHANGED <<counts, buffer, ring, calling>>

\* Nothing in the re-check either: handle a close at the top, or give up, or sleep.
PopSleep(c) ==
  /\ At(c, "recheck") /\ WaitFenced(c, "not_empty") /\ ~Ready(c)
  /\ \/ closed /\ Then(c, << <<"cancel">>, <<"try">> >>)
     \/ ~closed /\ Then(c, << <<"wait">>, <<"left">> >>)
     \/ ~closed /\ Deadlines /\ Then(c, << <<"cancel">>, <<"try">> >>)
  /\ UNCHANGED <<counts, buffer, ring, calling>>

\* Nothing after a wait: from the top.
PopAgain(c) ==
  /\ At(c, "left") /\ WaitFenced(c, "not_empty") /\ ~Ready(c)
  /\ Then(c, << <<"try">> >>)
  /\ UNCHANGED <<counts, buffer, ring, calling>>

\* The first pop after a wake wakes the next sleeper if there is more.
ChainBurst(c) ==
  /\ At(c, "chain")
  /\ Then(c, IF Ready(c) THEN <<Notify("not_empty", "one")>> ELSE <<>>)
  /\ UNCHANGED <<counts, buffer, ring, calling>>

-----------------------------------------------------------------------------
(* close *)

\* Faulty: close leaves the sleeping workers asleep.
CloseForProducers ==
  /\ Closes /\ At(Closer, "idle") /\ Fenced(Closer)
  /\ closed' = TRUE
  /\ Then(Closer, <<Notify("not_full", "all"), <<"closed">> >>)
  /\ UNCHANGED <<counts, buffer, tail, head, seq, calling>>

Close ==
  /\ Closes /\ At(Closer, "idle") /\ Fenced(Closer)
  /\ closed' = TRUE
  /\ Then(Closer, <<Notify("not_empty", "all"), Notify("not_full", "all"), <<"closed">> >>)
  /\ UNCHANGED <<counts, buffer, tail, head, seq, calling>>

Pushing(p) ==
  \/ PushClosed(p) \/ PushOk(p) \/ PushFull(p) \/ ChainFullWake(p)
  \/ PrecheckClosed(p) \/ TakeTicket(p) \/ AwaitTurn(p) \/ PayTicket(p)
  \/ Waiting(p) \/ Notifying(p)

Popping(c) ==
  \/ PopOk(c) \/ PopEmpty(c) \/ PopSleep(c) \/ PopAgain(c) \/ ChainBurst(c)
  \/ Waiting(c) \/ Notifying(c)

Next ==
  /\ \/ \E p \in Producers : BeginPush(p) \/ Pushing(p)
     \/ \E c \in Consumers : Popping(c)
     \/ Close \/ Notifying(Closer)
     \/ \E t \in Waiters : Flush(t)
  /\ UNCHANGED fixed

\* Every thread has returned or is blocked in the kernel, and every store is out.
AtRest ==
  \A t \in Waiters :
    /\ Fenced(t)
    /\ \/ Doing(t)[1] \in {"idle", "drained", "closed"}
       \/ At(t, "wait") /\ t \in sleepers[SleepsOn(t)]

\* The workload is over: every push has returned, and every worker was told
\* drained; or nobody closes, and whoever is still in a call sleeps.
Over ==
  /\ AtRest
  /\ Closes => /\ \A p \in Producers : At(p, "idle")
              /\ \A c \in Consumers : At(c, "drained")
              /\ At(Closer, "closed")
  /\ UNCHANGED vars

Spec == Init /\ [][Next \/ Over]_vars

\* The scheduler runs every thread that is inside a call, and stores reach
\* memory; a worker pops until it is told drained.  Nobody has to push or close.
Fairness ==
  /\ \A p \in Producers : WF_moving(Pushing(p))
  /\ \A c \in Consumers : WF_moving(Popping(c))
  /\ WF_moving(Notifying(Closer))
  /\ \A t \in Waiters : WF_moving(Flush(t))

FairSpec == Spec /\ Fairness

-----------------------------------------------------------------------------
(* Properties. *)

Labels == {"idle", "push", "precheck", "ticket", "turn", "chain",
           "key", "announce", "recheck", "cancel", "wait", "left",
           "try", "drained", "closed",
           "look", "claim", "advance", "wake"}

Words == [n : 0..(tail + N), dead : BOOLEAN]

TypeOK ==
  /\ tail \in Nat /\ closed \in BOOLEAN /\ head \in 0..tail
  /\ seq \in [Slots -> Words]
  /\ epoch \in [Counts -> Nat] /\ pending \in [Counts -> BOOLEAN]
  /\ sleepers \in [Counts -> SUBSET Waiters]
  /\ \A t \in Waiters :
       /\ key[t] \in Nat
       /\ stack[t] # <<>> /\ \A i \in DOMAIN stack[t] : stack[t][i][1] \in Labels
       /\ \/ buffer[t] = <<>>
          \/ buffer[t][1] \in [slot : Slots, word : Words] \cup [count : Counts]
  /\ pos \in [Producers -> Nat] /\ late \in [Producers -> BOOLEAN]
  /\ parked \in [Producers -> BOOLEAN] /\ budget \in 0..MaxPushes
  /\ Outline \subseteq {"not_empty"}

\* Something with one of these labels is on a stack.
Has(s, labels) == \E i \in DOMAIN s : s[i][1] \in labels

\* t has announced itself as a waiter and not yet withdrawn.
Announced(t) ==
  Has(stack[t], {"recheck", "cancel", "wait"}) /\ ~Has(stack[t], {"key", "announce"})

\* waiters_ counts exactly the threads between prepare_wait and the cancel or
\* wait that ends it, so a notifier that reads zero leaves nobody behind.
WaitersCounted ==
  \A e \in Counts : waiters[e] =
    Cardinality({t \in Waiters : e \notin Outline /\ SleepsOn(t) = e /\ Announced(t)})

\* pending_ is never left set with a thread asleep and nobody about to wake one or
\* to clear it, which would silence every later notify_one.
PendingCovered ==
  \A e \in Counts : pending[e] /\ sleepers[e] # {} =>
    \E t \in Waiters :
      \/ Doing(t)[1] \in {"advance", "wake"} /\ Doing(t)[2] = e
      \/ buffer[t] = <<ClearPending(e)>>
      \/ SleepsOn(t) = e /\ At(t, "wait") /\ key[t] # epoch[e] /\ t \notin sleepers[e]

\* The event counts' own books, which every skipped or coalesced wake relies on.
EventCountsSound == TypeOK /\ WaitersCounted /\ PendingCovered

\* No worker sleeps through a publication: at rest, a sleeping worker has nothing
\* to pop.
NoEventMissed ==
  AtRest /\ sleepers["not_empty"] # {} => seq[Slot(head)].n # head + 1

\* No producer sleeps through a release: at rest, a blocked producer has no room.
NoRoomMissed ==
  AtRest /\ sleepers["not_full"] # {} => seq[Slot(tail)].n # tail

\* close wakes everybody: at rest after it, nobody is asleep.
NobodySleepsClosed ==
  AtRest /\ At(Closer, "closed") => \A e \in Counts : sleepers[e] = {}

\* Every accepted position is eventually claimed, with or without a close.
EventsDelivered ==
  \A q \in 0..(MaxPushes - 1) : tail > q ~> head > q

\* Every push returns: it finds room in the end, or the queue closes.
PushReturns == \A p \in Producers : ~At(p, "idle") ~> At(p, "idle")

\* After close every worker is told drained.
CloseDrains == closed ~> \A c \in Consumers : At(c, "drained")
=============================================================================
