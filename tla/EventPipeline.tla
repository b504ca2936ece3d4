--------------------------- MODULE EventPipeline ---------------------------
(***************************************************************************)
(* weir::EventPipeline (event_pipeline.hpp): producers that come and go,   *)
(* each with a slot and a ring of its own, one consumer that drains the    *)
(* rings into a sink and sleeps when there is nothing to do, and a thread  *)
(* that starts and stops the pipeline.                                     *)
(*                                                                         *)
(* A ring is its two positions; its inner steps do not matter here.  The   *)
(* store of a ring's tail is seen by other threads only when it lands, and *)
(* landed is the tail they see: between the store and a fence the producer *)
(* can read other memory first.  No order is assumed of relaxed            *)
(* read-modify-writes.                                                     *)
(*                                                                         *)
(* Left out: what only statistics read (high_water and the scan, bitmap,   *)
(* notify and park counters), and the rotation of a scan's first ring: a   *)
(* scan takes its rings in any order.                                      *)
(***************************************************************************)
EXTENDS Naturals, FiniteSets, FiniteSetsExt

CONSTANTS
  Producers,       \* threads that register, push and retire
  Slots,           \* 0 .. kMaxProducers - 1
  StageSize,       \* kStageEvents
  Configs,         \* the configurations that may run, see config
  MaxPushes,       \* bound: push calls in all
  MaxHandles,      \* bound: register_producer calls that find a slot
  NoSlot

ASSUME SizesAssumption ==
  /\ StageSize \in Nat \ {0}
  /\ MaxPushes \in Nat /\ MaxHandles \in Nat
ASSUME PolicyAssumption ==
  /\ Configs \subseteq
       [capacity : Nat \ {0}, batch : Nat \ {0}, spin : Nat, scan : {"Bitmap", "FullScan"},
        mode : {"Drain", "Abort"}, timeouts : BOOLEAN, wedges : BOOLEAN]
  /\ NoSlot \notin Slots
\* Of slots there are kMaxProducers, and of threads those of one process.
ASSUME FiniteAssumption == IsFiniteSet(Producers) /\ IsFiniteSet(Slots)

VARIABLES
  config,         \* what the pipeline was built with and how it will be stopped
  state,          \* ProducerSlot::state
  tail,           \* tail_ of each ring, as its producer has it
  landed,         \* ... and as memory has it
  head,           \* head_ of each ring
  pushed, dropped,                  \* ProducerSlot's counters
  retiredPushed, retiredDropped,    \* counters of departed producers
  active,         \* active_: the slots whose bit is set
  accepting, running, parked, retirePending,
  drainMet,       \* drain_deadline_met_
  pc,             \* where each producer thread is
  slot,           \* the slot of the handle it owns
  leaving,        \* it is inside the handle's destructor
  at,             \* where the consumer is
  scan,           \* which scan it is in: a pass, the one before sleep, the last
  todo,           \* the slots still ahead in the loop it is in
  cur, took,      \* drain_ring: the ring, and the events taken from it
  got,            \* the scan has found an event
  staged,         \* staged_
  idle,           \* passes without work
  round,          \* which of the two final passes
  sp,             \* where the starting and stopping thread is
  left,           \* all_quiesced: slots still to look at
  probe, tailSeen, \* size_now: the slot, and the tail loaded from it
  owed,           \* history: what had landed in each ring when stop let go
  calls, refused, \* push calls begun, and those turned away by accepting_
  handles         \* handles given out

\* Of config, which never changes: kRingCapacity; kDrainBatch; cfg_.spin_before_park; cfg_.scan;
\* the argument of stop; may a park end by its timeout, a write never return.
Capacity == config.capacity
Batch == config.batch
SpinBeforePark == config.spin
Scan == config.scan
Mode == config.mode
Timeouts == config.timeouts
Wedges == config.wedges

rings == <<tail, landed, head>>
counters == <<pushed, dropped, retiredPushed, retiredDropped>>
flags == <<accepting, running, retirePending>>
thread == <<pc, slot, leaving>>
loop == <<scan, todo, cur, took, got, staged, idle, round>>
stopper == <<sp, left, probe, tailSeen, owed, drainMet>>
bounds == <<calls, refused, handles>>
moving == <<state, rings, counters, active, flags, parked, thread, at, loop,
            stopper, bounds>>
vars == <<config, moving>>

Init ==
  /\ config \in Configs
  /\ state = [i \in Slots |-> "Free"]
  /\ tail = [i \in Slots |-> 0]
  /\ landed = [i \in Slots |-> 0]
  /\ head = [i \in Slots |-> 0]
  /\ pushed = [i \in Slots |-> 0] /\ dropped = [i \in Slots |-> 0]
  /\ retiredPushed = 0 /\ retiredDropped = 0
  /\ active = {}
  /\ accepting = FALSE /\ running = FALSE /\ parked = FALSE
  /\ retirePending = FALSE /\ drainMet = FALSE
  /\ pc = [p \in Producers |-> "out"]
  /\ slot = [p \in Producers |-> NoSlot]
  /\ leaving = [p \in Producers |-> FALSE]
  /\ at = "unborn" /\ scan = "pass" /\ todo = {} /\ cur = NoSlot /\ took = 0
  /\ got = FALSE /\ staged = 0 /\ idle = 0 /\ round = 0
  /\ sp = "new" /\ left = {} /\ probe = NoSlot /\ tailSeen = 0
  /\ owed = [i \in Slots |-> 0]
  /\ calls = 0 /\ refused = 0 /\ handles = 0

\* The producer's store of the tail of ring i reaches memory.
Land(i) ==
  /\ landed[i] < tail[i]
  /\ landed' = [landed EXCEPT ![i] = @ + 1]
  /\ UNCHANGED <<state, tail, head, counters, active, flags, parked, thread, at,
                 loop, stopper, bounds>>

\* Every store of p's ring has landed: what a fence waits for, and what a release
\* store of p orders before itself.
Fenced(p) == landed[slot[p]] = tail[slot[p]]

\* empty_now
Empty(i) == landed[i] = head[i]

\* park_mu_ is free; the consumer holds it from arming to the wait.
MutexFree == at # "armed"

\* park_cv_ is notified.
WakeConsumer == at' = IF at = "asleep" THEN "woken" ELSE at

-----------------------------------------------------------------------------
(* Producers. *)

\* register_producer: a free slot becomes this handle's, its counters zeroed.
Register(p) ==
  /\ pc[p] = "out" /\ handles < MaxHandles
  /\ \E i \in Slots :
       /\ state[i] = "Free"
       /\ state' = [state EXCEPT ![i] = "Active"]
       /\ pushed' = [pushed EXCEPT ![i] = 0]
       /\ dropped' = [dropped EXCEPT ![i] = 0]
       /\ slot' = [slot EXCEPT ![p] = i]
  /\ pc' = [pc EXCEPT ![p] = "idle"]
  /\ handles' = handles + 1
  /\ UNCHANGED <<rings, retiredPushed, retiredDropped, active, flags, parked,
                 leaving, at, loop, stopper, calls, refused>>

\* push looks at accepting_, and returns false without a trace if it is unset.
BeginPush(p) ==
  /\ pc[p] = "idle" /\ calls < MaxPushes
  /\ calls' = calls + 1
  /\ refused' = IF accepting THEN refused ELSE refused + 1
  /\ pc' = [pc EXCEPT ![p] = IF accepting THEN "try" ELSE "idle"]
  /\ UNCHANGED <<state, rings, counters, active, flags, parked, slot, leaving, at,
                 loop, stopper, handles>>

\* try_push finds room and stores the tail.
TryPush(p) ==
  LET i == slot[p] IN
  /\ pc[p] = "try" /\ tail[i] - head[i] < Capacity
  /\ tail' = [tail EXCEPT ![i] = @ + 1]
  /\ pc' = [pc EXCEPT ![p] = "count"]
  /\ UNCHANGED <<state, landed, head, counters, active, flags, parked, slot, leaving,
                 at, loop, stopper, bounds>>

\* try_push finds the ring full, at once or, with SpinThenDrop, once more after a
\* bounded spin.
Drop(p) ==
  LET i == slot[p] IN
  /\ pc[p] = "try" /\ tail[i] - head[i] = Capacity
  /\ dropped' = [dropped EXCEPT ![i] = @ + 1]
  /\ pc' = [pc EXCEPT ![p] = "idle"]
  /\ UNCHANGED <<state, rings, pushed, retiredPushed, retiredDropped, active, flags,
                 parked, slot, leaving, at, loop, stopper, bounds>>

CountPush(p) ==
  /\ pc[p] = "count"
  /\ pushed' = [pushed EXCEPT ![slot[p]] = @ + 1]
  /\ pc' = [pc EXCEPT ![p] = IF Scan = "Bitmap" THEN "look" ELSE "idle"]
  /\ UNCHANGED <<state, rings, dropped, retiredPushed, retiredDropped, active, flags,
                 parked, slot, leaving, at, loop, stopper, bounds>>

\* signal returns: to the end of push or of retire.
AfterSignal(p) == IF leaving[p] THEN "wake" ELSE "idle"

\* Faulty: the bit is checked before the fence.
SignalLookUnfenced(p) ==
  /\ pc[p] = "look"
  /\ pc' = [pc EXCEPT ![p] = IF slot[p] \in active THEN AfterSignal(p) ELSE "set"]
  /\ UNCHANGED <<state, rings, counters, active, flags, parked, slot, leaving, at,
                 loop, stopper, bounds>>

\* signal: fence, then leave it at that if the bit is set already.  Nothing of a
\* departing producer is left to wait for, and its slot may be another's by now.
SignalLook(p) ==
  /\ pc[p] = "look" /\ (leaving[p] \/ Fenced(p))
  /\ pc' = [pc EXCEPT ![p] = IF slot[p] \in active THEN AfterSignal(p) ELSE "set"]
  /\ UNCHANGED <<state, rings, counters, active, flags, parked, slot, leaving, at,
                 loop, stopper, bounds>>

\* active_.fetch_or: only the first bit of all calls for a notify.
SignalSet(p) ==
  /\ pc[p] = "set"
  /\ active' = active \cup {slot[p]}
  /\ pc' = [pc EXCEPT ![p] = IF active = {} THEN "check" ELSE AfterSignal(p)]
  /\ UNCHANGED <<state, rings, counters, flags, parked, slot, leaving, at, loop,
                 stopper, bounds>>

SignalCheck(p) ==
  /\ pc[p] = "check"
  /\ pc' = [pc EXCEPT ![p] = IF parked THEN "notify" ELSE AfterSignal(p)]
  /\ UNCHANGED <<state, rings, counters, active, flags, parked, slot, leaving, at,
                 loop, stopper, bounds>>

SignalNotify(p) ==
  /\ pc[p] = "notify" /\ MutexFree
  /\ WakeConsumer
  /\ pc' = [pc EXCEPT ![p] = AfterSignal(p)]
  /\ UNCHANGED <<state, rings, counters, active, flags, parked, slot, leaving, loop,
                 stopper, bounds>>

\* retire, by the handle's destructor: mark the slot, which is a release ...
Retire(p) ==
  /\ pc[p] = "idle" /\ Fenced(p)
  /\ state' = [state EXCEPT ![slot[p]] = "Retiring"]
  /\ leaving' = [leaving EXCEPT ![p] = TRUE]
  /\ pc' = [pc EXCEPT ![p] = "retire"]
  /\ UNCHANGED <<rings, counters, active, flags, parked, slot, at, loop, stopper,
                 bounds>>

\* ... then say that there is a slot to reclaim, signal ...
RetirePending(p) ==
  /\ pc[p] = "retire"
  /\ retirePending' = TRUE
  /\ pc' = [pc EXCEPT ![p] = IF Scan = "Bitmap" THEN "look" ELSE "wake"]
  /\ UNCHANGED <<state, rings, counters, active, accepting, running, parked, slot,
                 leaving, at, loop, stopper, bounds>>

\* ... and wake the consumer.
RetireWake(p) ==
  /\ pc[p] = "wake" /\ MutexFree
  /\ WakeConsumer
  /\ pc' = [pc EXCEPT ![p] = "out"]
  /\ slot' = [slot EXCEPT ![p] = NoSlot]
  /\ leaving' = [leaving EXCEPT ![p] = FALSE]
  /\ UNCHANGED <<state, rings, counters, active, flags, parked, loop, stopper, bounds>>

-----------------------------------------------------------------------------
(* The consumer: scanning. *)

everyone == <<flags, thread, stopper, bounds>>

\* A full scan, as a pass, before sleep or at the end; and a pass over the bits.
BeginScan(which, slots) ==
  /\ at' = "scan" /\ scan' = which
  /\ todo' = slots /\ got' = FALSE

TopOfLoop ==
  /\ at = "top" /\ running
  /\ BeginScan("pass", IF Scan = "Bitmap" THEN active ELSE Slots)
  /\ UNCHANGED <<state, rings, counters, active, parked, everyone, cur, took, staged,
                 idle, round>>

\* drain_full skips the slots that are free; drain_bitmap looks at no state.
NextRing ==
  /\ at = "scan" /\ cur = NoSlot
  /\ \E i \in todo :
       /\ todo' = todo \ {i}
       /\ cur' = IF state[i] = "Free" /\ (scan # "pass" \/ Scan = "FullScan")
                  THEN NoSlot ELSE i
  /\ took' = 0
  /\ UNCHANGED <<state, rings, counters, active, parked, everyone, at, scan, got,
                 staged, idle, round>>

\* drain_ring took n events: staged, counted against the cap, and the ring left
\* behind when there are no more or the cap is met.
Took(n) ==
  /\ head' = [head EXCEPT ![cur] = @ + n]
  /\ staged' = staged + n
  /\ took' = took + n
  /\ got' = (got \/ n > 0)
  /\ cur' = IF n = 0 \/ took + n = Batch THEN NoSlot ELSE cur
  /\ UNCHANGED <<state, tail, landed, counters, active, parked, everyone, at, scan,
                 todo, idle, round>>

\* pop_batch returns nothing only from an empty ring, and else what its cached
\* tail shows: some of what has landed.
Popped(room) ==
  IF Empty(cur) THEN {0} ELSE 1..Min({landed[cur] - head[cur], room})

\* Faulty: the room left in the stage is not looked at.
PopBatchOverStage ==
  /\ at = "scan" /\ cur # NoSlot /\ took < Batch
  /\ \E n \in Popped(Batch - took) : Took(n)

\* drain_ring: one pop_batch, of at most what the fairness cap leaves and what the
\* stage has room for.
PopBatch ==
  /\ at = "scan" /\ cur # NoSlot /\ took < Batch /\ staged < StageSize
  /\ \E n \in Popped(Min({Batch - took, StageSize - staged})) : Took(n)

\* Is the consumer about to call the sink: with the stage full, at the end of a
\* scan that found events, or at the very end?
Writing ==
  \/ at = "scan" /\ cur # NoSlot /\ took < Batch /\ staged = StageSize
  \/ at = "scan" /\ cur = NoSlot /\ todo = {} /\ got /\ staged > 0
  \/ at = "flush" /\ staged > 0

Write ==
  /\ Writing
  /\ staged' = 0
  /\ UNCHANGED <<state, rings, counters, active, parked, everyone, at, scan, todo, cur,
                 took, got, idle, round>>

\* The sink is stuck: its write never returns.
Wedge ==
  /\ Wedges /\ Writing
  /\ at' = "wedged"
  /\ UNCHANGED <<state, rings, counters, active, parked, everyone, loop>>

ScanOver == at = "scan" /\ cur = NoSlot /\ todo = {} /\ ~Writing

\* A scan with events starts over, and idle counts from zero; an empty pass goes on
\* to the idle work, an empty scan before sleep to park.
EndScan ==
  /\ ScanOver /\ scan # "last"
  /\ at' = IF got THEN "top" ELSE IF scan = "pass" THEN "idle" ELSE "park"
  /\ idle' = IF got THEN 0 ELSE idle
  /\ UNCHANGED <<state, rings, counters, active, parked, everyone, scan, todo, cur, took,
                 got, staged, round>>

-----------------------------------------------------------------------------
(* The consumer: an idle pass. *)

\* retire_pending_.exchange(false)
TakePending ==
  /\ at = "idle"
  /\ retirePending' = FALSE
  /\ at' = IF retirePending THEN "reclaim" ELSE "spin"
  /\ todo' = IF retirePending THEN Slots ELSE {}
  /\ UNCHANGED <<state, rings, counters, active, parked, accepting, running, thread,
                 stopper, bounds, scan, cur, took, got, staged, idle, round>>

\* Faulty: a retired slot is freed with events in its ring.
ReclaimUndrained ==
  /\ at = "reclaim"
  /\ \E i \in todo :
       /\ todo' = todo \ {i}
       /\ IF state[i] = "Retiring"
            THEN /\ retiredPushed' = retiredPushed + pushed[i]
                 /\ retiredDropped' = retiredDropped + dropped[i]
                 /\ pushed' = [pushed EXCEPT ![i] = 0]
                 /\ dropped' = [dropped EXCEPT ![i] = 0]
                 /\ active' = active \ {i}
                 /\ state' = [state EXCEPT ![i] = "Free"]
            ELSE UNCHANGED <<counters, active, state>>
  /\ UNCHANGED <<rings, parked, everyone, at, scan, cur, took, got, staged, idle, round>>

\* Faulty: the counters are left for register_producer to erase.
ReclaimUncounted ==
  /\ at = "reclaim"
  /\ \E i \in todo :
       /\ todo' = todo \ {i}
       /\ IF state[i] = "Retiring" /\ Empty(i)
            THEN /\ active' = active \ {i}
                 /\ state' = [state EXCEPT ![i] = "Free"]
            ELSE UNCHANGED <<active, state>>
  /\ UNCHANGED <<rings, counters, parked, everyone, at, scan, cur, took, got, staged,
                 idle, round>>

\* reclaim_retired, one slot: roll its counters up, clear its bit, publish Free.
Reclaim ==
  /\ at = "reclaim"
  /\ \E i \in todo :
       /\ todo' = todo \ {i}
       /\ IF state[i] = "Retiring" /\ Empty(i)
            THEN /\ retiredPushed' = retiredPushed + pushed[i]
                 /\ retiredDropped' = retiredDropped + dropped[i]
                 /\ pushed' = [pushed EXCEPT ![i] = 0]
                 /\ dropped' = [dropped EXCEPT ![i] = 0]
                 /\ active' = active \ {i}
                 /\ state' = [state EXCEPT ![i] = "Free"]
            ELSE UNCHANGED <<counters, active, state>>
  /\ UNCHANGED <<rings, parked, everyone, at, scan, cur, took, got, staged, idle, round>>

EndReclaim ==
  /\ at = "reclaim" /\ todo = {}
  /\ at' = IF scan = "last" THEN "done" ELSE "spin"
  /\ UNCHANGED <<state, rings, counters, active, parked, everyone, loop>>

\* Spin and yield for a while, then clear the stale bits, or go straight to the
\* scan before sleep.
Spin ==
  /\ at = "spin"
  /\ idle' = idle + 1
  /\ \/ /\ idle + 1 < 2 * SpinBeforePark
        /\ at' = "top"
        /\ UNCHANGED <<scan, todo, got>>
     \/ /\ idle + 1 >= 2 * SpinBeforePark /\ Scan = "Bitmap"
        /\ at' = "clear" /\ todo' = active
        /\ UNCHANGED <<scan, got>>
     \/ /\ idle + 1 >= 2 * SpinBeforePark /\ Scan = "FullScan"
        /\ BeginScan("safety", Slots)
  /\ UNCHANGED <<state, rings, counters, active, parked, everyone, cur, took, staged,
                 round>>

\* clear_empty_bits: look, clear, look again.
ClearLook ==
  /\ at = "clear"
  /\ \E i \in todo :
       /\ todo' = todo \ {i}
       /\ \/ Empty(i) /\ at' = "clearing" /\ cur' = i
          \/ ~Empty(i) /\ UNCHANGED <<at, cur>>
  /\ UNCHANGED <<state, rings, counters, active, parked, everyone, scan, took, got,
                 staged, idle, round>>

ClearBit ==
  /\ at = "clearing"
  /\ active' = active \ {cur}
  /\ at' = "recheck"
  /\ UNCHANGED <<state, rings, counters, parked, everyone, loop>>

\* Faulty: the ring is not looked at again once its bit is clear.
ClearRecheckNot ==
  /\ at = "recheck"
  /\ active' = IF state[cur] = "Retiring" THEN active \cup {cur} ELSE active
  /\ at' = "clear" /\ cur' = NoSlot
  /\ UNCHANGED <<state, rings, counters, parked, everyone, scan, todo, took, got, staged,
                 idle, round>>

ClearRecheck ==
  /\ at = "recheck"
  /\ active' = IF ~Empty(cur) \/ state[cur] = "Retiring" THEN active \cup {cur} ELSE active
  /\ at' = "clear" /\ cur' = NoSlot
  /\ UNCHANGED <<state, rings, counters, parked, everyone, scan, todo, took, got, staged,
                 idle, round>>

EndClear ==
  /\ at = "clear" /\ todo = {}
  /\ BeginScan("safety", Slots)
  /\ UNCHANGED <<state, rings, counters, active, parked, everyone, cur, took, staged,
                 idle, round>>

-----------------------------------------------------------------------------
(* The consumer: sleep and end. *)

\* park: with the mutex, raise parked_ ...
Arm ==
  /\ at = "park"
  /\ parked' = TRUE /\ at' = "armed"
  /\ UNCHANGED <<state, rings, counters, active, everyone, loop>>

\* Faulty: it waits without another look at the bitmap.
DozeUnchecked ==
  /\ at = "armed"
  /\ at' = IF running THEN "asleep" ELSE "woken"
  /\ UNCHANGED <<state, rings, counters, active, parked, everyone, loop>>

\* ... look once more, and wait, giving the mutex up, or not.
Doze ==
  /\ at = "armed"
  /\ at' = IF active = {} /\ running THEN "asleep" ELSE "woken"
  /\ UNCHANGED <<state, rings, counters, active, parked, everyone, loop>>

Unpark ==
  /\ at = "woken" \/ (Timeouts /\ at = "asleep")
  /\ parked' = FALSE /\ idle' = 0
  /\ at' = "top"
  /\ UNCHANGED <<state, rings, counters, active, everyone, scan, todo, cur, took, got,
                 staged, round>>

\* Faulty: no final pass.
LeaveLoopAtOnce ==
  /\ at = "top" /\ ~running
  /\ at' = "flush" /\ scan' = "last"
  /\ UNCHANGED <<state, rings, counters, active, parked, everyone, todo, got, round, cur,
                 took, staged, idle>>

\* running_ is unset: two passes, each of full scans until one finds nothing.
LeaveLoop ==
  /\ at = "top" /\ ~running
  /\ BeginScan("last", Slots)
  /\ round' = 1
  /\ UNCHANGED <<state, rings, counters, active, parked, everyone, cur, took, staged,
                 idle>>

\* Faulty: the final passes are never counted.
LastScanForever ==
  /\ ScanOver /\ scan = "last" /\ (got \/ round = 1)
  /\ BeginScan("last", Slots)
  /\ UNCHANGED <<state, rings, counters, active, parked, everyone, cur, took, staged,
                 idle, round>>

LastScan ==
  /\ ScanOver /\ scan = "last" /\ (got \/ round = 1)
  /\ BeginScan("last", Slots)
  /\ round' = IF got THEN round ELSE 2
  /\ UNCHANGED <<state, rings, counters, active, parked, everyone, cur, took, staged,
                 idle>>

EndLastScan ==
  /\ ScanOver /\ scan = "last" /\ ~got /\ round = 2
  /\ at' = "flush"
  /\ UNCHANGED <<state, rings, counters, active, parked, everyone, loop>>

LastReclaim ==
  /\ at = "flush" /\ staged = 0
  /\ at' = "reclaim" /\ todo' = Slots
  /\ UNCHANGED <<state, rings, counters, active, parked, everyone, scan, cur, took, got,
                 staged, idle, round>>

-----------------------------------------------------------------------------
(* start and stop. *)

pipe == <<state, rings, counters, active, parked, thread, bounds>>
asked == <<left, probe, tailSeen>>

Start ==
  /\ sp = "new"
  /\ running' = TRUE /\ accepting' = TRUE /\ at' = "top" /\ sp' = "up"
  /\ UNCHANGED <<pipe, retirePending, loop, asked, owed, drainMet>>

\* stop: refuse further pushes; Drain then waits for the rings, unless its deadline
\* is already past.
Stop ==
  /\ sp = "up"
  /\ accepting' = FALSE
  /\ \/ Mode = "Abort" /\ sp' = "halt" /\ UNCHANGED left
     \/ Mode = "Drain" /\ sp' \in {"poll", "verify"} /\ left' = Slots
  /\ UNCHANGED <<pipe, running, retirePending, at, loop, probe, tailSeen, owed, drainMet>>

\* all_quiesced, for the loop's condition or for drain_deadline_met_: the next slot,
\* and the tail of its ring unless it is free ...
ProbeTail ==
  /\ sp \in {"poll", "verify"} /\ probe = NoSlot
  /\ \E i \in left :
       /\ left' = left \ {i}
       /\ \/ state[i] = "Free" /\ UNCHANGED <<probe, tailSeen>>
          \/ state[i] # "Free" /\ probe' = i /\ tailSeen' = landed[i]
  /\ UNCHANGED <<pipe, flags, sp, at, loop, owed, drainMet>>

\* ... then its head: false at the first ring that does not seem empty.
ProbeHead ==
  /\ probe # NoSlot
  /\ probe' = NoSlot /\ tailSeen' = 0
  /\ \/ head[probe] = tailSeen /\ UNCHANGED <<sp, left>>
     \/ /\ head[probe] # tailSeen
        /\ sp' = IF sp = "poll" THEN "nudge" ELSE "halt"
        /\ left' = {}
  /\ UNCHANGED <<pipe, flags, at, loop, owed, drainMet>>

\* Not quiet: wake the consumer and try again, or give up at the deadline.
Nudge ==
  /\ sp = "nudge" /\ MutexFree
  /\ WakeConsumer
  /\ sp' \in {"poll", "verify"} /\ left' = Slots
  /\ UNCHANGED <<pipe, flags, loop, probe, tailSeen, owed, drainMet>>

AllQuiet == left = {} /\ probe = NoSlot

PollOver ==
  /\ sp = "poll" /\ AllQuiet
  /\ sp' = "verify" /\ left' = Slots
  /\ UNCHANGED <<pipe, flags, at, loop, probe, tailSeen, owed, drainMet>>

\* drain_deadline_met_ = all_quiesced()
Verify ==
  /\ sp = "verify" /\ AllQuiet
  /\ drainMet' = TRUE /\ sp' = "halt"
  /\ UNCHANGED <<pipe, flags, at, loop, asked, owed>>

Halt ==
  /\ sp = "halt"
  /\ running' = FALSE
  /\ owed' = landed
  /\ sp' = "wake"
  /\ UNCHANGED <<pipe, accepting, retirePending, at, loop, asked, drainMet>>

StopWake ==
  /\ sp = "wake" /\ MutexFree
  /\ WakeConsumer
  /\ sp' = "join"
  /\ UNCHANGED <<pipe, flags, loop, asked, owed, drainMet>>

Join ==
  /\ sp = "join" /\ at = "done"
  /\ sp' = "stopped"
  /\ UNCHANGED <<pipe, flags, at, loop, asked, owed, drainMet>>

-----------------------------------------------------------------------------

Pushing(p) ==
  \/ TryPush(p) \/ Drop(p) \/ CountPush(p)
  \/ SignalLook(p) \/ SignalSet(p) \/ SignalCheck(p) \/ SignalNotify(p)
  \/ RetirePending(p) \/ RetireWake(p)

Consume ==
  \/ TopOfLoop \/ NextRing \/ PopBatch \/ Write \/ Wedge \/ EndScan
  \/ TakePending \/ Reclaim \/ EndReclaim
  \/ Spin \/ ClearLook \/ ClearBit \/ ClearRecheck \/ EndClear
  \/ Arm \/ Doze \/ Unpark
  \/ LeaveLoop \/ LastScan \/ EndLastScan \/ LastReclaim

Stopping ==
  \/ ProbeTail \/ ProbeHead \/ Nudge \/ PollOver \/ Verify
  \/ Halt \/ StopWake \/ Join

Moves ==
  \/ \E p \in Producers : Register(p) \/ BeginPush(p) \/ Retire(p) \/ Pushing(p)
  \/ \E i \in Slots : Land(i)
  \/ Consume
  \/ Start \/ Stop \/ Stopping

Next == Moves /\ UNCHANGED config

\* Stopped, or waiting for a stuck sink to let the consumer go, and no producer
\* inside a call.
Over ==
  /\ sp = "stopped" \/ (sp = "join" /\ at = "wedged")
  /\ \A p \in Producers : pc[p] \in {"out", "idle"}
  /\ UNCHANGED vars

Spec == Init /\ [][Next \/ Over]_vars

\* The clock reaches the deadline of a drain that keeps polling.
DeadlinePasses == Nudge /\ sp' = "verify"

\* The scheduler runs the consumer and every thread inside a call, stores land, time
\* goes on, and a thread that keeps asking for park_mu_ gets it between two holdings
\* of the consumer's.  Nobody has to push, retire or stop, and no sink has to hang.
Fairness ==
  /\ \A p \in Producers : WF_moving(Pushing(p)) /\ SF_moving(SignalNotify(p) \/ RetireWake(p))
  /\ \A i \in Slots : WF_moving(Land(i))
  /\ WF_moving(Consume) /\ WF_moving(Stopping) /\ SF_moving(Nudge \/ StopWake)
  /\ SF_moving(DeadlinePasses)

FairSpec == Spec /\ Fairness

-----------------------------------------------------------------------------
(* Properties. *)

PipelineTypeOK ==
  /\ state \in [Slots -> {"Free", "Active", "Retiring"}]
  /\ tail \in [Slots -> Nat] /\ landed \in [Slots -> Nat] /\ head \in [Slots -> Nat]
  /\ pushed \in [Slots -> Nat] /\ dropped \in [Slots -> Nat]
  /\ retiredPushed \in Nat /\ retiredDropped \in Nat
  /\ active \subseteq Slots
  /\ {accepting, running, parked, retirePending, drainMet, got} \subseteq BOOLEAN
  /\ pc \in [Producers -> {"out", "idle", "try", "count", "look", "set", "check",
                           "notify", "retire", "wake"}]
  /\ slot \in [Producers -> Slots \cup {NoSlot}] /\ leaving \in [Producers -> BOOLEAN]
  /\ at \in {"unborn", "top", "scan", "wedged", "idle", "reclaim", "spin", "clear",
             "clearing", "recheck", "park", "armed", "asleep", "woken", "flush", "done"}
  /\ scan \in {"pass", "safety", "last"} /\ todo \subseteq Slots
  /\ cur \in Slots \cup {NoSlot} /\ took \in 0..Batch /\ staged \in 0..StageSize
  /\ idle \in Nat /\ round \in 0..2 /\ owed \in [Slots -> Nat]
  /\ left \subseteq Slots /\ probe \in Slots \cup {NoSlot} /\ tailSeen \in Nat
  /\ sp \in {"new", "up", "poll", "nudge", "verify", "halt", "wake", "join", "stopped"}
  /\ calls \in 0..MaxPushes /\ refused \in Nat /\ handles \in 0..MaxHandles

\* p's handle: it is valid and its id is i.  The handle moves, and is not copied.
Owns(p, i) == slot[p] = i

\* The sum of f over the slots: the number of units in all of them.
Units(f) == UNION {{i} \X (1..f[i]) : i \in Slots}
Total(f) == Cardinality(Units(f))

Taken == Total(head)

\* stats, its loads together: departed producers' counts and those of the slots, and
\* the events of the drain_ring calls that returned.
stats ==
  [pushed |-> retiredPushed + Total(pushed),
   dropped |-> retiredDropped + Total(dropped),
   consumed |-> Taken - (IF cur = NoSlot THEN 0 ELSE took)]

\* CountingSink::bytes, in events.
bytes == Taken - staged

\* A free slot's ring is drained and nobody's: register_producer never hands out a
\* ring that its last owner still writes or the consumer has yet to read.
FreeIsDrained ==
  \A i \in Slots : state[i] = "Free" =>
    /\ head[i] = tail[i]
    /\ \A p \in Producers : Owns(p, i) => leaving[p]

\* p is on its way to the bitmap for ring i.
WillSignal(p, i) == Owns(p, i) /\ pc[p] \in {"count", "look", "set"}

\* A ring with events has its bit set, or its producer is about to set it, or the
\* consumer is about to look again at the bit it cleared: no event is where the
\* bitmap scan never looks.
BitsCoverRings ==
  Scan = "Bitmap" => \A i \in Slots : landed[i] # head[i] =>
    \/ i \in active
    \/ \E p \in Producers : WillSignal(p, i)
    \/ at = "recheck" /\ cur = i

\* The consumer never sleeps on a set bit without a producer about to wake it: the
\* wakes of stop are not needed for this.
SleepIsWatched ==
  at = "asleep" /\ active # {} =>
    \E p \in Producers : pc[p] \in {"check", "notify", "wake"} \/ leaving[p]

\* No event is left in a ring, or in the stage, while the consumer sleeps and all
\* the producers are done with their calls.
NothingStranded ==
  at = "asleep" =>
    /\ staged = 0
    /\ Scan = "Bitmap" /\ (\A p \in Producers : pc[p] \in {"out", "idle"})
         => \A i \in Slots : landed[i] = head[i]

\* How many producers are at one of these places.
Within(places) == Cardinality({p \in Producers : pc[p] \in places})

\* Every push call is counted once, across any recycling of slots: accepted,
\* dropped, turned away by accepting_, or still under way; the accepted ones are what
\* the rings were given; and after a stop that no push overtook, as many events were
\* consumed, and written, as were pushed.
PushesAccounted ==
  /\ PipelineTypeOK
  /\ Total(tail) = stats.pushed + Within({"count"})
  /\ calls = stats.pushed + stats.dropped + refused + Within({"try", "count"})
  /\ sp = "stopped" /\ owed = tail /\ (\A p \in Producers : pc[p] # "count")
       => stats.consumed = stats.pushed /\ bytes = stats.pushed

\* What had landed when stop let the consumer go is in the sink when it is done,
\* with Drain and with Abort.
LastPassDelivers ==
  at = "done" => staged = 0 /\ \A i \in Slots : head[i] >= owed[i]

\* A drain that says it was complete has lost nothing that a push accepted.
DrainLosesNothing ==
  sp = "stopped" /\ drainMet => \A i \in Slots : head[i] = tail[i]

\* Every event pushed is read while the consumer runs and no write of its sink hangs.
EventsRead ==
  \A i \in Slots : \A q \in 0..(MaxPushes - 1) :
    tail[i] > q ~> head[i] > q \/ ~running \/ at = "wedged"

\* Nothing but a write that never returns keeps stop from returning, and that keeps it
\* in the join, which has no deadline, alone: the wait for the rings ends at its deadline even then, and a
\* producer in the middle of a push or a consumer about to sleep holds nobody up.
StopHeldBySinkAlone ==
  sp \notin {"new", "up"} ~> sp = "stopped" \/ (sp = "join" /\ at = "wedged")

\* A retired slot is free again in the end, if the pipeline goes on running.
RetiredIsFreed ==
  \A i \in Slots : state[i] = "Retiring" ~> state[i] # "Retiring" \/ ~running
=============================================================================
