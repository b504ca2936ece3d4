# Principal katas: a TLA+ verification

This directory models the C++ programs of the repository's three katas: the work
queue of `mpmc-work-queue-kata` ("turnstile") with its baselines and its driver, the
event pipeline of `mpsc-event-pipeline-kata` ("weir"), and the packet dispatch of
`plugin-dispatch-kata` ("switchyard"). TLC checks the models on small instances;
TLAPS proves, for every size, the safety of the two rings, of the blocking queue, of the
sharded queue, of the pipeline and of the packet dispatch, and that the lock-free ring
and the mutex queue implement one abstract queue.

`PROJECT.json` lists the components, the runs, the source lines behind every
definition, the hazards and the theorems.

## 1. The system

Each kata has a question, a worked solution with measurements, and tracks in C++ and,
for the first two, in Go and Python (where `src/` has one).

### turnstile, a bounded multi-producer multi-consumer work queue

| Part | State | Operations |
|---|---|---|
| `Queue` ring (`mpmc_queue.hpp`) | `tail_` (position and closed bit in one word), `head_`, a sequence and storage per slot | `try_push`, `push` (compare-exchange or ticket), `try_pop`, `pop`, `close`, destructor |
| `BasicEventCount`, `EpochWake` (`eventcount.hpp`) | `epoch_`, `waiters_`, `pending_`; the kernel's sleepers | `prepare_wait`, `cancel_wait`, `wait`, `notify_one`, `notify_all_if_waiting`, `notify_all` |
| `ShardedQueue` (`sharded_queue.hpp`) | per producer a ring with a closed bit, a head, a copy of each index on the other side and an event count; per consumer an event count and the ring to look at first | `push`, `try_push`, `pop`, `drained`, `close` over all rings |
| `MutexQueue` (`mutex_queue.hpp`) | a ring, a mutex, two condition variables, a closed flag | single and batched `push` and `pop`, `try_push`, `try_pop`, `close` |
| `BriefQueue` (`brief_queue.hpp`) | the brief's own listing | broken on purpose |
| `Tally`, `Histogram` | counts, digests, log-linear buckets | `add`, `merge`, `record`, `quantile`, `count_above` |
| driver (`driver.hpp`) | per thread what was offered, accepted, rejected, refused, consumed; a start line | `run`, `account`, `check_run` |
| Go `Ring`, `Waiter`, `ChanQueue` | as the ring; `closedAt`; a list of parked goroutines | as the ring |

Threads share the ring directly. A slot's sequence says whose turn it is: `pos` free
for position `pos`, `pos + 1` published, `pos + N` free a lap later; a high bit marks
a tombstone, with which a ticket taken after the close is paid. A worker that finds
nothing spins and then sleeps on `not_empty_`; a producer that finds the ring full
sleeps on `not_full_`. A notifier looks at `waiters_` first and skips its wake if
nobody waits, or if a wake is already under way (`pending_`).

The sharded queue trades the shared positions for a ring per producer, each owned by
one consumer, which looks at its rings in turn. Either side decides from its copy of
the other's index and refreshes it only when the copy says full, or empty. Whatever
must be known of all rings (is there anything, is everything closed and drained) is
pieced together from looks at different times.

What makes a queue correct: an object accepted is delivered once, in its producer's
order; storage changes hands without a data race; `drained` is final; nobody sleeps
while there is something for it to do; `push` and `pop` return after `close`; no ring
of a consumer starves another. And of the driver: its books balance whenever the
close comes, since every measurement is believed on the strength of `check_run`. Hard:
the interleavings of the two-step claim, the order of plain accesses around the
sequence, store and load on either side of the sleep, tickets that cannot be refused,
a close that sets one bit at a time.

### weir, a many-producer one-consumer event pipeline

| Part | State | Operations |
|---|---|---|
| `SpscRing` (`spsc_ring.hpp`) | `tail_`, `head_`, a cached copy of the other's index on each side, slots | `try_push`, `pop_batch`, `empty_now`, `size_now`, `producer_size_hint` |
| `EventPipeline`, `ProducerHandle` (`event_pipeline.hpp`) | 64 slots (state, ring, counters), `active_` bitmap, `accepting_`, `running_`, `parked_`, `retire_pending_`, the stage | `register_producer`, `push`/`signal`, `retire`, `consume` and its parts, `park`, `start`, `stop` |
| Sinks (`sink.hpp`) | bytes written | `write` |
| Go and Python pipelines | the same design; two-level bitmap, notify token, channel and asyncio variants | the same |

A producer owns its ring alone; it tells the consumer by setting its bit, if it
is not set, and by a notify, if the bitmap was empty and the consumer is parked.
The consumer drains the rings whose bits are set into a stage, hands the stage to
the sink, and when idle frees retired slots, clears the bits of empty rings,
scans everything once more and parks. A third thread starts and stops it.

What makes it correct: no event sits where the consumer will not look; a slot is
reused only when drained and unowned; the counters add up; a drain delivers what
was pushed; `stop` returns. Hard: two store-then-load races (bit and ring; parked
and bitmap), slots recycled while their last owner is still in its destructor,
and pushes under way when `stop` is called.

### switchyard, packet dispatch to handlers and plugins

| Part | State | Operations |
|---|---|---|
| Strategies (`strategy.hpp`) | the registered handlers, in an order, in a table by key, or in 1024 buckets | build; `dispatch`; the self-organizing scan also moves what it found |
| Mechanisms (`mechanism.hpp`, `generated.hpp`) | a table from key to handler number | `dispatch` by virtual call, erased call or variant |
| Packet streams (`packet.hpp`) | a pool of packets drawn against the registered keys, how often each was drawn | `build`, `frequencies`; replay and checksum (`harness.hpp`) |
| Host (`host.hpp`) | `LoadedPlugin`: the library's handle and its table of functions | `load` with its gates, `unload`, `claimed_keys`, `has_batch`, `create`, `destroy`, the adapter |
| Plugin (`plugin_abi.h`, `plugin.cpp`) | instances | the entry points behind the C interface, with return codes |

The program is one thread. Handlers, of the host or adapters of a plugin, are
registered in a list; every arm is built over that list and claims to answer as the
brief's first-match loop does. A library is admitted by an entry point, a version and
the size of the struct it hands out, since fields were added at its end over time.

What makes it correct: arms answer alike, or say of themselves that they do not
apply; of a plugin's struct only what the gates of `load` allow is read; instances are created
and destroyed in pairs, in code still mapped. Hard: long sequences of legal calls - a
list that has drifted, a library dropped or replaced under live adapters.

## 2. Modules

| Module | Models |
|---|---|
| `MpmcRing` | the ring: one action per atomic access of `try_push`, the ticket `push`, `try_pop`, the drained test of `pop`, `close`, the destructor |
| `MpmcRingInvariant`, `MpmcRingProofs` | its inductive invariant `IInv`, and the proofs |
| `WorkQueue` | what a queue promises: a closable first-in first-out line |
| `MpmcRingRefinement` | the ring implements `WorkQueue` |
| `MpmcRingLiveness` | fairness of the ring, and the return of a push after close |
| `EventCount` | the steps of waiters and notifiers, over store buffers, for any number of event counts |
| `MpmcQueue` | extends `EventCount`: blocking `push`, `pop` and `close` of `Queue` |
| `MpmcQueueInvariant`, `MpmcQueueProofs` | its inductive invariant `QueueInv`, and the proofs |
| `ShardedQueue` | extends `EventCount`: the sharded queue, one step per look at a ring |
| `ShardedQueueInvariant`, `ShardedQueueProofs` | its inductive invariant `ShardsInv`, and the proofs |
| `MutexQueue` | the mutex queue: one step per time the mutex is held, one per item of a batch |
| `Histogram` | buckets, upper bounds, quantiles and `count_above`, as operators |
| `Driver` | extends `MutexQueue` and `Histogram`: the driver's threads and books; implements `WorkQueue` |
| `DriverInvariant`, `DriverProofs` | its inductive invariants `LineInv` and `BooksInv`, and the proofs |
| `SpscRing`, `SpscRingProofs` | the single-producer ring, its invariant and proofs |
| `EventPipeline` | producers, consumer and stopper of the pipeline |
| `EventPipelineInvariant`, `EventPipelineProofs` | its inductive invariants `PipelineInv` and `AccountsInv`, and the proofs |
| `Dispatch` | handlers; what each strategy and mechanism builds and answers, as operators |
| `PacketStream` | extends `Dispatch`: distributions, draws, frequencies, checksums over a run |
| `Plugin` | what a plugin's entry points return |
| `PluginHost` | loading, unloading, creating and destroying, and which fields each step reads |
| `Switchyard` | extends `PacketStream` and `PluginHost`: register, build, dispatch, load and drop in any order |
| `SwitchyardInvariant`, `SwitchyardProofs` | its inductive invariant `YardInv`, and the proofs |
| `Laps` | for the proofs: arithmetic of positions and slots, and what a short stack becomes |
| `MC...` | values, symmetry and views for TLC |

In `MpmcQueue`, `ShardedQueue` and `EventCount` a thread has a stack of what it has
still to do: `push` calls the wait, the wait calls the re-check, and so on. In the
others `pc` (`at` and `sp` in the pipeline) names the next line. A variable that says
which run is being made (`spec`, `config`, `fixed`) is chosen in `Init` and never
changes, so that one run covers several configurations.

Operators whose comment begins with "Faulty:" are plausible bugs, some of them
the repository's own (`Bug::no_fence`, `Bug::no_full_check`,
`Bug::relaxed_seq_store`, ...). No specification uses them; each shows that a
property can fail.

### Memory

Each module has the weakest memory its properties need.

- `MpmcRing` interleaves atomics, and tracks in `touched`, `carried` and `seen`
  which storage accesses a thread has synchronised with through acquire and
  release: a race is an access not ordered after the one before (`NoDataRace`).
- `EventCount`, `MpmcQueue` and `ShardedQueue` have x86 store buffers: a plain store
  is seen by others when it is flushed, and read-modify-writes and fences wait for
  that. This is the reordering that the fences of `eventcount.hpp` exist for. Every
  wait and notify has such an instruction between two plain stores, so one place in
  the buffer is enough. In `ShardedQueue` the store of a head may stay there until
  the next fence, which only every `kFullWakeEvery`-th pop has. The fence of
  `prepare_wait` and `wait` is the guard `WaitFenced` of the step after it.
  `EpochWake` has no fence, and needs none.
- `MutexQueue` needs none: everything shared is read and written under the mutex.
- `SpscRing` keeps every store of an index as a message; an acquire load takes any
  message not older than the last it took, with the slot accesses released by it.
- `EventPipeline` delays the store of a ring's tail (`tail` against `landed`)
  until a fence or a release store that must come after it. Relaxed
  read-modify-writes, such as the pushed counter, are not assumed to wait, so the
  model is weaker than x86 here.

### Left out of what is modelled

- Spinning, back-off, yields, padding, `measure_window`, hooks and operation
  statistics; `Options::park = false`. In `MpmcRing` a blocked thread polls, in
  `MpmcQueue` `try_push` and `try_pop` are one step each.
- Spurious returns of the kernel's wait on an event count: the code loops on the
  epoch. Those of a condition variable are `WakeAlone` of `MutexQueue`.
- In the pipeline: `high_water`, the scan, bitmap, notify and park counters,
  `stats()`, whose racy loads are diagnostics, `on_event_`, a start after a stop. The
  rotation of a scan's first ring is replaced by any order, which includes every
  rotation. `SpinThenDrop` only repeats `try_push`, so that `Drop` is its last
  attempt. `yield` and pause passes are counted by `Spin`.
- In the sinks: the sampled checksum.
- In the driver: clocks, pacing, rates, backlogs, hot sources and the `Monitor`
  thread. A pace is reduced to when a producer stops; a tick is any of `Latencies`. A
  `Tally` is a bag of events, where the code has a count, a sum and a digest.
- What follows when the host calls a field that its plugin's struct does not have. The
  read is recorded in `touched`, and a behaviour ends there (`Astray`, `Undefined`):
  `ReadsAreGated` says which such reads there can be, and the other properties of
  `Switchyard` speak of the time before.
- In the dispatch: the arithmetic of handlers over payload bytes is a tag, random
  numbers are members of the grid on which the weights lie, and timing is left out.
- The stale loads of `head_` that the comment at `mpmc_queue.hpp:316` excludes on
  the machines the code is for.

## 3. Runs

Passing runs:

| Run | Instance | Shows |
|---|---|---|
| `ring` | 2 producers (compare-exchange and tickets), 2 consumers, 2 slots, 2 pushes each | invariant, no race, hand-over of slots, exactly once, order, nothing lost, drained is final, the destructor's walk, implements `WorkQueue` |
| `queue` | 2 producers by compare-exchange or ticket, 2 workers on the event count or on `EpochWake`, deadlines, backstop, close | waiters and pending are exact; nobody sleeps through a publication, a release or the close |
| `queue_live` | 1 producer, 1 worker, neither deadline nor backstop | every event delivered, push returns, close drains |
| `sharded` | a busy producer (5 pushes on a ring of 4) and a quiet one, one consumer | rings in order with no event written over, drained is final, nobody sleeps through anything, producers not at all once everybody rests, no ring starves |
| `driver` | six runs of 2 producers and up to 2 consumers on a mutex queue of 2 | books balance, quantiles are sound, every run ends, the queue implements `WorkQueue` |
| `spsc_ring` | 4 slots, 7 pushes, batches to 3 | invariant, no race, order, size hint |
| `pipeline` | 2 producers, 2 slots; bitmap, rings of one, abort and no timeout, or full scan, rings of two, drain, timeouts and a sink that may hang | bits cover rings, sleep is watched, nothing stranded, slots recycled drained and unowned, counts add up, what had landed is delivered |
| `pipeline_live` | 1 producer, one slot of one, bitmap, drain, no timeout, a sink that may hang | events read; nothing but a hanging write holds `stop`, and that in the join alone |
| `switchyard` | 2 loaders, 6 libraries with structs of 24 to 56 bytes, up to 2 of 6 handlers and of adapters, 9 packets | arms agree, tables keep the first match, reads pass the gates, instances are paired |

Runs in which TLC finds the code to differ from what its comments say:

| Run | Finding |
|---|---|
| `ticket_stranded` | A ticket taken after the close can wait for ever in `await_turn`, once all workers have left. Three late tickets on two slots are enough. The Go port describes and avoids this. |
| `pipeline_leak` | A producer that pushes and retires between the scan of a pass and its reclaim keeps its slot `Retiring` until another producer retires; with the bitmap the consumer also never sleeps again. |
| `pipeline_late` | A push that read `accepting_` before `stop` may publish after the last scan: it returns true, `drain_completed()` is true, and the event is lost. |

A module's type invariant is the first conjunct of one of its run's properties
(`EventCountsSound`, `PushesAccounted`, `RingsInOrder`, `RunBalances`,
`InstancesPaired`; `IInv` and `RingInv` have theirs).

### Observations

Met while modelling; no run is made to fail for them.

- A wedged sink makes `stop` hang. The comment at `event_pipeline.hpp:100` says that it
  "must never make shutdown hang forever", and `solution.md:452` that past the deadline
  the drain degrades to an abort. The deadline bounds the wait for the rings (lines
  101-104); the `join` at line 109 has none and waits for the write. "`stop` returns"
  (`sp \notin {"new", "up"} ~> sp = "stopped"`) is therefore false: with the one
  producer and the configuration of `pipeline_live` TLC finds an event taken by the
  consumer after the drain gave up, a write of it that hangs, and `stop` in the join
  for ever. What is true is `StopHeldBySinkAlone`, which `pipeline_live` checks with
  sinks that may hang: the wait for the rings does end, and nothing else holds `stop`.
- The size gate at `host.hpp:75` compares `struct_size` with where `process` begins,
  not with where it ends, so that a struct of 32 to 39 bytes passes, and its `process`
  is called although it lies beyond the end, where the comment above the gate says that
  a field is "absent, not merely unset". The libraries of `switchyard` include one of 32
  bytes, at the path phase 6 loads, and the call happens. No plugin of the repository
  has that size.
- `boundary.cpp:158` calls `process_batch` though `has_batch()` may have said no a few
  lines before; `plugin_abi.h:100` says a host "must check struct_size before reading
  it". In `switchyard` this happens with the same library; one of 40 bytes, such as
  `plugin_v1`, at the path of `plugin_v2` would do as well.
- "The host reads no field beyond the end of a struct" is false for these two reasons
  and for no other: `ReadsAreGated` says that `process` and `process_batch` are the only
  fields ever read there, and only of a struct that has all before them. It is checked,
  and proved for structs that end anywhere (`ReadsPassTheGates`).
- The compact table marks free buckets with the key `0xFFFF`; a handler that claims
  that key is taken for a free bucket, and `injective()` does not notice. No handler of
  the repository does, and `HandlersAssumption` says so.
- `frequencies()` (`packet.hpp:115`) credits a drawn key to one handler, so that the
  frequencies of residual handlers that share a key are not true. Only the order of
  `ScanOrdered` depends on them, never its answers.
- A draw of exactly 0 picks the first rank, also where its weight is 0.

### Bounds

- Rings. Those of `MpmcRing`, `MpmcQueue` and `MutexQueue` have two slots, those of
  `SpscRing` and `ShardedQueue` four, and each takes more pushes than it has slots, so
  that every event of a wrap occurs: full, stale positions, a slot in its second lap.
  In `queue` the workers on the event count have two pushes, enough to skip and to
  coalesce wakes, and those on `EpochWake` three, which also fill the ring. Of the
  pipeline's rings, those of one wrap and drop pushes, in one configuration of
  `pipeline` and in `pipeline_live`; those of two hold more than the stage.
- Threads. Two producers and two consumers give every pair of actors;
  `ticket_stranded` has three producers, to fill two slots with tombstones and still
  have one waiting. In `sharded` one consumer owns two rings: what is hard there is
  between rings of one owner, and owners share nothing.
- `kFullWakeEvery` is 1 in `queue`: above 1 a release is documented to delay a
  producer until the next batch or the backstop, and `NoRoomMissed` is not promised.
  It is 2 in `sharded`, where the delayed head store is the point.
- Pipeline. The batch, the stage and the capacity are one or two and differ between
  configurations, so that the cap, the full stage and the full ring each occur; two
  handles recycle a slot, also into the hands of another thread while the first is
  still in its destructor. `MaxPushes` and `MaxHandles` bound the calls.
- Driver. `MaxEvents` bounds producers that push until refused. The runs are those of
  the shutdown and the invariants phase, one in batches of 2 with 3 events, so that a
  batch is cut short by the quota and by the ring, and a paced one. Words of 4 bits
  with one bit of precision have every kind of bucket of the histogram, the one whose
  bound wraps included, and all 16 values occur.
- Switchyard. `kHandlers` and `kSize` are the code's own. Two handlers are enough to
  share a key, overlap, or collide in a bucket; lists of three are measured in
  `PhasesAgree`. Pools of two packets, two passes and two repetitions, since what the
  first leaves behind (the drifted list) the second must survive. Of a plugin's keys two
  suffice.

Symmetry is used in safety runs only, over producers, consumers, in the
pipeline slots (scans and registration treat them alike), and in `switchyard` the
addresses of instances. The refinement
checked with it names no single thread. The views drop keys that are not going to
be compared and loop variables that are not going to be read.

Deadlock is checked, with a stuttering step only for the proper end (or, with a
stuck sink, for `stop` waiting in `join`), except in `ring` and `ticket_stranded`,
where ticket holders may really be stranded.

### Fairness

Threads inside a call are scheduled (weak fairness of each thread's steps) and
stores become visible. Nobody has to push, retire, stop or close. Strong
fairness is assumed where a thread competes again and again: a weak
compare-exchange on `tail_` or `head_` does not fail for ever once it could
succeed again and again, a worker that alternates between scan and closed test
gets to the test, and a thread that asks for `park_mu_` gets it, as the consumer
gives it up on every wait. Without the latter a mutex could starve, which is a
matter of its implementation. Timeouts and the backstop are switched off in the
liveness runs: what is shown does not lean on them.

The clock reaches the deadline of a drain: strong fairness of the poll that gives up
(`DeadlinePasses`). A sink's write returns or hangs as it likes, so that `EventsRead`
speaks of a consumer that is not stuck, and `StopHeldBySinkAlone` says that `stop`
returns unless it is in the join of such a consumer.

In `Driver` each thread and the main thread run while they can (weak fairness), and
the driver does close: that is its code. A condition variable may wake a thread of its
own accord, and a timed wait may end, but `RunEnds` assumes neither (`WakeAlone` has no
fairness). Weak fairness is enough there: only a batch holds the mutex
from one step to the next, its owner finishes it, and batched runs have a quota, so that
nobody can take the mutex again and again for ever.

## 4. Proofs

For every number of threads, every size the assumptions allow, every bound on calls and
every configuration:

| Module | Theorems |
|---|---|
| `MpmcRingProofs` | `RingInvariant` (`Spec => []IInv`); from it `StorageAccessesOrdered`, `SlotsHandedOver`, `DeliveredExactlyOnce`, `ClaimLosesNothing`, `ProducerOrderKept`, `DrainedMeansClaimed`, `DestructorExact`, and `QueueImplemented` (`Spec => ImplementsQueue`) |
| `MpmcQueueProofs` | `QueueInvariant` (`Spec => []QueueInv`), by `QueueCalls`, `QueueRing`, `QueueCounts`, `QueueWakes`; from it `QueueEventCounts`, `QueueMissesNoEvent`, `QueueMissesNoRoom`, `QueueCloseWakesAll` |
| `ShardedQueueProofs` | `ShardsInvariant` (`Spec => []ShardsInv`), by `ShardsRings`, `ShardsLooks`, `ShardsCounts`; from it `ShardsInOrder`, `ShardsDrainForGood`, `ShardsStarveNone`, `ShardsSleepThroughNothing` |
| `SpscRingProofs` | `SpscRingInvariant` (`Spec => []RingInv`); from it `SlotAccessesOrdered`, `EventsInOrder`, `HighWaterBounded` |
| `EventPipelineProofs` | `PipelineInvariant` (`Spec => []PipelineInv`); from it `RingsAreCovered`, `SleepersAreWatched`, `NothingIsStranded`, `FreeSlotsAreDrained`, `LastPassIsComplete`; `AccountsBalance` (`Spec => []AccountsInv`), and with both `PushesAreAccounted` |
| `DriverProofs` | `QueueInvariant` (`Spec => []LineInv`); from it `QueueIsALine` (`Spec => ImplementsWorkQueue`); `BooksInvariant` (`Spec => []BooksInv`), and with both `BooksBalance` (`Spec => []RunBalances`) |
| `SwitchyardProofs` | `YardInvariant` (`Spec => []YardInv`); from it `InstancesArePaired`, `ReadsPassTheGates`, `TablesAnswerAsTheScan`, `ScansAnswerAlike` and `ArmsAnswerAlike` (`PhasesAgree => (Spec => []ArmsAgree)`) |

**The ring.** Its properties are not inductive: that two objects never meet in a slot
depends on who may own the slot at that moment. `IInv` says for each stage of a
position's life (to be reserved, owed, published, claimed, released) who owns it, what
its slot's sequence is, what the slot holds and what its owner has synchronised with.
`Unreserved` and `Unclaimed` are its core: the sequence of a slot has not passed the
positions still to come, so a claimant with a stale position fails and one with a
current position is alone. Each step that changes memory has a lemma; steps that only
look share one per side.

`QueueImplemented` then shows `WorkQueue` implemented. A push takes effect when it
reserves, a pop when it claims, so the objects in line are the accepted reservations at
or above the head, in the order of their positions, the k-th being the one with `k - 1`
below it. Positions are distinct, so places are (`RanksApart`), and a reservation at the
tail goes to the end of the line, a claim at the head takes its front. Three more
facts carry the steps. At most `N` positions are between head and tail, or `N` plus one for each
producer that holds a ticket, which is the capacity of the abstract queue (`RoomToClaim`,
`RoomToTicket`): with compare-exchange because on a full ring it fails, with tickets
because a reserved position nobody has claimed is published, which at most `N` are, or
owed by another producer (`Accounted`). A slot published at the head holds the object
whose reservation is first (`HeadHoldsFirst`). And who is told drained has found the
ring closed and everything claimed (`Draining`).

**The blocking queue.** Whether a skipped or coalesced wake is lost depends on what every
other thread is in the middle of, so `QueueInv` is built in layers, each inductive with
the ones before it. `Calls`: which stacks of frames a push, a pop or a close may have,
so that "has yet to notify" can be read off a stack. `RingInv`: the slot of every
position that the head may come to in this lap is free for it, published, or published
in one store buffer whose owner has yet to notify. `CountsInv`: `waiters_` is the number
of threads between `prepare_wait` and `cancel_wait` or the end of `wait`; a waiter
clears `pending_` before it looks; so a claim that absorbs a notification is either
about to move the epoch or was made before the waiter looks again. `WakesInv`: while a
slot is ready, whoever waits with the newest key is `Attended`, because a notification
is under way (`Noticing`), or because some thread of its side will look again
(`WillLook`), and that one passes the wake on if there is more (the chained wakes). At
rest nobody is notifying or will look, and so nobody waits.

`QueueMissesNoEvent` holds for every policy and batching. `QueueMissesNoRoom` has the
hypothesis `FullWakeEvery = 1`: above it the code's own comment gives the promise up.
`QueueCloseWakesAll` says of workers that none sleeps after a close with any policy, and
of producers the same with compare-exchange. For producers with tickets it is false in
general: a ticket cannot be refused, and `ticket_stranded` shows one that waits for ever.

**The sharded queue.** `ShardsInv` has five layers. `Calls` as above. `RingsInv`: the
chain `cached_head <= head <= Len(got) <= cached_tail <= tail <= cached_head + kRing`,
where `got` is ahead of `head` by the stores of heads that are still in the consumer's
buffer, in order and the newest last (`HeadsInTurn`). `LooksInv`: what `drained` has
passed is closed and empty, which nothing undoes; and `skipped` of a ring with an event
plus its distance from `next` never exceeds the number of rings, so that serving one
brings the others' turn closer. `CountsInv` as above for counts with one waiter each.
`WakesInv`: what a waiter has seen in its re-check stays true unless somebody is about
to move its epoch on (`WaitingWorkers`, `WaitingProducers`); close sets all bits before
it wakes anybody; and the head that completes a batch leaves the store buffer before
the look for a blocked producer (`ReleasesTold`), which is what the one fence per batch
is for. At rest, then, no producer sleeps at all: it would sleep on a ring that is full
as far as it knows, the ring is empty or its worker would be awake, and on the way from
full to empty the head passed the end of a batch. This is stronger than what the
model checking first looked for, and the run checks it too.

**The single-producer ring.** `RingInv` is the chain
`cachedHead <= head <= cachedTail <= tail <= cachedHead + Capacity`, the honesty of
messages (an index releases exactly the slot accesses below it) and the contents of the
slots between. Both rings rest on `Laps`: positions less than a lap apart have
different slots.

**The pipeline.** `BitsCoverRings` and `SleepIsWatched` are nearly inductive, but lean
on who may touch a ring. `PipelineInv` adds it: a handle has its slot to itself until
its destructor (`Owners`), of a ring nobody writes everything has landed, of a free one
everything was read (`Settled`), and a store that has not landed has a producer that
has yet to look at the bit (`LandsBeforeLook`), which is the first of the two
store-then-load races. The second is `SleepIsWatched` itself with `SaysParked`: a
consumer on its way to sleep has said so, and so whoever takes the bitmap from zero
sees it. For the last pass, `LastPass` says that what stop was owed has landed, that
rings the pass has finished were read that far, and `Released` that no other pass comes
after. The steps of the producers, the consumer and the stopper have a lemma each for
the rings' half, the consumer's half and the sleep.

For `PushesAccounted` a sum over slots is the number of its units, pairs of a slot and a
number up to its count (`Total`), so that a counter that goes up adds a unit (`TotalUp`)
and one that is reset removes its share (`TotalReset`). `AccountsInv` says that what is
in the totals and in the slots, with what is being counted, is what the rings were
given, and that a free slot's counters have been rolled up (`RolledUp`): the zeroing in
`register_producer` finds zeros. Only the handle that owns a slot counts in it, by
`Owners`.

**The mutex queue.** The argument is the lock's. Between two steps of a batch its owner
has the mutex, and nobody else moves an item or closes (`Holding`); all else is done in
one step. So a `Put` appends to the line, a `Take` takes its head, and no other step
changes it. What is put is one of the events of a run because a producer pushes within
its quota until the close (`WithinQuota`), and a consumer has something in its buffer
when it is told so (`InHand`). Initial states map to initial states of `WorkQueue` and
every step to a step or a stutter.

**The driver's books.** `RunBalances` speaks of the end of a run; `BooksInv` says what
the books show at any moment, in terms of the line. `Delivery`: the line and what each
consumer took (`claimed`) hold what was pushed, each event once and each producer's in
order, and what a consumer took of a producer is older than what is in the line.
`Consumption`: what a consumer took is what it has consumed and what is in its buffer.
`Accounts`: a producer's four counts add up, and what it pushed and has not counted yet
is the item of the call it is in, or the part of its batch before `done`. `Refusals`: the close
refuses a producer once at most, and none where the close waits for them. `Stages`: the
close and the joins come in their order, and who is told drained has seen the queue
closed and empty. A step of one thread leaves the books of the others alone, a wake or
a close included (`OthersKeepTheirs`), so each step has only its own thread's to show:
calls by `ProducerCall` and `ConsumerCall`, which put or take one event or none, returns
by what `account` and `take` count. At the end a consumer has been told drained, the line
and the buffers are empty, and what was pushed was counted (`AtTheEnd`). A list in order
has nothing twice (`OrderedOnce`), so the tally of a consumer is the bag of its events,
and the tallies of all are the bag of what was accepted (`TalliesAgree`).

The sums of `Result` are folds over the threads. What holds of the empty set, and of a
set when it holds without one of its elements, holds of every finite set (`TakingOut`,
from the well-foundedness of strict inclusion); by it a sum is taken thread by thread
(`SumByOne`) and sums that agree in each thread agree (`SumOfSums`, `SumOfBags`).

**The plugins and the arms.** `InstancesPaired` is not inductive: what an adapter may
call depends on a gate that was passed when its library was loaded, maybe long ago and
by a loader that has gone on to another. `YardInv` keeps what that step knew: what a
loader holds was accepted and is mapped (`Loaded`), every handler is the host's or an
adapter as it was made, over a library that was accepted (`Wellformed`), live instances
and adapters that have one correspond (`Paired`), and each arm holds the registered
handlers, the two scans in some order, the tables as built (`ArmsSound`). A step
reads of a struct what its gates allow (`TouchedSound`): `LongEnough` covers the fields
up to `destroy`, wherever beyond them the struct ends.

The answers follow from what the arms hold. A sorted list is given by ranks: in a linear
order the number of members before a member runs through all places, so sorting by
frequency, or a key's candidates by registration, loses nobody and doubles nobody. A
promotion swaps two neighbours. So a scan meets the same handlers as the brief's loop, and
where at most one of them matches the order is of no account. The candidates of a slot
are the handlers with its key in their order, so the first match among them is the first
match of the whole list, overlapping or not; a lone handler that is not residual takes
every packet of its key. `injective` means that whoever falls into a bucket has its key.
A mechanism answers with the first generated handler in the bucket, which is the one
with the packet's key, as the generated keys fall into buckets of their own.

`ArmsAgree` also says that whole streams give every arm the same checksum. This part,
`PhasesAgree`, speaks of the constants alone and is defined by folds over a stream, which
the prover cannot follow; TLC evaluates it, and the theorem has it as its hypothesis.

The assumptions are those named in the modules. `MpmcRing`: disjoint sets of threads,
finitely many of them producers, at least two slots; that the size is a power of two is not needed. `RolesAssumption`,
`ConfigsAssumption`, `RingAssumption` of `MpmcQueue`: finitely many threads in disjoint
roles, at least two slots, a batch of wakes no larger than the ring. `ShardsAssumption`:
each consumer owns equally many rings of at least two slots. `CoalesceAssumption` of
`EventCount`: wakes are coalesced or not. `SizesAssumption` and
`PolicyAssumption` of `EventPipeline`: positive sizes, configurations of the right kind;
`FiniteAssumption`: finitely many threads and slots.
`MutexQueueAssumption` and `DriverAssumption`: disjoint sets of threads, at least one
slot, finitely many threads, and runs that have a consumer and end: an unlimited one is
closed or paced, a batched one has a quota, as all of the modelled phases are. What marks
an empty slot is not an event.

For `Switchyard`, `SizesAssumption`: the generated keys, 902 the highest, fit into the
buckets, of which the code has 1024. `PluginsAssumption`: loaders find libraries, and
addresses are none of the marks for "nothing". `HandlersAssumption`: a handler of the host holds
nothing of a plugin's and declares its predicate residual unless the key decides, as
the handlers of `generated.hpp` and `invariants.cpp` do; nobody claims `0xFFFF`.
`ImagesAssumption`: every struct has the version and size fields, which "has to be
present from version 1" (`plugin_abi.h`), and may end anywhere after them.

Only model-checked:

- liveness, which is beyond the prover: `EventsDelivered`, `PushReturns`, `CloseDrains`,
  `EventsRead`, `StopHeldBySinkAlone`, `RunEnds`;
- `NobodySleepsClosed` for producers with tickets, which holds in `queue` with its two
  pushes per producer and is false in general (`ticket_stranded`);
- `QuantileSound`, whose buckets are powers of two and whose ranks go through sorted
  sequences and folds of recorded samples: it needs induction over data;
- `PhasesAgree`, the checksums of whole streams, likewise.

## 5. Not modelled

- The Go queue. Its ring is the one of `MpmcRing` with a `closedAt` and a push that may
  panic; of its own it has a waiter list that hands a wake to a named goroutine, and a
  channel queue, whose protocol is the Go runtime's.
- The Go and Python pipelines. Both are ports of `EventPipeline`. Of their own the Go
  one has a two-level bitmap, a notify token and `StopWithDeadline`, the Python one the
  interpreter lock and an asyncio bridge; the channel and asyncio variants rest on
  their libraries.
- `BriefQueue`: a data race by design, with no promise to check.
- Benchmarks other than the driver and the dispatch phases, probes, instrumentation,
  platform code, command lines: they measure and print, and keep no protocol state.

## 6. Plan

Done, in order: `MpmcRing` with invariant and proofs; `WorkQueue` and the refinement;
`EventCount` and `MpmcQueue`; `SpscRing` with proofs; `EventPipeline`, then its proofs;
`ShardedQueue`; `MutexQueue`, `Histogram` and `Driver`, with the proof of the
refinement; `Dispatch`, `PacketStream`, `PluginHost` and `Switchyard`; the proofs of
`MpmcQueue` and `ShardedQueue`, of the ring's refinement, of `PushesAccounted`, of
`Switchyard`, and of the driver's books.

Next:

- The Go waiter list and `closedAt`.
- The two-level bitmap and the notify token of the Go pipeline.
