----------------------- MODULE EventPipelineInvariant -----------------------
(***************************************************************************)
(* The inductive invariant behind the safety of EventPipeline: who may     *)
(* touch a slot's ring, what of a ring has landed, who has a bit to set,   *)
(* whom a sleeping consumer can count on, and what the last pass has seen. *)
(***************************************************************************)
EXTENDS EventPipeline

\* Where a producer inside signal or retire may be.
Signalling == {"retire", "look", "set", "check", "notify", "wake"}

\* What the steps that matter read.
StateTypes ==
  /\ config \in Configs
  /\ state \in [Slots -> {"Free", "Active", "Retiring"}]
  /\ tail \in [Slots -> Nat] /\ landed \in [Slots -> Nat] /\ head \in [Slots -> Nat]
  /\ owed \in [Slots -> Nat]
  /\ active \subseteq Slots /\ todo \subseteq Slots
  /\ slot \in [Producers -> Slots \cup {NoSlot}]
  /\ pc \in [Producers -> {"out", "idle", "try", "count"} \cup Signalling]
  /\ leaving \in [Producers -> BOOLEAN]
  /\ cur \in Slots \cup {NoSlot}
  /\ took \in Nat /\ staged \in Nat
  /\ running \in BOOLEAN /\ parked \in BOOLEAN /\ got \in BOOLEAN

\* A thread has a slot while it has a handle, and leaves by signalling.
Handles ==
  \A p \in Producers :
    /\ slot[p] = NoSlot <=> pc[p] = "out"
    /\ leaving[p] => pc[p] \in Signalling

\* A handle that is not being destroyed has its slot to itself.
Owners ==
  \A p \in Producers : slot[p] # NoSlot /\ ~leaving[p] =>
    /\ state[slot[p]] = "Active"
    /\ \A q \in Producers : slot[q] = slot[p] /\ ~leaving[q] => q = p

\* Reads follow landings, landings follow stores.
Ordered == \A i \in Slots : head[i] <= landed[i] /\ landed[i] <= tail[i]

\* Of a ring that nobody writes everything has landed; of a free one everything has
\* been read.
Settled ==
  \A i \in Slots :
    /\ state[i] # "Active" => landed[i] = tail[i]
    /\ state[i] = "Free" => head[i] = tail[i]

\* Where a store has yet to land, its producer has yet to look at the bit.
LandsBeforeLook ==
  Scan = "Bitmap" => \A i \in Slots : landed[i] # tail[i] =>
    \E p \in Producers : Owns(p, i) /\ ~leaving[p] /\ pc[p] \in {"count", "look"}

\* Between clearing a bit and looking at the ring again.
Clearing == at \in {"clearing", "recheck"} => cur \in Slots

\* A consumer on its way to sleep has said so.
SaysParked == at \in {"armed", "asleep", "woken"} => parked

\* The stage holds events only within a scan.
StageWithinScan == staged # 0 => at = "wedged" \/ (at = "scan" /\ got)

\* stop has let the consumer go exactly when running_ is unset again, and from its
\* last passes the consumer does not come back.
Released ==
  /\ sp \in {"new", "wake", "join", "stopped"} <=> ~running
  /\ at = "unborn" <=> sp = "new"
  /\ scan = "last" \/ at \in {"flush", "done"} => sp \in {"wake", "join", "stopped"}
  /\ scan = "last" => at \in {"scan", "wedged", "flush", "reclaim", "done"}

\* all_quiesced is stop's alone, before it lets go.
Probing == probe # NoSlot => sp \in {"poll", "verify"}

\* What was owed has landed; the last pass has read it in every ring that it found
\* empty, and after it in every ring.
LastPass ==
  /\ \A i \in Slots : owed[i] <= landed[i]
  /\ at = "scan" /\ scan = "last" /\ ~got =>
       \A i \in Slots \ todo : i # cur => head[i] >= owed[i]
  /\ at \in {"flush", "done"} \/ (at = "reclaim" /\ scan = "last") =>
       \A i \in Slots : head[i] >= owed[i]

\* Of the rings, their slots and the producers; of the consumer and the stopper.
RingsInv ==
  Handles /\ Owners /\ Ordered /\ Settled /\ LandsBeforeLook /\ BitsCoverRings
ConsumerInv ==
  Clearing /\ SaysParked /\ StageWithinScan /\ Released /\ Probing /\ LastPass

PipelineInv == StateTypes /\ RingsInv /\ ConsumerInv /\ SleepIsWatched

\* The rest of the types: counters, flags, bounds, where the consumer and stop are.
RestTypes ==
  /\ pushed \in [Slots -> Nat] /\ dropped \in [Slots -> Nat]
  /\ retiredPushed \in Nat /\ retiredDropped \in Nat
  /\ {accepting, retirePending, drainMet} \subseteq BOOLEAN
  /\ at \in {"unborn", "top", "scan", "wedged", "idle", "reclaim", "spin", "clear",
             "clearing", "recheck", "park", "armed", "asleep", "woken", "flush", "done"}
  /\ scan \in {"pass", "safety", "last"} /\ took <= Batch /\ staged <= StageSize
  /\ idle \in Nat /\ round \in 0..2
  /\ left \subseteq Slots /\ probe \in Slots \cup {NoSlot} /\ tailSeen \in Nat
  /\ sp \in {"new", "up", "poll", "nudge", "verify", "halt", "wake", "join", "stopped"}
  /\ calls \in 0..MaxPushes /\ refused \in Nat /\ handles \in 0..MaxHandles

\* A free slot's counters have been rolled up: register_producer, which zeroes them,
\* erases nothing.
RolledUp == \A i \in Slots : state[i] = "Free" => pushed[i] = 0 /\ dropped[i] = 0

\* What push calls came to, and what the rings were given.
Counted ==
  /\ Total(tail) = retiredPushed + Total(pushed) + Within({"count"})
  /\ calls = retiredPushed + Total(pushed) + retiredDropped + Total(dropped)
              + refused + Within({"try", "count"})

\* The consumer is in a ring within a scan or while it clears bits, and gone when
\* stop returns.
WithinLoops ==
  /\ cur # NoSlot => at \in {"scan", "wedged", "clearing", "recheck"}
  /\ sp = "stopped" => at = "done"

AccountsInv == RestTypes /\ RolledUp /\ Counted /\ WithinLoops
=============================================================================
