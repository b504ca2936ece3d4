------------------------ MODULE EventPipelineProofs ------------------------
(***************************************************************************)
(* What TLC checks of EventPipeline on two slots, for any number of        *)
(* producers, slots and events and any configuration: PipelineInv is       *)
(* inductive, and the safety of the pipeline follows from it.  A lemma for *)
(* each part of the invariant, and in it a step for each action that can   *)
(* disturb the part.  Then the account of the push calls.                  *)
(***************************************************************************)
EXTENDS EventPipelineInvariant, FiniteSetTheorems, TLAPS

\* No slot is NoSlot, and a batch and the stage hold something.
LEMMA Sizes ==
  ASSUME config \in Configs
  PROVE  /\ NoSlot \notin Slots
         /\ Batch \in Nat /\ Batch >= 1 /\ StageSize \in Nat /\ StageSize >= 1
  BY PolicyAssumption, SizesAssumption DEF Batch

\* The smaller of two numbers, as pop_batch computes its room.
LEMMA MinBound ==
  ASSUME NEW a \in Int, NEW b \in Int
  PROVE  /\ Min({a, b}) \in Int
         /\ Min({a, b}) <= a /\ Min({a, b}) <= b
<1>1. \E x \in {a, b} : \A y \in {a, b} : x <= y
  OBVIOUS
<1> QED BY <1>1 DEF Min

\* What pop_batch does when it takes n events: none from an empty ring alone, and only
\* such as landed.
Popping(n) ==
  /\ at = "scan" /\ cur \in Slots
  /\ n <= landed[cur] - head[cur]
  /\ n = 0 => landed[cur] = head[cur]
  /\ head' = [head EXCEPT ![cur] = @ + n]
  /\ staged' = staged + n /\ took' = took + n
  /\ cur' \in {cur, NoSlot}
  /\ got' \in BOOLEAN /\ (got' <=> got \/ n > 0)
  /\ UNCHANGED <<state, tail, landed, counters, active, parked, everyone, at, scan,
                 todo, idle, round>>

\* drain_ring's pop_batch never takes more than has landed, and finds nothing only
\* in an empty ring.
LEMMA Pops ==
  ASSUME StateTypes, Ordered, PopBatch
  PROVE  \E n \in Nat : Popping(n)
<1>1. at = "scan" /\ cur \in Slots /\ landed[cur] \in Nat /\ head[cur] \in Nat
  BY DEF PopBatch, StateTypes
<1>2. /\ Batch - took \in Int /\ StageSize - staged \in Int
      /\ landed[cur] - head[cur] \in Int
  BY <1>1, Sizes DEF StateTypes
<1> DEFINE room == Min({Batch - took, StageSize - staged})
<1>3. room \in Int
  BY <1>2, MinBound
<1>4. PICK n \in Popped(room) : Took(n)
  BY DEF PopBatch
<1>5. n \in Nat /\ n <= landed[cur] - head[cur] /\ (n = 0 => landed[cur] = head[cur])
  <2>1. CASE Empty(cur)
    BY <2>1, <1>1, <1>4 DEF Popped, Empty
  <2>2. CASE ~Empty(cur)
    <3> DEFINE most == Min({landed[cur] - head[cur], room})
    <3>1. most \in Int /\ most <= landed[cur] - head[cur]
      BY <1>2, <1>3, MinBound
    <3>2. n \in 1..most
      BY <2>2, <1>4 DEF Popped
    <3> HIDE DEF most
    <3> QED BY <3>1, <3>2, <1>1
  <2> QED BY <2>1, <2>2
<1>6. got' \in BOOLEAN /\ (got' <=> got \/ n > 0)
  BY <1>4, Zenon DEF Took, StateTypes
<1>7. cur' \in {cur, NoSlot}
  BY <1>4, Zenon DEF Took
<1> QED BY <1>1, <1>4, <1>5, <1>6, <1>7, Zenon DEF Popping, Took

\* At first nothing is registered, stored, set or started.
LEMMA InitInv == Init => PipelineInv
<1> SUFFICES ASSUME Init PROVE PipelineInv
  OBVIOUS
<1>1. NoSlot \notin Slots
  BY PolicyAssumption
<1> USE DEF Init
<1>2. StateTypes
  BY DEF StateTypes
<1>3. RingsInv
  BY <1>1 DEF RingsInv, Handles, Owners, Ordered, Settled, LandsBeforeLook, BitsCoverRings
<1>4. ConsumerInv /\ SleepIsWatched
  BY DEF ConsumerInv, Clearing, SaysParked, SleepIsWatched, StageWithinScan, Released,
         Probing, LastPass
<1> QED BY <1>2, <1>3, <1>4 DEF PipelineInv

\* What a step does that touches no slot, ring, bit or producer: the consumer's and
\* the stopper's, most of the time.
RingsStay ==
  /\ UNCHANGED <<config, state, tail, landed, head, active, pc, slot, leaving>>
  /\ at = "recheck" => at' = "recheck" /\ cur' = cur

\* Such a step leaves what is said of the rings as it was.
LEMMA QuietRings ==
  ASSUME RingsInv, RingsStay
  PROVE  RingsInv'
<1> USE DEF RingsInv, RingsStay
<1>1. Handles' /\ Owners' /\ Ordered' /\ Settled'
  BY DEF Handles, Owners, Ordered, Settled
<1>2. LandsBeforeLook' /\ BitsCoverRings'
  BY DEF LandsBeforeLook, BitsCoverRings, Owns, WillSignal, Scan
<1> QED BY <1>1, <1>2

\* What a producer does to the consumer: at most, it wakes it.
ConsumerStays ==
  /\ UNCHANGED <<landed, head, owed, running, parked, sp, probe>>
  /\ UNCHANGED <<scan, todo, cur, got, staged>>
  /\ at' = at \/ (at = "asleep" /\ at' = "woken")

\* A producer's step leaves what is said of the consumer and of stop as it was.
LEMMA QuietConsumer ==
  ASSUME ConsumerInv, ConsumerStays
  PROVE  ConsumerInv'
<1> USE DEF ConsumerInv, ConsumerStays
<1>1. Clearing' /\ SaysParked' /\ StageWithinScan' /\ Probing'
  BY DEF Clearing, SaysParked, StageWithinScan, Probing
<1>2. Released'
  BY DEF Released
<1>3. LastPass'
  BY DEF LastPass
<1> QED BY <1>1, <1>2, <1>3

\* Every step keeps the types: a slot has a handle's thread, a ring has its positions.
LEMMA TypesKept ==
  ASSUME StateTypes, Ordered, Handles, Clearing, Moves, UNCHANGED config
  PROVE  StateTypes'
<1>1. NoSlot \notin Slots
  BY Sizes DEF StateTypes
<1> USE DEF rings, counters, flags, thread, loop, stopper, bounds, everyone, pipe, asked
<1>2. ASSUME NEW p \in Producers, Register(p) PROVE StateTypes'
  BY <1>2, <1>1 DEF Register, StateTypes
<1>3. ASSUME NEW p \in Producers, BeginPush(p) PROVE StateTypes'
  BY <1>3, <1>1 DEF BeginPush, StateTypes
<1>4. ASSUME NEW p \in Producers, TryPush(p) PROVE StateTypes'
  BY <1>4, <1>1 DEF TryPush, StateTypes, Handles, Signalling
<1>5. ASSUME NEW p \in Producers, Drop(p) PROVE StateTypes'
  BY <1>5, <1>1 DEF Drop, StateTypes
<1>6. ASSUME NEW p \in Producers, CountPush(p) PROVE StateTypes'
  BY <1>6, <1>1 DEF CountPush, StateTypes, Handles, Signalling
<1>7. ASSUME NEW p \in Producers, SignalLook(p) PROVE StateTypes'
  BY <1>7, <1>1 DEF SignalLook, AfterSignal, Fenced, StateTypes, Handles, Signalling
<1>8. ASSUME NEW p \in Producers, SignalSet(p) PROVE StateTypes'
  BY <1>8, <1>1 DEF SignalSet, AfterSignal, StateTypes, Handles, Signalling
<1>9. ASSUME NEW p \in Producers, SignalCheck(p) PROVE StateTypes'
  BY <1>9, <1>1 DEF SignalCheck, AfterSignal, StateTypes, Handles, Signalling
<1>10. ASSUME NEW p \in Producers, SignalNotify(p) PROVE StateTypes'
  BY <1>10, <1>1 DEF SignalNotify, AfterSignal, WakeConsumer, MutexFree, StateTypes,
     Handles, Signalling
<1>11. ASSUME NEW p \in Producers, Retire(p) PROVE StateTypes'
  BY <1>11, <1>1 DEF Retire, Fenced, StateTypes, Handles, Signalling
<1>12. ASSUME NEW p \in Producers, RetirePending(p) PROVE StateTypes'
  BY <1>12, <1>1 DEF RetirePending, StateTypes, Handles, Signalling
<1>13. ASSUME NEW p \in Producers, RetireWake(p) PROVE StateTypes'
  BY <1>13, <1>1 DEF RetireWake, WakeConsumer, MutexFree, StateTypes
<1>14. ASSUME NEW i \in Slots, Land(i) PROVE StateTypes'
  BY <1>14, <1>1 DEF Land, StateTypes
<1>15. ASSUME TopOfLoop PROVE StateTypes'
  BY <1>15, <1>1 DEF TopOfLoop, BeginScan, StateTypes
<1>16. ASSUME NextRing PROVE StateTypes'
  BY <1>16, <1>1 DEF NextRing, StateTypes
<1>17. ASSUME PopBatch PROVE StateTypes'
  <2>1. PICK n \in Nat : Popping(n)
    BY <1>17, Pops
  <2>2. cur' \in Slots \cup {NoSlot} /\ took' \in Nat /\ staged' \in Nat
    BY <2>1 DEF Popping, StateTypes
  <2>3. head' \in [Slots -> Nat]
    BY <2>1 DEF Popping, StateTypes
  <2> QED BY <2>1, <2>2, <2>3 DEF Popping, StateTypes
<1>18. ASSUME Write PROVE StateTypes'
  BY <1>18, <1>1 DEF Write, Writing, StateTypes
<1>19. ASSUME Wedge PROVE StateTypes'
  BY <1>19, <1>1 DEF Wedge, Writing, StateTypes
<1>20. ASSUME EndScan PROVE StateTypes'
  BY <1>20, <1>1 DEF EndScan, ScanOver, Writing, StateTypes
<1>21. ASSUME TakePending PROVE StateTypes'
  BY <1>21, <1>1 DEF TakePending, StateTypes
<1>22. ASSUME Reclaim PROVE StateTypes'
  BY <1>22, <1>1 DEF Reclaim, Empty, StateTypes
<1>23. ASSUME EndReclaim PROVE StateTypes'
  BY <1>23, <1>1 DEF EndReclaim, StateTypes
<1>24. ASSUME Spin PROVE StateTypes'
  BY <1>24, <1>1 DEF Spin, BeginScan, StateTypes
<1>25. ASSUME ClearLook PROVE StateTypes'
  BY <1>25, <1>1 DEF ClearLook, Empty, StateTypes
<1>26. ASSUME ClearBit PROVE StateTypes'
  BY <1>26, <1>1 DEF ClearBit, StateTypes
<1>27. ASSUME ClearRecheck PROVE StateTypes'
  BY <1>27, <1>1 DEF ClearRecheck, Empty, StateTypes, Clearing
<1>28. ASSUME EndClear PROVE StateTypes'
  BY <1>28, <1>1 DEF EndClear, BeginScan, StateTypes
<1>29. ASSUME Arm PROVE StateTypes'
  BY <1>29, <1>1 DEF Arm, StateTypes
<1>30. ASSUME Doze PROVE StateTypes'
  BY <1>30, <1>1 DEF Doze, StateTypes
<1>31. ASSUME Unpark PROVE StateTypes'
  BY <1>31, <1>1 DEF Unpark, StateTypes
<1>32. ASSUME LeaveLoop PROVE StateTypes'
  BY <1>32, <1>1 DEF LeaveLoop, BeginScan, StateTypes
<1>33. ASSUME LastScan PROVE StateTypes'
  BY <1>33, <1>1 DEF LastScan, BeginScan, ScanOver, Writing, StateTypes
<1>34. ASSUME EndLastScan PROVE StateTypes'
  BY <1>34, <1>1 DEF EndLastScan, ScanOver, StateTypes
<1>35. ASSUME LastReclaim PROVE StateTypes'
  BY <1>35, <1>1 DEF LastReclaim, StateTypes
<1>36. ASSUME Start PROVE StateTypes'
  BY <1>36, <1>1 DEF Start, StateTypes
<1>37. ASSUME Stop PROVE StateTypes'
  BY <1>37, <1>1 DEF Stop, StateTypes
<1>38. ASSUME ProbeTail PROVE StateTypes'
  BY <1>38, <1>1 DEF ProbeTail, StateTypes
<1>39. ASSUME ProbeHead PROVE StateTypes'
  BY <1>39, <1>1 DEF ProbeHead, StateTypes
<1>40. ASSUME Nudge PROVE StateTypes'
  BY <1>40, <1>1 DEF Nudge, WakeConsumer, MutexFree, StateTypes
<1>41. ASSUME PollOver PROVE StateTypes'
  BY <1>41, <1>1 DEF PollOver, AllQuiet, StateTypes
<1>42. ASSUME Verify PROVE StateTypes'
  BY <1>42, <1>1 DEF Verify, AllQuiet, StateTypes
<1>43. ASSUME Halt PROVE StateTypes'
  BY <1>43, <1>1 DEF Halt, StateTypes
<1>44. ASSUME StopWake PROVE StateTypes'
  BY <1>44, <1>1 DEF StopWake, WakeConsumer, MutexFree, StateTypes
<1>45. ASSUME Join PROVE StateTypes'
  BY <1>45, <1>1 DEF Join, StateTypes
<1> QED BY <1>2, <1>3, <1>4, <1>5, <1>6, <1>7, <1>8, <1>9, <1>10, <1>11, <1>12, <1>13, <1>14,
   <1>15, <1>16, <1>17, <1>18, <1>19, <1>20, <1>21, <1>22, <1>23, <1>24, <1>25, <1>26,
   <1>27, <1>28, <1>29, <1>30, <1>31, <1>32, <1>33, <1>34, <1>35, <1>36, <1>37, <1>38,
   <1>39, <1>40, <1>41, <1>42, <1>43, <1>44, <1>45 DEF Moves, Pushing, Consume, Stopping

\* Every step keeps what is said of slots, rings, bits and producers.
LEMMA RingsKept ==
  ASSUME StateTypes, RingsInv, Clearing, Released, Moves, UNCHANGED config
  PROVE  RingsInv'
<1>0. Handles /\ Owners /\ Ordered /\ Settled /\ LandsBeforeLook /\ BitsCoverRings
  BY DEF RingsInv
<1>1. NoSlot \notin Slots
  BY Sizes DEF StateTypes
<1> USE DEF rings, counters, flags, thread, loop, stopper, bounds, everyone
<1>2. ASSUME NEW p \in Producers, Register(p) PROVE RingsInv'
  <2>1. Handles'
    BY <1>0, <1>2, <1>1 DEF Register, Handles, Signalling, StateTypes
  <2>2. Owners'
    BY <1>0, <1>2, <1>1 DEF Register, Owners, StateTypes
  <2>3. Ordered'
    BY <1>0, <1>2, <1>1 DEF Register, Ordered
  <2>4. Settled'
    BY <1>0, <1>2, <1>1 DEF Register, Settled
  <2>5. LandsBeforeLook'
    BY <1>0, <1>2, <1>1 DEF Register, LandsBeforeLook, Owns, Scan
  <2>6. BitsCoverRings'
    BY <1>0, <1>2, <1>1 DEF Register, BitsCoverRings, Owns, WillSignal, Scan
  <2> QED BY <2>1, <2>2, <2>3, <2>4, <2>5, <2>6 DEF RingsInv
<1>3. ASSUME NEW p \in Producers, BeginPush(p) PROVE RingsInv'
  <2>1. Handles' /\ Owners'
    BY <1>0, <1>3 DEF BeginPush, Handles, Signalling, Owners
  <2>2. Ordered' /\ Settled'
    BY <1>0, <1>3 DEF BeginPush, Ordered, Settled
  <2>3. LandsBeforeLook'
    BY <1>0, <1>3 DEF BeginPush, LandsBeforeLook, Owns, Scan
  <2>4. BitsCoverRings'
    BY <1>0, <1>3 DEF BeginPush, BitsCoverRings, Owns, WillSignal, Scan
  <2> QED BY <2>1, <2>2, <2>3, <2>4 DEF RingsInv
<1>4. ASSUME NEW p \in Producers, TryPush(p) PROVE RingsInv'
  <2>1. Handles'
    BY <1>0, <1>4 DEF TryPush, Handles, Signalling
  <2>2. Owners'
    BY <1>0, <1>4 DEF TryPush, Owners
  <2>3. Ordered'
    BY <1>0, <1>4 DEF TryPush, Ordered, StateTypes
  <2>4. Settled'
    BY <1>0, <1>4 DEF TryPush, Settled, StateTypes, Handles, Signalling, Owners
  <2>5. LandsBeforeLook'
    BY <1>0, <1>4 DEF TryPush, LandsBeforeLook, Owns, Scan, StateTypes, Handles, Signalling
  <2>6. BitsCoverRings'
    BY <1>0, <1>4 DEF TryPush, BitsCoverRings, Owns, WillSignal, Scan
  <2> QED BY <2>1, <2>2, <2>3, <2>4, <2>5, <2>6 DEF RingsInv
<1>5. ASSUME NEW p \in Producers, Drop(p) PROVE RingsInv'
  <2>1. Handles' /\ Owners'
    BY <1>0, <1>5 DEF Drop, Handles, Signalling, Owners
  <2>2. Ordered' /\ Settled'
    BY <1>0, <1>5 DEF Drop, Ordered, Settled
  <2>3. LandsBeforeLook'
    BY <1>0, <1>5 DEF Drop, LandsBeforeLook, Owns, Scan
  <2>4. BitsCoverRings'
    BY <1>0, <1>5 DEF Drop, BitsCoverRings, Owns, WillSignal, Scan
  <2> QED BY <2>1, <2>2, <2>3, <2>4 DEF RingsInv
<1>6. ASSUME NEW p \in Producers, CountPush(p) PROVE RingsInv'
  <2>1. Handles' /\ Owners'
    BY <1>0, <1>6 DEF CountPush, Handles, Signalling, Owners
  <2>2. Ordered' /\ Settled'
    BY <1>0, <1>6 DEF CountPush, Ordered, Settled
  <2>3. LandsBeforeLook'
    BY <1>0, <1>6 DEF CountPush, LandsBeforeLook, Owns, Scan
  <2>4. BitsCoverRings'
    BY <1>0, <1>6 DEF CountPush, BitsCoverRings, Owns, WillSignal, Scan
  <2> QED BY <2>1, <2>2, <2>3, <2>4 DEF RingsInv
<1>7. ASSUME NEW p \in Producers, SignalLook(p) PROVE RingsInv'
  <2>1. Handles' /\ Owners'
    BY <1>0, <1>7 DEF SignalLook, AfterSignal, Fenced, Handles, Signalling, Owners
  <2>2. Ordered' /\ Settled'
    BY <1>0, <1>7 DEF SignalLook, AfterSignal, Fenced, Ordered, Settled
  <2>3. LandsBeforeLook'
    BY <1>0, <1>7 DEF SignalLook, AfterSignal, Fenced, LandsBeforeLook, Owns, Scan
  <2>4. BitsCoverRings'
    BY <1>0, <1>7 DEF SignalLook, AfterSignal, Fenced, BitsCoverRings, Owns, WillSignal,
       Scan
  <2> QED BY <2>1, <2>2, <2>3, <2>4 DEF RingsInv
<1>8. ASSUME NEW p \in Producers, SignalSet(p) PROVE RingsInv'
  <2>1. Handles' /\ Owners'
    BY <1>0, <1>8 DEF SignalSet, AfterSignal, Handles, Signalling, Owners
  <2>2. Ordered' /\ Settled'
    BY <1>0, <1>8 DEF SignalSet, AfterSignal, Ordered, Settled
  <2>3. LandsBeforeLook'
    BY <1>0, <1>8 DEF SignalSet, AfterSignal, LandsBeforeLook, Owns, Scan
  <2>4. BitsCoverRings'
    BY <1>0, <1>8 DEF SignalSet, AfterSignal, BitsCoverRings, Owns, WillSignal, Scan
  <2> QED BY <2>1, <2>2, <2>3, <2>4 DEF RingsInv
<1>9. ASSUME NEW p \in Producers, SignalCheck(p) PROVE RingsInv'
  <2>1. Handles' /\ Owners'
    BY <1>0, <1>9 DEF SignalCheck, AfterSignal, Handles, Signalling, Owners
  <2>2. Ordered' /\ Settled'
    BY <1>0, <1>9 DEF SignalCheck, AfterSignal, Ordered, Settled
  <2>3. LandsBeforeLook'
    BY <1>0, <1>9 DEF SignalCheck, AfterSignal, LandsBeforeLook, Owns, Scan
  <2>4. BitsCoverRings'
    BY <1>0, <1>9 DEF SignalCheck, AfterSignal, BitsCoverRings, Owns, WillSignal, Scan
  <2> QED BY <2>1, <2>2, <2>3, <2>4 DEF RingsInv
<1>10. ASSUME NEW p \in Producers, SignalNotify(p) PROVE RingsInv'
  <2>1. Handles' /\ Owners'
    BY <1>0, <1>10 DEF SignalNotify, AfterSignal, WakeConsumer, MutexFree, Handles,
       Signalling, Owners
  <2>2. Ordered' /\ Settled'
    BY <1>0, <1>10 DEF SignalNotify, AfterSignal, WakeConsumer, MutexFree, Ordered, Settled
  <2>3. LandsBeforeLook'
    BY <1>0, <1>10 DEF SignalNotify, AfterSignal, WakeConsumer, MutexFree, LandsBeforeLook,
       Owns, Scan
  <2>4. BitsCoverRings'
    BY <1>0, <1>10 DEF SignalNotify, AfterSignal, WakeConsumer, MutexFree, BitsCoverRings,
       Owns, WillSignal, Scan
  <2> QED BY <2>1, <2>2, <2>3, <2>4 DEF RingsInv
<1>11. ASSUME NEW p \in Producers, Retire(p) PROVE RingsInv'
  <2>1. Handles'
    BY <1>0, <1>11 DEF Retire, Fenced, Handles, Signalling, StateTypes
  <2>2. Owners'
    BY <1>0, <1>11 DEF Retire, Fenced, Owners, StateTypes, Handles, Signalling
  <2>3. Ordered'
    BY <1>0, <1>11 DEF Retire, Fenced, Ordered
  <2>4. Settled'
    BY <1>0, <1>11 DEF Retire, Fenced, Settled
  <2>5. LandsBeforeLook'
    BY <1>0, <1>11 DEF Retire, Fenced, LandsBeforeLook, Owns, Scan
  <2>6. BitsCoverRings'
    BY <1>0, <1>11 DEF Retire, Fenced, BitsCoverRings, Owns, WillSignal, Scan
  <2> QED BY <2>1, <2>2, <2>3, <2>4, <2>5, <2>6 DEF RingsInv
<1>12. ASSUME NEW p \in Producers, RetirePending(p) PROVE RingsInv'
  <2>1. Handles' /\ Owners'
    BY <1>0, <1>12 DEF RetirePending, Handles, Signalling, Owners
  <2>2. Ordered' /\ Settled'
    BY <1>0, <1>12 DEF RetirePending, Ordered, Settled
  <2>3. LandsBeforeLook'
    BY <1>0, <1>12 DEF RetirePending, LandsBeforeLook, Owns, Scan
  <2>4. BitsCoverRings'
    BY <1>0, <1>12 DEF RetirePending, BitsCoverRings, Owns, WillSignal, Scan
  <2> QED BY <2>1, <2>2, <2>3, <2>4 DEF RingsInv
<1>13. ASSUME NEW p \in Producers, RetireWake(p) PROVE RingsInv'
  <2>1. Handles'
    BY <1>0, <1>13 DEF RetireWake, WakeConsumer, MutexFree, Handles, Signalling, StateTypes
  <2>2. Owners'
    BY <1>0, <1>13 DEF RetireWake, WakeConsumer, MutexFree, Owners, StateTypes
  <2>3. Ordered'
    BY <1>0, <1>13 DEF RetireWake, WakeConsumer, MutexFree, Ordered
  <2>4. Settled'
    BY <1>0, <1>13 DEF RetireWake, WakeConsumer, MutexFree, Settled
  <2>5. LandsBeforeLook'
    BY <1>0, <1>13 DEF RetireWake, WakeConsumer, MutexFree, LandsBeforeLook, Owns, Scan
  <2>6. BitsCoverRings'
    BY <1>0, <1>13 DEF RetireWake, WakeConsumer, MutexFree, BitsCoverRings, Owns,
       WillSignal, Scan
  <2> QED BY <2>1, <2>2, <2>3, <2>4, <2>5, <2>6 DEF RingsInv
<1>14. ASSUME NEW i \in Slots, Land(i) PROVE RingsInv'
  <2>1. Handles' /\ Owners'
    BY <1>0, <1>14 DEF Land, Handles, Signalling, Owners
  <2>2. Ordered'
    BY <1>0, <1>14 DEF Land, Ordered, StateTypes
  <2>3. Settled'
    BY <1>0, <1>14 DEF Land, Settled, StateTypes
  <2>4. LandsBeforeLook'
    BY <1>0, <1>14 DEF Land, LandsBeforeLook, Owns, Scan, StateTypes
  <2>5. BitsCoverRings'
    BY <1>0, <1>14 DEF Land, BitsCoverRings, Owns, WillSignal, Scan, StateTypes,
       LandsBeforeLook
  <2> QED BY <2>1, <2>2, <2>3, <2>4, <2>5 DEF RingsInv
<1>15. ASSUME PopBatch PROVE RingsInv'
  <2>1. PICK n \in Nat : Popping(n)
    BY <1>0, <1>15, Pops
  <2>2. Handles' /\ Owners'
    BY <1>0, <1>1, <2>1 DEF Popping, Handles, Signalling, Owners
  <2>3. Ordered'
    BY <1>0, <1>1, <2>1 DEF Popping, Ordered, StateTypes
  <2>4. Settled'
    <3>1. state[cur] = "Free" => n = 0
      BY <1>0, <2>1 DEF Popping, Settled, StateTypes
    <3>2. \A i \in Slots : state[i] = "Free" => head'[i] = head[i]
      BY <2>1, <3>1 DEF Popping, StateTypes
    <3> QED BY <1>0, <2>1, <3>2 DEF Popping, Settled
  <2>5. LandsBeforeLook'
    BY <1>0, <1>1, <2>1 DEF Popping, LandsBeforeLook, Owns, Scan
  <2>6. BitsCoverRings'
    BY <1>0, <1>1, <2>1 DEF Popping, BitsCoverRings, Owns, WillSignal, Scan, StateTypes
  <2> QED BY <2>2, <2>3, <2>4, <2>5, <2>6 DEF RingsInv
<1>16. ASSUME Reclaim PROVE RingsInv'
  <2>1. Handles'
    BY <1>0, <1>16 DEF Reclaim, Empty, Handles, Signalling
  <2>2. Owners'
    BY <1>0, <1>16 DEF Reclaim, Empty, Owners, StateTypes
  <2>3. Ordered'
    BY <1>0, <1>16 DEF Reclaim, Empty, Ordered
  <2>4. Settled'
    BY <1>0, <1>16 DEF Reclaim, Empty, Settled, StateTypes
  <2>5. LandsBeforeLook'
    BY <1>0, <1>16 DEF Reclaim, Empty, LandsBeforeLook, Owns, Scan
  <2>6. BitsCoverRings'
    BY <1>0, <1>16 DEF Reclaim, Empty, BitsCoverRings, Owns, WillSignal, Scan
  <2> QED BY <2>1, <2>2, <2>3, <2>4, <2>5, <2>6 DEF RingsInv
<1>17. ASSUME ClearBit PROVE RingsInv'
  <2>1. Handles' /\ Owners'
    BY <1>0, <1>17 DEF ClearBit, Handles, Signalling, Owners
  <2>2. Ordered' /\ Settled'
    BY <1>0, <1>17 DEF ClearBit, Ordered, Settled
  <2>3. LandsBeforeLook'
    BY <1>0, <1>17 DEF ClearBit, LandsBeforeLook, Owns, Scan
  <2>4. BitsCoverRings'
    BY <1>0, <1>17 DEF ClearBit, BitsCoverRings, Owns, WillSignal, Scan
  <2> QED BY <2>1, <2>2, <2>3, <2>4 DEF RingsInv
<1>18. ASSUME ClearRecheck PROVE RingsInv'
  <2>1. Handles' /\ Owners'
    BY <1>0, <1>18 DEF ClearRecheck, Empty, Handles, Signalling, Owners
  <2>2. Ordered' /\ Settled'
    BY <1>0, <1>18 DEF ClearRecheck, Empty, Ordered, Settled
  <2>3. LandsBeforeLook'
    BY <1>0, <1>18 DEF ClearRecheck, Empty, LandsBeforeLook, Owns, Scan
  <2>4. BitsCoverRings'
    BY <1>0, <1>18 DEF ClearRecheck, Empty, BitsCoverRings, Owns, WillSignal, Scan
  <2> QED BY <2>1, <2>2, <2>3, <2>4 DEF RingsInv
<1>19. ASSUME TopOfLoop PROVE RingsStay
  BY <1>19 DEF RingsStay, TopOfLoop, BeginScan
<1>20. ASSUME NextRing PROVE RingsStay
  BY <1>20 DEF RingsStay, NextRing
<1>21. ASSUME Write PROVE RingsStay
  BY <1>21 DEF RingsStay, Write, Writing
<1>22. ASSUME Wedge PROVE RingsStay
  BY <1>22 DEF RingsStay, Wedge, Writing
<1>23. ASSUME EndScan PROVE RingsStay
  BY <1>23 DEF RingsStay, EndScan, ScanOver, Writing
<1>24. ASSUME TakePending PROVE RingsStay
  BY <1>24 DEF RingsStay, TakePending
<1>25. ASSUME EndReclaim PROVE RingsStay
  BY <1>25 DEF RingsStay, EndReclaim
<1>26. ASSUME Spin PROVE RingsStay
  BY <1>26 DEF RingsStay, Spin, BeginScan
<1>27. ASSUME ClearLook PROVE RingsStay
  BY <1>27 DEF RingsStay, ClearLook
<1>28. ASSUME EndClear PROVE RingsStay
  BY <1>28 DEF RingsStay, EndClear, BeginScan
<1>29. ASSUME Arm PROVE RingsStay
  BY <1>29 DEF RingsStay, Arm
<1>30. ASSUME Doze PROVE RingsStay
  BY <1>30 DEF RingsStay, Doze
<1>31. ASSUME Unpark PROVE RingsStay
  BY <1>31 DEF RingsStay, Unpark
<1>32. ASSUME LeaveLoop PROVE RingsStay
  BY <1>32 DEF RingsStay, LeaveLoop, BeginScan
<1>33. ASSUME LastScan PROVE RingsStay
  BY <1>33 DEF RingsStay, LastScan, BeginScan, ScanOver, Writing
<1>34. ASSUME EndLastScan PROVE RingsStay
  BY <1>34 DEF RingsStay, EndLastScan, ScanOver
<1>35. ASSUME LastReclaim PROVE RingsStay
  BY <1>35 DEF RingsStay, LastReclaim
<1>36. ASSUME Start PROVE RingsStay
  BY <1>36 DEF RingsStay, Start, pipe, asked, Released
<1>37. ASSUME Stop PROVE RingsStay
  BY <1>37 DEF RingsStay, Stop, pipe, asked
<1>38. ASSUME ProbeTail PROVE RingsStay
  BY <1>38 DEF RingsStay, ProbeTail, pipe, asked
<1>39. ASSUME ProbeHead PROVE RingsStay
  BY <1>39 DEF RingsStay, ProbeHead, pipe, asked
<1>40. ASSUME Nudge PROVE RingsStay
  BY <1>40 DEF RingsStay, Nudge, pipe, asked, WakeConsumer
<1>41. ASSUME PollOver PROVE RingsStay
  BY <1>41 DEF RingsStay, PollOver, pipe, asked
<1>42. ASSUME Verify PROVE RingsStay
  BY <1>42 DEF RingsStay, Verify, pipe, asked
<1>43. ASSUME Halt PROVE RingsStay
  BY <1>43 DEF RingsStay, Halt, pipe, asked
<1>44. ASSUME StopWake PROVE RingsStay
  BY <1>44 DEF RingsStay, StopWake, pipe, asked, WakeConsumer
<1>45. ASSUME Join PROVE RingsStay
  BY <1>45 DEF RingsStay, Join, pipe, asked
<1> QED BY <1>2, <1>3, <1>4, <1>5, <1>6, <1>7, <1>8, <1>9, <1>10, <1>11, <1>12, <1>13, <1>14,
   <1>15, <1>16, <1>17, <1>18, <1>19, <1>20, <1>21, <1>22, <1>23, <1>24, <1>25, <1>26,
   <1>27, <1>28, <1>29, <1>30, <1>31, <1>32, <1>33, <1>34, <1>35, <1>36, <1>37, <1>38,
   <1>39, <1>40, <1>41, <1>42, <1>43, <1>44, <1>45, QuietRings DEF Moves, Pushing, Consume,
   Stopping

\* Every step keeps what is said of the consumer and of the thread that stops it.
LEMMA ConsumerKept ==
  ASSUME StateTypes, Ordered, Settled, ConsumerInv, Moves, UNCHANGED config
  PROVE  ConsumerInv'
<1>0. Clearing /\ SaysParked /\ StageWithinScan /\ Released /\ Probing /\ LastPass
  BY DEF ConsumerInv
<1>1. NoSlot \notin Slots
  BY Sizes DEF StateTypes
<1> USE DEF rings, counters, flags, thread, loop, stopper, bounds, everyone, pipe, asked
<1>2. ASSUME NEW p \in Producers,
             Register(p) \/ BeginPush(p) \/ Retire(p) \/ Pushing(p)
      PROVE  ConsumerInv'
  <2>1. ConsumerStays
    BY <1>2 DEF ConsumerStays, Pushing, WakeConsumer, Register, BeginPush, TryPush, Drop,
       CountPush, SignalLook, SignalSet, SignalCheck, SignalNotify, Retire, RetirePending,
       RetireWake
  <2> QED BY <2>1, QuietConsumer
<1>3. ASSUME NEW i \in Slots, Land(i) PROVE ConsumerInv'
  <2>1. Clearing' /\ SaysParked' /\ StageWithinScan' /\ Released' /\ Probing'
    BY <1>0, <1>3 DEF Land, Clearing, SaysParked, StageWithinScan, Released, Probing
  <2>2. LastPass'
    BY <1>0, <1>3 DEF Land, LastPass, StateTypes
  <2> QED BY <2>1, <2>2 DEF ConsumerInv
<1>4. ASSUME TopOfLoop PROVE ConsumerInv'
  <2>1. Clearing' /\ SaysParked'
    BY <1>0, <1>4 DEF TopOfLoop, BeginScan, Clearing, SaysParked
  <2>2. StageWithinScan'
    BY <1>0, <1>4 DEF TopOfLoop, BeginScan, StageWithinScan
  <2>3. Released' /\ Probing'
    BY <1>0, <1>4 DEF TopOfLoop, BeginScan, Released, Probing
  <2>4. LastPass'
    BY <1>0, <1>4 DEF TopOfLoop, BeginScan, LastPass
  <2> QED BY <2>1, <2>2, <2>3, <2>4 DEF ConsumerInv
<1>5. ASSUME NextRing PROVE ConsumerInv'
  <2>1. Clearing' /\ SaysParked'
    BY <1>0, <1>5, <1>1 DEF NextRing, Clearing, SaysParked
  <2>2. StageWithinScan'
    BY <1>0, <1>5, <1>1 DEF NextRing, StageWithinScan
  <2>3. Released' /\ Probing'
    BY <1>0, <1>5, <1>1 DEF NextRing, Released, Probing
  <2>4. LastPass'
    BY <1>0, <1>5, <1>1 DEF NextRing, LastPass, Settled
  <2> QED BY <2>1, <2>2, <2>3, <2>4 DEF ConsumerInv
<1>6. ASSUME PopBatch PROVE ConsumerInv'
  <2>1. PICK n \in Nat : Popping(n)
    BY <1>0, <1>6, Pops
  <2>2. Clearing' /\ SaysParked'
    BY <1>0, <1>1, <2>1 DEF Popping, Clearing, SaysParked
  <2>3. StageWithinScan'
    BY <1>0, <1>1, <2>1 DEF Popping, StageWithinScan
  <2>4. Released' /\ Probing'
    BY <1>0, <1>1, <2>1 DEF Popping, Released, Probing
  <2>5. LastPass'
    BY <1>0, <1>1, <2>1 DEF Popping, LastPass, StateTypes
  <2> QED BY <2>2, <2>3, <2>4, <2>5 DEF ConsumerInv
<1>7. ASSUME Write PROVE ConsumerInv'
  <2>1. Clearing' /\ SaysParked'
    BY <1>0, <1>7 DEF Write, Writing, Clearing, SaysParked
  <2>2. StageWithinScan'
    BY <1>0, <1>7 DEF Write, Writing, StageWithinScan
  <2>3. Released' /\ Probing'
    BY <1>0, <1>7 DEF Write, Writing, Released, Probing
  <2>4. LastPass'
    BY <1>0, <1>7 DEF Write, Writing, LastPass
  <2> QED BY <2>1, <2>2, <2>3, <2>4 DEF ConsumerInv
<1>8. ASSUME Wedge PROVE ConsumerInv'
  <2>1. Clearing' /\ SaysParked'
    BY <1>0, <1>8 DEF Wedge, Writing, Clearing, SaysParked
  <2>2. StageWithinScan'
    BY <1>0, <1>8 DEF Wedge, Writing, StageWithinScan
  <2>3. Released' /\ Probing'
    BY <1>0, <1>8 DEF Wedge, Writing, Released, Probing
  <2>4. LastPass'
    BY <1>0, <1>8 DEF Wedge, Writing, LastPass
  <2> QED BY <2>1, <2>2, <2>3, <2>4 DEF ConsumerInv
<1>9. ASSUME EndScan PROVE ConsumerInv'
  <2>1. Clearing' /\ SaysParked'
    BY <1>0, <1>9 DEF EndScan, ScanOver, Writing, Clearing, SaysParked
  <2>2. StageWithinScan'
    BY <1>0, <1>9 DEF EndScan, ScanOver, Writing, StageWithinScan, StateTypes
  <2>3. Released' /\ Probing'
    BY <1>0, <1>9 DEF EndScan, ScanOver, Writing, Released, Probing
  <2>4. LastPass'
    BY <1>0, <1>9 DEF EndScan, ScanOver, Writing, LastPass
  <2> QED BY <2>1, <2>2, <2>3, <2>4 DEF ConsumerInv
<1>10. ASSUME TakePending PROVE ConsumerInv'
  <2>1. Clearing' /\ SaysParked'
    BY <1>0, <1>10 DEF TakePending, Clearing, SaysParked
  <2>2. StageWithinScan'
    BY <1>0, <1>10 DEF TakePending, StageWithinScan
  <2>3. Released' /\ Probing'
    BY <1>0, <1>10 DEF TakePending, Released, Probing
  <2>4. LastPass'
    BY <1>0, <1>10 DEF TakePending, LastPass, Released
  <2> QED BY <2>1, <2>2, <2>3, <2>4 DEF ConsumerInv
<1>11. ASSUME Reclaim PROVE ConsumerInv'
  <2>1. Clearing' /\ SaysParked'
    BY <1>0, <1>11 DEF Reclaim, Empty, Clearing, SaysParked
  <2>2. StageWithinScan'
    BY <1>0, <1>11 DEF Reclaim, Empty, StageWithinScan
  <2>3. Released' /\ Probing'
    BY <1>0, <1>11 DEF Reclaim, Empty, Released, Probing
  <2>4. LastPass'
    BY <1>0, <1>11 DEF Reclaim, Empty, LastPass
  <2> QED BY <2>1, <2>2, <2>3, <2>4 DEF ConsumerInv
<1>12. ASSUME EndReclaim PROVE ConsumerInv'
  <2>1. Clearing' /\ SaysParked'
    BY <1>0, <1>12 DEF EndReclaim, Clearing, SaysParked
  <2>2. StageWithinScan'
    BY <1>0, <1>12 DEF EndReclaim, StageWithinScan
  <2>3. Released' /\ Probing'
    BY <1>0, <1>12 DEF EndReclaim, Released, Probing
  <2>4. LastPass'
    BY <1>0, <1>12 DEF EndReclaim, LastPass
  <2> QED BY <2>1, <2>2, <2>3, <2>4 DEF ConsumerInv
<1>13. ASSUME Spin PROVE ConsumerInv'
  <2>1. Clearing' /\ SaysParked'
    BY <1>0, <1>13 DEF Spin, BeginScan, Clearing, SaysParked
  <2>2. StageWithinScan'
    BY <1>0, <1>13 DEF Spin, BeginScan, StageWithinScan
  <2>3. Released' /\ Probing'
    BY <1>0, <1>13 DEF Spin, BeginScan, Released, Probing
  <2>4. LastPass'
    BY <1>0, <1>13 DEF Spin, BeginScan, LastPass
  <2> QED BY <2>1, <2>2, <2>3, <2>4 DEF ConsumerInv
<1>14. ASSUME ClearLook PROVE ConsumerInv'
  <2>1. Clearing' /\ SaysParked'
    BY <1>0, <1>14 DEF ClearLook, Empty, Clearing, SaysParked, StateTypes
  <2>2. StageWithinScan'
    BY <1>0, <1>14 DEF ClearLook, Empty, StageWithinScan
  <2>3. Released' /\ Probing'
    BY <1>0, <1>14 DEF ClearLook, Empty, Released, Probing
  <2>4. LastPass'
    BY <1>0, <1>14 DEF ClearLook, Empty, LastPass
  <2> QED BY <2>1, <2>2, <2>3, <2>4 DEF ConsumerInv
<1>15. ASSUME ClearBit PROVE ConsumerInv'
  <2>1. Clearing' /\ SaysParked'
    BY <1>0, <1>15 DEF ClearBit, Clearing, SaysParked
  <2>2. StageWithinScan'
    BY <1>0, <1>15 DEF ClearBit, StageWithinScan
  <2>3. Released' /\ Probing'
    BY <1>0, <1>15 DEF ClearBit, Released, Probing
  <2>4. LastPass'
    BY <1>0, <1>15 DEF ClearBit, LastPass
  <2> QED BY <2>1, <2>2, <2>3, <2>4 DEF ConsumerInv
<1>16. ASSUME ClearRecheck PROVE ConsumerInv'
  <2>1. Clearing' /\ SaysParked'
    BY <1>0, <1>16 DEF ClearRecheck, Empty, Clearing, SaysParked
  <2>2. StageWithinScan'
    BY <1>0, <1>16 DEF ClearRecheck, Empty, StageWithinScan
  <2>3. Released' /\ Probing'
    BY <1>0, <1>16 DEF ClearRecheck, Empty, Released, Probing
  <2>4. LastPass'
    BY <1>0, <1>16 DEF ClearRecheck, Empty, LastPass
  <2> QED BY <2>1, <2>2, <2>3, <2>4 DEF ConsumerInv
<1>17. ASSUME EndClear PROVE ConsumerInv'
  <2>1. Clearing' /\ SaysParked'
    BY <1>0, <1>17 DEF EndClear, BeginScan, Clearing, SaysParked
  <2>2. StageWithinScan'
    BY <1>0, <1>17 DEF EndClear, BeginScan, StageWithinScan
  <2>3. Released' /\ Probing'
    BY <1>0, <1>17 DEF EndClear, BeginScan, Released, Probing
  <2>4. LastPass'
    BY <1>0, <1>17 DEF EndClear, BeginScan, LastPass
  <2> QED BY <2>1, <2>2, <2>3, <2>4 DEF ConsumerInv
<1>18. ASSUME Arm PROVE ConsumerInv'
  <2>1. Clearing' /\ SaysParked'
    BY <1>0, <1>18 DEF Arm, Clearing, SaysParked
  <2>2. StageWithinScan'
    BY <1>0, <1>18 DEF Arm, StageWithinScan
  <2>3. Released' /\ Probing'
    BY <1>0, <1>18 DEF Arm, Released, Probing
  <2>4. LastPass'
    BY <1>0, <1>18 DEF Arm, LastPass
  <2> QED BY <2>1, <2>2, <2>3, <2>4 DEF ConsumerInv
<1>19. ASSUME Doze PROVE ConsumerInv'
  <2>1. Clearing' /\ SaysParked'
    BY <1>0, <1>19 DEF Doze, Clearing, SaysParked
  <2>2. StageWithinScan'
    BY <1>0, <1>19 DEF Doze, StageWithinScan
  <2>3. Released' /\ Probing'
    BY <1>0, <1>19 DEF Doze, Released, Probing
  <2>4. LastPass'
    BY <1>0, <1>19 DEF Doze, LastPass
  <2> QED BY <2>1, <2>2, <2>3, <2>4 DEF ConsumerInv
<1>20. ASSUME Unpark PROVE ConsumerInv'
  <2>1. Clearing' /\ SaysParked'
    BY <1>0, <1>20 DEF Unpark, Clearing, SaysParked
  <2>2. StageWithinScan'
    BY <1>0, <1>20 DEF Unpark, StageWithinScan
  <2>3. Released' /\ Probing'
    BY <1>0, <1>20 DEF Unpark, Released, Probing
  <2>4. LastPass'
    BY <1>0, <1>20 DEF Unpark, LastPass
  <2> QED BY <2>1, <2>2, <2>3, <2>4 DEF ConsumerInv
<1>21. ASSUME LeaveLoop PROVE ConsumerInv'
  <2>1. Clearing' /\ SaysParked'
    BY <1>0, <1>21 DEF LeaveLoop, BeginScan, Clearing, SaysParked
  <2>2. StageWithinScan'
    BY <1>0, <1>21 DEF LeaveLoop, BeginScan, StageWithinScan
  <2>3. Released' /\ Probing'
    BY <1>0, <1>21 DEF LeaveLoop, BeginScan, Released, Probing
  <2>4. LastPass'
    BY <1>0, <1>21 DEF LeaveLoop, BeginScan, LastPass
  <2> QED BY <2>1, <2>2, <2>3, <2>4 DEF ConsumerInv
<1>22. ASSUME LastScan PROVE ConsumerInv'
  <2>1. Clearing' /\ SaysParked'
    BY <1>0, <1>22 DEF LastScan, BeginScan, ScanOver, Writing, Clearing, SaysParked
  <2>2. StageWithinScan'
    BY <1>0, <1>22 DEF LastScan, BeginScan, ScanOver, Writing, StageWithinScan, StateTypes
  <2>3. Released' /\ Probing'
    BY <1>0, <1>22 DEF LastScan, BeginScan, ScanOver, Writing, Released, Probing
  <2>4. LastPass'
    BY <1>0, <1>22 DEF LastScan, BeginScan, ScanOver, Writing, LastPass
  <2> QED BY <2>1, <2>2, <2>3, <2>4 DEF ConsumerInv
<1>23. ASSUME EndLastScan PROVE ConsumerInv'
  <2>1. Clearing' /\ SaysParked'
    BY <1>0, <1>23, <1>1 DEF EndLastScan, ScanOver, Clearing, SaysParked
  <2>2. StageWithinScan'
    BY <1>0, <1>23, <1>1 DEF EndLastScan, ScanOver, StageWithinScan
  <2>3. Released' /\ Probing'
    BY <1>0, <1>23, <1>1 DEF EndLastScan, ScanOver, Released, Probing
  <2>4. LastPass'
    BY <1>0, <1>23, <1>1 DEF EndLastScan, ScanOver, LastPass
  <2> QED BY <2>1, <2>2, <2>3, <2>4 DEF ConsumerInv
<1>24. ASSUME LastReclaim PROVE ConsumerInv'
  <2>1. Clearing' /\ SaysParked'
    BY <1>0, <1>24 DEF LastReclaim, Clearing, SaysParked
  <2>2. StageWithinScan'
    BY <1>0, <1>24 DEF LastReclaim, StageWithinScan
  <2>3. Released' /\ Probing'
    BY <1>0, <1>24 DEF LastReclaim, Released, Probing
  <2>4. LastPass'
    BY <1>0, <1>24 DEF LastReclaim, LastPass
  <2> QED BY <2>1, <2>2, <2>3, <2>4 DEF ConsumerInv
<1>25. ASSUME Start PROVE ConsumerInv'
  <2>1. Clearing' /\ SaysParked'
    BY <1>0, <1>25 DEF Start, Clearing, SaysParked
  <2>2. StageWithinScan'
    BY <1>0, <1>25 DEF Start, StageWithinScan, Released
  <2>3. Released' /\ Probing'
    BY <1>0, <1>25 DEF Start, Released, Probing
  <2>4. LastPass'
    BY <1>0, <1>25 DEF Start, LastPass
  <2> QED BY <2>1, <2>2, <2>3, <2>4 DEF ConsumerInv
<1>26. ASSUME Stop PROVE ConsumerInv'
  <2>1. Clearing' /\ SaysParked'
    BY <1>0, <1>26 DEF Stop, Clearing, SaysParked
  <2>2. StageWithinScan'
    BY <1>0, <1>26 DEF Stop, StageWithinScan
  <2>3. Released' /\ Probing'
    BY <1>0, <1>26 DEF Stop, Released, Probing
  <2>4. LastPass'
    BY <1>0, <1>26 DEF Stop, LastPass
  <2> QED BY <2>1, <2>2, <2>3, <2>4 DEF ConsumerInv
<1>27. ASSUME ProbeTail PROVE ConsumerInv'
  <2>1. Clearing' /\ SaysParked'
    BY <1>0, <1>27 DEF ProbeTail, Clearing, SaysParked
  <2>2. StageWithinScan'
    BY <1>0, <1>27 DEF ProbeTail, StageWithinScan
  <2>3. Released' /\ Probing'
    BY <1>0, <1>27 DEF ProbeTail, Released, Probing
  <2>4. LastPass'
    BY <1>0, <1>27 DEF ProbeTail, LastPass
  <2> QED BY <2>1, <2>2, <2>3, <2>4 DEF ConsumerInv
<1>28. ASSUME ProbeHead PROVE ConsumerInv'
  <2>1. Clearing' /\ SaysParked'
    BY <1>0, <1>28 DEF ProbeHead, Clearing, SaysParked
  <2>2. StageWithinScan'
    BY <1>0, <1>28 DEF ProbeHead, StageWithinScan
  <2>3. Released' /\ Probing'
    BY <1>0, <1>28 DEF ProbeHead, Released, Probing
  <2>4. LastPass'
    BY <1>0, <1>28 DEF ProbeHead, LastPass
  <2> QED BY <2>1, <2>2, <2>3, <2>4 DEF ConsumerInv
<1>29. ASSUME Nudge PROVE ConsumerInv'
  <2>1. Clearing' /\ SaysParked'
    BY <1>0, <1>29 DEF Nudge, WakeConsumer, MutexFree, Clearing, SaysParked
  <2>2. StageWithinScan'
    BY <1>0, <1>29 DEF Nudge, WakeConsumer, MutexFree, StageWithinScan
  <2>3. Released' /\ Probing'
    BY <1>0, <1>29 DEF Nudge, WakeConsumer, MutexFree, Released, Probing
  <2>4. LastPass'
    BY <1>0, <1>29 DEF Nudge, WakeConsumer, MutexFree, LastPass
  <2> QED BY <2>1, <2>2, <2>3, <2>4 DEF ConsumerInv
<1>30. ASSUME PollOver PROVE ConsumerInv'
  <2>1. Clearing' /\ SaysParked'
    BY <1>0, <1>30 DEF PollOver, AllQuiet, Clearing, SaysParked
  <2>2. StageWithinScan'
    BY <1>0, <1>30 DEF PollOver, AllQuiet, StageWithinScan
  <2>3. Released' /\ Probing'
    BY <1>0, <1>30 DEF PollOver, AllQuiet, Released, Probing
  <2>4. LastPass'
    BY <1>0, <1>30 DEF PollOver, AllQuiet, LastPass
  <2> QED BY <2>1, <2>2, <2>3, <2>4 DEF ConsumerInv
<1>31. ASSUME Verify PROVE ConsumerInv'
  <2>1. Clearing' /\ SaysParked'
    BY <1>0, <1>31 DEF Verify, AllQuiet, Clearing, SaysParked
  <2>2. StageWithinScan'
    BY <1>0, <1>31 DEF Verify, AllQuiet, StageWithinScan
  <2>3. Released' /\ Probing'
    BY <1>0, <1>31 DEF Verify, AllQuiet, Released, Probing
  <2>4. LastPass'
    BY <1>0, <1>31 DEF Verify, AllQuiet, LastPass
  <2> QED BY <2>1, <2>2, <2>3, <2>4 DEF ConsumerInv
<1>32. ASSUME Halt PROVE ConsumerInv'
  <2>1. Clearing' /\ SaysParked'
    BY <1>0, <1>32 DEF Halt, Clearing, SaysParked
  <2>2. StageWithinScan'
    BY <1>0, <1>32 DEF Halt, StageWithinScan
  <2>3. Released' /\ Probing'
    BY <1>0, <1>32 DEF Halt, Released, Probing
  <2>4. LastPass'
    BY <1>0, <1>32 DEF Halt, LastPass, StateTypes, Released
  <2> QED BY <2>1, <2>2, <2>3, <2>4 DEF ConsumerInv
<1>33. ASSUME StopWake PROVE ConsumerInv'
  <2>1. Clearing' /\ SaysParked'
    BY <1>0, <1>33 DEF StopWake, WakeConsumer, MutexFree, Clearing, SaysParked
  <2>2. StageWithinScan'
    BY <1>0, <1>33 DEF StopWake, WakeConsumer, MutexFree, StageWithinScan
  <2>3. Released' /\ Probing'
    BY <1>0, <1>33 DEF StopWake, WakeConsumer, MutexFree, Released, Probing
  <2>4. LastPass'
    BY <1>0, <1>33 DEF StopWake, WakeConsumer, MutexFree, LastPass
  <2> QED BY <2>1, <2>2, <2>3, <2>4 DEF ConsumerInv
<1>34. ASSUME Join PROVE ConsumerInv'
  <2>1. Clearing' /\ SaysParked'
    BY <1>0, <1>34 DEF Join, Clearing, SaysParked
  <2>2. StageWithinScan'
    BY <1>0, <1>34 DEF Join, StageWithinScan
  <2>3. Released' /\ Probing'
    BY <1>0, <1>34 DEF Join, Released, Probing
  <2>4. LastPass'
    BY <1>0, <1>34 DEF Join, LastPass
  <2> QED BY <2>1, <2>2, <2>3, <2>4 DEF ConsumerInv
<1> QED BY <1>2, <1>3, <1>4, <1>5, <1>6, <1>7, <1>8, <1>9, <1>10, <1>11, <1>12, <1>13, <1>14,
   <1>15, <1>16, <1>17, <1>18, <1>19, <1>20, <1>21, <1>22, <1>23, <1>24, <1>25, <1>26,
   <1>27, <1>28, <1>29, <1>30, <1>31, <1>32, <1>33, <1>34 DEF Moves, Consume, Stopping

\* Every step keeps the sleeping consumer watched: it sleeps on an empty bitmap, and who
\* sets the first bit goes on to wake it.
LEMMA SleepKept ==
  ASSUME StateTypes, Ordered, Handles, SaysParked, Released, SleepIsWatched, Moves,
         UNCHANGED config
  PROVE  SleepIsWatched'
<1> USE DEF rings, counters, flags, thread, loop, stopper, bounds, everyone, pipe, asked
<1>1. ASSUME NEW p \in Producers, Register(p) PROVE SleepIsWatched'
  BY <1>1 DEF Register, SleepIsWatched
<1>2. ASSUME NEW p \in Producers, BeginPush(p) PROVE SleepIsWatched'
  BY <1>2 DEF BeginPush, SleepIsWatched
<1>3. ASSUME NEW p \in Producers, TryPush(p) PROVE SleepIsWatched'
  BY <1>3 DEF TryPush, SleepIsWatched
<1>4. ASSUME NEW p \in Producers, Drop(p) PROVE SleepIsWatched'
  BY <1>4 DEF Drop, SleepIsWatched
<1>5. ASSUME NEW p \in Producers, CountPush(p) PROVE SleepIsWatched'
  BY <1>5 DEF CountPush, SleepIsWatched
<1>6. ASSUME NEW p \in Producers, SignalLook(p) PROVE SleepIsWatched'
  BY <1>6 DEF SignalLook, AfterSignal, Fenced, SleepIsWatched
<1>7. ASSUME NEW p \in Producers, SignalSet(p) PROVE SleepIsWatched'
  BY <1>7 DEF SignalSet, AfterSignal, SleepIsWatched, StateTypes
<1>8. ASSUME NEW p \in Producers, SignalCheck(p) PROVE SleepIsWatched'
  BY <1>8 DEF SignalCheck, AfterSignal, SleepIsWatched, SaysParked
<1>9. ASSUME NEW p \in Producers, SignalNotify(p) PROVE SleepIsWatched'
  BY <1>9 DEF SignalNotify, AfterSignal, WakeConsumer, MutexFree, SleepIsWatched
<1>10. ASSUME NEW p \in Producers, Retire(p) PROVE SleepIsWatched'
  BY <1>10 DEF Retire, Fenced, SleepIsWatched
<1>11. ASSUME NEW p \in Producers, RetirePending(p) PROVE SleepIsWatched'
  BY <1>11 DEF RetirePending, SleepIsWatched
<1>12. ASSUME NEW p \in Producers, RetireWake(p) PROVE SleepIsWatched'
  BY <1>12 DEF RetireWake, WakeConsumer, MutexFree, SleepIsWatched
<1>13. ASSUME NEW i \in Slots, Land(i) PROVE SleepIsWatched'
  BY <1>13 DEF Land, SleepIsWatched
<1>14. ASSUME TopOfLoop PROVE SleepIsWatched'
  BY <1>14 DEF TopOfLoop, BeginScan, SleepIsWatched
<1>15. ASSUME NextRing PROVE SleepIsWatched'
  BY <1>15 DEF NextRing, SleepIsWatched
<1>16. ASSUME PopBatch PROVE SleepIsWatched'
  <2>1. PICK n \in Nat : Popping(n)
    BY <1>16, Pops
  <2> QED
    BY <2>1 DEF Popping, SleepIsWatched
<1>17. ASSUME Write PROVE SleepIsWatched'
  BY <1>17 DEF Write, Writing, SleepIsWatched
<1>18. ASSUME Wedge PROVE SleepIsWatched'
  BY <1>18 DEF Wedge, Writing, SleepIsWatched
<1>19. ASSUME EndScan PROVE SleepIsWatched'
  BY <1>19 DEF EndScan, ScanOver, Writing, SleepIsWatched
<1>20. ASSUME TakePending PROVE SleepIsWatched'
  BY <1>20 DEF TakePending, SleepIsWatched
<1>21. ASSUME Reclaim PROVE SleepIsWatched'
  BY <1>21 DEF Reclaim, Empty, SleepIsWatched
<1>22. ASSUME EndReclaim PROVE SleepIsWatched'
  BY <1>22 DEF EndReclaim, SleepIsWatched
<1>23. ASSUME Spin PROVE SleepIsWatched'
  BY <1>23 DEF Spin, BeginScan, SleepIsWatched
<1>24. ASSUME ClearLook PROVE SleepIsWatched'
  BY <1>24 DEF ClearLook, Empty, SleepIsWatched
<1>25. ASSUME ClearBit PROVE SleepIsWatched'
  BY <1>25 DEF ClearBit, SleepIsWatched
<1>26. ASSUME ClearRecheck PROVE SleepIsWatched'
  BY <1>26 DEF ClearRecheck, Empty, SleepIsWatched
<1>27. ASSUME EndClear PROVE SleepIsWatched'
  BY <1>27 DEF EndClear, BeginScan, SleepIsWatched
<1>28. ASSUME Arm PROVE SleepIsWatched'
  BY <1>28 DEF Arm, SleepIsWatched
<1>29. ASSUME Doze PROVE SleepIsWatched'
  BY <1>29 DEF Doze, SleepIsWatched
<1>30. ASSUME Unpark PROVE SleepIsWatched'
  BY <1>30 DEF Unpark, SleepIsWatched
<1>31. ASSUME LeaveLoop PROVE SleepIsWatched'
  BY <1>31 DEF LeaveLoop, BeginScan, SleepIsWatched
<1>32. ASSUME LastScan PROVE SleepIsWatched'
  BY <1>32 DEF LastScan, BeginScan, ScanOver, Writing, SleepIsWatched
<1>33. ASSUME EndLastScan PROVE SleepIsWatched'
  BY <1>33 DEF EndLastScan, ScanOver, SleepIsWatched
<1>34. ASSUME LastReclaim PROVE SleepIsWatched'
  BY <1>34 DEF LastReclaim, SleepIsWatched
<1>35. ASSUME Start PROVE SleepIsWatched'
  BY <1>35 DEF Start, SleepIsWatched
<1>36. ASSUME Stop PROVE SleepIsWatched'
  BY <1>36 DEF Stop, SleepIsWatched
<1>37. ASSUME ProbeTail PROVE SleepIsWatched'
  BY <1>37 DEF ProbeTail, SleepIsWatched
<1>38. ASSUME ProbeHead PROVE SleepIsWatched'
  BY <1>38 DEF ProbeHead, SleepIsWatched
<1>39. ASSUME Nudge PROVE SleepIsWatched'
  BY <1>39 DEF Nudge, WakeConsumer, MutexFree, SleepIsWatched
<1>40. ASSUME PollOver PROVE SleepIsWatched'
  BY <1>40 DEF PollOver, AllQuiet, SleepIsWatched
<1>41. ASSUME Verify PROVE SleepIsWatched'
  BY <1>41 DEF Verify, AllQuiet, SleepIsWatched
<1>42. ASSUME Halt PROVE SleepIsWatched'
  BY <1>42 DEF Halt, SleepIsWatched
<1>43. ASSUME StopWake PROVE SleepIsWatched'
  BY <1>43 DEF StopWake, WakeConsumer, MutexFree, SleepIsWatched
<1>44. ASSUME Join PROVE SleepIsWatched'
  BY <1>44 DEF Join, SleepIsWatched
<1> QED BY <1>1, <1>2, <1>3, <1>4, <1>5, <1>6, <1>7, <1>8, <1>9, <1>10, <1>11, <1>12, <1>13,
   <1>14, <1>15, <1>16, <1>17, <1>18, <1>19, <1>20, <1>21, <1>22, <1>23, <1>24, <1>25,
   <1>26, <1>27, <1>28, <1>29, <1>30, <1>31, <1>32, <1>33, <1>34, <1>35, <1>36, <1>37,
   <1>38, <1>39, <1>40, <1>41, <1>42, <1>43, <1>44 DEF Moves, Pushing, Consume, Stopping

\* The invariant holds across a step that changes nothing, such as waiting at the end.
LEMMA StutterKeeps ==
  ASSUME PipelineInv, UNCHANGED vars
  PROVE  PipelineInv'
<1> USE DEF PipelineInv, RingsInv, ConsumerInv, vars, moving, rings, flags, thread, loop,
            stopper
<1>1. StateTypes' /\ Handles' /\ Owners' /\ Ordered' /\ Settled'
  BY DEF StateTypes, Handles, Owners, Ordered, Settled
<1>2. LandsBeforeLook' /\ BitsCoverRings'
  BY DEF LandsBeforeLook, BitsCoverRings, Owns, WillSignal, Scan
<1>3. Clearing' /\ SaysParked' /\ StageWithinScan' /\ Released' /\ Probing' /\ LastPass'
  BY DEF Clearing, SaysParked, StageWithinScan, Released, Probing, LastPass
<1>4. SleepIsWatched'
  BY DEF SleepIsWatched
<1> QED BY <1>1, <1>2, <1>3, <1>4

\* The pipeline, with any number of producers and slots and any configuration, always
\* satisfies the inductive invariant of push, retire, the consumer's loop and stop.
THEOREM PipelineInvariant == Spec => []PipelineInv
<1>1. ASSUME PipelineInv, Next \/ Over PROVE PipelineInv'
  <2>1. CASE Next
    <3>1. StateTypes /\ RingsInv /\ ConsumerInv /\ SleepIsWatched /\ Moves
          /\ UNCHANGED config
      BY <1>1, <2>1 DEF PipelineInv, Next
    <3>2. /\ Handles /\ Ordered /\ Settled
          /\ Clearing /\ SaysParked /\ Released
      BY <3>1 DEF RingsInv, ConsumerInv
    <3> QED BY <3>1, <3>2, TypesKept, RingsKept, ConsumerKept, SleepKept DEF PipelineInv
  <2>2. CASE Over
    BY <1>1, <2>2, StutterKeeps DEF Over
  <2> QED BY <1>1, <2>1, <2>2
<1>2. PipelineInv /\ [Next \/ Over]_vars => PipelineInv'
  BY <1>1, StutterKeeps
<1> QED BY <1>2, InitInv, PTL DEF Spec

\* push, signal and clear_empty_bits together: no event is ever where the bitmap scan
\* does not look and nobody is about to make it look.
THEOREM RingsAreCovered == Spec => []BitsCoverRings
<1>1. PipelineInv => BitsCoverRings
  BY DEF PipelineInv, RingsInv
<1> QED BY <1>1, PipelineInvariant, PTL

\* park and signal together: whenever the consumer sleeps on a set bit, some producer
\* is on its way to wake it.
THEOREM SleepersAreWatched == Spec => []SleepIsWatched
<1>1. PipelineInv => SleepIsWatched
  BY DEF PipelineInv
<1> QED BY <1>1, PipelineInvariant, PTL

\* The consumer does not sleep on events once the producers' calls have returned, and
\* never with events in its stage.
THEOREM NothingIsStranded == Spec => []NothingStranded
<1>1. ASSUME PipelineInv, at = "asleep" PROVE staged = 0
  BY <1>1 DEF PipelineInv, ConsumerInv, StageWithinScan
<1>2. ASSUME PipelineInv, at = "asleep", Scan = "Bitmap",
             \A p \in Producers : pc[p] \in {"out", "idle"}, NEW i \in Slots
      PROVE  landed[i] = head[i]
  <2>1. \A p \in Producers : ~leaving[p] /\ ~WillSignal(p, i)
    BY <1>2 DEF PipelineInv, RingsInv, Handles, Signalling, WillSignal
  <2>2. active = {}
    BY <1>2, <2>1 DEF PipelineInv, SleepIsWatched
  <2> QED BY <1>2, <2>1, <2>2 DEF PipelineInv, RingsInv, BitsCoverRings
<1>3. PipelineInv => NothingStranded
  BY <1>1, <1>2 DEF NothingStranded
<1> QED BY <1>3, PipelineInvariant, PTL

\* register_producer only ever finds rings that are drained and have no other owner.
THEOREM FreeSlotsAreDrained == Spec => []FreeIsDrained
<1>1. ASSUME PipelineInv, NEW i \in Slots, state[i] = "Free"
      PROVE  /\ head[i] = tail[i]
             /\ \A p \in Producers : Owns(p, i) => leaving[p]
  <2>1. head[i] = tail[i]
    BY <1>1 DEF PipelineInv, RingsInv, Settled
  <2>2. i # NoSlot
    BY <1>1, Sizes DEF PipelineInv, StateTypes
  <2> QED BY <1>1, <2>1, <2>2 DEF PipelineInv, RingsInv, Owners, Owns
<1>2. PipelineInv => FreeIsDrained
  BY <1>1 DEF FreeIsDrained
<1> QED BY <1>2, PipelineInvariant, PTL

\* The final passes of consumer_loop hand to the sink all that had landed when stop
\* let the consumer go.
THEOREM LastPassIsComplete == Spec => []LastPassDelivers
<1>1. PipelineInv => LastPassDelivers
  BY DEF PipelineInv, ConsumerInv, StageWithinScan, LastPass, LastPassDelivers
<1> QED BY <1>1, PipelineInvariant, PTL

-----------------------------------------------------------------------------
(* Counters and calls. *)

\* The sum over the slots is that of finitely many finite shares.
LEMMA UnitsFinite ==
  ASSUME NEW f \in [Slots -> Nat]
  PROVE  IsFiniteSet(Units(f)) /\ Total(f) \in Nat
<1> DEFINE share == [i \in Slots |-> {i} \X (1..f[i])]
<1>1. ASSUME NEW i \in Slots PROVE IsFiniteSet(share[i])
  <2>1. IsFiniteSet({i}) /\ f[i] \in Nat
    BY FS_Singleton
  <2>2. IsFiniteSet(1..f[i])
    BY <2>1, FS_Interval
  <2> QED BY <2>1, <2>2, FS_Product
<1> DEFINE shares == {share[i] : i \in Slots}
<1>2. IsFiniteSet(shares)
  <2>1. share \in Surjection(Slots, shares)
    BY DEF Surjection
  <2> QED BY <2>1, FiniteAssumption, FS_Surjection
<1>3. \A T \in shares : IsFiniteSet(T)
  BY <1>1
<1>4. IsFiniteSet(UNION shares)
  <2> HIDE DEF shares
  <2> QED BY <1>2, <1>3, FS_UNION
<1>5. Units(f) = UNION shares
  BY DEF Units
<1> QED BY <1>4, <1>5, FS_CardinalityType DEF Total

\* What the units of f are.
LEMMA UnitsAre ==
  ASSUME NEW f \in [Slots -> Nat], NEW u
  PROVE  u \in Units(f) <=> \E i \in Slots : \E k \in 1..f[i] : u = <<i, k>>
  BY DEF Units

\* A counter that counts one more adds one to the sum.
LEMMA TotalUp ==
  ASSUME NEW f \in [Slots -> Nat], NEW i \in Slots,
         NEW g, g = [f EXCEPT ![i] = @ + 1]
  PROVE  Total(g) = Total(f) + 1
<1> DEFINE u == <<i, f[i] + 1>>
<1>1. g \in [Slots -> Nat] /\ g[i] = f[i] + 1 /\ \A j \in Slots : j # i => g[j] = f[j]
  OBVIOUS
<1>2. ASSUME NEW v PROVE v \in Units(g) <=> v \in Units(f) \cup {u}
  <2>1. ASSUME NEW j \in Slots, NEW k \in 1..g[j], v = <<j, k>>
        PROVE  v \in Units(f) \cup {u}
    <3>1. CASE j = i /\ k = f[i] + 1
      BY <2>1, <3>1
    <3>2. CASE ~(j = i /\ k = f[i] + 1)
      <4>1. k \in 1..f[j]
        BY <1>1, <3>2
      <4> QED BY <2>1, <4>1, UnitsAre
    <3> QED BY <3>1, <3>2
  <2>2. ASSUME NEW j \in Slots, NEW k \in 1..f[j], v = <<j, k>>
        PROVE  v \in Units(g)
    <3>1. k \in 1..g[j]
      BY <1>1
    <3> QED BY <1>1, <2>2, <3>1, UnitsAre
  <2>3. v = u => v \in Units(g)
    <3>1. f[i] + 1 \in 1..g[i]
      BY <1>1
    <3> QED BY <1>1, <3>1, UnitsAre
  <2>4. /\ v \in Units(g) => \E j \in Slots : \E k \in 1..g[j] : v = <<j, k>>
        /\ v \in Units(f) => \E j \in Slots : \E k \in 1..f[j] : v = <<j, k>>
    BY DEF Units
  <2> HIDE DEF u
  <2> QED BY <2>1, <2>2, <2>3, <2>4
<1>3. u \notin Units(f)
  <2> SUFFICES ASSUME NEW j \in Slots, NEW k \in 1..f[j], u = <<j, k>> PROVE FALSE
    BY UnitsAre
  <2> QED OBVIOUS
<1>4. Units(g) = Units(f) \cup {u}
  BY <1>2, Zenon
<1> HIDE DEF u
<1> QED BY <1>3, <1>4, UnitsFinite, FS_AddElement DEF Total

\* A counter that is reset takes its share from the sum.
LEMMA TotalReset ==
  ASSUME NEW f \in [Slots -> Nat], NEW i \in Slots,
         NEW g, g = [f EXCEPT ![i] = 0]
  PROVE  Total(f) = Total(g) + f[i]
<1> DEFINE share == {i} \X (1..f[i])
<1>1. g \in [Slots -> Nat] /\ g[i] = 0 /\ \A j \in Slots : j # i => g[j] = f[j]
  OBVIOUS
<1>2. ASSUME NEW v PROVE v \in Units(f) <=> v \in Units(g) \cup share
  <2>1. ASSUME NEW j \in Slots, NEW k \in 1..f[j], v = <<j, k>>
        PROVE  v \in Units(g) \cup share
    <3>1. CASE j = i
      BY <2>1, <3>1
    <3>2. CASE j # i
      BY <1>1, <2>1, <3>2, UnitsAre
    <3> QED BY <3>1, <3>2
  <2>2. ASSUME NEW j \in Slots, NEW k \in 1..g[j], v = <<j, k>>
        PROVE  v \in Units(f)
    <3>1. k \in 1..f[j]
      BY <1>1
    <3> QED BY <2>2, <3>1, UnitsAre
  <2>3. v \in share => v \in Units(f)
    BY UnitsAre
  <2>4. /\ v \in Units(g) => \E j \in Slots : \E k \in 1..g[j] : v = <<j, k>>
        /\ v \in Units(f) => \E j \in Slots : \E k \in 1..f[j] : v = <<j, k>>
    BY DEF Units
  <2> HIDE DEF share
  <2> QED BY <2>1, <2>2, <2>3, <2>4
<1>3. Units(g) \cap share = {}
  <2> SUFFICES ASSUME NEW v \in Units(g), v \in share PROVE FALSE
    OBVIOUS
  <2>1. PICK j \in Slots : \E k \in 1..g[j] : v = <<j, k>>
    BY DEF Units
  <2>2. j # i
    BY <1>1, <2>1
  <2> QED BY <2>1, <2>2
<1>4. Units(f) = Units(g) \cup share
  BY <1>2, Zenon
<1>5. IsFiniteSet(share) /\ Cardinality(share) = f[i]
  <2>1. IsFiniteSet({i}) /\ Cardinality({i}) = 1
    BY FS_Singleton
  <2>2. f[i] \in Nat /\ IsFiniteSet(1..f[i]) /\ Cardinality(1..f[i]) = f[i]
    BY FS_Interval
  <2>3. IsFiniteSet(share) /\ Cardinality(share) = 1 * f[i]
    BY <2>1, <2>2, FS_Product
  <2> QED BY <2>2, <2>3
<1>6. IsFiniteSet(Units(g)) /\ Total(g) \in Nat
  BY <1>1, UnitsFinite
<1>7. Cardinality(Units(g) \cup share)
        = Cardinality(Units(g)) + Cardinality(share) - Cardinality(Units(g) \cap share)
  <2> HIDE DEF share
  <2> QED BY <1>5, <1>6, FS_Union
<1>8. Cardinality(Units(g) \cap share) = 0
  BY <1>3, FS_EmptySet, Zenon
<1> HIDE DEF share
<1> QED BY <1>4, <1>5, <1>6, <1>7, <1>8 DEF Total

\* There are finitely many threads at any places.
LEMMA WithinFinite ==
  ASSUME NEW places
  PROVE  Within(places) \in Nat /\ Within(places)' \in Nat
<1> DEFINE now == {p \in Producers : pc[p] \in places}
           then == {p \in Producers : pc'[p] \in places}
<1>1. IsFiniteSet(now) /\ IsFiniteSet(then)
  BY FiniteAssumption, FS_Subset
<1> QED BY <1>1, FS_CardinalityType DEF Within

\* p goes from one place to another, and only p.
Goes(p) == \A q \in Producers : q # p => pc'[q] = pc[q]

\* A thread that enters the places is one more within them, one that leaves is one
\* fewer, and one that does neither changes nothing.
LEMMA WithinChanges ==
  ASSUME NEW places, NEW p \in Producers, Goes(p)
  PROVE  /\ (pc[p] \in places <=> pc'[p] \in places) => Within(places)' = Within(places)
         /\ pc[p] \notin places /\ pc'[p] \in places => Within(places)' = Within(places) + 1
         /\ pc[p] \in places /\ pc'[p] \notin places => Within(places) = Within(places)' + 1
<1> DEFINE now == {q \in Producers : pc[q] \in places}
           then == {q \in Producers : pc'[q] \in places}
<1>1. IsFiniteSet(now) /\ IsFiniteSet(then)
  BY FiniteAssumption, FS_Subset
<1>2. Within(places) = Cardinality(now) /\ Within(places)' = Cardinality(then)
  BY DEF Within
<1>3. ASSUME pc[p] \in places <=> pc'[p] \in places PROVE now = then
  BY <1>3 DEF Goes
<1>4. ASSUME pc[p] \notin places, pc'[p] \in places
      PROVE  p \notin now /\ then = now \cup {p}
  BY <1>4 DEF Goes
<1>5. ASSUME pc[p] \in places, pc'[p] \notin places
      PROVE  p \notin then /\ now = then \cup {p}
  BY <1>5 DEF Goes
<1> HIDE DEF now, then
<1>6. ASSUME pc[p] \notin places, pc'[p] \in places
      PROVE  Cardinality(then) = Cardinality(now) + 1
  BY <1>1, <1>4, <1>6, FS_AddElement
<1>7. ASSUME pc[p] \in places, pc'[p] \notin places
      PROVE  Cardinality(now) = Cardinality(then) + 1
  BY <1>1, <1>5, <1>7, FS_AddElement
<1> QED BY <1>2, <1>3, <1>6, <1>7

\* A step that is none of push, register and reclaim: nobody enters or leaves a push.
LEMMA QuietCounts ==
  ASSUME RolledUp, Counted, UNCHANGED <<tail, counters, calls, refused>>,
         \A i \in Slots : state'[i] = "Free" => state[i] = "Free",
         Within({"count"})' = Within({"count"}),
         Within({"try", "count"})' = Within({"try", "count"})
  PROVE  RolledUp' /\ Counted'
<1>1. /\ Total(tail)' = Total(tail) /\ Total(pushed)' = Total(pushed)
      /\ Total(dropped)' = Total(dropped)
  BY DEF counters, Total, Units
<1>2. RolledUp'
  BY DEF RolledUp, counters
<1> HIDE DEF counters
<1>3. Counted'
  BY <1>1 DEF Counted, counters
<1> QED BY <1>2, <1>3

\* Every step keeps the account of the push calls.
LEMMA CountsKept ==
  ASSUME StateTypes, RestTypes, Handles, Owners, RolledUp, Counted, Moves
  PROVE  RolledUp' /\ Counted'
<1> DEFINE counting == Within({"count"})
           underway == Within({"try", "count"})
<1>0. /\ counting \in Nat /\ underway \in Nat /\ counting' \in Nat /\ underway' \in Nat
      /\ retiredPushed \in Nat /\ retiredDropped \in Nat /\ calls \in Nat /\ refused \in Nat
      /\ tail \in [Slots -> Nat] /\ pushed \in [Slots -> Nat] /\ dropped \in [Slots -> Nat]
      /\ Total(tail) \in Nat /\ Total(pushed) \in Nat /\ Total(dropped) \in Nat
  BY WithinFinite, UnitsFinite DEF StateTypes, RestTypes
<1>1. /\ Total(tail) = retiredPushed + Total(pushed) + counting
      /\ calls = retiredPushed + Total(pushed) + retiredDropped + Total(dropped)
                  + refused + underway
  BY DEF Counted
<1>2. ASSUME NEW p \in Producers, pc[p] \in {"try", "count"}
      PROVE  /\ slot[p] \in Slots /\ state[slot[p]] = "Active"
  BY <1>2 DEF StateTypes, Handles, Owners, Signalling
<1>3. ASSUME NEW p \in Producers, Register(p) PROVE RolledUp' /\ Counted'
  <2>1. PICK i \in Slots : /\ state[i] = "Free"
                           /\ state' = [state EXCEPT ![i] = "Active"]
                           /\ pushed' = [pushed EXCEPT ![i] = 0]
                           /\ dropped' = [dropped EXCEPT ![i] = 0]
    BY <1>3 DEF Register
  <2>2. pushed' = pushed /\ dropped' = dropped
    BY <2>1, <1>0 DEF RolledUp
  <2>3. /\ pc[p] = "out" /\ pc'[p] = "idle" /\ Goes(p)
        /\ UNCHANGED <<tail, retiredPushed, retiredDropped, calls, refused>>
    BY <1>3 DEF Register, Goes, StateTypes, rings
  <2>4. counting' = counting /\ underway' = underway
    BY <2>3, WithinChanges
  <2>5. \A j \in Slots : state'[j] = "Free" => state[j] = "Free"
    BY <2>1 DEF StateTypes
  <2> QED BY <2>2, <2>3, <2>4, <2>5, QuietCounts DEF counters
<1>4. ASSUME NEW p \in Producers, BeginPush(p) PROVE RolledUp' /\ Counted'
  <2>1. /\ UNCHANGED <<tail, state, pushed, dropped, retiredPushed, retiredDropped>>
        /\ calls' = calls + 1 /\ pc[p] = "idle" /\ Goes(p)
        /\ pc'[p] = (IF accepting THEN "try" ELSE "idle")
        /\ refused' = IF accepting THEN refused ELSE refused + 1
    BY <1>4 DEF BeginPush, Goes, StateTypes, counters, rings
  <2>2. RolledUp'
    BY <2>1 DEF RolledUp
  <2>3. counting' = counting
    BY <2>1, WithinChanges
  <2>4. underway' = IF accepting THEN underway + 1 ELSE underway
    BY <2>1, WithinChanges
  <2>5. /\ Total(tail)' = Total(tail) /\ Total(pushed)' = Total(pushed)
        /\ Total(dropped)' = Total(dropped)
    BY <2>1 DEF Total, Units
  <2> HIDE DEF counting, underway
  <2>6. /\ Total(tail)' = retiredPushed' + Total(pushed)' + counting'
        /\ calls' = retiredPushed' + Total(pushed)' + retiredDropped' + Total(dropped)'
                     + refused' + underway'
    BY <1>0, <1>1, <2>1, <2>3, <2>4, <2>5
  <2> QED BY <2>2, <2>6 DEF Counted, counting, underway
<1>5. ASSUME NEW p \in Producers, TryPush(p) PROVE RolledUp' /\ Counted'
  <2>1. /\ UNCHANGED <<state, pushed, dropped, retiredPushed, retiredDropped, calls, refused>>
        /\ pc[p] = "try" /\ pc'[p] = "count" /\ Goes(p)
        /\ tail' = [tail EXCEPT ![slot[p]] = @ + 1]
    BY <1>5 DEF TryPush, Goes, StateTypes, counters, bounds
  <2>2. RolledUp'
    BY <2>1 DEF RolledUp
  <2>3. counting' = counting + 1 /\ underway' = underway
    BY <2>1, WithinChanges
  <2>4. Total(tail') = Total(tail) + 1
    BY <1>0, <1>2, <2>1, TotalUp
  <2>5. /\ Total(tail)' = Total(tail) + 1 /\ Total(pushed)' = Total(pushed)
        /\ Total(dropped)' = Total(dropped)
    BY <2>1, <2>4 DEF Total, Units
  <2> HIDE DEF counting, underway
  <2>6. /\ Total(tail)' = retiredPushed' + Total(pushed)' + counting'
        /\ calls' = retiredPushed' + Total(pushed)' + retiredDropped' + Total(dropped)'
                     + refused' + underway'
    BY <1>0, <1>1, <2>1, <2>3, <2>5
  <2> QED BY <2>2, <2>6 DEF Counted, counting, underway
<1>6. ASSUME NEW p \in Producers, Drop(p) PROVE RolledUp' /\ Counted'
  <2>1. /\ UNCHANGED <<state, tail, pushed, retiredPushed, retiredDropped, calls, refused>>
        /\ pc[p] = "try" /\ pc'[p] = "idle" /\ Goes(p)
        /\ dropped' = [dropped EXCEPT ![slot[p]] = @ + 1]
    BY <1>6 DEF Drop, Goes, StateTypes, rings, bounds
  <2>2. RolledUp'
    BY <1>0, <1>2, <2>1 DEF RolledUp
  <2>3. counting' = counting /\ underway = underway' + 1
    BY <2>1, WithinChanges
  <2>4. Total(dropped') = Total(dropped) + 1
    BY <1>0, <1>2, <2>1, TotalUp
  <2>5. /\ Total(tail)' = Total(tail) /\ Total(pushed)' = Total(pushed)
        /\ Total(dropped)' = Total(dropped) + 1
    BY <2>1, <2>4 DEF Total, Units
  <2> HIDE DEF counting, underway
  <2>6. /\ Total(tail)' = retiredPushed' + Total(pushed)' + counting'
        /\ calls' = retiredPushed' + Total(pushed)' + retiredDropped' + Total(dropped)'
                     + refused' + underway'
    BY <1>0, <1>1, <2>1, <2>3, <2>5
  <2> QED BY <2>2, <2>6 DEF Counted, counting, underway
<1>7. ASSUME NEW p \in Producers, CountPush(p) PROVE RolledUp' /\ Counted'
  <2>1. /\ UNCHANGED <<state, tail, dropped, retiredPushed, retiredDropped, calls, refused>>
        /\ pc[p] = "count" /\ pc'[p] \in {"look", "idle"} /\ Goes(p)
        /\ pushed' = [pushed EXCEPT ![slot[p]] = @ + 1]
    BY <1>7 DEF CountPush, Goes, StateTypes, rings, bounds
  <2>2. RolledUp'
    BY <1>0, <1>2, <2>1 DEF RolledUp
  <2>3. counting = counting' + 1 /\ underway = underway' + 1
    BY <2>1, WithinChanges
  <2>4. Total(pushed') = Total(pushed) + 1
    BY <1>0, <1>2, <2>1, TotalUp
  <2>5. /\ Total(tail)' = Total(tail) /\ Total(pushed)' = Total(pushed) + 1
        /\ Total(dropped)' = Total(dropped)
    BY <2>1, <2>4 DEF Total, Units
  <2> HIDE DEF counting, underway
  <2>6. /\ Total(tail)' = retiredPushed' + Total(pushed)' + counting'
        /\ calls' = retiredPushed' + Total(pushed)' + retiredDropped' + Total(dropped)'
                     + refused' + underway'
    BY <1>0, <1>1, <2>1, <2>3, <2>5
  <2> QED BY <2>2, <2>6 DEF Counted, counting, underway
<1>8. ASSUME NEW p \in Producers,
             \/ SignalLook(p) \/ SignalSet(p) \/ SignalCheck(p) \/ SignalNotify(p)
             \/ Retire(p) \/ RetirePending(p) \/ RetireWake(p)
      PROVE  RolledUp' /\ Counted'
  <2>1. /\ pc[p] \notin {"try", "count"} /\ pc'[p] \notin {"try", "count"} /\ Goes(p)
    BY <1>8 DEF SignalLook, SignalSet, SignalCheck, SignalNotify, Retire, RetirePending,
                RetireWake, AfterSignal, Goes, StateTypes
  <2>2. /\ UNCHANGED <<tail, counters, calls, refused>>
        /\ \A i \in Slots : state'[i] = "Free" => state[i] = "Free"
    BY <1>8 DEF SignalLook, SignalSet, SignalCheck, SignalNotify, Retire, RetirePending,
                RetireWake, StateTypes, rings, bounds
  <2>3. counting' = counting /\ underway' = underway
    BY <2>1, WithinChanges
  <2> QED BY <2>2, <2>3, QuietCounts
<1>9. ASSUME Reclaim PROVE RolledUp' /\ Counted'
  <2>1. /\ UNCHANGED <<tail, pc, calls, refused>>
        /\ \E i \in Slots :
             IF state[i] = "Retiring" /\ Empty(i)
               THEN /\ retiredPushed' = retiredPushed + pushed[i]
                    /\ retiredDropped' = retiredDropped + dropped[i]
                    /\ pushed' = [pushed EXCEPT ![i] = 0]
                    /\ dropped' = [dropped EXCEPT ![i] = 0]
                    /\ state' = [state EXCEPT ![i] = "Free"]
               ELSE UNCHANGED <<counters, state>>
    BY <1>9 DEF Reclaim, StateTypes, rings, everyone, thread, bounds
  <2>2. counting' = counting /\ underway' = underway
    BY <2>1 DEF Within
  <2>3. CASE UNCHANGED <<counters, state>>
    BY <2>1, <2>2, <2>3, QuietCounts
  <2>4. CASE ~UNCHANGED <<counters, state>>
    <3>1. PICK i \in Slots : /\ retiredPushed' = retiredPushed + pushed[i]
                             /\ retiredDropped' = retiredDropped + dropped[i]
                             /\ pushed' = [pushed EXCEPT ![i] = 0]
                             /\ dropped' = [dropped EXCEPT ![i] = 0]
                             /\ state' = [state EXCEPT ![i] = "Free"]
      BY <2>1, <2>4
    <3>2. RolledUp'
      BY <1>0, <3>1 DEF RolledUp, StateTypes
    <3>3. Total(pushed) = Total(pushed') + pushed[i] /\ pushed' \in [Slots -> Nat]
      BY <1>0, <3>1, TotalReset
    <3>4. Total(dropped) = Total(dropped') + dropped[i] /\ dropped' \in [Slots -> Nat]
      BY <1>0, <3>1, TotalReset
    <3>5. Total(pushed') \in Nat /\ Total(dropped') \in Nat
      BY <3>3, <3>4, UnitsFinite
    <3>6. /\ Total(tail)' = Total(tail) /\ Total(pushed)' = Total(pushed')
          /\ Total(dropped)' = Total(dropped')
      BY <2>1 DEF Total, Units
    <3>7. pushed[i] \in Nat /\ dropped[i] \in Nat
      BY <1>0
    <3> HIDE DEF counting, underway
    <3>8. /\ Total(tail)' = retiredPushed' + Total(pushed)' + counting'
          /\ calls' = retiredPushed' + Total(pushed)' + retiredDropped' + Total(dropped)'
                       + refused' + underway'
      BY <1>0, <1>1, <2>1, <2>2, <3>1, <3>3, <3>4, <3>5, <3>6, <3>7
    <3> QED BY <3>2, <3>8 DEF Counted, counting, underway
  <2> QED BY <2>3, <2>4
<1>10. ASSUME UNCHANGED <<state, tail, counters, thread, calls, refused>>
       PROVE  RolledUp' /\ Counted'
  <2>1. counting' = counting /\ underway' = underway
    BY <1>10 DEF Within, thread
  <2> QED BY <1>10, <2>1, QuietCounts
<1>11. ASSUME Consume /\ ~Reclaim
       PROVE  UNCHANGED <<state, tail, counters, thread, calls, refused>>
  BY <1>11
     DEF Consume, TopOfLoop, NextRing, PopBatch, Took, Write, Wedge, EndScan, TakePending,
         EndReclaim, Spin, ClearLook, ClearBit, ClearRecheck, EndClear, Arm, Doze, Unpark,
         LeaveLoop, LastScan, EndLastScan, LastReclaim, everyone, rings, bounds
<1>12. ASSUME Start \/ Stop \/ Stopping \/ \E i \in Slots : Land(i)
       PROVE  UNCHANGED <<state, tail, counters, thread, calls, refused>>
  BY <1>12
     DEF Start, Stop, Stopping, ProbeTail, ProbeHead, Nudge, PollOver, Verify, Halt,
         StopWake, Join, Land, pipe, rings, bounds
<1> QED BY <1>3, <1>4, <1>5, <1>6, <1>7, <1>8, <1>9, <1>10, <1>11, <1>12 DEF Moves, Pushing

\* drain_ring stays within its cap and the room in the stage.
LEMMA PopsWithinRoom ==
  ASSUME StateTypes, Ordered, RestTypes, PopBatch
  PROVE  took' <= Batch /\ staged' <= StageSize
<1>1. /\ at = "scan" /\ cur \in Slots /\ took < Batch /\ staged < StageSize
      /\ landed[cur] \in Nat /\ head[cur] \in Nat /\ took \in Nat /\ staged \in Nat
      /\ Batch \in Nat /\ StageSize \in Nat
  BY Sizes DEF PopBatch, StateTypes
<1> DEFINE room == Min({Batch - took, StageSize - staged})
<1>2. room \in Int /\ room <= Batch - took /\ room <= StageSize - staged
  <2>1. Batch - took \in Int /\ StageSize - staged \in Int
    BY <1>1
  <2> QED BY <2>1, MinBound
<1>3. PICK n \in Popped(room) : Took(n)
  BY DEF PopBatch
<1>4. n \in Nat /\ n <= Batch - took /\ n <= StageSize - staged
  <2>1. CASE Empty(cur)
    BY <2>1, <1>1, <1>3 DEF Popped
  <2>2. CASE ~Empty(cur)
    <3> DEFINE most == Min({landed[cur] - head[cur], room})
    <3>1. landed[cur] - head[cur] \in Int
      BY <1>1
    <3>2. most \in Int /\ most <= room
      BY <3>1, <1>2, MinBound
    <3>3. n \in 1..most
      BY <2>2, <1>3 DEF Popped
    <3> HIDE DEF most, room
    <3> QED BY <3>2, <3>3, <1>1, <1>2
  <2> QED BY <2>1, <2>2
<1>5. took' = took + n /\ staged' = staged + n
  BY <1>3 DEF Took
<1> HIDE DEF room
<1> QED BY <1>1, <1>4, <1>5

\* Every step of a producer keeps the rest of the types and where the consumer is.
LEMMA ProducersKeepRest ==
  ASSUME StateTypes, RestTypes, WithinLoops, Handles, Owners, NEW p \in Producers,
         Register(p) \/ BeginPush(p) \/ Retire(p) \/ Pushing(p), UNCHANGED config
  PROVE  RestTypes' /\ WithinLoops'
<1>1. pc[p] \in {"try", "count"} => slot[p] \in Slots
  BY DEF StateTypes, Handles
<1>2. /\ UNCHANGED <<accepting, drainMet, loop, stopper>>
      /\ retirePending' \in {TRUE, retirePending}
      /\ at' = at \/ (at = "asleep" /\ at' = "woken")
  BY DEF Register, BeginPush, Retire, Pushing, TryPush, Drop, CountPush, SignalLook, SignalSet,
         SignalCheck, SignalNotify, RetirePending, RetireWake, WakeConsumer, flags, stopper
<1>3. UNCHANGED <<retiredPushed, retiredDropped>>
  BY DEF Register, BeginPush, Retire, Pushing, TryPush, Drop, CountPush, SignalLook, SignalSet,
         SignalCheck, SignalNotify, RetirePending, RetireWake, counters
<1>4. pushed' \in [Slots -> Nat] /\ dropped' \in [Slots -> Nat]
  BY <1>1
     DEF Register, BeginPush, Retire, Pushing, TryPush, Drop, CountPush, SignalLook, SignalSet,
         SignalCheck, SignalNotify, RetirePending, RetireWake, counters, RestTypes
<1>5. calls' \in 0..MaxPushes /\ refused' \in Nat /\ handles' \in 0..MaxHandles
  BY SizesAssumption
     DEF Register, BeginPush, Retire, Pushing, TryPush, Drop, CountPush, SignalLook, SignalSet,
         SignalCheck, SignalNotify, RetirePending, RetireWake, bounds, RestTypes
<1>6. RestTypes'
  <2>1. {accepting, retirePending, drainMet}' \subseteq BOOLEAN
    BY <1>2 DEF RestTypes, stopper
  <2>2. UNCHANGED <<scan, took, staged, idle, round, left, probe, tailSeen, sp>>
    BY <1>2 DEF loop, stopper
  <2> QED BY <1>2, <1>3, <1>4, <1>5, <2>1, <2>2 DEF RestTypes, Batch
<1>7. WithinLoops'
  <2>1. cur' = cur /\ sp' = sp
    BY <1>2 DEF loop, stopper
  <2> QED BY <1>2, <2>1 DEF WithinLoops
<1> QED BY <1>6, <1>7

\* Every step of the consumer keeps the rest of the types, and leaves a ring before
\* it leaves the loop it is in.
LEMMA ConsumerKeepsRest ==
  ASSUME StateTypes, RestTypes, WithinLoops, Ordered, Consume, UNCHANGED config
  PROVE  RestTypes' /\ WithinLoops'
<1>1. UNCHANGED <<accepting, handles, calls, refused, stopper>>
  BY DEF Consume, TopOfLoop, NextRing, PopBatch, Took, Write, Wedge, EndScan, TakePending,
         Reclaim, EndReclaim, Spin, ClearLook, ClearBit, ClearRecheck, EndClear, Arm, Doze,
         Unpark, LeaveLoop, LastScan, EndLastScan, LastReclaim, everyone, flags, bounds
<1>2. retirePending' \in {retirePending, FALSE}
  BY DEF Consume, TopOfLoop, NextRing, PopBatch, Took, Write, Wedge, EndScan, TakePending,
         Reclaim, EndReclaim, Spin, ClearLook, ClearBit, ClearRecheck, EndClear, Arm, Doze,
         Unpark, LeaveLoop, LastScan, EndLastScan, LastReclaim, everyone, flags
<1>3. /\ pushed' \in [Slots -> Nat] /\ dropped' \in [Slots -> Nat]
      /\ retiredPushed' \in Nat /\ retiredDropped' \in Nat
  <2>1. CASE Reclaim
    BY <2>1 DEF Reclaim, counters, StateTypes, RestTypes
  <2>2. CASE ~Reclaim
    <3>1. UNCHANGED counters
      BY <2>2
         DEF Consume, TopOfLoop, NextRing, PopBatch, Took, Write, Wedge, EndScan,
             TakePending, EndReclaim, Spin, ClearLook, ClearBit, ClearRecheck, EndClear,
             Arm, Doze, Unpark, LeaveLoop, LastScan, EndLastScan, LastReclaim
    <3> QED BY <3>1 DEF counters, RestTypes
  <2> QED BY <2>1, <2>2
<1>4. took' <= Batch /\ staged' <= StageSize
  <2>1. CASE PopBatch
    BY <2>1, PopsWithinRoom
  <2>2. CASE ~PopBatch
    <3>1. took' \in {took, 0} /\ staged' \in {staged, 0}
      BY <2>2
         DEF Consume, TopOfLoop, NextRing, Write, Wedge, EndScan, TakePending, Reclaim,
             EndReclaim, Spin, ClearLook, ClearBit, ClearRecheck, EndClear, Arm, Doze,
             Unpark, LeaveLoop, LastScan, EndLastScan, LastReclaim, loop
    <3> QED BY <3>1, Sizes DEF RestTypes, StateTypes
  <2> QED BY <2>1, <2>2
<1>5. idle' \in Nat /\ round' \in 0..2 /\ scan' \in {"pass", "safety", "last"}
  BY DEF Consume, TopOfLoop, NextRing, PopBatch, Took, Write, Wedge, EndScan, TakePending,
         Reclaim, EndReclaim, Spin, ClearLook, ClearBit, ClearRecheck, EndClear, Arm, Doze,
         Unpark, LeaveLoop, LastScan, EndLastScan, LastReclaim, loop, BeginScan, RestTypes
<1>6. /\ at \notin {"unborn", "done", "wedged"}
      /\ at' \in {"top", "scan", "wedged", "idle", "reclaim", "spin", "clear", "clearing",
                  "recheck", "park", "armed", "asleep", "woken", "flush", "done"}
  BY DEF Consume, TopOfLoop, NextRing, PopBatch, Took, Write, Writing, Wedge, EndScan,
         ScanOver, TakePending, Reclaim, EndReclaim, Spin, ClearLook, ClearBit,
         ClearRecheck, EndClear, Arm, Doze, Unpark, LeaveLoop, LastScan, EndLastScan,
         LastReclaim, BeginScan
<1>7. cur' # NoSlot => at' \in {"scan", "wedged", "clearing", "recheck"}
  BY DEF Consume, TopOfLoop, NextRing, PopBatch, Took, Write, Writing, Wedge, EndScan,
         ScanOver, TakePending, Reclaim, EndReclaim, Spin, ClearLook, ClearBit,
         ClearRecheck, EndClear, Arm, Doze, Unpark, LeaveLoop, LastScan, EndLastScan,
         LastReclaim, BeginScan, WithinLoops, loop
<1> QED BY <1>1, <1>2, <1>3, <1>4, <1>5, <1>6, <1>7
        DEF RestTypes, WithinLoops, stopper, Batch

\* Every step of start and stop, and every landing, keeps them.
LEMMA StopperKeepsRest ==
  ASSUME StateTypes, RestTypes, WithinLoops, Released,
         Start \/ Stop \/ Stopping \/ \E i \in Slots : Land(i), UNCHANGED config
  PROVE  RestTypes' /\ WithinLoops'
<1>1. UNCHANGED <<counters, loop, bounds>> /\ retirePending' = retirePending
  BY DEF Start, Stop, Stopping, ProbeTail, ProbeHead, Nudge, PollOver, Verify, Halt,
         StopWake, Join, Land, pipe, flags
<1>2. accepting' \in BOOLEAN /\ drainMet' \in BOOLEAN
  BY DEF Start, Stop, Stopping, ProbeTail, ProbeHead, Nudge, PollOver, Verify, Halt,
         StopWake, Join, Land, flags, stopper, RestTypes
<1>3. left' \subseteq Slots /\ probe' \in Slots \cup {NoSlot} /\ tailSeen' \in Nat
  BY DEF Start, Stop, Stopping, ProbeTail, ProbeHead, Nudge, PollOver, Verify, Halt,
         StopWake, Join, Land, asked, stopper, RestTypes, StateTypes
<1>4. /\ sp' \in {"new", "up", "poll", "nudge", "verify", "halt", "wake", "join", "stopped"}
      /\ sp' = "stopped" => sp = "stopped" \/ at = "done"
  BY DEF Start, Stop, Stopping, ProbeTail, ProbeHead, Nudge, PollOver, Verify, Halt,
         StopWake, Join, Land, stopper, RestTypes
<1>5. at' = at \/ (at = "asleep" /\ at' = "woken") \/ (sp' = "up" /\ at' = "top" /\ Start)
  BY DEF Start, Stop, Stopping, ProbeTail, ProbeHead, Nudge, PollOver, Verify, Halt,
         StopWake, Join, Land, WakeConsumer
<1>6. at = "unborn" \/ ~Start
  BY DEF Released, Start
<1>7. RestTypes'
  <2>1. {accepting, retirePending, drainMet}' \subseteq BOOLEAN
    BY <1>1, <1>2 DEF RestTypes
  <2>2. UNCHANGED <<scan, took, staged, idle, round, calls, refused, handles, pushed,
                    dropped, retiredPushed, retiredDropped>>
    BY <1>1 DEF counters, loop, bounds
  <2> QED BY <1>3, <1>4, <1>5, <2>1, <2>2 DEF RestTypes, Batch
<1>8. WithinLoops'
  <2>1. cur' = cur
    BY <1>1 DEF loop
  <2> QED BY <1>4, <1>5, <1>6, <2>1 DEF WithinLoops
<1> QED BY <1>7, <1>8

\* At first nothing is counted, and nothing in a ring.
LEMMA InitAccounts == Init => AccountsInv
<1> SUFFICES ASSUME Init PROVE AccountsInv
  OBVIOUS
<1>1. Batch \in Nat /\ Batch >= 1 /\ StageSize \in Nat /\ StageSize >= 1
  BY Sizes DEF Init
<1>2. RestTypes
  <2>1. {accepting, retirePending, drainMet} \subseteq BOOLEAN
    BY DEF Init
  <2>2. took <= Batch /\ staged <= StageSize
    BY <1>1 DEF Init
  <2>3. pushed \in [Slots -> Nat] /\ dropped \in [Slots -> Nat]
    BY DEF Init
  <2> QED BY <2>1, <2>2, <2>3, SizesAssumption DEF Init, RestTypes
<1>3. RolledUp /\ WithinLoops
  BY DEF Init, RolledUp, WithinLoops
<1>4. Counted
  <2> DEFINE none == [i \in Slots |-> 0]
  <2>1. tail = none /\ pushed = none /\ dropped = none
    BY DEF Init
  <2>2. Units(none) = {}
    BY DEF Units
  <2>3. Total(none) = 0
    BY <2>2, FS_EmptySet DEF Total
  <2>4. Within({"count"}) = 0 /\ Within({"try", "count"}) = 0
    BY FS_EmptySet DEF Init, Within
  <2> HIDE DEF none
  <2> QED BY <2>1, <2>3, <2>4 DEF Init, Counted
<1> QED BY <1>2, <1>3, <1>4 DEF AccountsInv

\* The account of the push calls balances at all times, with any number of producers
\* and slots and in any configuration.
THEOREM AccountsBalance == Spec => []AccountsInv
<1>1. ASSUME PipelineInv, AccountsInv, Next PROVE AccountsInv'
  <2>1. /\ StateTypes /\ Handles /\ Owners /\ Ordered /\ Released
        /\ RestTypes /\ RolledUp /\ Counted /\ WithinLoops
        /\ Moves /\ UNCHANGED config
    BY <1>1 DEF PipelineInv, RingsInv, ConsumerInv, AccountsInv, Next
  <2>2. RestTypes' /\ WithinLoops'
    BY <2>1, ProducersKeepRest, ConsumerKeepsRest, StopperKeepsRest DEF Moves
  <2> QED BY <2>1, <2>2, CountsKept DEF AccountsInv
<1>2. ASSUME AccountsInv, UNCHANGED vars PROVE AccountsInv'
  <2>1. RestTypes' /\ RolledUp' /\ WithinLoops'
    BY <1>2 DEF AccountsInv, RestTypes, RolledUp, WithinLoops, Batch, vars, moving, counters,
                flags, loop, stopper, bounds
  <2>2. Counted'
    BY <1>2 DEF AccountsInv, Counted, Total, Units, Within, vars, moving, rings, counters,
                thread, bounds
  <2> QED BY <2>1, <2>2 DEF AccountsInv
<1>3. PipelineInv /\ AccountsInv /\ [Next \/ Over]_vars => AccountsInv'
  BY <1>1, <1>2 DEF Over
<1> QED BY <1>3, InitAccounts, PipelineInvariant, PTL DEF Spec

\* No push call is lost from the counters or counted twice, whatever is registered,
\* retired and reclaimed meanwhile; and when stop has returned and no push overtook
\* it, all that was pushed has been consumed and written.
THEOREM PushesAreAccounted == Spec => []PushesAccounted
<1>1. ASSUME PipelineInv, AccountsInv PROVE PushesAccounted
  <2>1. PipelineTypeOK
    <3>1. {accepting, running, parked, retirePending, drainMet, got} \subseteq BOOLEAN
      BY <1>1 DEF PipelineInv, AccountsInv, StateTypes, RestTypes
    <3>2. Batch \in Nat /\ StageSize \in Nat
      BY <1>1, Sizes DEF PipelineInv, StateTypes
    <3>3. took \in 0..Batch /\ staged \in 0..StageSize
      BY <1>1, <3>2 DEF PipelineInv, AccountsInv, StateTypes, RestTypes
    <3>4. StateTypes /\ RestTypes
      BY <1>1 DEF PipelineInv, AccountsInv
    <3> QED BY <3>1, <3>3, <3>4 DEF StateTypes, RestTypes, PipelineTypeOK, Signalling
  <2>2. stats.pushed = retiredPushed + Total(pushed)
        /\ stats.dropped = retiredDropped + Total(dropped)
    BY DEF stats
  <2>3. /\ retiredPushed \in Nat /\ retiredDropped \in Nat /\ refused \in Nat
        /\ Total(pushed) \in Nat /\ Total(dropped) \in Nat
        /\ Within({"count"}) \in Nat /\ Within({"try", "count"}) \in Nat
    BY <1>1, UnitsFinite, WithinFinite DEF AccountsInv, RestTypes
  <2>4. /\ Total(tail) = stats.pushed + Within({"count"})
        /\ calls = stats.pushed + stats.dropped + refused + Within({"try", "count"})
    BY <1>1, <2>2, <2>3 DEF AccountsInv, Counted
  <2>5. ASSUME sp = "stopped", owed = tail, \A p \in Producers : pc[p] # "count"
        PROVE  stats.consumed = stats.pushed /\ bytes = stats.pushed
    <3>1. at = "done" /\ cur = NoSlot
      BY <1>1, <2>5 DEF AccountsInv, WithinLoops
    <3>2. staged = 0 /\ \A i \in Slots : head[i] >= tail[i]
      BY <1>1, <2>5, <3>1 DEF PipelineInv, ConsumerInv, StageWithinScan, LastPass
    <3>3. head = tail
      <4>1. /\ head \in [Slots -> Nat] /\ tail \in [Slots -> Nat]
            /\ \A i \in Slots : head[i] <= landed[i] /\ landed[i] <= tail[i] /\ landed[i] \in Nat
        BY <1>1 DEF PipelineInv, StateTypes, RingsInv, Ordered
      <4>2. ASSUME NEW i \in Slots PROVE head[i] = tail[i]
        BY <3>2, <4>1
      <4> QED BY <4>1, <4>2
    <3>4. Within({"count"}) = 0
      <4>1. {p \in Producers : pc[p] \in {"count"}} = {}
        BY <2>5
      <4> QED BY <4>1, FS_EmptySet DEF Within
    <3>5. Total(tail) = stats.pushed /\ stats.pushed \in Nat
      BY <2>2, <2>3, <2>4, <3>4
    <3>6. Taken = stats.pushed
      BY <3>3, <3>5 DEF Taken
    <3>7. stats.consumed = Taken - 0 /\ bytes = Taken - 0
      BY <3>1, <3>2 DEF stats, bytes
    <3> QED BY <3>5, <3>6, <3>7
  <2> HIDE DEF stats
  <2> QED BY <2>1, <2>4, <2>5 DEF PushesAccounted
<1>2. PipelineInv /\ AccountsInv => PushesAccounted
  BY <1>1
<1> QED BY <1>2, PipelineInvariant, AccountsBalance, PTL
=============================================================================
