-------------------------- MODULE MCEventPipeline --------------------------
(* The pipeline for TLC.  Producer threads are interchangeable, and so are   *)
(* slots: a scan takes them in any order and a handle any free one.          *)
EXTENDS EventPipeline, TLC

Symmetry == Permutations(Producers) \cup Permutations(Slots)

Config(capacity, batch, spin, scanning, mode, timeouts, wedges) ==
  [capacity |-> capacity, batch |-> batch, spin |-> spin, scan |-> scanning, mode |-> mode,
   timeouts |-> timeouts, wedges |-> wedges]

\* A bitmap over rings of one that sleeps as soon as it may and is woken by hand
\* alone, and a full scan of rings of two whose sleeps end by timeout and
\* whose sink may hang.
MCConfigs   == {Config(1, 1, 1, "Bitmap", "Abort", FALSE, FALSE),
                Config(2, 2, 0, "FullScan", "Drain", TRUE, TRUE)}
\* For liveness a sink that may hang, and no timeout to lean on.
LiveConfigs == {Config(1, 1, 0, "Bitmap", "Drain", FALSE, TRUE)}
LateConfigs == {Config(2, 1, 0, "Bitmap", "Drain", FALSE, FALSE)}
LeakConfigs == {Config(1, 1, 0, "Bitmap", "Abort", FALSE, FALSE)}

\* What a loop of the consumer or of the stopper has left behind when it is over
\* is not read again.
View ==
  <<config, state, rings, counters, active, flags, parked, thread, at,
    IF at = "scan" THEN <<scan, got>> ELSE scan = "last",
    todo, cur, IF cur = NoSlot THEN 0 ELSE took, staged, idle, round,
    sp, IF sp \in {"poll", "verify"} THEN <<left, probe, tailSeen>> ELSE <<>>,
    owed, drainMet, bounds>>
=============================================================================
