---------------------------- MODULE PacketStream ----------------------------
(***************************************************************************)
(* The traffic switchyard's arms are measured on (packet.hpp), and the     *)
(* phases that measure them (scan.cpp, distribution.cpp, harness.hpp).  A  *)
(* stream is drawn against the registered keys, once; every arm then       *)
(* replays it, and ScanOrdered is also told how often each handler was     *)
(* drawn.  The arms may be compared only if they answer alike.             *)
(*                                                                         *)
(* A random number is any member of the grid on which the cumulative sums  *)
(* lie: no draw between two of its points is told from the upper one.      *)
(***************************************************************************)
EXTENDS Dispatch

CONSTANTS kPacketPool,   \* packets in a stream
          kPasses,       \* kDispatchesPerRun / kPacketPool, replays of it
          kReps,         \* repetitions of a measurement
          Lows,          \* the payload classes that are drawn
          MaxHandlers,   \* bound on a registered list
          Measured       \* the handler lists the phases measure

Distributions     == {"uniform", "zipf", "hot95", "worst"}
kUnmatchedKeyBase == 4096

(* -------------------------------- drawing -------------------------------- *)
\* The weight of rank i of n, in units small enough for its distribution.
\* Of Zipf's law only the falling order matters.
Weight(d, n, i) ==
    CASE d = "uniform" -> 1
      [] d = "zipf"    -> 60 \div i
      [] d = "hot95"   -> IF i <= 2 THEN 475 ELSE 50 \div (n - 2)
      [] d = "worst"   -> IF i = n THEN 1 ELSE 0

build_cdf(d, n) == [i \in 1 .. n |-> MapThenSumSet(LAMBDA j : Weight(d, n, j), 1 .. i)]

\* Weight rank to handler, shuffled except for Worst.
Perms(d, n) ==
    IF d = "worst" THEN {[i \in 1 .. n |-> i]} ELSE Permutations(1 .. n)

pick(cdf, perm, u) ==
    LET i == SelectInSeq(cdf, LAMBDA c : u <= c)
    IN IF i = 0 THEN perm[Len(perm)] ELSE perm[i]

\* A packet of the stream: the handler it was drawn for, 0 for a key nobody
\* claims, and its random payload.  pick may be given 0, which is "at most"
\* the sum of a rank without weight.
Draws(d, n, perm) ==
    LET cdf == build_cdf(d, n)
    IN [handler : {0} \cup {pick(cdf, perm, u) : u \in 0 .. cdf[n]}, low : Lows]

Streams(d, n) ==
    UNION {[1 .. kPacketPool -> Draws(d, n, perm)] : perm \in Perms(d, n)}

packets(list, stream) ==
    [i \in DOMAIN stream |->
        [protocol |-> IF stream[i].handler = 0 THEN kUnmatchedKeyBase
                      ELSE list[stream[i].handler].key,
         low      |-> stream[i].low]]

frequencies(n, stream) ==
    [h \in 1 .. n |-> Cardinality({i \in DOMAIN stream : stream[i].handler = h})]

\* The frequencies a stream over n handlers may have.
Frequencies ==
    [n \in 1 .. MaxHandlers |->
        {frequencies(n, s) : s \in UNION {Streams(d, n) : d \in Distributions}}]

(* ------------------------------- measuring ------------------------------- *)
\* The matches() calls of a scan, and the slots and matches() calls of an arm.
Scanned(list, p) == LET i == HitIndex(list, p) IN IF i = 0 THEN Len(list) ELSE i
ProbedSlot(s, p) == 1 + IF s.only # Nobody THEN 0 ELSE Scanned(s.cands, p)

Probes(arms, arm, p) ==
    LET bucket == Bucket(p.protocol)
    IN CASE arm \in {"unordered", "ordered", "mtf"} -> Scanned(arms[arm], p)
         [] arm = "direct" ->
              IF p.protocol \in DOMAIN arms.direct
              THEN ProbedSlot(arms.direct[p.protocol], p) ELSE 1
         [] arm = "compact" ->
              IF DispatchCompact(arms.compact.tbl, p) = Nobody
                 /\ (bucket \notin DOMAIN arms.compact.tbl
                     \/ arms.compact.tbl[bucket].key # p.protocol)
              THEN 1 ELSE ProbedSlot(arms.compact.tbl[bucket], p)

\* FNV-1a over the results, taken to tell any two sequences of them apart.
feed(sum, r) == Append(sum, r)

\* One run of an arm over the pool, replayed.
run_arm(arms, arm, pkts, passes) ==
    LET one(r, p) ==
            [arms   |-> IF arm = "mtf" THEN [r.arms EXCEPT !.mtf = Promote(@, p)] ELSE r.arms,
             sum    |-> feed(r.sum, Answer(Found(r.arms, arm, p), p)),
             probes |-> r.probes + Probes(r.arms, arm, p)]
    IN FoldLeft(one, [arms |-> arms, sum |-> <<>>, probes |-> 0],
                [i \in 1 .. passes * Len(pkts) |-> pkts[((i - 1) % Len(pkts)) + 1]])

\* Every repetition has an arm of its own; the last one's checksum is kept.
measure(arms, arm, pkts) ==
    LET reps == [i \in 1 .. kReps |-> run_arm(arms, arm, pkts, kPasses)]
    IN reps[kReps].sum

count_probes(arms, arm, pkts) == run_arm(arms, arm, pkts, 1).probes

(* ------------------------------- properties ------------------------------ *)
Disjoint(list) ==
    \A i, j \in DOMAIN list : i # j =>
        (list[i].key # list[j].key \/ list[i].takes \cap list[j].takes = {})

Pure(list) ==
    /\ \A i \in DOMAIN list : list[i].takes = Payloads
    /\ \A i, j \in DOMAIN list : i # j => list[i].key # list[j].key

\* A handler is drawn as often as its weight says, whichever rank the shuffle
\* gave it.
DrawnByWeight ==
    \A d \in Distributions, n \in 1 .. MaxHandlers :
        \A perm \in Perms(d, n), i \in 1 .. n :
            LET cdf == build_cdf(d, n)
            IN Cardinality({u \in 1 .. cdf[n] : pick(cdf, perm, u) = perm[i]}) = Weight(d, n, i)

\* What phases 1 to 3 check of every stream: the arms answer as the brief's loop
\* does, a table on any list, a reordered scan on handlers that do not overlap.
StreamAgrees(list, stream) ==
    LET pkts == packets(list, stream)
        arms == NewArms(list, frequencies(Len(list), stream))
        want == measure(arms, "unordered", pkts)
    IN \A arm \in Arms :
        \/ arm \in {"ordered", "mtf"} /\ ~Disjoint(list)
        \/ arm = "compact" /\ ~arms.compact.injective
        \/ measure(arms, arm, pkts) = want

\* Phase 3 gives scan-ordered "every possible advantage": where the key alone
\* decides, no order of the list has fewer probes on the stream than the one
\* sorted by the stream's frequencies.
OrderedIsBest(list, stream) ==
    LET pkts == packets(list, stream)
        arms == NewArms(list, frequencies(Len(list), stream))
    IN Pure(list) =>
        \A perm \in Permutations(DOMAIN list) :
            count_probes(arms, "ordered", pkts) <=
                count_probes([arms EXCEPT !.unordered = [i \in DOMAIN list |-> list[perm[i]]]],
                             "unordered", pkts)

\* The phases, over every stream of every distribution.
PhasesAgree ==
    /\ DrawnByWeight
    /\ \A list \in Measured :
        \A stream \in UNION {Streams(d, Len(list)) : d \in Distributions} :
            StreamAgrees(list, stream) /\ OrderedIsBest(list, stream)
=============================================================================
