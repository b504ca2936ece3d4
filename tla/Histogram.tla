------------------------------ MODULE Histogram ------------------------------
(***************************************************************************)
(* turnstile::Histogram (histogram.hpp): log-linear buckets over words of W*)
(* bits.  The code has W = 64 and S = 4: values below 2^(S+1) have a bucket*)
(* each, and above that each power of two is split into 2^S.  A quantile is*)
(* num / den, and its rank exact; the code computes it in a double.        *)
(***************************************************************************)
EXTENDS Naturals, SequencesExt, FiniteSetsExt

CONSTANTS W, S

ASSUME HistogramAssumption == S \in Nat /\ W \in Nat /\ W > S + 1

kBuckets == (W - S - 1) * 2^S + 2^(S + 1)
Buckets == 0..(kBuckets - 1)

BitWidth(v) == CHOOSE b \in 0..W : v < 2^b /\ (b = 0 \/ v >= 2^(b - 1))

Index(v) ==
  IF v < 2^(S + 1) THEN v
  ELSE LET e == BitWidth(v) - (S + 1) IN 2^S * e + v \div 2^e

\* Faulty: the edge of the bucket below.
UpperLow(i) ==
  IF i < 2^(S + 1) THEN i
  ELSE LET e == i \div 2^S - 1  m == i - 2^S * e IN m * 2^e

\* In the last bucket the shift leaves the word, and the subtraction comes back.
Upper(i) ==
  IF i < 2^(S + 1) THEN i
  ELSE LET e == i \div 2^S - 1  m == i - 2^S * e IN
       ((((m + 1) * 2^e) % (2^W)) + 2^W - 1) % (2^W)

Empty == [counts |-> [i \in Buckets |-> 0], n |-> 0, max |-> 0]

Record(h, v) ==
  [counts |-> [h.counts EXCEPT ![Index(v)] = @ + 1], n |-> h.n + 1,
   max |-> IF v > h.max THEN v ELSE h.max]

Merge(h, g) ==
  [counts |-> [i \in Buckets |-> h.counts[i] + g.counts[i]], n |-> h.n + g.n,
   max |-> IF g.max > h.max THEN g.max ELSE h.max]

UpTo(h, i) == SumFunctionOnSet(h.counts, 0..i)
Rank(n, num, den) == (num * (n - 1)) \div den + 1

Quantile(h, num, den) ==
  IF h.n = 0 THEN 0
  ELSE LET i == Min({j \in Buckets : UpTo(h, j) >= Rank(h.n, num, den)}) IN
       IF Upper(i) < h.max THEN Upper(i) ELSE h.max

CountAbove(h, v) == SumFunctionOnSet(h.counts, (Index(v) + 1)..(kBuckets - 1))

\* The histogram that has recorded the values of a sequence.
Recorded(vs) == FoldLeft(Record, Empty, vs)
=============================================================================
