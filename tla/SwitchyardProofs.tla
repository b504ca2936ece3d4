--------------------------- MODULE SwitchyardProofs ---------------------------
(***************************************************************************)
(* Proofs about Switchyard, for every set of handlers, packets, libraries  *)
(* and loaders: the inductive invariant, the pairing of instances, the     *)
(* fields the host reads, and what the arms answer.                        *)
(***************************************************************************)
EXTENDS SwitchyardInvariant, Laps, FiniteSetTheorems, FunctionTheorems

(* ---------------------------- least and ranks ---------------------------- *)

\* A relation that orders the members of a set, one before the other.
Orders(R, I) ==
  /\ IsFiniteSet(I)
  /\ \A i \in I : <<i, i>> \notin R
  /\ \A i, j \in I : i # j => <<i, j>> \in R \/ <<j, i>> \in R
  /\ \A i, j, k \in I : <<i, j>> \in R /\ <<j, k>> \in R => <<i, k>> \in R

\* The members of a set that come before one of them.
Before(i, R, I) == {j \in I : <<j, i>> \in R}

\* In an ordered set the number of members before one is below the size of the
\* set, grows with the order, and takes every value.
LEMMA RanksApart ==
  ASSUME NEW I, NEW R, Orders(R, I)
  PROVE  /\ Cardinality(I) \in Nat
         /\ \A i \in I : Cardinality(Before(i, R, I)) \in 0 .. Cardinality(I) - 1
         /\ \A i, j \in I : <<i, j>> \in R =>
              Cardinality(Before(i, R, I)) < Cardinality(Before(j, R, I))
         /\ \A i, j \in I :
              Cardinality(Before(i, R, I)) = Cardinality(Before(j, R, I)) => i = j
         /\ \A n \in 0 .. Cardinality(I) - 1 :
              \E i \in I : Cardinality(Before(i, R, I)) = n
<1>1. IsFiniteSet(I) /\ Cardinality(I) \in Nat
  BY FS_CardinalityType DEF Orders
<1>2. ASSUME NEW S \in SUBSET I, NEW T \in SUBSET S, S # T
      PROVE  Cardinality(T) \in Nat /\ Cardinality(T) < Cardinality(S)
  <2>1. IsFiniteSet(S) /\ IsFiniteSet(T)
    BY <1>1, FS_Subset
  <2>2. Cardinality(S) \in Nat /\ Cardinality(T) \in Nat
    BY <2>1, FS_CardinalityType
  <2>3. Cardinality(T) <= Cardinality(S) /\ Cardinality(S) # Cardinality(T)
    BY <1>2, <2>1, FS_Subset
  <2> QED BY <2>2, <2>3
<1>3. ASSUME NEW i \in I
      PROVE  Cardinality(Before(i, R, I)) \in 0 .. Cardinality(I) - 1
  <2>1. Before(i, R, I) \in SUBSET I /\ i \notin Before(i, R, I)
    BY DEF Before, Orders
  <2>2. /\ Cardinality(Before(i, R, I)) \in Nat
        /\ Cardinality(Before(i, R, I)) < Cardinality(I)
    BY <1>2, <2>1
  <2> QED BY <1>1, <2>2
<1>4. ASSUME NEW i \in I, NEW j \in I, <<i, j>> \in R
      PROVE  Cardinality(Before(i, R, I)) < Cardinality(Before(j, R, I))
  <2>1. \A k \in I : <<k, i>> \in R => <<k, j>> \in R
    BY <1>4 DEF Orders
  <2>2. /\ Before(j, R, I) \in SUBSET I /\ Before(i, R, I) \in SUBSET Before(j, R, I)
        /\ i \in Before(j, R, I) /\ i \notin Before(i, R, I)
    BY <1>4, <2>1 DEF Before, Orders
  <2> QED BY <1>2, <2>2
<1>5. ASSUME NEW i \in I, NEW j \in I,
             Cardinality(Before(i, R, I)) = Cardinality(Before(j, R, I))
      PROVE  i = j
  <2>1. SUFFICES ASSUME i # j PROVE FALSE
    OBVIOUS
  <2>2. <<i, j>> \in R \/ <<j, i>> \in R
    BY <2>1 DEF Orders
  <2>3. /\ Cardinality(Before(i, R, I)) < Cardinality(Before(j, R, I))
           \/ Cardinality(Before(j, R, I)) < Cardinality(Before(i, R, I))
    BY <1>4, <2>2
  <2> QED BY <1>3, <1>5, <2>3
<1>6. ASSUME NEW n \in 0 .. Cardinality(I) - 1
      PROVE  \E i \in I : Cardinality(Before(i, R, I)) = n
  <2> DEFINE Ranks == 0 .. Cardinality(I) - 1
             rank == [i \in I |-> Cardinality(Before(i, R, I))]
  <2>1. rank \in [I -> Ranks] /\ \A i, j \in I : rank[i] = rank[j] => i = j
    BY <1>3, <1>5
  <2>2. rank \in Injection(I, Ranks)
    BY <2>1, Fun_IsInj
  <2>3. IsFiniteSet(Ranks) /\ Cardinality(Ranks) = Cardinality(I)
    BY <1>1, FS_Interval
  <2>4. rank \in Surjection(I, Ranks)
    BY <1>1, <2>2, <2>3, FS_Injection
  <2>5. n \in Ranks
    BY <1>6
  <2> HIDE DEF rank, Ranks
  <2>6. \E i \in I : rank[i] = n
    BY <2>4, <2>5, Fun_SurjectionProperties
  <2> QED BY <2>6 DEF rank
<1> QED BY <1>1, <1>3, <1>4, <1>5, <1>6

\* Indices are ordered by size.
LEMMA EarlierOrders ==
  ASSUME NEW I \in SUBSET Nat, IsFiniteSet(I)
  PROVE  Orders(Earlier(I), I)
<1>1. \A i, j \in I : <<i, j>> \in Earlier(I) <=> i < j
  BY DEF Earlier
<1>2. \A i \in I : i \in Nat
  OBVIOUS
<1>3. \A i \in I : <<i, i>> \notin Earlier(I)
  BY <1>1, <1>2
<1>4. \A i, j \in I : i # j => <<i, j>> \in Earlier(I) \/ <<j, i>> \in Earlier(I)
  BY <1>1, <1>2
<1>5. \A i, j, k \in I : <<i, j>> \in Earlier(I) /\ <<j, k>> \in Earlier(I)
                              => <<i, k>> \in Earlier(I)
  BY <1>1, <1>2
<1> QED BY <1>3, <1>4, <1>5 DEF Orders

\* A finite set of naturals that is not empty has a least member, and Min is it.
LEMMA LeastMember ==
  ASSUME NEW I \in SUBSET Nat, IsFiniteSet(I), I # {}
  PROVE  Min(I) \in I /\ \A i \in I : Min(I) <= i
<1>1. Cardinality(I) \in Nat /\ Cardinality(I) # 0
  BY FS_CardinalityType, FS_EmptySet
<1>2. 0 \in 0 .. Cardinality(I) - 1
  BY <1>1
<1>3. PICK m \in I : Cardinality(Before(m, Earlier(I), I)) = 0
  BY <1>2, EarlierOrders, RanksApart
<1>4. IsFiniteSet(Before(m, Earlier(I), I))
  BY FS_Subset DEF Before
<1>5. Before(m, Earlier(I), I) = {}
  BY <1>3, <1>4, FS_EmptySet
<1>6. \A i \in I : m <= i
  <2>1. \A i \in I : <<i, m>> \notin Earlier(I)
    BY <1>5 DEF Before
  <2>2. \A i \in I : ~(i < m)
    BY <2>1 DEF Earlier
  <2> QED BY <2>2
<1> QED BY <1>6 DEF Min

\* A list of the members at some indices, each behind those that come before it.
InPlace(sorted, list, I, R) ==
  /\ sorted \in Seq(Range(sorted))
  /\ Len(sorted) = Cardinality(I) /\ Cardinality(I) \in Nat
  /\ \A i \in I : \E n \in 1 .. Cardinality(I) :
       n = Cardinality(Before(i, R, I)) + 1 /\ sorted[n] = list[i]
  /\ \A n \in 1 .. Cardinality(I) : \E i \in I :
       n = Cardinality(Before(i, R, I)) + 1 /\ sorted[n] = list[i]

\* Sorted puts what is n-th in the order in the n-th place.
LEMMA SortedPlaces ==
  ASSUME NEW list, NEW I, NEW R, Orders(R, I)
  PROVE  InPlace(Sorted(list, I, R), list, I, R)
<1> DEFINE rank(i) == Cardinality(Before(i, R, I))
           at(n) == CHOOSE i \in I : rank(i) = n - 1
           size == Cardinality(I)
<1>1. size \in Nat
  BY RanksApart
<1>2. Sorted(list, I, R) = [n \in 1 .. size |-> list[at(n)]]
  BY DEF Sorted, Before
<1>3. ASSUME NEW n \in 1 .. size
      PROVE  at(n) \in I /\ rank(at(n)) = n - 1
  <2>1. n - 1 \in 0 .. size - 1
    BY <1>1
  <2>2. \E i \in I : rank(i) = n - 1
    BY <2>1, RanksApart
  <2> QED BY <2>2
<1>4. ASSUME NEW i \in I
      PROVE  rank(i) + 1 \in 1 .. size /\ at(rank(i) + 1) = i
  <2>1. rank(i) \in 0 .. size - 1
    BY RanksApart
  <2>2. rank(i) + 1 \in 1 .. size /\ (rank(i) + 1) - 1 = rank(i)
    BY <1>1, <2>1
  <2>3. at(rank(i) + 1) \in I /\ rank(at(rank(i) + 1)) = rank(i)
    BY <1>3, <2>2
  <2> HIDE DEF at
  <2> QED BY <2>2, <2>3, RanksApart
<1> HIDE DEF at, rank, size
<1>6. /\ DOMAIN Sorted(list, I, R) = 1 .. size
      /\ \A n \in 1 .. size : Sorted(list, I, R)[n] = list[at(n)]
  BY <1>2
<1>7. Sorted(list, I, R) \in Seq(Range(Sorted(list, I, R))) /\ Len(Sorted(list, I, R)) = size
  <2>1. PICK s : s = Sorted(list, I, R)
    OBVIOUS
  <2>2. DOMAIN s = 1 .. size /\ s = [n \in 1 .. size |-> s[n]]
    BY <1>2, <2>1
  <2>3. \A n \in 1 .. size : s[n] \in Range(s)
    BY <2>2 DEF Range
  <2>4. s \in [1 .. size -> Range(s)]
    BY <2>2, <2>3
  <2>5. s \in Seq(Range(s)) /\ Len(s) = size
    BY <1>1, <2>4
  <2> QED BY <2>1, <2>5
<1>8. \A i \in I : \E n \in 1 .. size : n = rank(i) + 1 /\ Sorted(list, I, R)[n] = list[i]
  BY <1>4, <1>6
<1>9. \A n \in 1 .. size : \E i \in I : n = rank(i) + 1 /\ Sorted(list, I, R)[n] = list[i]
  <2> TAKE n \in 1 .. size
  <2>1. at(n) \in I /\ n = rank(at(n)) + 1
    BY <1>3, <1>1, RanksApart DEF rank, size
  <2> QED BY <2>1, <1>6
<1> QED BY <1>1, <1>7, <1>8, <1>9 DEF rank, size, InPlace

(* --------------------------------- scans --------------------------------- *)

\* The handlers of a list are its entries.
LEMMA RangeOf ==
  ASSUME NEW S, NEW list \in Seq(S)
  PROVE  /\ Len(list) \in Nat /\ DOMAIN list = 1 .. Len(list)
         /\ Range(list) = {list[i] : i \in 1 .. Len(list)}
         /\ \A i \in 1 .. Len(list) : list[i] \in Range(list)
         /\ \A h \in Range(list) : \E i \in 1 .. Len(list) : list[i] = h
         /\ list \in Seq(Range(list))
<1>1. Len(list) \in Nat /\ DOMAIN list = 1 .. Len(list)
  OBVIOUS
<1>2. Range(list) = {list[i] : i \in 1 .. Len(list)}
  BY <1>1, Zenon DEF Range
<1>3. /\ \A i \in 1 .. Len(list) : list[i] \in Range(list)
      /\ \A h \in Range(list) : \E i \in 1 .. Len(list) : list[i] = h
  BY <1>2
<1>4. list \in [1 .. Len(list) -> Range(list)]
  BY <1>1, <1>3
<1>5. list \in Seq(Range(list))
  BY <1>1, <1>4
<1> QED BY <1>1, <1>2, <1>3, <1>5

\* Lists with the same entries hold the same handlers.
LEMMA RangesAlike ==
  ASSUME NEW S, NEW list \in Seq(S), NEW T, NEW other \in Seq(T),
         \A i \in 1 .. Len(list) : \E j \in 1 .. Len(other) : list[i] = other[j],
         \A j \in 1 .. Len(other) : \E i \in 1 .. Len(list) : other[j] = list[i]
  PROVE  Range(other) = Range(list)
<1>1. Range(list) = {list[i] : i \in 1 .. Len(list)}
  BY RangeOf
<1>2. Range(other) = {other[j] : j \in 1 .. Len(other)}
  BY RangeOf
<1> QED BY <1>1, <1>2

\* A scan finds nobody where nothing matches, and the first that matches otherwise.
LEMMA ScanFinds ==
  ASSUME NEW S, NEW list \in Seq(S), NEW p
  PROVE  \/ /\ HitIndex(list, p) = 0 /\ Scan(list, p) = Nobody
            /\ \A i \in 1 .. Len(list) : ~matches(list[i], p)
         \/ /\ HitIndex(list, p) \in 1 .. Len(list)
            /\ Scan(list, p) = list[HitIndex(list, p)]
            /\ matches(list[HitIndex(list, p)], p)
            /\ \A i \in 1 .. Len(list) : i < HitIndex(list, p) => ~matches(list[i], p)
<1> DEFINE hits == {i \in 1 .. Len(list) : matches(list[i], p)}
<1>1. HitIndex(list, p) = IF hits # {} THEN Min(hits) ELSE 0
  BY DEF HitIndex, SelectInSeq
<1>2. hits \in SUBSET Nat /\ IsFiniteSet(hits) /\ Len(list) \in Nat
  <2>1. Len(list) \in Nat /\ hits \in SUBSET (1 .. Len(list))
    OBVIOUS
  <2>2. IsFiniteSet(1 .. Len(list))
    BY <2>1, FS_Interval
  <2>3. IsFiniteSet(hits)
    BY <2>1, <2>2, FS_Subset
  <2> QED BY <2>1, <2>3
<1>3. CASE hits = {}
  BY <1>1, <1>3 DEF Scan
<1>4. CASE hits # {}
  <2>1. Min(hits) \in hits /\ \A i \in hits : Min(hits) <= i
    BY <1>2, <1>4, LeastMember
  <2>2. PICK m : m = Min(hits)
    OBVIOUS
  <2>3. HitIndex(list, p) = m /\ m \in hits /\ \A i \in hits : m <= i
    BY <1>1, <1>4, <2>1, <2>2
  <2>4. m \in 1 .. Len(list) /\ m # 0 /\ matches(list[m], p)
    BY <2>3, <1>2
  <2>5. \A i \in 1 .. Len(list) : i < m => ~matches(list[i], p)
    BY <2>3, <2>4, <1>2
  <2> QED BY <2>3, <2>4, <2>5 DEF Scan
<1> QED BY <1>3, <1>4

\* What matches with nothing before it that does is what a scan finds.
LEMMA ScanFirst ==
  ASSUME NEW S, NEW list \in Seq(S), NEW p, NEW i \in 1 .. Len(list),
         matches(list[i], p), \A j \in 1 .. Len(list) : j < i => ~matches(list[j], p)
  PROVE  Scan(list, p) = list[i]
<1>1. PICK m : m = HitIndex(list, p)
  OBVIOUS
<1>2. /\ m \in 1 .. Len(list) /\ Scan(list, p) = list[m] /\ matches(list[m], p)
      /\ \A j \in 1 .. Len(list) : j < m => ~matches(list[j], p)
  BY <1>1, ScanFinds
<1>3. ~(m < i) /\ ~(i < m)
  BY <1>2
<1> QED BY <1>2, <1>3

\* Where at most one handler of a list matches, every list of the same handlers
\* is scanned alike.
LEMMA ScanAlike ==
  ASSUME NEW S, NEW list \in Seq(S), NEW other \in Seq(S), Range(other) = Range(list),
         NEW p, \A h, g \in Range(list) : matches(h, p) /\ matches(g, p) => h = g
  PROVE  Scan(other, p) = Scan(list, p)
<1>1. /\ \A i \in 1 .. Len(list) : list[i] \in Range(list)
      /\ \A i \in 1 .. Len(other) : other[i] \in Range(list)
      /\ \A h \in Range(list) : \E i \in 1 .. Len(list) : list[i] = h
      /\ \A h \in Range(list) : \E i \in 1 .. Len(other) : other[i] = h
  BY RangeOf
<1>2. \/ Scan(list, p) = Nobody /\ \A h \in Range(list) : ~matches(h, p)
      \/ Scan(list, p) \in Range(list) /\ matches(Scan(list, p), p)
  BY <1>1, ScanFinds
<1>3. \/ Scan(other, p) = Nobody /\ \A h \in Range(list) : ~matches(h, p)
      \/ Scan(other, p) \in Range(list) /\ matches(Scan(other, p), p)
  <2>1. PICK m : m = HitIndex(other, p)
    OBVIOUS
  <2>2. \/ Scan(other, p) = Nobody /\ \A i \in 1 .. Len(other) : ~matches(other[i], p)
        \/ m \in 1 .. Len(other) /\ Scan(other, p) = other[m] /\ matches(other[m], p)
    BY <2>1, ScanFinds
  <2>3. CASE /\ Scan(other, p) = Nobody
             /\ \A i \in 1 .. Len(other) : ~matches(other[i], p)
    <3>1. ASSUME NEW h \in Range(list) PROVE ~matches(h, p)
      <4>1. PICK i \in 1 .. Len(other) : other[i] = h
        BY <1>1
      <4> QED BY <2>3, <4>1
    <3> QED BY <2>3, <3>1
  <2>4. CASE m \in 1 .. Len(other) /\ Scan(other, p) = other[m] /\ matches(other[m], p)
    <3>1. other[m] \in Range(list)
      BY <1>1, <2>4
    <3> QED BY <2>4, <3>1
  <2> QED BY <2>2, <2>3, <2>4
<1> QED BY <1>2, <1>3

\* Handlers that do not overlap: no two of them match one packet.
LEMMA DisjointMatch ==
  ASSUME NEW S, NEW list \in Seq(S), Disjoint(list), NEW p
  PROVE  \A h, g \in Range(list) : matches(h, p) /\ matches(g, p) => h = g
BY DEF Disjoint, Range, matches

\* The indices of a list are as many as it is long.
LEMMA CountUpTo ==
  ASSUME NEW n \in Nat
  PROVE  IsFiniteSet(1 .. n) /\ Cardinality(1 .. n) = n
<1>1. 1 \in Int /\ n \in Int
  OBVIOUS
<1>2. IsFiniteSet(1 .. n) /\ Cardinality(1 .. n) = IF 1 > n THEN 0 ELSE n - 1 + 1
  BY <1>1, FS_Interval
<1>3. (IF 1 > n THEN 0 ELSE n - 1 + 1) = n
  OBVIOUS
<1> QED BY <1>2, <1>3

\* A list sorted by an order of its indices holds what the list holds.
LEMMA SortedHolds ==
  ASSUME NEW S, NEW list \in Seq(S), NEW I, I = DOMAIN list, NEW R, Orders(R, I)
  PROVE  /\ Sorted(list, I, R) \in Seq(Range(list))
         /\ Len(Sorted(list, I, R)) = Len(list)
         /\ Range(Sorted(list, I, R)) = Range(list)
<1>1. PICK sorted : sorted = Sorted(list, I, R)
  OBVIOUS
<1>2. /\ sorted \in Seq(Range(sorted)) /\ Len(sorted) = Cardinality(I)
      /\ \A i \in I : \E n \in 1 .. Cardinality(I) : sorted[n] = list[i]
      /\ \A n \in 1 .. Cardinality(I) : \E i \in I : sorted[n] = list[i]
  <2>1. InPlace(sorted, list, I, R)
    BY <1>1, SortedPlaces
  <2> QED BY <2>1 DEF InPlace
<1>3. Len(list) \in Nat /\ I = 1 .. Len(list)
  OBVIOUS
<1>4. Cardinality(I) = Len(list)
  BY <1>3, CountUpTo
<1>5. Range(sorted) = Range(list)
  <2>1. \A i \in 1 .. Len(list) : \E n \in 1 .. Len(sorted) : list[i] = sorted[n]
    BY <1>2, <1>3, <1>4
  <2>2. \A n \in 1 .. Len(sorted) : \E i \in 1 .. Len(list) : sorted[n] = list[i]
    BY <1>2, <1>3, <1>4
  <2> QED BY <1>2, <2>1, <2>2, RangesAlike
<1>6. sorted \in Seq(Range(list))
  BY <1>2, <1>5
<1> QED BY <1>1, <1>2, <1>4, <1>5, <1>6

\* A list sorted by frequency holds what the list holds.
LEMMA OrderedHolds ==
  ASSUME NEW S, NEW list \in Seq(S), NEW freq \in [DOMAIN list -> Nat]
  PROVE  /\ Ordered(list, freq) \in Seq(Range(list))
         /\ Len(Ordered(list, freq)) = Len(list)
         /\ Range(Ordered(list, freq)) = Range(list)
<1>1. PICK I, R : I = DOMAIN list /\ R = Oftener(freq, I)
  OBVIOUS
<1>2. Len(list) \in Nat /\ I = 1 .. Len(list) /\ \A i \in I : i \in Nat /\ freq[i] \in Nat
  BY <1>1
<1>3. IsFiniteSet(I)
  BY <1>2, CountUpTo
<1>4. \A i, j \in I : <<i, j>> \in R <=> freq[i] > freq[j] \/ (freq[i] = freq[j] /\ i < j)
  BY <1>1 DEF Oftener
<1>5. \A i \in I : <<i, i>> \notin R
  BY <1>2, <1>4
<1>6. \A i, j \in I : i # j => <<i, j>> \in R \/ <<j, i>> \in R
  BY <1>2, <1>4
<1>7. ASSUME NEW i \in I, NEW j \in I, NEW k \in I, <<i, j>> \in R, <<j, k>> \in R
      PROVE  <<i, k>> \in R
  <2>1. /\ freq[i] > freq[j] \/ (freq[i] = freq[j] /\ i < j)
        /\ freq[j] > freq[k] \/ (freq[j] = freq[k] /\ j < k)
    BY <1>4, <1>7
  <2>2. freq[i] > freq[k] \/ (freq[i] = freq[k] /\ i < k)
    BY <1>2, <2>1
  <2> QED BY <1>4, <2>2
<1>8. Orders(R, I)
  BY <1>3, <1>5, <1>6, <1>7 DEF Orders
<1>9. Ordered(list, freq) = Sorted(list, I, R)
  BY <1>1 DEF Ordered
<1> QED BY <1>1, <1>8, <1>9, SortedHolds

\* A promotion swaps neighbours: the list keeps its length and its handlers.
LEMMA PromoteHolds ==
  ASSUME NEW S, NEW list \in Seq(S), NEW p
  PROVE  /\ Promote(list, p) \in Seq(S)
         /\ Len(Promote(list, p)) = Len(list)
         /\ Range(Promote(list, p)) = Range(list)
<1>1. PICK m : m = HitIndex(list, p)
  OBVIOUS
<1>2. Len(list) \in Nat /\ m \in 0 .. Len(list)
  BY <1>1, ScanFinds
<1>3. CASE m <= 1
  BY <1>1, <1>3 DEF Promote
<1>4. CASE ~(m <= 1)
  <2>1. m \in 1 .. Len(list) /\ m - 1 \in 1 .. Len(list) /\ m # m - 1
    BY <1>2, <1>4
  <2>2. Promote(list, p) = [list EXCEPT ![m] = list[m - 1], ![m - 1] = list[m]]
    BY <1>1, <1>4 DEF Promote
  <2>3. PICK l : l = m - 1
    OBVIOUS
  <2>4. PICK new : new = Promote(list, p)
    OBVIOUS
  <2>5. new = [[list EXCEPT ![m] = list[l]] EXCEPT ![l] = list[m]]
    BY <2>2, <2>3, <2>4
  <2>6. /\ new \in Seq(S) /\ Len(new) = Len(list)
        /\ \A i \in 1 .. Len(list) :
             new[i] = IF i = l THEN list[m] ELSE IF i = m THEN list[l] ELSE list[i]
    BY <2>1, <2>3, <2>5
  <2>8. \A i \in 1 .. Len(list) : \E j \in 1 .. Len(list) : new[i] = list[j]
    BY <2>1, <2>3, <2>6
  <2>9. \A i \in 1 .. Len(list) : \E j \in 1 .. Len(list) : list[i] = new[j]
    BY <2>1, <2>3, <2>6
  <2>10. Range(new) = Range(list)
    <3> HIDE DEF Promote
    <3>1. \A i \in 1 .. Len(new) : \E j \in 1 .. Len(list) : new[i] = list[j]
      BY <2>6, <2>8
    <3>2. \A i \in 1 .. Len(list) : \E j \in 1 .. Len(new) : list[i] = new[j]
      BY <2>6, <2>9
    <3> QED BY <2>6, <3>1, <3>2, RangesAlike
  <2> QED BY <2>4, <2>6, <2>10
<1> QED BY <1>2, <1>3, <1>4

(* --------------------------------- tables -------------------------------- *)

\* The indices of a key's handlers.
Claims(list, k) == {i \in DOMAIN list : list[i].key = k}

\* A key's candidates are its handlers, in registration order.
LEMMA CandidatesInPlace ==
  ASSUME NEW S, NEW list \in Seq(S), NEW k
  PROVE  /\ Orders(Earlier(Claims(list, k)), Claims(list, k))
         /\ InPlace(Candidates(list, k), list, Claims(list, k), Earlier(Claims(list, k)))
<1>1. PICK I : I = Claims(list, k)
  OBVIOUS
<1>2. Len(list) \in Nat /\ I \in SUBSET (1 .. Len(list)) /\ I \in SUBSET Nat
  BY <1>1 DEF Claims
<1>3. IsFiniteSet(I)
  BY <1>2, CountUpTo, FS_Subset
<1>4. Orders(Earlier(I), I)
  BY <1>2, <1>3, EarlierOrders
<1>5. Candidates(list, k) = Sorted(list, I, Earlier(I))
  BY <1>1 DEF Candidates, Claims
<1> QED BY <1>1, <1>4, <1>5, SortedPlaces

\* The first of a packet's candidates to match is the first of the list to match.
LEMMA CandidatesScan ==
  ASSUME NEW S, NEW list \in Seq(S), NEW p
  PROVE  Scan(Candidates(list, p.protocol), p) = Scan(list, p)
<1>1. PICK k, I, R, cands : /\ k = p.protocol /\ I = Claims(list, k) /\ R = Earlier(I)
                            /\ cands = Candidates(list, k)
  OBVIOUS
<1>2. Orders(R, I) /\ InPlace(cands, list, I, R)
  BY <1>1, CandidatesInPlace
<1>3. PICK size : size = Cardinality(I)
  OBVIOUS
<1>4. /\ cands \in Seq(Range(cands)) /\ Len(cands) = size /\ size \in Nat
      /\ \A i \in I : \E n \in 1 .. size :
           n = Cardinality(Before(i, R, I)) + 1 /\ cands[n] = list[i]
      /\ \A n \in 1 .. size : \E i \in I :
           n = Cardinality(Before(i, R, I)) + 1 /\ cands[n] = list[i]
  BY <1>2, <1>3 DEF InPlace
<1>5. /\ Len(list) \in Nat
      /\ \A i : i \in I <=> i \in 1 .. Len(list) /\ list[i].key = k
  BY <1>1 DEF Claims
<1>6. \A i, j \in I : i < j => Cardinality(Before(i, R, I)) < Cardinality(Before(j, R, I))
  <2>1. \A i, j \in I : i < j => <<i, j>> \in R
    BY <1>1 DEF Earlier
  <2> QED BY <1>2, <2>1, RanksApart
<1>7. \A i \in I : Cardinality(Before(i, R, I)) \in 0 .. size - 1
  BY <1>2, <1>3, RanksApart
<1>8. PICK m : m = HitIndex(list, p)
  OBVIOUS
<1>9. CASE Scan(list, p) = Nobody /\ \A i \in 1 .. Len(list) : ~matches(list[i], p)
  <2>1. \A n \in 1 .. Len(cands) : ~matches(cands[n], p)
    BY <1>4, <1>5, <1>9
  <2>2. Scan(cands, p) = Nobody
    BY <1>4, <2>1, ScanFinds
  <2> QED BY <1>1, <1>9, <2>2
<1>10. CASE /\ m \in 1 .. Len(list) /\ Scan(list, p) = list[m] /\ matches(list[m], p)
            /\ \A i \in 1 .. Len(list) : i < m => ~matches(list[i], p)
  <2>1. m \in I
    BY <1>1, <1>5, <1>10 DEF matches
  <2>2. PICK n \in 1 .. size : n = Cardinality(Before(m, R, I)) + 1 /\ cands[n] = list[m]
    BY <1>4, <2>1
  <2>3. ASSUME NEW l \in 1 .. Len(cands), l < n
        PROVE  ~matches(cands[l], p)
    <3>1. PICK i \in I : l = Cardinality(Before(i, R, I)) + 1 /\ cands[l] = list[i]
      BY <1>4
    <3>2. i \in 1 .. Len(list)
      BY <1>5
    <3>3. Cardinality(Before(i, R, I)) < Cardinality(Before(m, R, I))
      BY <1>7, <2>1, <2>2, <2>3, <3>1
    <3>4. ~(m < i) /\ i # m
      BY <1>6, <1>7, <2>1, <3>3
    <3>5. i < m
      BY <1>10, <3>2, <3>4
    <3> QED BY <1>10, <3>1, <3>2, <3>5
  <2>4. Scan(cands, p) = cands[n]
    BY <1>4, <1>10, <2>2, <2>3, ScanFirst
  <2> QED BY <1>1, <1>10, <2>2, <2>4
<1> QED BY <1>8, <1>9, <1>10, ScanFinds

\* Handlers as Slot expects them: somebody, and pure unless declared residual.
Declared(list) ==
  \A h \in Range(list) : h # Nobody /\ (~h.residual => h.takes = Payloads)

\* A key's slot answers as the whole list does.
LEMMA SlotScan ==
  ASSUME NEW S, NEW list \in Seq(S), Declared(list), NEW p, p.low \in Payloads
  PROVE  FromSlot(Slot(list, p.protocol), p) = Scan(list, p)
<1>1. PICK k, I, R, cands : /\ k = p.protocol /\ I = Claims(list, k) /\ R = Earlier(I)
                            /\ cands = Candidates(list, k)
  OBVIOUS
<1>2. InPlace(cands, list, I, R)
  BY <1>1, CandidatesInPlace
<1>3. Scan(cands, p) = Scan(list, p)
  BY <1>1, CandidatesScan
<1>4. CASE Len(cands) = 1 /\ ~cands[1].residual
  <2>1. Slot(list, k) = [key |-> k, only |-> cands[1], cands |-> <<>>]
    BY <1>1, <1>4 DEF Slot
  <2>2. PICK i \in I : cands[1] = list[i]
    BY <1>2, <1>4 DEF InPlace
  <2>3. cands[1] \in Range(list) /\ cands[1].key = k
    BY <1>1, <2>2 DEF Claims, Range
  <2>4. cands[1] # Nobody /\ matches(cands[1], p)
    BY <1>1, <1>4, <2>3 DEF Declared, matches
  <2>5. 1 \in 1 .. Len(cands) /\ \A j \in 1 .. Len(cands) : ~(j < 1)
    BY <1>4
  <2>6. Scan(cands, p) = cands[1]
    BY <1>2, <2>4, <2>5, ScanFirst DEF InPlace
  <2>7. FromSlot(Slot(list, k), p) = cands[1]
    BY <2>1, <2>4 DEF FromSlot
  <2> QED BY <1>1, <1>3, <2>6, <2>7
<1>5. CASE ~(Len(cands) = 1 /\ ~cands[1].residual)
  <2>1. Slot(list, k) = [key |-> k, only |-> Nobody, cands |-> cands]
    BY <1>1, <1>5 DEF Slot
  <2>2. FromSlot(Slot(list, k), p) = Scan(cands, p)
    BY <2>1 DEF FromSlot
  <2> QED BY <1>1, <1>3, <2>2
<1> QED BY <1>4, <1>5

\* The directly indexed table finds what the scan finds.
LEMMA DirectScan ==
  ASSUME NEW S, NEW list \in Seq(S), Declared(list), NEW p, p.low \in Payloads
  PROVE  DispatchDirect16(TableDirect16(list), p) = Scan(list, p)
<1>1. PICK tbl : tbl = TableDirect16(list)
  OBVIOUS
<1>2. tbl = [k \in {h.key : h \in Range(list)} |-> Slot(list, k)]
  BY <1>1 DEF TableDirect16
<1>3. CASE p.protocol \in {h.key : h \in Range(list)}
  <2>1. DispatchDirect16(tbl, p) = FromSlot(Slot(list, p.protocol), p)
    BY <1>2, <1>3 DEF DispatchDirect16
  <2> QED BY <1>1, <2>1, SlotScan
<1>4. CASE p.protocol \notin {h.key : h \in Range(list)}
  <2>1. DispatchDirect16(tbl, p) = Nobody
    BY <1>2, <1>4 DEF DispatchDirect16
  <2>2. \A i \in 1 .. Len(list) : ~matches(list[i], p)
    BY <1>4, RangeOf DEF matches
  <2> QED BY <1>1, <2>1, <2>2, ScanFinds
<1> QED BY <1>3, <1>4

\* So does the compact table, where no two keys fall in one bucket.
LEMMA CompactScan ==
  ASSUME NEW S, NEW list \in Seq(S), Declared(list), TableCompact(list).injective,
         NEW p, p.low \in Payloads
  PROVE  DispatchCompact(TableCompact(list).tbl, p) = Scan(list, p)
<1> DEFINE falls(b) == {i \in DOMAIN list : Bucket(list[i].key) = b}
           holder(b) == list[Min(falls(b))].key
           buckets == {Bucket(h.key) : h \in Range(list)}
<1>1. PICK tbl : tbl = TableCompact(list).tbl
  OBVIOUS
<1>2. /\ tbl = [b \in buckets |-> Slot(list, holder(b))]
      /\ \A h, g \in Range(list) : Bucket(h.key) = Bucket(g.key) => h.key = g.key
  BY <1>1 DEF TableCompact
<1>3. PICK b : b = Bucket(p.protocol)
  OBVIOUS
<1>4. /\ DOMAIN list = 1 .. Len(list)
      /\ \A i \in 1 .. Len(list) : list[i] \in Range(list)
      /\ \A h \in Range(list) : \E i \in 1 .. Len(list) : list[i] = h
  BY RangeOf
<1>5. CASE b \in buckets
  <2>1. falls(b) \in SUBSET Nat /\ IsFiniteSet(falls(b)) /\ falls(b) # {}
    <3>1. Len(list) \in Nat /\ falls(b) \in SUBSET (1 .. Len(list))
      OBVIOUS
    <3>2. IsFiniteSet(falls(b))
      BY <3>1, CountUpTo, FS_Subset
    <3>3. PICK h \in Range(list) : Bucket(h.key) = b
      BY <1>5
    <3>4. PICK i \in 1 .. Len(list) : list[i] = h
      BY <1>4
    <3>5. i \in falls(b)
      BY <3>3, <3>4
    <3> QED BY <3>1, <3>2, <3>5
  <2>2. Min(falls(b)) \in falls(b)
    BY <2>1, LeastMember
  <2>3. PICK k : k = holder(b)
    OBVIOUS
  <2>4. PICK h \in Range(list) : h.key = k /\ Bucket(k) = b
    <3>1. PICK m : m = Min(falls(b))
      OBVIOUS
    <3>2. m \in 1 .. Len(list) /\ Bucket(list[m].key) = b /\ list[m].key = k
      BY <1>4, <2>2, <2>3, <3>1
    <3> QED BY <1>4, <3>2
  <2>5. tbl[b] = Slot(list, k) /\ b \in DOMAIN tbl
    BY <1>2, <1>5, <2>3
  <2>6. tbl[b].key = k
    BY <2>5 DEF Slot
  <2>7. CASE p.protocol = k
    <3>1. DispatchCompact(tbl, p) = FromSlot(Slot(list, p.protocol), p)
      BY <1>3, <2>5, <2>6, <2>7 DEF DispatchCompact
    <3> QED BY <1>1, <3>1, SlotScan
  <2>8. CASE p.protocol # k
    <3>1. DispatchCompact(tbl, p) = Nobody
      BY <1>3, <2>6, <2>8 DEF DispatchCompact
    <3>2. \A i \in 1 .. Len(list) : ~matches(list[i], p)
      BY <1>2, <1>3, <1>4, <2>4, <2>8 DEF matches
    <3> QED BY <1>1, <3>1, <3>2, ScanFinds
  <2> QED BY <2>7, <2>8
<1>6. CASE b \notin buckets
  <2>1. DispatchCompact(tbl, p) = Nobody
    BY <1>2, <1>3, <1>6 DEF DispatchCompact
  <2>2. \A i \in 1 .. Len(list) : ~matches(list[i], p)
    BY <1>3, <1>4, <1>6 DEF matches
  <2> QED BY <1>1, <2>1, <2>2, ScanFinds
<1> QED BY <1>5, <1>6

\* Whatever falls in one bucket, the compact table finds what the scan finds, or
\* nobody.
LEMMA CompactFinds ==
  ASSUME NEW S, NEW list \in Seq(S), Declared(list), NEW p, p.low \in Payloads
  PROVE  DispatchCompact(TableCompact(list).tbl, p) \in {Scan(list, p), Nobody}
<1> DEFINE falls(b) == {i \in DOMAIN list : Bucket(list[i].key) = b}
           holder(b) == list[Min(falls(b))].key
           buckets == {Bucket(h.key) : h \in Range(list)}
<1>1. PICK tbl : tbl = TableCompact(list).tbl
  OBVIOUS
<1>2. tbl = [b \in buckets |-> Slot(list, holder(b))]
  BY <1>1 DEF TableCompact
<1>3. PICK b : b = Bucket(p.protocol)
  OBVIOUS
<1>4. CASE b \in DOMAIN tbl /\ tbl[b].key = p.protocol
  <2>1. PICK k : k = holder(b)
    OBVIOUS
  <2>2. tbl[b] = Slot(list, k)
    BY <1>2, <1>4, <2>1
  <2>3. k = p.protocol
    BY <1>4, <2>2 DEF Slot
  <2>4. DispatchCompact(tbl, p) = FromSlot(Slot(list, p.protocol), p)
    BY <1>3, <1>4, <2>2, <2>3 DEF DispatchCompact
  <2> QED BY <1>1, <2>4, SlotScan
<1>5. CASE ~(b \in DOMAIN tbl /\ tbl[b].key = p.protocol)
  BY <1>1, <1>3, <1>5 DEF DispatchCompact
<1> QED BY <1>4, <1>5

(* ------------------------- the inductive invariant ----------------------- *)

\* The streams an arm is built for draw every handler some number of times.
LEMMA FrequenciesType ==
  \A n \in 1 .. MaxHandlers : \A freq \in Frequencies[n] : freq \in [1 .. n -> Nat]
<1> SUFFICES ASSUME NEW n \in 1 .. MaxHandlers, NEW freq \in Frequencies[n]
             PROVE  freq \in [1 .. n -> Nat]
  OBVIOUS
<1>1. PICK s \in UNION {Streams(d, n) : d \in Distributions} : freq = frequencies(n, s)
  BY DEF Frequencies
<1>2. DOMAIN s = 1 .. kPacketPool
  BY DEF Streams
<1>3. IsFiniteSet(1 .. kPacketPool)
  BY HandlersAssumption, CountUpTo
<1>4. \A h \in 1 .. n : Cardinality({i \in DOMAIN s : s[i].handler = h}) \in Nat
  <2> TAKE h \in 1 .. n
  <2>1. {i \in DOMAIN s : s[i].handler = h} \in SUBSET (1 .. kPacketPool)
    BY <1>2
  <2> QED BY <1>3, <2>1, FS_Subset, FS_CardinalityType
<1> QED BY <1>1, <1>4 DEF frequencies

\* The entry points of a library that passed the gates: those up to destroy are there,
\* and the gates let the host read the others.
LEMMA UsableFields ==
  ASSUME NEW lib, Usable(lib)
  PROVE  /\ lib \in Libraries /\ lib # "host" /\ lib # NoApi
         /\ \A f \in {"claimed_keys", "create", "destroy", "process", "process_batch"} :
              f \in Fields /\ Gated(lib, f)
<1>1. PICK l \in Loaders : lib \in Finds[l]
  BY DEF Usable
<1>2. lib \in Libraries /\ lib # "host" /\ lib # NoApi
  BY <1>1, PluginsAssumption
<1>3. Image[lib].size \in Nat /\ Image[lib].size >= 32
  BY <1>2, ImagesAssumption
  DEF Usable, Accepted, LongEnough, Offset, Fields, FieldEnd
<1>4. \A f \in {"claimed_keys", "create", "destroy"} : Has(lib, f)
  BY <1>3 DEF Has, FieldEnd
<1>5. \A f \in {"claimed_keys", "create", "destroy", "process", "process_batch"} :
        f \in Fields
  BY DEF Fields, FieldEnd
<1> QED BY <1>2, <1>4, <1>5 DEF Usable, Accepted, Gated

\* An adapter, and a handler of the host.
LEMMA WellformedFields ==
  ASSUME NEW h, Wellformed(h)
  PROVE  /\ h # Nobody /\ (~h.residual => h.takes = Payloads)
         /\ h.api = "host" => h \in HostHandlers /\ h.self = "host"
         /\ h.api # "host" =>
              /\ FromPlugin(h) /\ Usable(h.api) /\ h.api \in mapped
              /\ h.self \in Selves \cup {NoSelf}
<1>1. CASE h \in HostHandlers
  <2>1. /\ h = HostHandler(h.id, h.key, h.tag, h.residual, h.takes)
        /\ ~h.residual => h.takes = Payloads
    BY <1>1, HandlersAssumption
  <2>2. h.api = "host" /\ h.self = "host"
    BY <2>1 DEF HostHandler
  <2>3. DOMAIN h # DOMAIN Nobody
    <3>1. DOMAIN h = {"id", "key", "tag", "residual", "takes", "api", "self"}
      BY <2>1 DEF HostHandler
    <3>2. DOMAIN Nobody = {"id"}
      BY DEF Nobody
    <3> QED BY <3>1, <3>2
  <2> QED BY <1>1, <2>1, <2>2, <2>3
<1>2. CASE FromPlugin(h)
  <2>1. h = PluginBackedHandler(h.api, h.key, h.self) /\ Usable(h.api)
    BY <1>2 DEF FromPlugin
  <2>2. h.residual = FALSE /\ h.takes = 0 .. 3
    BY <2>1 DEF PluginBackedHandler
  <2>3. DOMAIN h # DOMAIN Nobody
    <3>1. DOMAIN h = {"id", "key", "tag", "residual", "takes", "api", "self"}
      BY <2>1 DEF PluginBackedHandler
    <3>2. DOMAIN Nobody = {"id"}
      BY DEF Nobody
    <3> QED BY <3>1, <3>2
  <2>4. h.api # "host"
    BY <2>1, UsableFields
  <2> QED BY <1>2, <2>2, <2>3, <2>4 DEF FromPlugin, Payloads
<1> QED BY <1>1, <1>2 DEF Wellformed

\* The registered handlers are somebody, and pure unless declared residual.
LEMMA RegisteredDeclared ==
  ASSUME HandlersSound
  PROVE  Declared(registered) /\ \A h \in Range(registered) : Wellformed(h)
<1>1. \A h \in Range(registered) : Wellformed(h)
  BY DEF HandlersSound, Range
<1> QED BY <1>1, WellformedFields DEF Declared

\* What an arm finds is registered.
LEMMA FoundRegistered ==
  ASSUME HandlersSound, ArmsSound, phase = "traffic", NEW a \in Arms, NEW p \in Packets
  PROVE  Found(arms, a, p) \in Range(registered) \cup {Nobody}
<1>1. p.low \in Payloads /\ Declared(registered) /\ registered \in Seq(Range(registered))
  BY HandlersAssumption, RegisteredDeclared DEF HandlersSound
<1>2. ASSUME NEW S, NEW list \in Seq(S), Range(list) = Range(registered)
      PROVE  Scan(list, p) \in Range(registered) \cup {Nobody}
  <2>1. PICK m : m = HitIndex(list, p)
    OBVIOUS
  <2>2. \/ Scan(list, p) = Nobody /\ \A i \in 1 .. Len(list) : ~matches(list[i], p)
        \/ m \in 1 .. Len(list) /\ Scan(list, p) = list[m] /\ matches(list[m], p)
    BY <2>1, ScanFinds
  <2>3. \A i \in 1 .. Len(list) : list[i] \in Range(list)
    BY RangeOf
  <2> QED BY <1>2, <2>2, <2>3
<1>3. CASE a \in {"unordered", "ordered", "mtf"}
  <2>1. Found(arms, a, p) = Scan(arms[a], p)
    BY <1>3 DEF Found
  <2>2. arms[a] \in Seq(Range(registered)) /\ Range(arms[a]) = Range(registered)
    BY <1>1, <1>3 DEF ArmsSound, Holds
  <2> QED BY <1>2, <2>1, <2>2
<1>4. CASE a = "direct"
  <2>1. Found(arms, a, p) = DispatchDirect16(TableDirect16(registered), p)
    BY <1>4 DEF Found, ArmsSound
  <2> QED BY <1>1, <1>2, <2>1, DirectScan
<1>5. CASE a = "compact"
  <2>1. Found(arms, a, p) = DispatchCompact(TableCompact(registered).tbl, p)
    BY <1>5 DEF Found, ArmsSound
  <2> QED BY <1>1, <1>2, <2>1, CompactFinds
<1> QED BY <1>3, <1>4, <1>5 DEF Arms

\* An arm freshly built holds the list, in its order or another.
LEMMA ArmsBuilt ==
  ASSUME NEW S, NEW list \in Seq(S), NEW freq \in [1 .. Len(list) -> Nat],
         NEW new, new = NewArms(list, freq)
  PROVE  /\ DOMAIN new = Arms
         /\ new.unordered = list /\ new.mtf = list
         /\ new.ordered \in Seq(Range(list)) /\ Len(new.ordered) = Len(list)
         /\ Range(new.ordered) = Range(list)
         /\ new.direct = TableDirect16(list) /\ new.compact = TableCompact(list)
<1>1. DOMAIN list = 1 .. Len(list)
  OBVIOUS
<1>2. new.ordered = Ordered(list, freq)
  BY DEF NewArms
<1>3. /\ new.ordered \in Seq(Range(list)) /\ Len(new.ordered) = Len(list)
      /\ Range(new.ordered) = Range(list)
  BY <1>1, <1>2, OrderedHolds
<1> QED BY <1>3 DEF NewArms, Arms

\* Nothing is loaded, registered or live at first.
LEMMA YardInit == Init => YardInv
<1> SUFFICES ASSUME Init PROVE YardInv
  OBVIOUS
<1>1. Loaded
  BY DEF Init, HostInit, Loaded
<1>2. registered = <<>> /\ Len(registered) = 0 /\ DOMAIN registered = {}
  BY DEF Init
<1>3. HandlersSound
  BY <1>2, HandlersAssumption DEF HandlersSound
<1>4. Holding = {} /\ DOMAIN maker = {}
  BY <1>2 DEF Holding, Init, HostInit
<1>5. Paired
  BY <1>4 DEF Paired
<1>6. ArmsSound
  BY DEF Init, ArmsSound
<1>7. TouchedSound
  BY DEF Init, HostInit, TouchedSound
<1> QED BY <1>1, <1>3, <1>5, <1>6, <1>7 DEF YardInv

\* What depends on the handlers alone is kept while they, their instances and the
\* arms are: a library once mapped stays.
LEMMA KeptHandlers ==
  ASSUME YardInv, registered' = registered, mapped \subseteq mapped'
  PROVE  /\ HandlersSound'
         /\ maker' = maker => Paired'
         /\ phase' = phase /\ arms' = arms => ArmsSound'
<1>1. \A h : Wellformed(h) => Wellformed(h)'
  BY DEF Wellformed, FromPlugin
<1>2. HandlersSound'
  BY <1>1 DEF YardInv, HandlersSound
<1>3. maker' = maker => Paired'
  BY DEF YardInv, Paired, Holding
<1>4. phase' = phase /\ arms' = arms => ArmsSound'
  BY DEF YardInv, ArmsSound, Holds
<1> QED BY <1>2, <1>3, <1>4

\* Reading fields of a struct that the gates allow.
LEMMA TouchFields ==
  ASSUME NEW lib \in Libraries, NEW fields \in SUBSET Fields,
         \A f \in fields : Gated(lib, f),
         touched' = {lib} \X fields
  PROVE  TouchedSound'
BY DEF TouchedSound

\* A step that reads no struct.
LEMMA TouchNothing ==
  ASSUME touched' = {}
  PROVE  TouchedSound'
BY DEF TouchedSound

\* Loading: the library the gate lets through is mapped and held, and only fields of it are read.
LEMMA LoadStep ==
  ASSUME YardInv, NEW l \in Loaders, LoadPlugin(l)
  PROVE  YardInv'
<1>1. PICK lib \in Finds[l] : Load(l, lib)
  BY DEF LoadPlugin
<1>2. UNCHANGED <<maker, phase, registered, arms>>
  BY <1>1 DEF LoadPlugin, dispatchVars, Load
<1>3. /\ api' = [api EXCEPT ![l] = IF Accepted(lib) THEN lib ELSE NoApi]
      /\ mapped' = IF Image[lib].entry = "unreadable" THEN mapped ELSE mapped \cup {lib}
  BY <1>1 DEF Load
<1>4. lib \in Libraries /\ mapped \subseteq mapped' /\ mapped' \subseteq Libraries
  BY <1>3, PluginsAssumption DEF YardInv, Loaded
<1>5. Loaded'
  <2>1. api' \in [Loaders -> Libraries \cup {NoApi}]
    BY <1>3, <1>4 DEF YardInv, Loaded
  <2>2. ASSUME NEW k \in Loaders, api'[k] # NoApi
        PROVE  api'[k] \in Finds[k] /\ api'[k] \in mapped' /\ Accepted(api'[k])
    <3>1. CASE k = l
      <4>1. Accepted(lib) /\ api'[k] = lib
        BY <1>3, <2>2, <3>1 DEF YardInv, Loaded
      <4>2. lib \in mapped'
        BY <1>3, <4>1 DEF Accepted
      <4> QED BY <3>1, <4>1, <4>2
    <3>2. CASE k # l
      <4>1. api'[k] = api[k]
        BY <1>3, <3>2 DEF YardInv, Loaded
      <4> QED BY <1>4, <2>2, <4>1 DEF YardInv, Loaded
    <3> QED BY <3>1, <3>2
  <2> QED BY <1>4, <2>1, <2>2 DEF Loaded
<1>6. TouchedSound'
  <2> DEFINE fields == (IF Image[lib].entry = "api" THEN {"abi_version"} ELSE {})
                       \cup (IF Image[lib].entry = "api" /\ SpeaksVersion(lib)
                             THEN {"struct_size"} ELSE {})
  <2>1. touched' = {lib} \X fields
    BY <1>1 DEF Load, Touch
  <2>2. fields \in SUBSET Fields
    BY DEF Fields, FieldEnd
  <2>3. Image[lib].entry = "api" => Has(lib, "abi_version") /\ Has(lib, "struct_size")
    BY <1>4, ImagesAssumption DEF Has, FieldEnd
  <2>4. \A f \in fields : Gated(lib, f)
    BY <2>3 DEF Gated
  <2> HIDE DEF fields
  <2> QED BY <1>4, <2>1, <2>2, <2>4, TouchFields
<1> QED BY <1>2, <1>4, <1>5, <1>6, KeptHandlers DEF YardInv

\* Dropping: the loader lets go, the code and the instances stay.
LEMMA DropStep ==
  ASSUME YardInv, NEW l \in Loaders, DropPlugin(l)
  PROVE  YardInv'
<1>1. /\ UNCHANGED <<mapped, maker, phase, registered, arms>> /\ touched' = {}
      /\ api' = [api EXCEPT ![l] = NoApi]
  BY DEF DropPlugin, Unload, dispatchVars
<1>2. Loaded'
  BY <1>1 DEF YardInv, Loaded
<1> QED BY <1>1, <1>2, KeptHandlers, TouchNothing DEF YardInv

\* A handler added behind the others.
LEMMA AppendHandler ==
  ASSUME HandlersSound, Len(registered) < MaxHandlers, mapped' = mapped,
         NEW h, Wellformed(h), registered' = Append(registered, h)
  PROVE  /\ HandlersSound'
         /\ Len(registered) \in Nat /\ DOMAIN registered = 1 .. Len(registered)
         /\ DOMAIN registered' = 1 .. Len(registered) + 1
         /\ \A i \in 1 .. Len(registered) : registered'[i] = registered[i]
         /\ registered'[Len(registered) + 1] = h
<1>1. PICK list, new, n : list = registered /\ new = registered' /\ n = Len(registered)
  OBVIOUS
<1>2. list \in Seq(Range(list)) /\ n = Len(list) /\ n \in Nat /\ DOMAIN list = 1 .. n
  BY <1>1 DEF HandlersSound
<1>3. /\ new = Append(list, h) /\ Len(new) = n + 1 /\ DOMAIN new = 1 .. n + 1
      /\ \A i \in 1 .. n : new[i] = list[i]
      /\ new[n + 1] = h /\ new \in Seq(Range(list) \cup {h})
  BY <1>1, <1>2
<1>4. new \in Seq(Range(new))
  BY <1>3, RangeOf
<1>5. n + 1 <= MaxHandlers
  BY <1>1, <1>2, HandlersAssumption
<1>6. \A g : Wellformed(g) => Wellformed(g)'
  BY DEF Wellformed, FromPlugin
<1>7. \A i \in 1 .. n : Wellformed(list[i])
  BY <1>1, <1>2 DEF HandlersSound
<1>8. \A i \in 1 .. n + 1 : Wellformed(new[i])'
  <2> TAKE i \in 1 .. n + 1
  <2>1. CASE i \in 1 .. n
    BY <1>3, <1>6, <1>7, <2>1
  <2>2. CASE i = n + 1
    BY <1>3, <1>6, <2>2
  <2> QED BY <1>2, <2>1, <2>2
<1>9. HandlersSound'
  BY <1>1, <1>3, <1>4, <1>5, <1>8 DEF HandlersSound
<1> QED BY <1>1, <1>2, <1>3, <1>9

\* Registering a handler of the host.
LEMMA RegisterStep ==
  ASSUME YardInv, NEW h \in HostHandlers, Register(h)
  PROVE  YardInv'
<1>1. /\ UNCHANGED <<api, mapped, maker, phase, arms>> /\ touched' = {} /\ phase = "setup"
      /\ Len(registered) < MaxHandlers /\ registered' = Append(registered, h)
  BY DEF Register
<1>2. Wellformed(h)
  BY DEF Wellformed
<1>3. PICK n : n = Len(registered)
  OBVIOUS
<1>4. /\ HandlersSound' /\ n \in Nat /\ DOMAIN registered = 1 .. n
      /\ DOMAIN registered' = 1 .. n + 1 /\ registered'[n + 1] = h
      /\ \A i \in 1 .. n : registered'[i] = registered[i]
  BY <1>1, <1>2, <1>3, AppendHandler DEF YardInv
<1>5. h.self \notin Selves
  <2>1. h.self = "host"
    BY HandlersAssumption DEF HostHandler
  <2> QED BY <2>1, PluginsAssumption
<1>6. Holding' = Holding /\ \A i \in Holding : registered'[i] = registered[i]
  BY <1>4, <1>5 DEF Holding
<1>7. Paired'
  <2>1. {registered'[i].self : i \in Holding'} = {registered[i].self : i \in Holding}
    BY <1>6
  <2>2. DOMAIN maker' = {registered'[i].self : i \in Holding'}
    BY <1>1, <2>1 DEF YardInv, Paired
  <2>3. \A i, j \in Holding' : registered'[i].self = registered'[j].self => i = j
    BY <1>6 DEF YardInv, Paired
  <2>4. \A i \in Holding' : maker'[registered'[i].self] = registered'[i].api
    BY <1>1, <1>6 DEF YardInv, Paired
  <2> QED BY <2>2, <2>3, <2>4 DEF Paired
<1>8. Loaded' /\ ArmsSound'
  BY <1>1 DEF YardInv, Loaded, ArmsSound
<1> QED BY <1>1, <1>4, <1>7, <1>8, TouchNothing DEF YardInv

\* Wrapping a key of a plugin: the instance, if create gave one, is new and the adapter's own.
LEMMA AdaptStep ==
  ASSUME YardInv, NEW l \in Loaders, Adapt(l)
  PROVE  YardInv'
<1>1. /\ UNCHANGED <<api, mapped, phase, arms>> /\ phase = "setup" /\ api[l] # NoApi
      /\ Len(registered) < MaxHandlers
      /\ touched' = {api[l]} \X {"claimed_keys", "create"}
  BY DEF Adapt, Touch
<1>2. PICK k \in Range(claimed_keys(l)), self \in Selves \cup {NoSelf} :
        /\ CreateReturns(api[l], self)
        /\ registered' = Append(registered, PluginBackedHandler(api[l], k, self))
  BY DEF Adapt
<1>3. PICK lib, h : lib = api[l] /\ h = PluginBackedHandler(lib, k, self)
  OBVIOUS
<1>4. Usable(lib) /\ lib \in mapped
  BY <1>1, <1>3 DEF YardInv, Loaded, Usable
<1>5. h.self = self /\ h.api = lib /\ h.key = k
  BY <1>3 DEF PluginBackedHandler
<1>6. Wellformed(h)
  BY <1>3, <1>4, <1>5 DEF Wellformed, FromPlugin
<1>7. PICK n : n = Len(registered)
  OBVIOUS
<1>8. /\ HandlersSound' /\ n \in Nat /\ DOMAIN registered = 1 .. n
      /\ DOMAIN registered' = 1 .. n + 1 /\ registered'[n + 1] = h
      /\ \A i \in 1 .. n : registered'[i] = registered[i]
  BY <1>1, <1>2, <1>3, <1>6, <1>7, AppendHandler DEF YardInv
<1>9. Paired'
  <2>0. \A i \in Holding : i \in 1 .. n /\ i # n + 1 /\ registered'[i] = registered[i]
    BY <1>8 DEF Holding
  <2>1. CASE self = NoSelf /\ maker' = maker
    <3>1. self \notin Selves
      BY <2>1, PluginsAssumption
    <3>2. Holding' = Holding
      BY <1>5, <1>8, <3>1 DEF Holding
    <3>3. {registered'[i].self : i \in Holding'} = {registered[i].self : i \in Holding}
      BY <2>0, <3>2
    <3>4. DOMAIN maker' = {registered'[i].self : i \in Holding'}
      BY <2>1, <3>3 DEF YardInv, Paired
    <3>5. \A i, j \in Holding' : registered'[i].self = registered'[j].self => i = j
      BY <2>0, <3>2 DEF YardInv, Paired
    <3>6. \A i \in Holding' : maker'[registered'[i].self] = registered'[i].api
      BY <2>0, <2>1, <3>2 DEF YardInv, Paired
    <3> QED BY <3>4, <3>5, <3>6 DEF Paired
  <2>2. CASE /\ self \in Selves \ DOMAIN maker
             /\ maker' = [s \in DOMAIN maker \cup {self} |-> IF s = self THEN lib ELSE maker[s]]
    <3>1. Holding' = Holding \cup {n + 1}
      BY <1>5, <1>8, <2>2 DEF Holding
    <3>2. \A i \in Holding : registered[i].self # self /\ registered[i].self \in DOMAIN maker
      BY <2>2 DEF YardInv, Paired
    <3>3. {registered'[i].self : i \in Holding'}
             = {registered[i].self : i \in Holding} \cup {self}
      BY <1>5, <1>8, <2>0, <3>1
    <3>4. DOMAIN maker' = {registered'[i].self : i \in Holding'}
      BY <2>2, <3>3 DEF YardInv, Paired
    <3>5. \A i, j \in Holding' : registered'[i].self = registered'[j].self => i = j
      <4>1. \A i, j \in Holding : registered[i].self = registered[j].self => i = j
        BY DEF YardInv, Paired
      <4> QED BY <1>5, <1>8, <2>0, <3>1, <3>2, <4>1
    <3>6. ASSUME NEW i \in Holding'
          PROVE  maker'[registered'[i].self] = registered'[i].api
      <4>1. CASE i = n + 1
        BY <1>5, <1>8, <2>2, <4>1
      <4>2. CASE i \in Holding
        <5>1. registered'[i] = registered[i] /\ maker[registered[i].self] = registered[i].api
          BY <2>0, <4>2 DEF YardInv, Paired
        <5>2. maker'[registered[i].self] = maker[registered[i].self]
          BY <2>2, <3>2, <4>2
        <5> QED BY <5>1, <5>2
      <4> QED BY <3>1, <4>1, <4>2
    <3> QED BY <3>4, <3>5, <3>6 DEF Paired
  <2> QED BY <1>2, <1>3, <2>1, <2>2 DEF CreateReturns
<1>10. TouchedSound'
  <2>1. \A f \in {"claimed_keys", "create"} : f \in Fields /\ Gated(lib, f)
    BY <1>4, UsableFields
  <2>2. lib \in Libraries
    BY <1>4, UsableFields
  <2>3. PICK fields : fields = {"claimed_keys", "create"}
    OBVIOUS
  <2>4. fields \in SUBSET Fields
    BY <2>1, <2>3
  <2> QED BY <1>1, <1>3, <2>1, <2>2, <2>3, <2>4, TouchFields
<1>11. Loaded' /\ ArmsSound'
  BY <1>1 DEF YardInv, Loaded, ArmsSound
<1> QED BY <1>8, <1>9, <1>10, <1>11 DEF YardInv

\* Building the arms over the registered list, which they then hold.
LEMMA BuildStep ==
  ASSUME YardInv, Build
  PROVE  YardInv'
<1>1. /\ UNCHANGED <<api, mapped, maker, registered>> /\ touched' = {}
      /\ phase' = "traffic" /\ registered # << >>
  BY DEF Build
<1>2. PICK freq \in Frequencies[Len(registered)] : arms' = NewArms(registered, freq)
  BY DEF Build
<1>3. registered \in Seq(Range(registered)) /\ Len(registered) \in 1 .. MaxHandlers
  <2>1. registered \in Seq(Range(registered)) /\ Len(registered) <= MaxHandlers
    BY DEF YardInv, HandlersSound
  <2>2. Len(registered) \in Nat /\ Len(registered) # 0
    BY <1>1, <2>1
  <2> QED BY <2>1, <2>2, HandlersAssumption
<1>4. freq \in [1 .. Len(registered) -> Nat]
  BY <1>3, FrequenciesType
<1>5. PICK new : new = arms'
  OBVIOUS
<1>6. /\ DOMAIN new = Arms
      /\ new.unordered = registered /\ new.mtf = registered
      /\ new.ordered \in Seq(Range(registered)) /\ Len(new.ordered) = Len(registered)
      /\ Range(new.ordered) = Range(registered)
      /\ new.direct = TableDirect16(registered) /\ new.compact = TableCompact(registered)
  BY <1>2, <1>3, <1>4, <1>5, ArmsBuilt
<1>7. ArmsSound'
  BY <1>1, <1>3, <1>5, <1>6 DEF ArmsSound, Holds
<1>8. Loaded'
  BY <1>1 DEF YardInv, Loaded
<1> QED BY <1>1, <1>7, <1>8, KeptHandlers, TouchNothing DEF YardInv

\* Dispatching: the self-organizing list is reordered and keeps its members, and
\* process is read where an adapter was found.
LEMMA DispatchStep ==
  ASSUME YardInv, NEW p \in Packets, Dispatch(p)
  PROVE  YardInv'
<1>1. /\ UNCHANGED <<api, mapped, maker, phase, registered>> /\ phase = "traffic"
      /\ arms' = [arms EXCEPT !.mtf = Promote(@, p)]
  BY DEF Dispatch
<1>2. Loaded'
  BY <1>1 DEF YardInv, Loaded
<1>3. ArmsSound'
  <2>1. PICK list, new : list = arms.mtf /\ new = arms'
    OBVIOUS
  <2>2. /\ list \in Seq(Range(registered)) /\ Len(list) = Len(registered)
        /\ Range(list) = Range(registered)
    BY <1>1, <2>1 DEF YardInv, ArmsSound, Holds
  <2>3. /\ Promote(list, p) \in Seq(Range(registered))
        /\ Len(Promote(list, p)) = Len(registered)
        /\ Range(Promote(list, p)) = Range(registered)
    BY <2>2, PromoteHolds
  <2>4. /\ DOMAIN new = DOMAIN arms /\ new.mtf = Promote(list, p)
        /\ new.unordered = arms.unordered /\ new.ordered = arms.ordered
        /\ new.direct = arms.direct /\ new.compact = arms.compact
    BY <1>1, <2>1 DEF YardInv, ArmsSound, Arms
  <2> QED BY <1>1, <2>1, <2>3, <2>4 DEF YardInv, ArmsSound, Holds
<1>4. TouchedSound'
  <2> DEFINE called == {Found(arms, a, p) : a \in Arms} \ {Nobody}
             used == {g \in called : g.api # "host"}
  <2>1. touched' = {<<h.api, "process">> : h \in used}
    BY DEF Dispatch
  <2>2. called \subseteq Range(registered)
    BY <1>1, FoundRegistered DEF YardInv
  <2>3. \A h \in used : Usable(h.api)
    BY <2>2, RegisteredDeclared, WellformedFields DEF YardInv
  <2>4. \A h \in used : /\ h.api \in Libraries /\ "process" \in Fields
                        /\ Gated(h.api, "process")
    BY <2>3, UsableFields
  <2> HIDE DEF used
  <2> QED BY <2>1, <2>4 DEF TouchedSound
<1> QED BY <1>1, <1>2, <1>3, <1>4, KeptHandlers DEF YardInv

\* Batching: the instance of phase 6 is gone when the step ends.
LEMMA BatchStep ==
  ASSUME YardInv, NEW l \in Batchers, Batch(l)
  PROVE  YardInv'
<1>1. /\ UNCHANGED <<api, mapped, maker, phase, registered, arms>> /\ api[l] # NoApi
      /\ touched' = {api[l]} \X {"create", "process_batch", "destroy"}
  BY DEF Batch, dispatchVars, Touch
<1>2. Loaded'
  BY <1>1 DEF YardInv, Loaded
<1>3. PICK lib : lib = api[l]
  OBVIOUS
<1>4. Usable(lib)
  BY <1>1, <1>3, PluginsAssumption DEF YardInv, Loaded, Usable
<1>5. TouchedSound'
  <2>1. PICK fields : fields = {"create", "process_batch", "destroy"}
    OBVIOUS
  <2>2. fields \in SUBSET Fields /\ \A f \in fields : Gated(lib, f)
    BY <1>4, <2>1, UsableFields
  <2>3. lib \in Libraries
    BY <1>4, UsableFields
  <2> QED BY <1>1, <1>3, <2>1, <2>2, <2>3, TouchFields
<1> QED BY <1>1, <1>2, <1>5, KeptHandlers DEF YardInv

\* Tearing down: every adapter destroys its own instance, and no list or instance is left.
LEMMA TearDownStep ==
  ASSUME YardInv, TearDown
  PROVE  YardInv'
<1> DEFINE adapters == {h \in Range(registered) : h.api # "host" /\ h.self # NoSelf}
<1>1. /\ UNCHANGED <<api, mapped>> /\ phase' = "setup" /\ registered' = << >>
      /\ destroy({h.self : h \in adapters})
      /\ touched' = {<<h.api, "destroy">> : h \in adapters}
  BY DEF TearDown
<1>2. Loaded' /\ ArmsSound'
  BY <1>1 DEF YardInv, Loaded, ArmsSound
<1>3. registered' = <<>> /\ Len(registered') = 0 /\ DOMAIN registered' = {}
  BY <1>1
<1>4. HandlersSound'
  BY <1>3, HandlersAssumption DEF HandlersSound
<1>5. DOMAIN maker \subseteq {h.self : h \in adapters}
  <2>1. ASSUME NEW i \in Holding
        PROVE  registered[i] \in adapters
    <3>1. /\ registered[i] \in Range(registered) /\ registered[i].self \in Selves
          /\ Wellformed(registered[i])
      BY DEF Holding, Range, YardInv, HandlersSound
    <3>2. registered[i].self # NoSelf /\ registered[i].self # "host"
      BY <3>1, PluginsAssumption
    <3> QED BY <3>1, <3>2, WellformedFields
  <2>2. DOMAIN maker = {registered[i].self : i \in Holding}
    BY DEF YardInv, Paired
  <2> HIDE DEF adapters
  <2> QED BY <2>1, <2>2
<1>6. DOMAIN maker' = {}
  BY <1>1, <1>5 DEF destroy
<1>7. Paired'
  BY <1>3, <1>6 DEF Paired, Holding
<1>8. TouchedSound'
  <2>1. \A h \in adapters : Usable(h.api)
    BY RegisteredDeclared, WellformedFields DEF YardInv
  <2>2. \A h \in adapters : /\ h.api \in Libraries /\ "destroy" \in Fields
                            /\ Gated(h.api, "destroy")
    BY <2>1, UsableFields
  <2> HIDE DEF adapters
  <2> QED BY <1>1, <2>2 DEF TouchedSound
<1> QED BY <1>2, <1>4, <1>7, <1>8 DEF YardInv

\* Any step, a stutter included.
LEMMA YardStep ==
  ASSUME YardInv, [Defined \/ Undefined]_vars
  PROVE  YardInv'
<1>1. CASE UNCHANGED vars \/ Undefined
  <2>1. UNCHANGED <<api, mapped, maker, touched, phase, registered, arms>>
    BY <1>1 DEF Undefined, vars, hostVars, dispatchVars
  <2>2. Loaded' /\ TouchedSound'
    BY <2>1 DEF YardInv, Loaded, TouchedSound
  <2> QED BY <2>1, <2>2, KeptHandlers DEF YardInv
<1>2. CASE Defined
  BY <1>2, LoadStep, DropStep, AdaptStep, RegisterStep, BuildStep, DispatchStep,
     BatchStep, TearDownStep DEF Defined, Next
<1> QED BY <1>1, <1>2

\* In every reachable state what a loader holds was accepted and is mapped, the
\* handlers and the live instances belong together, the arms hold the registered
\* handlers, and only what the gates allow was read.
THEOREM YardInvariant == Spec => []YardInv
<1> QED BY YardInit, YardStep, PTL DEF Spec

(* ------------------------------ the plugins ------------------------------ *)

\* create() and destroy() are paired: an adapter holds a live instance of its own,
\* made by the library it calls, which stays mapped (PluginBackedHandler).
THEOREM InstancesArePaired == Spec => []InstancesPaired
<1>1. ASSUME YardInv PROVE InstancesPaired
  <2>1. AdaptersStayMapped
    <3>1. \A h \in Range(registered) : Wellformed(h)
      BY <1>1, RegisteredDeclared DEF YardInv
    <3> QED BY <3>1, WellformedFields DEF AdaptersStayMapped
  <2>2. /\ DOMAIN maker = {registered[i].self : i \in Holding}
        /\ \A i, j \in Holding : registered[i].self = registered[j].self => i = j
        /\ \A i \in Holding : maker[registered[i].self] = registered[i].api
    BY <1>1 DEF YardInv, Paired
  <2>3. DOMAIN maker \subseteq Selves
    BY <2>2 DEF Holding
  <2>4. \A i \in Holding : registered[i].api \in Libraries
    <3> TAKE i \in Holding
    <3>1. Wellformed(registered[i]) /\ registered[i].self \in Selves
      BY <1>1 DEF YardInv, HandlersSound, Holding
    <3>2. registered[i].self # "host"
      BY <3>1, PluginsAssumption
    <3>3. Usable(registered[i].api)
      BY <3>1, <3>2, WellformedFields
    <3> QED BY <3>3, UsableFields
  <2>5. Range(maker) \subseteq Libraries
    BY <2>2, <2>4 DEF Range
  <2>6. phase = "traffic" => \A k \in DOMAIN arms.direct : arms.direct[k].key = k
    <3> SUFFICES ASSUME phase = "traffic", NEW k \in DOMAIN arms.direct
                 PROVE  arms.direct[k].key = k
      OBVIOUS
    <3>1. arms.direct[k] = Slot(registered, k)
      BY <1>1 DEF YardInv, ArmsSound, TableDirect16
    <3> QED BY <3>1 DEF Slot
  <2>7. TypeOK
    BY <1>1, <2>3, <2>5, <2>6
    DEF TypeOK, YardInv, Loaded, HandlersSound, ArmsSound, Holds, TouchedSound
  <2> QED BY <2>1, <2>2, <2>7 DEF InstancesPaired, Holding
<1> QED BY <1>1, YardInvariant, PTL

\* Whatever is loaded, refused, dropped or replaced before, and wherever a struct
\* ends: the host reads only the version of a struct of another version, and beyond
\* the end of a struct only process or process_batch, of one that has all fields
\* before them (LoadedPlugin::load, the adapters, phase_boundary).
THEOREM ReadsPassTheGates == Spec => []ReadsAreGated
<1>1. YardInv => ReadsAreGated
  <2> SUFFICES ASSUME YardInv, NEW lib \in Libraries, NEW f \in Fields,
                      <<lib, f>> \in touched
               PROVE  Gated(lib, f)
    BY DEF ReadsAreGated
  <2>1. PICK t \in touched : t = <<lib, f>>
    OBVIOUS
  <2>2. t[1] = lib /\ t[2] = f
    BY <2>1
  <2> QED BY <2>1, <2>2 DEF YardInv, TouchedSound
<1> QED BY <1>1, YardInvariant, PTL

(* ------------------------------- the arms -------------------------------- *)

\* The directly indexed table answers as the brief's loop does, for any handlers,
\* and the compact one where it is injective (TableDirect16, TableCompact).
THEOREM TablesAnswerAsTheScan == Spec => []TablesKeepFirstMatch
<1>1. ASSUME YardInv PROVE TablesKeepFirstMatch
  <2>1. ASSUME NEW p \in Packets, phase = "traffic"
        PROVE  /\ Dispatched("direct", p) = Dispatched("unordered", p)
               /\ arms.compact.injective =>
                    Dispatched("compact", p) = Dispatched("unordered", p)
    <3>1. /\ p.low \in Payloads /\ Declared(registered)
          /\ registered \in Seq(Range(registered))
      BY <1>1, HandlersAssumption, RegisteredDeclared DEF YardInv, HandlersSound
    <3>2. /\ Found(arms, "unordered", p) = Scan(registered, p)
          /\ Found(arms, "direct", p) = DispatchDirect16(TableDirect16(registered), p)
          /\ Found(arms, "compact", p) = DispatchCompact(TableCompact(registered).tbl, p)
      BY <1>1, <2>1 DEF Found, YardInv, ArmsSound
    <3>3. DispatchDirect16(TableDirect16(registered), p) = Scan(registered, p)
      BY <3>1, DirectScan
    <3>4. arms.compact.injective =>
            DispatchCompact(TableCompact(registered).tbl, p) = Scan(registered, p)
      BY <1>1, <2>1, <3>1, CompactScan DEF YardInv, ArmsSound
    <3> QED BY <3>2, <3>3, <3>4 DEF Dispatched
  <2> QED BY <2>1 DEF TablesKeepFirstMatch, DirectKeepsFirstMatch
<1> QED BY <1>1, YardInvariant, PTL

\* Handlers that do not overlap: the reordered scans answer as the brief's loop.
LEMMA ReorderedScans ==
  ASSUME YardInv
  PROVE  ScansAgree
<1> SUFFICES ASSUME phase = "traffic", Disjoint(registered), NEW p \in Packets,
                    NEW a \in {"ordered", "mtf"}
             PROVE  Dispatched(a, p) = Dispatched("unordered", p)
  BY DEF ScansAgree
<1>1. PICK list : list = arms[a]
  OBVIOUS
<1>2. /\ registered \in Seq(Range(registered)) /\ list \in Seq(Range(registered))
      /\ Range(list) = Range(registered)
  BY <1>1 DEF YardInv, HandlersSound, ArmsSound, Holds
<1>3. \A h, g \in Range(registered) : matches(h, p) /\ matches(g, p) => h = g
  BY <1>2, DisjointMatch
<1>4. Scan(list, p) = Scan(registered, p)
  BY <1>2, <1>3, ScanAlike
<1>5. Found(arms, a, p) = Scan(list, p) /\ Found(arms, "unordered", p) = Scan(registered, p)
  BY <1>1 DEF Found, YardInv, ArmsSound
<1> QED BY <1>4, <1>5 DEF Dispatched

\* The paths phase 6 compares: an adapter's packet, its internal equivalent, a batch.
LEMMA PathsOfAdapter ==
  ASSUME NEW h, Wellformed(h)
  PROVE  PathsAgree(h)
<1> SUFFICES ASSUME h.api # "host", h.self # NoSelf, NEW p, NEW q,
                    matches(h, p), matches(h, q)
             PROVE  LET batch == process_batch(h.self, <<p, q>>, <<SwyResult, SwyResult>>)
                    IN /\ Process(h, p) = Process(InternalEquivalent(h.key), p)
                       /\ batch.rc = SWY_OK
                       /\ batch.out = <<Process(h, p), Process(h, q)>>
  BY DEF PathsAgree
<1>1. \A r : Process(h, r) = Processed(r)
  BY DEF Process, AcrossBoundary, process, SWY_OK
<1>2. Process(InternalEquivalent(h.key), p) = [value |-> mix(p), handler |-> h.key]
  BY DEF Process, InternalEquivalent, HostHandler
<1>3. Process(h, p) = Process(InternalEquivalent(h.key), p)
  BY <1>1, <1>2 DEF Processed, matches
<1> DEFINE pkts == <<p, q>>
           outs == <<SwyResult, SwyResult>>
           batch == process_batch(h.self, pkts, outs)
           want == <<Process(h, p), Process(h, q)>>
<1>4. batch.rc = SWY_OK /\ batch.out = [i \in {1, 2} |-> IF i \in {1, 2} THEN Processed(pkts[i]) ELSE outs[i]]
  <2>1. DOMAIN pkts = {1, 2} /\ DOMAIN outs = {1, 2}
    OBVIOUS
  <2> HIDE DEF pkts, outs
  <2> QED BY <2>1 DEF process_batch
<1>5. batch.out = want
  <2>1. pkts[1] = p /\ pkts[2] = q /\ DOMAIN want = {1, 2}
    OBVIOUS
  <2>2. want[1] = Processed(p) /\ want[2] = Processed(q)
    BY <1>1
  <2>3. want = [i \in {1, 2} |-> want[i]]
    BY <2>1
  <2> HIDE DEF want, pkts, outs, batch
  <2> QED BY <1>4, <2>1, <2>2, <2>3
<1> QED BY <1>3, <1>4, <1>5

\* Where a key falls is told by the key alone among the generated handlers, and
\* only one of them that is not residual has it.
LEMMA GeneratedKey ==
  ASSUME NEW n \in 0 .. kHandlers - 1
  PROVE  /\ n \in Nat /\ n < 900
         /\ key_of(n) \in 0 .. 902 /\ Bucket(key_of(n)) = key_of(n)
         /\ residual_of(n) => key_of(n) >= 900
         /\ ~residual_of(n) => key_of(n) = n
<1>1. n \in Nat /\ n < 900
  BY SizesAssumption
<1>2. n % 3 \in 0 .. 2
  BY <1>1
<1>3. /\ key_of(n) \in 0 .. 902
      /\ residual_of(n) => key_of(n) >= 900
      /\ ~residual_of(n) => key_of(n) = n
  BY <1>1, <1>2 DEF key_of
<1>4. \A k \in 0 .. 902 : k % kSize = k
  BY SizesAssumption, LapOnce
<1> QED BY <1>1, <1>3, <1>4 DEF Bucket

\* Selector answers with a handler that has the key, if one has, and with the first.
LEMMA Selected ==
  ASSUME NEW p
  PROVE  /\ select(p) # kNone =>
              select(p) \in 0 .. kHandlers - 1 /\ key_of(select(p)) = p.protocol
         /\ \A n \in 0 .. kHandlers - 1 :
              ~residual_of(n) /\ p.protocol = n => select(p) = n
<1> DEFINE falls(b) == {n \in 0 .. kHandlers - 1 : Bucket(key_of(n)) = b}
           buckets == {Bucket(k) : k \in GeneratedKeys}
<1>1. PICK b : b = Bucket(p.protocol)
  OBVIOUS
<1>2. Selector = [c \in buckets |-> [idx |-> Min(falls(c)), key |-> key_of(Min(falls(c)))]]
  BY DEF Selector
<1>3. falls(b) \in SUBSET Nat /\ IsFiniteSet(falls(b))
  <2>1. kHandlers - 1 \in Int /\ falls(b) \in SUBSET (0 .. kHandlers - 1)
    BY SizesAssumption
  <2>2. IsFiniteSet(0 .. kHandlers - 1)
    BY <2>1, FS_Interval
  <2> QED BY <2>1, <2>2, FS_Subset
<1>4. b \in buckets => falls(b) # {}
  BY DEF GeneratedKeys
<1>5. ASSUME b \in buckets
      PROVE  /\ Min(falls(b)) \in falls(b) /\ Selector[b].idx = Min(falls(b))
             /\ Selector[b].key = key_of(Min(falls(b))) /\ b \in DOMAIN Selector
  BY <1>2, <1>3, <1>4, <1>5, LeastMember
<1>6. b \notin buckets => select(p) = kNone
  BY <1>1, <1>2 DEF select
<1>7. ASSUME select(p) # kNone
      PROVE  select(p) \in 0 .. kHandlers - 1 /\ key_of(select(p)) = p.protocol
  <2>1. b \in buckets
    BY <1>6, <1>7
  <2>2. select(p) = Selector[b].idx /\ Selector[b].key = p.protocol
    BY <1>1, <1>7 DEF select
  <2>3. PICK m : m = Min(falls(b))
    OBVIOUS
  <2>4. m \in 0 .. kHandlers - 1 /\ select(p) = m /\ key_of(m) = p.protocol
    BY <1>5, <2>1, <2>2, <2>3
  <2> QED BY <2>4
<1>8. ASSUME NEW n \in 0 .. kHandlers - 1, ~residual_of(n), p.protocol = n
      PROVE  select(p) = n
  <2>1. key_of(n) = n /\ b = n /\ n < 900 /\ n \in Nat
    BY <1>1, <1>8, GeneratedKey
  <2>2. b \in buckets
    BY <1>1, <1>8, <2>1 DEF GeneratedKeys
  <2>3. PICK m : m = Min(falls(b))
    OBVIOUS
  <2>4. m \in 0 .. kHandlers - 1 /\ Bucket(key_of(m)) = n /\ m \in Nat
    BY <1>5, <2>1, <2>2, <2>3, GeneratedKey
  <2>5. key_of(m) = n
    BY <2>4, GeneratedKey
  <2>6. m = n
    BY <2>1, <2>4, <2>5, GeneratedKey
  <2>7. Selector[b].key = p.protocol /\ Selector[b].idx = n /\ b \in DOMAIN Selector
    BY <1>5, <1>8, <2>2, <2>3, <2>5, <2>6
  <2> QED BY <1>1, <2>7 DEF select
<1> QED BY <1>7, <1>8

\* The mechanisms answer with the handler Selector names.
LEMMA MechanismAnswers ==
  ASSUME NEW p
  PROVE  /\ MechErasure(p) = MechVirtual(p) /\ MechVariant(p) = MechVirtual(p)
         /\ MechVirtual(p) = IF select(p) = kNone THEN Unsupported
                             ELSE Process(Generated(select(p)), p)
<1>1. PICK n : n = select(p)
  OBVIOUS
<1>2. Process(Generated(n), p) = [value |-> Generated(n).id, handler |-> key_of(n)]
  BY DEF Process, Generated, HostHandler
<1>3. /\ MechVirtual(p) = IF n = kNone THEN Unsupported ELSE Process(Generated(n), p)
      /\ MechVariant(p) = IF n = kNone THEN Unsupported ELSE Process(Generated(n), p)
  BY <1>1 DEF MechVirtual, MechVariant
<1>4. MechErasure(p) = IF n = kNone THEN Unsupported
                       ELSE [value |-> Generated(n).id, handler |-> key_of(n)]
  BY <1>1 DEF MechErasure
<1> QED BY <1>1, <1>2, <1>3, <1>4

\* A generated handler is found only by packets with its key; it is one of
\* Selector's unless its number is out of their range.
LEMMA MechanismsAnswerAlike ==
  ASSUME YardInv
  PROVE  MechanismsAgree
<1> SUFFICES ASSUME phase = "traffic", NEW p \in Packets,
                    NEW found, found = Found(arms, "unordered", p)
             PROVE  /\ MechErasure(p) = MechVirtual(p) /\ MechVariant(p) = MechVirtual(p)
                    /\ (found # Nobody /\ found = Generated(p.protocol)) =>
                           MechVirtual(p) = Answer(found, p)
                    /\ (found # Nobody /\ p.protocol \notin GeneratedKeys) =>
                           MechVirtual(p) = Unsupported
  BY DEF MechanismsAgree
<1>1. MechErasure(p) = MechVirtual(p) /\ MechVariant(p) = MechVirtual(p)
  BY MechanismAnswers
<1>2. registered \in Seq(Range(registered)) /\ \A h \in Range(registered) : Wellformed(h)
  BY RegisteredDeclared DEF YardInv, HandlersSound
<1>3. found # Nobody => found \in Range(registered) /\ matches(found, p)
  <2>1. found = Scan(registered, p)
    BY DEF Found, YardInv, ArmsSound
  <2>2. PICK m : m = HitIndex(registered, p)
    OBVIOUS
  <2>3. \/ found = Nobody /\ \A i \in 1 .. Len(registered) : ~matches(registered[i], p)
        \/ m \in 1 .. Len(registered) /\ found = registered[m] /\ matches(registered[m], p)
    BY <1>2, <2>1, <2>2, ScanFinds
  <2> QED BY <1>2, <2>3, RangeOf
<1>4. ASSUME found # Nobody, found = Generated(p.protocol)
      PROVE  MechVirtual(p) = Answer(found, p)
  <2>1. PICK n : n = p.protocol
    OBVIOUS
  <2>2. /\ found.api = "host" /\ found.id = <<"generated", n>> /\ found.key = key_of(n)
    BY <1>4, <2>1 DEF Generated, HostHandler
  <2>3. found \in HostHandlers
    BY <1>2, <1>3, <1>4, <2>2, WellformedFields
  <2>4. found.id[1] = "generated" /\ found.id[2] = n
    BY <2>2
  <2>5. n \in 0 .. kHandlers - 1
    BY <2>3, <2>4, HandlersAssumption
  <2>6. key_of(n) = n
    BY <1>3, <1>4, <2>1, <2>2 DEF matches
  <2>7. ~residual_of(n)
    BY <2>5, <2>6, GeneratedKey
  <2>8. select(p) = n
    BY <2>1, <2>5, <2>7, Selected
  <2>9. n # kNone
    BY <2>5, GeneratedKey DEF kNone
  <2>10. MechVirtual(p) = Process(Generated(n), p)
    BY <2>8, <2>9, MechanismAnswers
  <2> QED BY <1>4, <2>1, <2>10 DEF Answer
<1>5. ASSUME p.protocol \notin GeneratedKeys
      PROVE  MechVirtual(p) = Unsupported
  <2>1. select(p) = kNone
    BY <1>5, Selected DEF GeneratedKeys
  <2> QED BY <2>1, MechanismAnswers
<1> QED BY <1>1, <1>4, <1>5

\* A reordered scan answers as the brief's loop does for handlers that do not
\* overlap, however far a self-organizing list has drifted (ScanMoveToFront).
THEOREM ScansAnswerAlike == Spec => []ScansAgree
<1>1. YardInv => ScansAgree
  BY ReorderedScans
<1> QED BY <1>1, YardInvariant, PTL

\* The arms, the mechanisms and the paths of phase 6 agree in every reachable state,
\* given that the phases agree on their streams: PhasesAgree holds of the constants or
\* does not, whatever the state (invariants.cpp, mechanism.cpp, boundary.cpp).
THEOREM ArmsAnswerAlike == PhasesAgree => (Spec => []ArmsAgree)
<1> SUFFICES ASSUME PhasesAgree PROVE Spec => []ArmsAgree
  OBVIOUS
<1>1. ASSUME YardInv PROVE ArmsAgree
  <2>1. \A h \in Range(registered) : PathsAgree(h)
    BY <1>1, RegisteredDeclared, PathsOfAdapter DEF YardInv
  <2> QED BY <1>1, <2>1, ReorderedScans, MechanismsAnswerAlike DEF ArmsAgree
<1> QED BY <1>1, YardInvariant, PTL
=============================================================================
