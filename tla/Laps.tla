-------------------------------- MODULE Laps --------------------------------
(***************************************************************************)
(* What several proofs need: how free-running positions share the slots of *)
(* a ring, position q of a ring of size slots in slot q % size, and what a *)
(* stack becomes when new frames go on the ones below the first.           *)
(***************************************************************************)
EXTENDS Integers, Sequences, SequenceTheorems, TLAPS

\* slot(pos): masking a position gives an index of the ring.
LEMMA LapRange ==
  ASSUME NEW size \in Nat, size >= 1
  PROVE  \A q \in Nat : q % size \in 0..(size - 1)
  OBVIOUS

\* A positive multiple of the ring size is at least one lap.
LEMMA LapMultiple ==
  ASSUME NEW size \in Nat, size >= 1
  PROVE  \A m \in Int : m >= 1 => size * m >= size
<1> SUFFICES ASSUME NEW m \in Int, m >= 1 PROVE size * m >= size
  OBVIOUS
<1>1. size * m = size * (m - 1) + size
  OBVIOUS
<1>2. size * (m - 1) >= 0
  OBVIOUS
<1> QED BY <1>1, <1>2

\* A position is a whole number of laps plus its slot.
LEMMA LapDivision ==
  ASSUME NEW size \in Nat, size >= 1
  PROVE  \A q \in Nat : q \div size \in Int /\ q = size * (q \div size) + (q % size)
  OBVIOUS

\* Two positions that slot() maps to one slot are at least a lap apart.
LEMMA LapApart ==
  ASSUME NEW size \in Nat, size >= 1
  PROVE  \A a, b \in Nat : a < b /\ a % size = b % size => a + size <= b
<1> SUFFICES ASSUME NEW a \in Nat, NEW b \in Nat, a < b, a % size = b % size
             PROVE  a + size <= b
  OBVIOUS
<1> DEFINE m == (b \div size) - (a \div size)
<1>1. m \in Int
  BY LapDivision
<1>2. b - a = size * m
  <2>1. a = size * (a \div size) + (a % size) /\ b = size * (b \div size) + (b % size)
    BY LapDivision
  <2>2. size * ((b \div size) - (a \div size)) = size * (b \div size) - size * (a \div size)
    BY LapDivision
  <2> QED BY <2>1, <2>2, LapRange, LapDivision
<1>3. m >= 1
  BY <1>1, <1>2
<1> HIDE DEF m
<1> QED BY <1>1, <1>2, <1>3, LapMultiple

\* The same slot a lap on.
LEMMA LapNext ==
  ASSUME NEW size \in Nat, size >= 1
  PROVE  \A q \in Nat : (q + size) % size = q % size
<1> SUFFICES ASSUME NEW q \in Nat PROVE (q + size) % size = q % size
  OBVIOUS
<1> DEFINE m == ((q + size) \div size) - (q \div size) - 1
<1>1. m \in Int /\ q + size \in Nat
  BY LapDivision
<1>2. (q % size) - ((q + size) % size) = size * m
  <2>1. /\ q = size * (q \div size) + (q % size)
        /\ q + size = size * ((q + size) \div size) + ((q + size) % size)
    BY LapDivision
  <2>2. size * m = size * ((q + size) \div size) - size * (q \div size) - size
    BY LapDivision, <1>1
  <2>3. \A A, B, r, s \in Int : q = A + r /\ q + size = B + s => r - s = B - A - size
    OBVIOUS
  <2>4. /\ size * (q \div size) \in Int /\ size * ((q + size) \div size) \in Int
        /\ (q % size) \in Int /\ ((q + size) % size) \in Int
    BY <1>1, LapRange, LapDivision
  <2> HIDE DEF m
  <2> QED BY <2>1, <2>2, <2>3, <2>4
<1> HIDE DEF m
<1>3. /\ q % size \in 0..(size - 1) /\ (q + size) % size \in 0..(size - 1)
      /\ \A k \in Int : k >= 1 => size * k >= size
  BY <1>1, LapRange, LapMultiple
<1>4. ~ (m >= 1)
  BY <1>1, <1>2, <1>3
<1>5. ~ (m <= -1)
  <2> SUFFICES ASSUME m <= -1 PROVE FALSE
    OBVIOUS
  <2>1. (-m) \in Int /\ (-m) >= 1 /\ size * (-m) = -(size * m)
    BY <1>1
  <2> QED BY <2>1, <1>1, <1>2, <1>3
<1>6. m = 0
  BY <1>1, <1>4, <1>5
<1> QED BY <1>1, <1>2, <1>6, <1>3

\* A slot is that of itself after any number of laps.
LEMMA LapSlot ==
  ASSUME NEW size \in Nat, size >= 1, NEW a \in Nat, NEW i \in 0..(size - 1)
  PROVE  size * a + i \in Nat /\ (size * a + i) % size = i
<1> DEFINE q == size * a + i
           m == a - (q \div size)
<1>0. size * a \in Nat
  OBVIOUS
<1>1. q \in Nat /\ m \in Int /\ q \div size \in Int
  BY <1>0, LapDivision
<1>2. (q % size) - i = size * m
  <2>1. q = size * (q \div size) + (q % size)
    BY <1>1, LapDivision
  <2>2. size * m = size * a - size * (q \div size)
    BY <1>1
  <2>3. \A A, B, r \in Int : A + i = B + r => r - i = A - B
    OBVIOUS
  <2>4. size * (q \div size) \in Int /\ (q % size) \in Int
    BY <1>1, LapRange
  <2> HIDE DEF m
  <2> QED BY <1>0, <2>1, <2>2, <2>3, <2>4
<1>3. /\ q % size \in 0..(size - 1)
      /\ \A k \in Int : k >= 1 => size * k >= size
  BY <1>1, LapRange, LapMultiple
<1> HIDE DEF m, q
<1>4. ~ (m >= 1)
  BY <1>1, <1>2, <1>3
<1>5. ~ (m <= -1)
  <2> SUFFICES ASSUME m <= -1 PROVE FALSE
    OBVIOUS
  <2>1. (-m) \in Int /\ (-m) >= 1 /\ size * (-m) = -(size * m)
    BY <1>1
  <2> QED BY <2>1, <1>1, <1>2, <1>3
<1>6. m = 0
  BY <1>1, <1>4, <1>5
<1> QED BY <1>1, <1>2, <1>6, <1>3 DEF q

\* A lap passes every slot.
LEMMA LapCover ==
  ASSUME NEW size \in Nat, size >= 1, NEW h \in Nat, NEW i \in 0..(size - 1)
  PROVE  \E q \in h..(h + size - 1) : q % size = i
<1> DEFINE a == h \div size
           r == h % size
<1>0. a \in Int /\ r \in 0..(size - 1) /\ h = size * a + r
  BY LapDivision, LapRange
<1> HIDE DEF a, r
<1>1. a \in Nat /\ r \in 0..(size - 1) /\ h = size * a + r
  <2> SUFFICES ASSUME a <= -1 PROVE FALSE
    BY <1>0
  <2>1. (-a) \in Int /\ (-a) >= 1 /\ size * (-a) = -(size * a) /\ size * a \in Int
    BY <1>0
  <2>2. size * (-a) >= size
    BY <2>1, LapMultiple
  <2> QED BY <1>0, <2>1, <2>2
<1>2. size * a \in Nat /\ size * (a + 1) = size * a + size
  BY <1>1
<1>3. CASE i >= r
  <2>1. h + (i - r) = size * a + i /\ h + (i - r) \in h..(h + size - 1)
    BY <1>1, <1>2, <1>3
  <2> QED BY <1>1, <2>1, LapSlot
<1>4. CASE i < r
  <2>1. /\ h + size + i - r = size * (a + 1) + i
        /\ h + size + i - r \in h..(h + size - 1) /\ a + 1 \in Nat
    BY <1>1, <1>2, <1>4
  <2> QED BY <1>1, <2>1, LapSlot
<1> QED BY <1>1, <1>3, <1>4

\* Less than two laps on.
LEMMA LapOnce ==
  ASSUME NEW size \in Nat, size >= 1, NEW n \in Nat, n < size + size
  PROVE  n % size = IF n < size THEN n ELSE n - size
<1>1. CASE n < size
  <2>1. n \in 0..(size - 1) /\ 0 \in Nat /\ size * 0 + n = n
    BY <1>1
  <2> QED BY <1>1, <2>1, LapSlot
<1>2. CASE ~(n < size)
  <2>1. n - size \in 0..(size - 1) /\ 1 \in Nat /\ size * 1 + (n - size) = n
    BY <1>2
  <2> QED BY <1>2, <2>1, LapSlot
<1> QED BY <1>1, <1>2

(* ------------------------------ short stacks ----------------------------- *)
\* One frame on one.
LEMMA Onto11 ==
  ASSUME NEW a, NEW b
  PROVE  <<a>> \o <<b>> = <<a, b>>
<1> DEFINE S == {a, b}  s == <<a>> \o <<b>>  t == <<a, b>>
<1>1. /\ s \in Seq(S) /\ t \in Seq(S) /\ Len(s) = Len(t)
      /\ \A i \in 1..Len(s) : s[i] = t[i]
  OBVIOUS
<1> HIDE DEF S, s, t
<1>2. s = t
  BY <1>1, SeqEqual
<1> QED BY <1>2 DEF s, t

\* One frame on two.
LEMMA Onto12 ==
  ASSUME NEW a, NEW b, NEW c
  PROVE  <<a>> \o <<b, c>> = <<a, b, c>>
<1> DEFINE S == {a, b, c}  s == <<a>> \o <<b, c>>  t == <<a, b, c>>
<1>1. /\ s \in Seq(S) /\ t \in Seq(S) /\ Len(s) = Len(t)
      /\ \A i \in 1..Len(s) : s[i] = t[i]
  OBVIOUS
<1> HIDE DEF S, s, t
<1>2. s = t
  BY <1>1, SeqEqual
<1> QED BY <1>2 DEF s, t

\* One frame on three.
LEMMA Onto13 ==
  ASSUME NEW a, NEW b, NEW c, NEW d
  PROVE  <<a>> \o <<b, c, d>> = <<a, b, c, d>>
<1> DEFINE S == {a, b, c, d}  s == <<a>> \o <<b, c, d>>  t == <<a, b, c, d>>
<1>1. /\ s \in Seq(S) /\ t \in Seq(S) /\ Len(s) = Len(t)
      /\ \A i \in 1..Len(s) : s[i] = t[i]
  OBVIOUS
<1> HIDE DEF S, s, t
<1>2. s = t
  BY <1>1, SeqEqual
<1> QED BY <1>2 DEF s, t

\* Two frames on one.
LEMMA Onto21 ==
  ASSUME NEW a, NEW b, NEW c
  PROVE  <<a, b>> \o <<c>> = <<a, b, c>>
<1> DEFINE S == {a, b, c}  s == <<a, b>> \o <<c>>  t == <<a, b, c>>
<1>1. /\ s \in Seq(S) /\ t \in Seq(S) /\ Len(s) = Len(t)
      /\ \A i \in 1..Len(s) : s[i] = t[i]
  OBVIOUS
<1> HIDE DEF S, s, t
<1>2. s = t
  BY <1>1, SeqEqual
<1> QED BY <1>2 DEF s, t

\* Two frames on two.
LEMMA Onto22 ==
  ASSUME NEW a, NEW b, NEW c, NEW d
  PROVE  <<a, b>> \o <<c, d>> = <<a, b, c, d>>
<1> DEFINE S == {a, b, c, d}  s == <<a, b>> \o <<c, d>>  t == <<a, b, c, d>>
<1>1. /\ s \in Seq(S) /\ t \in Seq(S) /\ Len(s) = Len(t)
      /\ \A i \in 1..Len(s) : s[i] = t[i]
  OBVIOUS
<1> HIDE DEF S, s, t
<1>2. s = t
  BY <1>1, SeqEqual
<1> QED BY <1>2 DEF s, t

\* Three frames on one.
LEMMA Onto31 ==
  ASSUME NEW a, NEW b, NEW c, NEW d
  PROVE  <<a, b, c>> \o <<d>> = <<a, b, c, d>>
<1> DEFINE S == {a, b, c, d}  s == <<a, b, c>> \o <<d>>  t == <<a, b, c, d>>
<1>1. /\ s \in Seq(S) /\ t \in Seq(S) /\ Len(s) = Len(t)
      /\ \A i \in 1..Len(s) : s[i] = t[i]
  OBVIOUS
<1> HIDE DEF S, s, t
<1>2. s = t
  BY <1>1, SeqEqual
<1> QED BY <1>2 DEF s, t
=============================================================================
