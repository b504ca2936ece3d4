------------------------- MODULE MpmcRingRefinement -------------------------
(***************************************************************************)
(* The ring implements WorkQueue.  A push takes effect when it reserves    *)
(* its position and a pop when it claims one, so an object is in line from *)
(* the move of the tail past it to the move of the head past it, published *)
(* or not, and tombstones are never in line.                               *)
(***************************************************************************)
EXTENDS MpmcRing, FiniteSets

\* The ring is shared by the threads of one process.
ASSUME FiniteAssumption == IsFiniteSet(Producers)

\* The objects of a set of reservations, in the order of their positions.
InOrder(entries) ==
  [k \in 1..Cardinality(entries) |->
     (CHOOSE e \in entries :
        Cardinality({f \in entries : f.pos < e.pos}) = k - 1).item]

\* The accepted objects no pop has claimed.
Waiting == {e \in line : e.pos >= head}
InLine == InOrder(Waiting)

\* A claimed object counts as given from the claim on.
Claimed(c) ==
  LET items == [i \in DOMAIN log[c] |-> log[c][i].item] IN
  IF pc[c] = "take" THEN Append(items, storage[Slot(pos[c])]) ELSE items
Given == [c \in Consumers |-> Claimed(c)]

Told == {c \in Consumers : pc[c] = "drained"}

Queue == INSTANCE WorkQueue WITH
  Objects <- Items,
  Takers <- Consumers,
  Capacity <- IF Reserve = "cas" THEN N ELSE N + Cardinality(Producers),
  waiting <- InLine,
  open <- ~closed,
  given <- Given,
  ended <- Told

\* Every behaviour of the ring is one of a first-in first-out queue that is
\* closed once: the compare-exchange or ticket of a push and the compare-exchange
\* of a pop are the instants at which push, close, pop and drained take effect.
ImplementsQueue == Queue!Spec
=============================================================================
