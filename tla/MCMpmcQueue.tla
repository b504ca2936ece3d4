---------------------------- MODULE MCMpmcQueue ----------------------------
(* The blocking queue for TLC: threads of a kind are interchangeable, and    *)
(* states are told apart only by what the threads can still read.            *)
EXTENDS MpmcQueue, TLC

Symmetry == Permutations(Producers) \cup Permutations(Consumers)

\* The event count with two pushes, which are enough to skip and coalesce wakes,
\* and with three, which also fill the ring, once the workers have an EpochWake.
MCConfigs ==
  [reserve : {"cas", "ticket"}, outline : {{}}, pushes : {2}]
  \cup [reserve : {"cas", "ticket"}, outline : {{"not_empty"}}, pushes : {3}]

MCLive == [reserve : {"cas"}, outline : {{}}, pushes : {3}]

\* Of a key only its equality with the epoch is ever tested, and only until the
\* wait it is for.
View ==
  <<fixed, ring, waiters, pending, sleepers, buffer, stack, parked, budget, late,
    IF Reserve = "ticket" THEN pos ELSE <<>>,
    [t \in Waiters |-> /\ ~At(t, "key")
                       /\ \E i \in DOMAIN stack[t] :
                            stack[t][i][1] \in {"announce", "recheck", "wait"}
                       /\ key[t] = epoch[SleepsOn(t)]]>>
=============================================================================
