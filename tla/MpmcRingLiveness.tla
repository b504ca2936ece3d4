-------------------------- MODULE MpmcRingLiveness --------------------------
(***************************************************************************)
(* What must eventually happen to a push once the ring is closed.          *)
(***************************************************************************)
EXTENDS MpmcRing

\* The scheduler runs every thread that is inside a call.  A weak
\* compare-exchange does not fail spuriously for ever, and a worker calls pop
\* (not try_pop) again and again until it is told drained.
Fairness ==
  /\ \A p \in Producers :
       /\ WF_vars(ProducerStep(p) /\ pc[p] # "idle")
       /\ SF_vars(ClaimTail(p))
  /\ \A c \in Consumers :
       /\ WF_vars(ConsumerStep(c))
       /\ SF_vars(ClaimHead(c)) /\ SF_vars(CheckClosed(c))

FairSpec == Spec /\ Fairness

\* "Returns closed once the queue closes" (push): a push that is under way when
\* the queue closes returns.
PushReturns ==
  \A p \in Producers : closed /\ pc[p] # "idle" ~> pc[p] = "idle"
=============================================================================
