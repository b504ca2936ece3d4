----------------------------- MODULE WorkQueue -----------------------------
(***************************************************************************)
(* What turnstile::Queue promises its callers: one first-in first-out line *)
(* of accepted objects, each given to one consumer, that accepts nothing   *)
(* once it is closed and is only called drained when it is empty for good. *)
(* An answer of full or empty promises nothing: it is a stutter here.      *)
(***************************************************************************)
EXTENDS Naturals, Sequences

CONSTANTS
  Objects,    \* what can be pushed
  Takers,     \* who pops
  Capacity    \* accepted objects that may wait at once

VARIABLES
  waiting,    \* accepted and not yet claimed, oldest first
  open,       \* pushes are still accepted
  given,      \* what each taker has claimed, in order
  ended       \* the takers that were told drained

Init ==
  /\ waiting = <<>>
  /\ open = TRUE
  /\ given = [t \in Takers |-> <<>>]
  /\ ended = {}

Accept ==
  /\ open /\ Len(waiting) < Capacity
  /\ \E x \in Objects : waiting' = Append(waiting, x)
  /\ UNCHANGED <<open, given, ended>>

Give(t) ==
  /\ waiting # <<>> /\ t \notin ended
  /\ given' = [given EXCEPT ![t] = Append(@, Head(waiting))]
  /\ waiting' = Tail(waiting)
  /\ UNCHANGED <<open, ended>>

Shut ==
  /\ open
  /\ open' = FALSE
  /\ UNCHANGED <<waiting, given, ended>>

SayDrained(t) ==
  /\ ~open /\ waiting = <<>>
  /\ ended' = ended \cup {t}
  /\ UNCHANGED <<waiting, open, given>>

Next == Accept \/ Shut \/ \E t \in Takers : Give(t) \/ SayDrained(t)

Spec == Init /\ [][Next]_<<waiting, open, given, ended>>
=============================================================================
