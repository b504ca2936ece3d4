------------------------------ MODULE MCDriver ------------------------------
(* The driver for TLC: the runs of the shutdown and invariants phases, cut    *)
(* down to two producers and a handful of events, and a batched and a paced   *)
(* run as other phases make them.                                             *)
EXTENDS Driver

MCRunSpecs ==
  {Saturated({0, 1}, {2, 3}, "mixed"),
   [Saturated({0, 1}, {2}, "mixed") EXCEPT !.events = 1, !.latency = TRUE],
   CloseUnderLoad({0, 1}, {2}),
   CloseVersusReserve({0, 1}, {2}, "mixed"),
   [DefaultSpec({0, 1}, {2}) EXCEPT !.batch = 2, !.events = 3, !.mode = "mixed",
                                    !.close_after = TRUE],
   [Saturated({0, 1}, {2}, "mixed") EXCEPT !.paced = TRUE, !.events = 0, !.pop_latency = TRUE]}
=============================================================================
