------------------------- MODULE SwitchyardInvariant -------------------------
(***************************************************************************)
(* The inductive invariant of Switchyard: what a loader holds was accepted *)
(* and is mapped, adapters hold what they were made with, live instances   *)
(* are theirs, and the arms hold the registered handlers.                  *)
(***************************************************************************)
EXTENDS Switchyard

\* A library some loader finds, and the loader's gate lets through.
Usable(lib) == Accepted(lib) /\ \E l \in Loaders : lib \in Finds[l]

\* What a loader holds was accepted, and stays mapped.
Loaded ==
    /\ api \in [Loaders -> Libraries \cup {NoApi}]
    /\ mapped \subseteq Libraries
    /\ \A l \in Loaders :
        api[l] # NoApi => api[l] \in Finds[l] \cap mapped /\ Accepted(api[l])

\* A handler is the host's, or the adapter of a library that stays mapped.
FromPlugin(h) ==
    /\ h = PluginBackedHandler(h.api, h.key, h.self)
    /\ h.api \in mapped /\ Usable(h.api)
    /\ h.self \in Selves \cup {NoSelf}
Wellformed(h) == h \in HostHandlers \/ FromPlugin(h)
HandlersSound ==
    /\ registered \in Seq(Range(registered)) /\ Len(registered) <= MaxHandlers
    /\ \A i \in DOMAIN registered : Wellformed(registered[i])

\* The live instances are those of the adapters, each its own.
Holding == {i \in DOMAIN registered : registered[i].self \in Selves}
Paired ==
    /\ DOMAIN maker = {registered[i].self : i \in Holding}
    /\ \A i, j \in Holding : registered[i].self = registered[j].self => i = j
    /\ \A i \in Holding : maker[registered[i].self] = registered[i].api

\* A list of the registered handlers in some order.
Holds(list) ==
    /\ list \in Seq(Range(registered))
    /\ Len(list) = Len(registered) /\ Range(list) = Range(registered)

ArmsSound ==
    /\ phase \in {"setup", "traffic"}
    /\ phase = "traffic" =>
        /\ DOMAIN arms = Arms
        /\ arms.unordered = registered
        /\ Holds(arms.ordered) /\ Holds(arms.mtf)
        /\ arms.direct = TableDirect16(registered)
        /\ arms.compact = TableCompact(registered)

\* The host reads only what the gates allow.
TouchedSound ==
    /\ touched \subseteq Libraries \X Fields
    /\ \A t \in touched : Gated(t[1], t[2])

YardInv == Loaded /\ HandlersSound /\ Paired /\ ArmsSound /\ TouchedSound
=============================================================================
