---------------------------- MODULE MCSwitchyard ----------------------------
EXTENDS Switchyard

CONSTANTS level1, level2, future, ending, stub, broken, v1, v2

lib(entry, size, version, keys) ==
    [entry |-> entry, size |-> size, version |-> version, keys |-> keys]

\* plugin_v1 and plugin_v2 claim the same keys; one and two are enough here.
MCImage ==
    level1 :> lib("api", 40, 1, <<2000>>) @@
    level2 :> lib("api", 48, 1, <<2000, 2001>>) @@
    future :> lib("api", 56, 2, <<2000>>) @@
    ending :> lib("api", 32, 1, <<2000>>) @@
    stub   :> lib("api", 24, 1, <<2000>>) @@
    broken :> lib("unreadable", 0, 0, <<>>)

\* At v1's path an old library or one too short, and at v2's, which phase 6 batches
\* through, one whose struct ends where process starts, the one meant, and two to be
\* refused.
MCFinds == v1 :> {level1, stub} @@ v2 :> {level2, ending, future, broken}

\* Two handlers that share a key on disjoint payloads, two that overlap, and
\* one in the bucket of another's key.
MCHandlers == {Generated(7), Generated(37), Generated(1), Overlapping(1), Overlapping(2),
                InternalEquivalent(1025)}

\* Lists of two, and of three that end with Generated(2): pure keys, residual
\* handlers that share a key, an overlap, a bucket held by another's key.
MCMeasured ==
    {l \in {<<h, g>> : h, g \in MCHandlers} : l[1] # l[2]} \cup
    {l \in {<<h, g, Generated(2)>> : h, g \in MCHandlers \ {Overlapping(1), Overlapping(2)}} :
        l[1] # l[2]}

Keys == {1, 901, 1025, 2000, 2001, 3000, 4096}
\* A packet of each key, and two for the residual handlers and for batches.
MCPackets == {[protocol |-> k, low |-> 0] : k \in Keys} \cup
             {[protocol |-> k, low |-> 3] : k \in {901, 2000}}

\* Addresses are alike.
Symmetry == Permutations(Selves)

=============================================================================
