------------------------------- MODULE Plugin -------------------------------
(***************************************************************************)
(* The plugin's side of the C boundary (plugin_abi.h and plugin.cpp, a     *)
(* library built at two levels of the ABI): what its entry points return.  *)
(* A packet is [protocol, low], low being payload[0] & 3; the arithmetic   *)
(* over its bytes is kept as a tag of the packet it was done for.          *)
(***************************************************************************)
EXTENDS Naturals, Sequences

SWY_ABI_VERSION == 1

\* What an entry point returns: an exception does not cross, an error code does.
SWY_OK    == 0
SWY_ERROR == 2

NoSelf == "null"      \* create() returned null

\* Where a field of SwyPluginApi ends on a 64-bit host.
FieldEnd == [struct_size |-> 4, abi_version |-> 8, claimed_keys |-> 16,
             create |-> 24, destroy |-> 32, process |-> 40, process_batch |-> 48]

\* A plugin writes its keys only into a buffer that holds them all, and reports how
\* many there are either way.
PluginKeys(keys, cap) ==
    [count |-> Len(keys), out |-> IF cap < Len(keys) THEN << >> ELSE keys]

mix(pkt) == <<"mix", pkt.protocol, pkt.low>>

\* The caller's SwyResult, and what a plugin leaves in it for a packet.
SwyResult      == [value |-> <<"zero", 0>>, handler |-> 0]
Processed(pkt) == [value |-> mix(pkt), handler |-> pkt.protocol]

\* Nothing is written for an instance that was never made.
process(self, pkt, out) ==
    IF self = NoSelf THEN [rc |-> SWY_ERROR, out |-> out]
    ELSE [rc |-> SWY_OK, out |-> Processed(pkt)]

process_batch(self, pkts, outs) ==
    IF self = NoSelf THEN [rc |-> SWY_ERROR, out |-> outs]
    ELSE [rc |-> SWY_OK,
          out |-> [i \in DOMAIN outs |-> IF i \in DOMAIN pkts THEN Processed(pkts[i]) ELSE outs[i]]]
=============================================================================
