----------------------------- MODULE Switchyard -----------------------------
(***************************************************************************)
(* switchyard as one program: libraries are loaded and dropped, handlers   *)
(* of the host and adapters of plugins are registered, the arms are built  *)
(* over the same registered list, and packets are dispatched through all   *)
(* of them, as the phases of the program do.  A plugin may be dropped at   *)
(* any time, also between two packets its adapter answers.                 *)
(*                                                                         *)
(* The program is one thread.  What is hard is what a step finds left by   *)
(* earlier ones: the order a self-organizing list has drifted to, a struct *)
(* that a load accepted long before a field of it is called, an instance   *)
(* that outlives the object that loaded its code.                          *)
(***************************************************************************)
EXTENDS PacketStream, PluginHost

CONSTANTS
    HostHandlers,   \* handlers compiled into the host that may be registered
    Packets,        \* packets: [protocol, low], low being payload[0] & 3
    Batchers        \* the loaders whose plugin phase 6 batches through

\* A loader finds libraries.  Addresses and names are none of the marks.
ASSUME PluginsAssumption ==
    /\ \A l \in Loaders : Finds[l] \subseteq Libraries
    /\ Batchers \subseteq Loaders
    /\ {NoApi, "host"} \cap Libraries = {} /\ {NoSelf, "host"} \cap Selves = {}
\* A handler compiled into the host holds nothing of a plugin's, and declares its
\* predicate residual unless the key decides; nobody claims kEmpty.
ASSUME HandlersAssumption ==
    /\ \A h \in HostHandlers :
        /\ h = HostHandler(h.id, h.key, h.tag, h.residual, h.takes)
        /\ ~h.residual => h.takes = Payloads
        /\ h.id[1] = "generated" => h.id[2] \in 0 .. kHandlers - 1
        /\ h.key # kEmpty
    /\ \A lib \in Libraries : kEmpty \notin Range(Image[lib].keys)
    /\ \A p \in Packets : p.low \in Payloads
    /\ MaxHandlers \in Nat /\ kPacketPool \in Nat
\* Every struct has the two fields the gate reads, which had "to be present from
\* version 1", and may end anywhere after them.
ASSUME ImagesAssumption ==
    \A lib \in Libraries :
        /\ Image[lib].size \in Nat
        /\ Image[lib].entry = "api" => Has(lib, "abi_version")

VARIABLES
    phase,        \* "setup": registering; "traffic": the arms are built
    registered,   \* the handlers, in registration order
    arms          \* what the arms hold

dispatchVars == <<phase, registered, arms>>
vars == <<hostVars, dispatchVars>>
NoArms == NewArms(<<>>, <<>>)

Init ==
    /\ HostInit
    /\ phase      = "setup"
    /\ registered = << >>
    /\ arms       = NoArms

(* ------------------------------- loading -------------------------------- *)
LoadPlugin(l) == /\ \E lib \in Finds[l] : Load(l, lib)
                 /\ UNCHANGED dispatchVars

DropPlugin(l) == /\ api[l] # NoApi
                 /\ Unload(l)
                 /\ UNCHANGED dispatchVars

(* ------------------------------ registering ------------------------------ *)
Register(h) ==
    /\ phase = "setup" /\ Len(registered) < MaxHandlers
    /\ h \notin Range(registered)
    /\ registered' = Append(registered, h)
    /\ touched' = {}
    /\ UNCHANGED <<api, mapped, maker, phase, arms>>

\* The host asks a plugin what it claims and wraps one of those keys.
Adapt(l) ==
    /\ phase = "setup" /\ api[l] # NoApi /\ Len(registered) < MaxHandlers
    /\ \E k \in Range(claimed_keys(l)), self \in Selves \cup {NoSelf} :
          /\ CreateReturns(api[l], self)
          /\ registered' = Append(registered, PluginBackedHandler(api[l], k, self))
    /\ Touch(api[l], {"claimed_keys", "create"})
    /\ UNCHANGED <<api, mapped, phase, arms>>

\* The arms take the list by value; the frequencies are those of the stream.
Build ==
    /\ phase = "setup" /\ registered # << >>
    /\ phase' = "traffic"
    /\ \E freq \in Frequencies[Len(registered)] : arms' = NewArms(registered, freq)
    /\ touched' = {}
    /\ UNCHANGED <<api, mapped, maker, registered>>

(* -------------------------------- traffic -------------------------------- *)
\* What an arm answers.  Of an adapter without process nothing is known: there it
\* stands for the call.
Dispatched(arm, p) == Answer(Found(arms, arm, p), p)

\* One packet through every arm.
Dispatch(p) ==
    LET called == {Found(arms, a, p) : a \in Arms} \ {Nobody}
    IN
    /\ phase = "traffic"
    /\ arms' = [arms EXCEPT !.mtf = Promote(@, p)]
    /\ touched' = {<<h.api, "process">> : h \in {g \in called : g.api # "host"}}
    /\ UNCHANGED <<api, mapped, maker, phase, registered>>

\* Phase 6 batches through an instance of its own, straight through the
\* struct, without asking has_batch() first.
Batch(l) ==
    /\ api[l] # NoApi
    /\ Touch(api[l], {"create", "process_batch", "destroy"})
    /\ UNCHANGED <<api, mapped, maker, dispatchVars>>

(* ------------------------------- teardown -------------------------------- *)
\* The arms go first, then the handlers; an adapter gives its instance back.
TearDown ==
    LET adapters == {h \in Range(registered) : h.api # "host" /\ h.self # NoSelf}
    IN
    /\ phase = "traffic"
    /\ phase' = "setup" /\ registered' = << >> /\ arms' = NoArms
    /\ destroy({h.self : h \in adapters})
    /\ touched' = {<<h.api, "destroy">> : h \in adapters}
    /\ UNCHANGED <<api, mapped>>

\* A field was read where the struct has none, and called: what follows is
\* undefined, and nothing is said of it.
Astray == \E t \in touched : ~Has(t[1], t[2])

Next ==
    \/ \E l \in Loaders : LoadPlugin(l) \/ DropPlugin(l) \/ Adapt(l)
    \/ \E h \in HostHandlers : Register(h)
    \/ Build
    \/ \E p \in Packets : Dispatch(p)
    \/ \E l \in Batchers : Batch(l)
    \/ TearDown

\* The steps of the program, as far as they are defined.
Defined == ~Astray /\ Next
Undefined == Astray /\ UNCHANGED vars

Spec == Init /\ [][Defined \/ Undefined]_vars

(* ------------------------------ properties ------------------------------- *)
\* The state is what the members hold: lists of registered handlers, tables
\* over their keys, results of the kinds a dispatch returns.
TypeOK ==
    /\ api \in [Loaders -> Libraries \cup {NoApi}] /\ mapped \subseteq Libraries
    /\ DOMAIN maker \subseteq Selves /\ Range(maker) \subseteq Libraries
    /\ touched \subseteq Libraries \X Fields
    /\ phase \in {"setup", "traffic"} /\ Len(registered) <= MaxHandlers
    /\ phase = "traffic" =>
         /\ Len(arms.ordered) = Len(registered) /\ Range(arms.ordered) = Range(registered)
         /\ Len(arms.mtf) = Len(registered) /\ Range(arms.mtf) = Range(registered)
         /\ \A k \in DOMAIN arms.direct : arms.direct[k].key = k

\* The mechanism arms agree on every packet (mechanism.cpp), with the scan
\* where it reaches a generated handler that owns its key, and with nobody
\* where no generated handler claims the key.
MechanismsAgree ==
    phase = "traffic" =>
        \A p \in Packets :
            LET found == Found(arms, "unordered", p)
            IN /\ MechErasure(p) = MechVirtual(p) /\ MechVariant(p) = MechVirtual(p)
               /\ (found # Nobody /\ found = Generated(p.protocol)) =>
                      MechVirtual(p) = Answer(found, p)
               /\ (found # Nobody /\ p.protocol \notin GeneratedKeys) =>
                      MechVirtual(p) = Unsupported

\* Phase 6 compares paths that must do the same work (boundary.cpp): an adapter
\* with an instance, the equivalent within the host, and the packets of a batch, as
\* far as the plugin has these entry points.
PathsAgree(h) ==
    h.api # "host" /\ h.self # NoSelf /\ Has(h.api, "process") =>
        \A p, q \in {r \in Packets : matches(h, r)} :
            LET batch == process_batch(h.self, <<p, q>>, <<SwyResult, SwyResult>>)
            IN /\ Process(h, p) = Process(InternalEquivalent(h.key), p)
               /\ Has(h.api, "process_batch") =>
                    batch.rc = SWY_OK /\ batch.out = <<Process(h, p), Process(h, q)>>

\* A reordered scan answers as the brief's loop does for handlers that do not
\* overlap, whatever the frequencies were and however far the self-organizing
\* list has drifted.
ScansAgree ==
    (phase = "traffic" /\ Disjoint(registered)) =>
        \A p \in Packets, a \in {"ordered", "mtf"} :
            Dispatched(a, p) = Dispatched("unordered", p)

\* Handlers that do not overlap are dispatched alike by every arm: what phases 1 to 3
\* check by checksum (invariants.cpp, distribution.cpp).
ArmsAgree ==
    /\ MechanismsAgree
    /\ (mapped = {} /\ registered = <<>>) => PhasesAgree   \* before phase 6
    /\ \A h \in Range(registered) : PathsAgree(h)
    /\ ScansAgree

\* Direct indexing keeps first-match-wins for every key.
DirectKeepsFirstMatch ==
    phase = "traffic" =>
        \A p \in Packets : Dispatched("direct", p) = Dispatched("unordered", p)

\* The tables keep first-match-wins even where predicates overlap, which no
\* reordered scan does: each key's candidates stay in registration order.
TablesKeepFirstMatch ==
    /\ DirectKeepsFirstMatch
    /\ (phase = "traffic" /\ arms.compact.injective) =>
        \A p \in Packets : Dispatched("compact", p) = Dispatched("unordered", p)

\* What the gates of load, passed once and long before a call, allow to be read of a
\* struct: the version of any; the size of one of this version; the fields up to
\* destroy, all of them in the struct, of one that is long enough for them; and of
\* such a one also the two entry points that no gate covers to their end.
Gated(lib, f) ==
    /\ f # "abi_version" => SpeaksVersion(lib)
    /\ Has(lib, f) \/ (f \in {"process", "process_batch"} /\ Has(lib, "destroy"))

\* Whatever is loaded, refused, dropped or replaced before, the host reads of a struct
\* what the gates allow: a struct of another version is "refused outright rather than
\* probed field by field", and only a call of process or process_batch can leave a
\* struct, one that has all before them.
ReadsAreGated ==
    \A lib \in Libraries, f \in Fields : <<lib, f>> \in touched => Gated(lib, f)

\* An adapter stays callable after its loader has dropped the library, loaded
\* another or failed to: the code it calls is never unmapped.
AdaptersStayMapped ==
    \A h \in Range(registered) : h.api # "host" => h.api \in mapped

\* create() and destroy() are paired across the boundary that produced them:
\* the live instances are those the adapters hold, each made by the library
\* its adapter calls, and no two adapters share one.
InstancesPaired ==
    LET holds == {i \in DOMAIN registered : registered[i].self \in Selves}
    IN /\ TypeOK /\ AdaptersStayMapped
       /\ DOMAIN maker = {registered[i].self : i \in holds}
       /\ \A i, j \in holds : registered[i].self = registered[j].self => i = j
       /\ \A i \in holds : maker[registered[i].self] = registered[i].api
=============================================================================
