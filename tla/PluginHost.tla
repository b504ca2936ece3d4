----------------------------- MODULE PluginHost -----------------------------
(***************************************************************************)
(* switchyard's plugin plane: the loader, the C struct it negotiates, and  *)
(* the instances that cross the boundary.                                  *)
(*                                                                         *)
(* A library is an image on disk: whether it opens and exports an entry,   *)
(* what that entry returns, and the struct_size, abi_version and keys the  *)
(* struct it returns reports.  `touched` holds the fields of a library's   *)
(* struct the last step read: the struct of an old plugin ends early, and  *)
(* what lies beyond its end is not a field.                                *)
(***************************************************************************)
EXTENDS Plugin, Integers, FiniteSets

CONSTANTS Libraries,   \* images that may be found where a plugin is expected
          Image,       \* library -> [entry, size, version, keys]
          Loaders,     \* the host's LoadedPlugin objects
          Finds,       \* loader -> the libraries its path may name
          Selves       \* addresses create() may return

NoApi == "no api"

\* Where a field of SwyPluginApi starts on a 64-bit host.
Fields == DOMAIN FieldEnd
Offset == [f \in Fields |-> IF FieldEnd[f] <= 8 THEN FieldEnd[f] - 4 ELSE FieldEnd[f] - 8]

VARIABLES
    api,       \* loader -> LoadedPlugin::api_, named by its library
    mapped,    \* the libraries mapped into the process
    maker,     \* live instance -> the library whose create() made it
    touched    \* <<library, field>> pairs the host's last step read

hostVars == <<api, mapped, maker, touched>>

HostInit ==
    /\ api     = [l \in Loaders |-> NoApi]
    /\ mapped  = {}
    /\ maker   = << >>
    /\ touched = {}

Touch(lib, fields) == touched' = {lib} \X fields

\* A library's struct has a field in full.
Has(lib, f) == FieldEnd[f] <= Image[lib].size

(* ------------------------------- the loader ------------------------------ *)
SpeaksVersion(lib) == Image[lib].version = SWY_ABI_VERSION

\* Faulty: what the gate needs is taken to end with create.
LongEnoughToCreate(lib) == Image[lib].size >= Offset["destroy"]

\* The gate compares with where process starts, not with where it ends.
LongEnough(lib) == Image[lib].size >= Offset["process"]
Accepted(lib) == Image[lib].entry = "api" /\ SpeaksVersion(lib) /\ LongEnough(lib)

\* load() drops whatever was loaded before; a file that opens stays mapped
\* whether it is accepted or not.
Load(l, lib) ==
    /\ api'    = [api EXCEPT ![l] = IF Accepted(lib) THEN lib ELSE NoApi]
    /\ mapped' = IF Image[lib].entry = "unreadable" THEN mapped ELSE mapped \cup {lib}
    /\ Touch(lib, (IF Image[lib].entry = "api" THEN {"abi_version"} ELSE {})
                  \cup (IF Image[lib].entry = "api" /\ SpeaksVersion(lib)
                        THEN {"struct_size"} ELSE {}))
    /\ UNCHANGED maker

\* Faulty: the library is unmapped with its handle.
UnloadAndUnmap(l) ==
    /\ api' = [api EXCEPT ![l] = NoApi]
    /\ mapped' = mapped \ {api[l]}
    /\ touched' = {}
    /\ UNCHANGED maker

\* The handle is dropped, the mapping is not.
Unload(l) ==
    /\ api' = [api EXCEPT ![l] = NoApi]
    /\ touched' = {}
    /\ UNCHANGED <<mapped, maker>>

has_batch(l) == api[l] # NoApi /\ Has(api[l], "process_batch")

\* The host asks for the count, then for the keys.
claimed_keys(l) ==
    IF api[l] = NoApi THEN << >>
    ELSE LET keys == Image[api[l]].keys
         IN PluginKeys(keys, PluginKeys(keys, 0).count).out

(* ------------------------ instances and the adapter ---------------------- *)
\* create(): a fresh instance, or null when the plugin's heap has none left.
CreateReturns(lib, self) ==
    \/ self \in Selves \ DOMAIN maker /\ maker' = [s \in DOMAIN maker \cup {self} |->
                                                    IF s = self THEN lib ELSE maker[s]]
    \/ self = NoSelf /\ maker' = maker

\* Faulty: the adapters' destructor forgets the plugin's side.
destroyNothing(selves) == maker' = maker

destroy(selves) == maker' = [s \in DOMAIN maker \ selves |-> maker[s]]

PluginBackedHandler(lib, k, self) ==
    [id |-> <<"plugin", k>>, key |-> k, tag |-> k, residual |-> FALSE,
     takes |-> 0 .. 3, api |-> lib, self |-> self]

=============================================================================
