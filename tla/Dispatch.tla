------------------------------ MODULE Dispatch ------------------------------
(***************************************************************************)
(* switchyard's dispatch plane: handlers, and the arms that pick one.      *)
(*                                                                         *)
(* The reference is the brief's loop, ScanUnordered: the first registered  *)
(* handler that matches wins.  Every other arm (the scan sorted by         *)
(* frequency, the self-organizing scan, the directly indexed table, the    *)
(* compact table, and the mechanism arms behind Selector) claims to give   *)
(* the same answer faster.  This module holds what each builds and what    *)
(* each answers; Switchyard puts them in one system with the plugins.      *)
(*                                                                         *)
(* A handler is a record: `takes` is the set of payload classes            *)
(* (payload[0] & 3) its predicate accepts once the key is equal.  A result *)
(* names the code that computed it (`value`) and the number it reports.    *)
(***************************************************************************)
EXTENDS Plugin, Integers, TLC, Functions, SequencesExt, FiniteSetsExt

CONSTANTS kHandlers,   \* config.hpp: 100 generated handlers
          kSize        \* buckets of the compact table and of Selector (2^10)

\* The keys of the generated handlers, residual ones from 900 on, are apart and
\* fall into buckets of their own.
ASSUME SizesAssumption == kHandlers \in 0 .. 900 /\ kSize \in Nat /\ kSize > 902

Payloads == 0 .. 3
kNone    == 65535      \* Result::kNone, and Selector::kNone
kEmpty   == 65535      \* TableCompact::kEmpty

Unsupported == [value |-> <<"none", 0>>, handler |-> kNone]
Nobody      == [id |-> <<"nobody", 0>>]

(* ------------------------------ handlers -------------------------------- *)
\* `api` and `self` are what a plugin's adapter holds; a handler compiled into
\* the host has neither.
HostHandler(id, key, tag, residual, takes) ==
    [id |-> id, key |-> key, tag |-> tag, residual |-> residual,
     takes |-> takes, api |-> "host", self |-> "host"]

residual_of(n) == n % 10 = 7
key_of(n)      == IF residual_of(n) THEN 900 + (n % 3) ELSE n

Generated(n) ==
    HostHandler(<<"generated", n>>, key_of(n), key_of(n), residual_of(n),
                IF residual_of(n) THEN {(n \div 10) % 4} ELSE Payloads)

GeneratedKeys == {key_of(n) : n \in 0 .. kHandlers - 1}

Overlapping(i) == HostHandler(<<"overlapping", i>>, 3000, i, TRUE, Payloads)

InternalEquivalent(k) == HostHandler(<<"internal", k>>, k, k, FALSE, Payloads)

matches(h, p) == p.protocol = h.key /\ p.low \in h.takes

\* An adapter hands the packet across with a blank result, and reports any error
\* of the plugin's as unsupported.
AcrossBoundary(h, p) ==
    LET r == process(h.self, p, SwyResult)
    IN IF r.rc # SWY_OK THEN Unsupported ELSE r.out

\* An internal equivalent does the plugin's arithmetic on this side.
Process(h, p) ==
    IF h.api # "host" THEN AcrossBoundary(h, p)
    ELSE [value |-> IF h.id[1] = "internal" THEN mix(p) ELSE h.id, handler |-> h.tag]

Answer(h, p) == IF h = Nobody THEN Unsupported ELSE Process(h, p)

(* ------------------------------ scan arms ------------------------------- *)
HitIndex(list, p) == SelectInSeq(list, LAMBDA h : matches(h, p))

Scan(list, p) == LET i == HitIndex(list, p)
                 IN IF i = 0 THEN Nobody ELSE list[i]

\* Faulty: a handler the traffic never reached is left out of the list.
OrderedSeen(list, freq) ==
    LET seen == SetToSortSeq({i \in DOMAIN list : freq[i] > 0},
                             LAMBDA i, j : freq[i] > freq[j] \/ (freq[i] = freq[j] /\ i < j))
    IN [i \in DOMAIN seen |-> list[seen[i]]]

\* The members of a list at some indices, sorted by a relation between indices.
Sorted(list, indices, before) ==
    LET rank(i) == Cardinality({j \in indices : <<j, i>> \in before})
    IN [n \in 1 .. Cardinality(indices) |-> list[CHOOSE i \in indices : rank(i) = n - 1]]

\* std::stable_sort by frequency, the largest first.
Oftener(freq, indices) ==
    {e \in indices \X indices :
        freq[e[1]] > freq[e[2]] \/ (freq[e[1]] = freq[e[2]] /\ e[1] < e[2])}
Ordered(list, freq) == Sorted(list, DOMAIN list, Oftener(freq, DOMAIN list))

\* Faulty: the neighbour is overwritten instead of swapped.
PromoteByCopy(list, p) ==
    LET i == HitIndex(list, p)
    IN IF i <= 1 THEN list ELSE [list EXCEPT ![i - 1] = list[i]]

\* The order ScanMoveToFront is left with once it has dispatched p.
Promote(list, p) ==
    LET i == HitIndex(list, p)
    IN IF i <= 1 THEN list
       ELSE [list EXCEPT ![i] = list[i - 1], ![i - 1] = list[i]]

(* ------------------------------ table arms ------------------------------ *)
\* A key's candidates, in registration order.
Earlier(indices) == {e \in indices \X indices : e[1] < e[2]}
Candidates(list, k) ==
    LET claims == {i \in DOMAIN list : list[i].key = k}
    IN Sorted(list, claims, Earlier(claims))

\* Faulty: a lone handler owns its slot although its predicate is residual.
SlotIgnoresResidual(list, k) ==
    LET cands == Candidates(list, k)
    IN IF Len(cands) = 1
       THEN [key |-> k, only |-> cands[1], cands |-> <<>>]
       ELSE [key |-> k, only |-> Nobody, cands |-> cands]

\* One pure handler owns the slot, any others queue behind it.
Slot(list, k) ==
    LET cands == Candidates(list, k)
    IN IF Len(cands) = 1 /\ ~cands[1].residual
       THEN [key |-> k, only |-> cands[1], cands |-> <<>>]
       ELSE [key |-> k, only |-> Nobody, cands |-> cands]

FromSlot(s, p) == IF s.only # Nobody THEN s.only ELSE Scan(s.cands, p)

\* A slot no key claimed is left out of the function.
TableDirect16(list) == [k \in {h.key : h \in Range(list)} |-> Slot(list, k)]

DispatchDirect16(tbl, p) ==
    IF p.protocol \in DOMAIN tbl THEN FromSlot(tbl[p.protocol], p) ELSE Nobody

Bucket(k) == k % kSize

\* A bucket is held by the first key that falls in it; another key that does is
\* left out.  No handler claims kEmpty, the mark of a bucket no key holds.
TableCompact(list) ==
    LET falls(b) == {i \in DOMAIN list : Bucket(list[i].key) = b}
        holder(b) == list[Min(falls(b))].key
    IN [tbl       |-> [b \in {Bucket(h.key) : h \in Range(list)} |-> Slot(list, holder(b))],
        injective |-> \A h, g \in Range(list) : Bucket(h.key) = Bucket(g.key) => h.key = g.key]

DispatchCompact(tbl, p) ==
    IF Bucket(p.protocol) \in DOMAIN tbl /\ tbl[Bucket(p.protocol)].key = p.protocol
    THEN FromSlot(tbl[Bucket(p.protocol)], p)
    ELSE Nobody

(* ----------------------- the arms of a phase ---------------------------- *)
Arms == {"unordered", "ordered", "mtf", "direct", "compact"}

\* The arms, built over one registered list; the scans hold it by value.
NewArms(list, freq) ==
    [unordered |-> list,
     ordered   |-> Ordered(list, freq),
     mtf       |-> list,
     direct    |-> TableDirect16(list),
     compact   |-> TableCompact(list)]

\* The handler an arm finds for p.
Found(arms, arm, p) ==
    CASE arm \in {"unordered", "ordered", "mtf"} -> Scan(arms[arm], p)
      [] arm = "direct"  -> DispatchDirect16(arms.direct, p)
      [] arm = "compact" -> DispatchCompact(arms.compact.tbl, p)

(* ------------------------- Selector and mechanisms ----------------------- *)
\* The first handler whose key falls in a bucket wins the bucket.
Selector ==
    LET falls(b) == {n \in 0 .. kHandlers - 1 : Bucket(key_of(n)) = b}
    IN [b \in {Bucket(k) : k \in GeneratedKeys} |->
            [idx |-> Min(falls(b)), key |-> key_of(Min(falls(b)))]]

\* Faulty: the bucket's key is not compared with the packet's.
selectByBucket(p) ==
    LET b == Bucket(p.protocol) IN IF b \in DOMAIN Selector THEN Selector[b].idx ELSE kNone

select(p) ==
    LET b == Bucket(p.protocol)
    IN IF b \in DOMAIN Selector /\ Selector[b].key = p.protocol
       THEN Selector[b].idx ELSE kNone

MechDirect(p)  == Process(Generated(0), p)
MechVirtual(p) == IF select(p) = kNone THEN Unsupported
                  ELSE Process(Generated(select(p)), p)
MechErasure(p) == LET thunk(n) == [value |-> Generated(n).id, handler |-> key_of(n)]
                  IN IF select(p) = kNone THEN Unsupported ELSE thunk(select(p))
MechVariant(p) == IF select(p) = kNone THEN Unsupported
                  ELSE Process(Generated(select(p)), p)

=============================================================================
