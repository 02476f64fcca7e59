-------------------------------- MODULE Pot --------------------------------
(***************************************************************************)
(* A persistent ordered trie as its callers see it: an Index               *)
(* (packages/pot/src/index.ts) over SingleOrder, in memory, or over        *)
(* SwarmPot, which packs nodes and reads them back one by one.  Updates    *)
(* run one after the other here; PotIndex is about their interleaving.     *)
(***************************************************************************)
EXTENDS PotOps

CONSTANTS
  Persistent,    \* the trie can be opened again from its reference
  IdleUpdates,   \* bound: whether callers make idle updates (see Idle)
  PackedDeletes, \* bound: whether callers make blind deletions (see Blind)
  MaxNodes       \* bound: nodes a trie keeps, and entries lost, when callers put
                 \* another entry; they still delete where there is one more

ASSUME PotAssumption ==
  /\ {Persistent, IdleUpdates, PackedDeletes} \subseteq BOOLEAN
  /\ MaxNodes \in Nat

VARIABLES
  trie,    \* the root of the trie
  packed,  \* the keys of its nodes that are packed
  kv,      \* what was put and not deleted: the map the callers have in mind
  lost     \* history: the keys of kv whose entries an update of another one,
           \* or an idle update of their own, has dropped

potVars == <<trie, packed, kv, lost>>

NoEntries == [k \in {} |-> NoValue]

-----------------------------------------------------------------------------
(* What a trie holds.                                                      *)

\* A node, and the position from which on find() looks at its forks.
At(n, from) == [node |-> n, from |-> from]

Forks(x) == {i \in DOMAIN x.node.forks : i >= x.from}

\* The nodes behind forks at i of the nodes in X.
Behind(X, i) == {Fork(x.node.forks, i) : x \in X} \ {Null, Empty}

\* All nodes that find() gets to from n.  Positions grow on the way, so those
\* before i suffice to get to all nodes that have a fork at i on the way.
Below(n, from) ==
  LET reach[i \in from..Depth] ==
        IF i = from THEN {At(n, from)}
        ELSE reach[i - 1] \cup {At(m, i) : m \in Behind(reach[i - 1], i - 1)}
  IN  IF IsEmpty(n) THEN {} ELSE reach[Depth]

Contents(n, from) == {<<x.node.key, x.node.val>> : x \in Below(n, from)}

\* Every entry is behind the fork find() looks for it.
WellFormed(n, from) ==
  \A x \in Below(n, from) :
    /\ DOMAIN x.node.forks \subseteq 0..(Depth - 1)
    /\ \A i \in Forks(x) :
         LET m == x.node.forks[i].node
         IN  ~IsEmpty(m) /\ PO(x.node.key, m.key, 0, Depth) = i

\* The keys whose entries the trie should still have.
Held == DOMAIN kv \ lost

TrieTypeOK ==
  /\ WellFormed(trie, 0)
  /\ DOMAIN kv \subseteq Key
  /\ \A k \in DOMAIN kv : kv[k] \in Value
  /\ lost \subseteq DOMAIN kv
  /\ packed \subseteq Held

TrieInit ==
  /\ trie = Empty
  /\ packed = {}
  /\ kv = NoEntries
  /\ lost = {}

-----------------------------------------------------------------------------
(* What the callers do.                                                    *)

\* What the trie should have for k.
Current(k) == IF k \in Held THEN kv[k] ELSE NoValue

WithForked(X) == X \cup UNION {{x.forks[i].node : i \in DOMAIN x.forks} : x \in X}

\* The nodes a trie keeps: with KeepPassed every update leaves the nodes it
\* replaced behind forks that are out of reach, so that their number grows.
NodesKept(n) ==
  LET kept[d \in 0..MaxNodes] == IF d = 0 THEN {n} \ {Empty} ELSE WithForked(kept[d - 1])
  IN  Cardinality(kept[MaxNodes])

\* The last fork of the node at which the way to k ends.
LastOf(n, k) ==
  LET p == Descent(Half(n, k), k)
  IN  Fork(p.node.forks, LastFork(p.node, p.from))

\* An update in the other half that changes nothing there: the call for that
\* half returns null, which the caller takes for "now empty" (ops.ts:85-88).
Idle(k, v) == v = Current(k) /\ trie # Empty /\ InOtherHalf(trie, k)

\* A deletion whose node has a packed last fork: isEmpty() takes it for none
\* (ops.ts:113-114).
Blind(k, v) ==
  /\ v = NoValue /\ k \in Held
  /\ LET m == LastOf(trie, k) IN ~IsEmpty(m) /\ m.key \in packed

\* The keys whose entries an update of k drops with its own: an idle one the
\* whole half, a blind one those behind the forks of the node of k.
Dropped(k, v) ==
  IF ~(Idle(k, v) \/ Blind(k, v)) THEN {}
  ELSE LET from == IF Idle(k, v) THEN 0 ELSE Descent(Half(trie, k), k).from
       IN  {j \in Key : (InOtherHalf(trie, k) => j[0] = k[0]) /\ \A i \in 0..(from - 1) : j[i] = k[i]}

Allowed(k, v) ==
  /\ NodesKept(trie) + Cardinality(lost) <= (IF v = NoValue THEN MaxNodes + 1 ELSE MaxNodes)
  /\ Idle(k, v) => IdleUpdates
  /\ Blind(k, v) => PackedDeletes

\* unpack() of the nodes on the way to k.
Unpack(k) == packed' = packed \ {n.key : n \in OnWay(trie, k)}

\* Index.update(): the root is replaced unless nothing changes.  SwarmPot packs
\* the new root.
Install(k, v) ==
  LET updated == UpdateInner(trie, k, v, packed)
  IN  /\ packed' = (packed \ {n.key : n \in OnWay(trie, k)}) \ Dropped(k, v)
      /\ trie' = IF updated = Null THEN trie ELSE updated
      /\ lost' = ((lost \ {k}) \cup Dropped(k, v)) \cap DOMAIN kv'

\* add()
Put(k, v) ==
  /\ Allowed(k, v)
  /\ kv' = [j \in DOMAIN kv \cup {k} |-> IF j = k THEN v ELSE kv[j]]
  /\ Install(k, v)

\* delete()
Delete(k) ==
  /\ Allowed(k, NoValue)
  /\ kv' = [j \in DOMAIN kv \ {k} |-> kv[j]]
  /\ Install(k, NoValue)

\* find(): only unpacks.
Lookup(k) ==
  /\ Unpack(k)
  /\ UNCHANGED <<trie, kv, lost>>

\* A node that was read has its entry; its forks have references.
ReadFromReference(n) == packed' = {x.node.key : x \in Below(n, 0)} \ {n.key}

\* save(), then fromReference().
SaveAndLoad ==
  /\ Persistent
  /\ trie # Empty
  /\ ReadFromReference(trie)
  /\ UNCHANGED <<trie, kv, lost>>

TrieNext ==
  \/ \E k \in Key, v \in Value : Put(k, v)
  \/ \E k \in Key : Delete(k)
  \/ \E k \in Key : Lookup(k)
  \/ SaveAndLoad

TrieSpec == TrieInit /\ [][TrieNext]_potVars

-----------------------------------------------------------------------------
(* Properties.                                                             *)

\* The trie holds what was put and neither deleted nor dropped, each entry once:
\* the restructuring of wedge, whirl, whack and pull loses and doubles nothing.
ContentsAgree ==
  /\ Contents(trie, 0) = {<<k, kv[k]>> : k \in Held}
  /\ trie # Empty => NewAtSize(-1, trie) = Cardinality(Held)

\* find() gets at every entry, and at nothing else.
FindAgrees == \A k \in Key : Find(trie, k) = Current(k)

\* The size kept in a fork, which iterate() takes for a sign of a single
\* entry, is the number of entries behind it.
SizesAgree(n, from) ==
  \A x \in Below(n, from) : \A i \in Forks(x) :
    x.node.forks[i].size = Cardinality(Contents(x.node.forks[i].node, i + 1))

\* After any sequence of updates, saves and reopenings the trie is the map its
\* callers have in mind, less the entries that idle updates and blind deletions
\* have dropped: for who walks it as for who looks a key up, and up to the last
\* entry, also when those entries are put again.
TrieIsMap == ContentsAgree /\ FindAgrees

\* Forks are well formed, and the size each keeps is that of what is behind it
\* (newAt and append of node.ts).
NodesSound == TrieTypeOK /\ SizesAgree(trie, 0)

\* What was put and not deleted is found: an update changes the entry of its
\* key only.  "add same item and find no change" (test/index.test.ts:37), and
\* "preserves the others" (test/index.test.ts:100), say so of the two updates
\* that drop entries.
NothingLost == \A k \in DOMAIN kv : Find(trie, k) = kv[k]
=============================================================================
