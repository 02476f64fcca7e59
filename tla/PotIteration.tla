---------------------------- MODULE PotIteration ----------------------------
(***************************************************************************)
(* Walks over the entries of a trie: iterate() of                          *)
(* packages/pot/src/elements/pot.ts.                                       *)
(***************************************************************************)
EXTENDS Pot, Sequences

\* A step of findNode() on its way to the prefix p, of len bits.
FindNodeNext(x, p, len) ==
  IF IsEmpty(x.node) THEN x
  ELSE LET po == PO(x.node.key, p, x.from, len)
       IN  IF po = len THEN x ELSE At(Fork(x.node.forks, po), po)

\* findNode(): the first node on that way that agrees with the prefix.
FindNode(root, p, len) ==
  LET way[d \in 0..Depth] == IF d = 0 THEN At(root, 0) ELSE FindNodeNext(way[d - 1], p, len)
      end == way[Depth].node
  IN  IF IsEmpty(end) THEN Null ELSE end

\* A call of iterateInner().
Call(n, at, size) == [node |-> n, at |-> at, size |-> size]

ForkCalls(n, i) == IF i \in DOMAIN n.forks THEN <<Call(n.forks[i].node, i, n.forks[i].size)>> ELSE <<>>

\* The calls for the forks in slice(n, from, to), the last fork first.
SliceCalls(n, from, to) ==
  LET calls[i \in from..to] == IF i = from THEN <<>> ELSE ForkCalls(n, i - 1) \o calls[i - 1]
  IN  calls[to]

\* Mutant: the loop runs forwards.
InListOrder(before, self, near) == before \o self \o near

\* The loop over the forks before the one that leads to the pivot, the node
\* itself, and that fork runs backwards.
InReverse(before, self, near) == near \o self \o before

\* The calls that a call makes, one after the other.
Calls(c, pivot) ==
  LET po == PO(c.node.key, pivot, c.at + 1, Depth)
  IN  InReverse(SliceCalls(c.node, c.at + 1, po), <<Call(c.node, po, NewAtSize(po, c.node))>>, ForkCalls(c.node, po))

\* iterateInner(), with the keys emitted so far and the calls to be made, of
\* which the first is made now.
IterateInner(s, pivot) ==
  IF s.calls = <<>> THEN s
  ELSE LET c    == Head(s.calls)
           rest == Tail(s.calls)
       IN  IF IsEmpty(c.node) THEN [keys |-> s.keys, calls |-> rest]
           ELSE IF c.size = 1 THEN [keys |-> Append(s.keys, c.node.key), calls |-> rest]
           ELSE [keys |-> s.keys, calls |-> Calls(c, pivot) \o rest]

\* What iterate() comes to: the keys it emits, or ErrNotFound.
Emitted(keys)  == [error |-> FALSE, keys |-> keys]
ErrNotFound    == [error |-> TRUE, keys |-> <<>>]

\* iterate() with the prefix p, of len bits: findNode() throws when it comes to
\* an empty node.  The walk takes at most a call for each key and bit.
Iterate(root, p, len, pivot) ==
  LET n    == FindNode(root, p, len)
      size == NewAtSize(len, n)
      last == size * (Depth + 1)
      state[d \in 0..last] ==
        IF d = 0 THEN [keys |-> <<>>, calls |-> <<Call(n, len, size)>>] ELSE IterateInner(state[d - 1], pivot)
  IN  IF n = Null THEN ErrNotFound ELSE Emitted(state[last].keys)

-----------------------------------------------------------------------------
(* Properties.                                                             *)

Prefixed(k, p, len) == \A i \in 0..(len - 1) : k[i] = p[i]

\* A prefix of len bits stands for the keys that are 0 behind it.
Prefix(len) == {p \in Key : \A i \in len..(Depth - 1) : p[i] = 0}

\* The keys the trie should have with a prefix.
HeldWith(p, len) == {k \in Held : Prefixed(k, p, len)}

KeysOf(s) == {s[i] : i \in DOMAIN s}

\* iterate() fails exactly when the trie has nothing with the prefix.  It visits
\* entries with the prefix only, each once, the closest to the pivot first, and
\* with one of them all that have the bit behind the prefix in common with it.
IterateOrdered ==
  \A len \in 0..(Depth - 1) : \A p \in Prefix(len), pivot \in Key :
    LET walk  == Iterate(trie, p, len, pivot)
        found == KeysOf(walk.keys)
    IN  /\ walk.error <=> HeldWith(p, len) = {}
        /\ ~walk.error => found # {}
        /\ found \subseteq HeldWith(p, len)
        /\ \A k \in found : {j \in HeldWith(p, len) : j[len] = k[len]} \subseteq found
        /\ Cardinality(found) = Len(walk.keys)
        /\ \A i, j \in DOMAIN walk.keys :
             i < j => PO(walk.keys[i], pivot, 0, Depth) >= PO(walk.keys[j], pivot, 0, Depth)

\* iterate() "walks entries in the subtree rooted at the node whose key matches
\* prefix `p`" (pot.ts:78): it visits every entry with the prefix.
IterateComplete ==
  \A len \in 0..(Depth - 1) : \A p \in Prefix(len), pivot \in Key :
    KeysOf(Iterate(trie, p, len, pivot).keys) = HeldWith(p, len)
=============================================================================
