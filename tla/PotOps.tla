------------------------------- MODULE PotOps -------------------------------
(***************************************************************************)
(* The algorithms of the persistent ordered trie                           *)
(* (packages/pot/src/elements: ops.ts, pot.ts, node.ts).                   *)
(*                                                                         *)
(* A key is a sequence of Depth bits, numbered from 0 as in the code.  A   *)
(* node holds an entry and its forks: the fork at `po` leads to the        *)
(* entries that agree with the key of the node before bit po and differ in *)
(* it.  The code keeps forks in a list sorted by `at` to which it appends  *)
(* behind a truncation; here they are a function from `at`, and a fork is  *)
(* [node, size].  A node under construction (`acc`) is its forks.          *)
(*                                                                         *)
(* A node of a persisted trie that has not been read yet is packed: it has *)
(* a reference and neither entry nor forks.  The model keeps what its      *)
(* reference stands for; `packed` are the keys of such nodes.              *)
(*                                                                         *)
(* Calls of a function at its end are steps of a recursive function here:  *)
(* a step is taken while there is a fork to follow, at most Depth times.   *)
(***************************************************************************)
EXTENDS Integers, FiniteSets, FiniteSetsExt

CONSTANTS
  Depth,      \* mode.depth() and MaxDepth
  Value,      \* values of entries
  KeepPassed  \* keep the forks that are out of reach behind a fork

ASSUME PotOpsAssumption ==
  /\ Depth \in Nat \ {0}
  /\ KeepPassed \in BOOLEAN

Key == [0..(Depth - 1) -> {0, 1}]

Null    == [node |-> "null"]
Empty   == [node |-> "empty"]  \* mode.newNode(), nothing pinned
NoValue == "none"              \* entry == null: a deletion, or nothing found

ASSUME NoValueAssumption == NoValue \notin Value

NoForks == <<>>

Pin(acc, k, v) == [key |-> k, val |-> v, forks |-> acc]

\* isEmpty() of a node that is loaded.
IsEmpty(n) == n \in {Null, Empty}

\* isEmpty(): a packed node has nothing pinned either.
LooksEmpty(n, packed) == IsEmpty(n) \/ n.key \in packed

\* fork(po) of a node with forks fs.
Fork(fs, po) == IF po \in DOMAIN fs THEN fs[po].node ELSE Null

Truncate(fs, po) == [i \in {j \in DOMAIN fs : j < po} |-> fs[i]]

\* The bit in which the keys a and b differ first, at pos or later; len if
\* they agree in the bits pos..len-1.
PO(a, b, pos, len) == Min({i \in pos..(len - 1) : a[i] # b[i]} \cup {len})

\* Mutant: every fork counts, those at and before `at` as well.
NewAtSizeAll(at, n) ==
  IF IsEmpty(n) THEN 0
  ELSE 1 + MapThenSumSet(LAMBDA i : n.forks[i].size, DOMAIN n.forks)

\* The size newAt(at, n) computes from the sizes kept in the forks of n.
NewAtSize(at, n) ==
  IF IsEmpty(n) THEN 0
  ELSE LET size[i \in at..Depth] ==
             IF i = at THEN 1 ELSE size[i - 1] + (IF i \in DOMAIN n.forks THEN n.forks[i].size ELSE 0)
       IN  size[Depth]

\* Nothing looks at the forks of n before `at` once n is behind a fork at `at`.
\* The code keeps them; leaving them out makes for fewer states.
Reachable(at, n) ==
  IF KeepPassed THEN n
  ELSE Pin([i \in {j \in DOMAIN n.forks : j > at} |-> n.forks[i]], n.key, n.val)

\* acc.append(newAt(at, n))
WithFork(acc, at, n) ==
  [i \in DOMAIN acc \cup {at} |->
     IF i = at THEN [node |-> Reachable(at, n), size |-> NewAtSize(at, n)] ELSE acc[i]]

\* Truncate acc at `from` and copy the forks of n from there up to `to`.
AppendRange(acc, n, from, to) ==
  LET left   == Truncate(acc, from)
      copied == {i \in DOMAIN n.forks : from <= i /\ i < to}
  IN  [i \in DOMAIN left \cup copied |-> IF i \in copied THEN n.forks[i] ELSE left[i]]

\* A node under construction, and the node of which it is yet to take the
\* forks from `from` on: acc and cn.
Place(acc, n, from) == [acc |-> acc, node |-> n, from |-> from]

-----------------------------------------------------------------------------
(* wedge, whirl and whack.                                                 *)

\* n with the fork at `at` replaced by m, which may be Null.
Wedge(acc, n, from, at, m) ==
  LET left == AppendRange(acc, n, from, at)
      mid  == IF IsEmpty(m) THEN left ELSE WithFork(left, at, m)
  IN  Pin(AppendRange(mid, n, at + 1, Depth), n.key, n.val)

\* The forks of the entry that takes the place of n when it differs from n in
\* bit `at`: those of n before `at`, and n itself.
WhirlForks(acc, n, from, at) == WithFork(AppendRange(acc, n, from, at), at, n)

\* whirl(acc, cn, cm), then cnodeNext(cm): on with the fork at `at`.
Whirl(p, at) == Place(WhirlForks(p.acc, p.node, p.from, at), Fork(p.node.forks, at), at + 1)

\* Mutant: without the forks collected on the way.
WhackForksAnew(acc, n, from, m, at) ==
  LET left == AppendRange(NoForks, n, from, at)
      mid  == IF at < Depth THEN WithFork(left, at, n) ELSE left
  IN  AppendRange(mid, m, at + 1, Depth)

\* m takes the place of n at bit `at`, with its own forks behind that bit.
WhackForks(acc, n, from, m, at) ==
  LET left == AppendRange(acc, n, from, at)
      mid  == IF at < Depth THEN WithFork(left, at, n) ELSE left
  IN  AppendRange(mid, m, at + 1, Depth)

-----------------------------------------------------------------------------
(* pull: taking an entry out.                                              *)

\* findFork(cn, null): where the last fork of n at `from` or later is, -1 if
\* there is none.
LastFork(n, from) == Max({i \in DOMAIN n.forks : i >= from} \cup {-1})

\* A step of pullTail(): the last fork moves up.
PullUp(p, packed) ==
  LET last == LastFork(p.node, p.from)
  IN  IF LooksEmpty(Fork(p.node.forks, last), packed) THEN p ELSE Whirl(p, last)

PullTail(p, packed) ==
  LET moved[d \in 0..Depth] == IF d = 0 THEN p ELSE PullUp(moved[d - 1], packed)
      end == moved[Depth]
  IN  Wedge(end.acc, end.node, end.from, Depth, Null)

\* Mutant: the entry that moves up leaves its own forks behind.
PullNoTail(p, packed) ==
  LET last   == LastFork(p.node, p.from)
      m      == Fork(p.node.forks, last)
      parent == Fork(p.acc, p.from - 1)
  IN  IF ~LooksEmpty(m, packed) THEN Pin(AppendRange(p.acc, p.node, p.from, last), m.key, m.val)
      ELSE IF parent = Null THEN Empty
      ELSE Wedge(Truncate(p.acc, p.from - 1), parent, p.from - 1, p.from - 1, Null)

\* The last fork moves up; without forks, the parent takes the place of the
\* node, and without a parent the trie is empty.
Pull(p, packed) ==
  LET last   == LastFork(p.node, p.from)
      m      == Fork(p.node.forks, last)
      parent == Fork(p.acc, p.from - 1)
  IN  IF ~LooksEmpty(m, packed)
      THEN PullTail(Place(Wedge(p.acc, p.node, p.from, last, Null).forks, m, last + 1), packed)
      ELSE IF parent = Null THEN Empty
      ELSE Wedge(Truncate(p.acc, p.from - 1), parent, p.from - 1, p.from - 1, Null)

-----------------------------------------------------------------------------
(* update.                                                                 *)

\* A step of updateInner() on its way to k: whirl(acc, cn, cm), and on.
Down(p, k) ==
  LET po == PO(p.node.key, k, p.from, Depth)
  IN  IF IsEmpty(Fork(p.node.forks, po)) THEN p ELSE Whirl(p, po)

\* Where the way to k ends that begins at the root n.
Descent(n, k) ==
  LET way[d \in 0..Depth] == IF d = 0 THEN Place(NoForks, n, 0) ELSE Down(way[d - 1], k)
  IN  way[Depth]

\* updateInner() at the end of the way to k: the new node, or Null for no
\* change.  v = NoValue deletes.
UpdateEnd(p, k, v, packed) ==
  LET po == PO(p.node.key, k, p.from, Depth)
  IN  CASE po = Depth /\ v = NoValue    -> Pull(p, packed)
        [] po = Depth /\ v = p.node.val -> Null
        [] po = Depth /\ v \notin {NoValue, p.node.val} ->
             Pin(WhackForks(p.acc, p.node, p.from, Pin(NoForks, k, v), Depth), k, v)
        [] po < Depth /\ v = NoValue    -> Null
        [] po < Depth /\ v # NoValue    -> Pin(WhirlForks(p.acc, p.node, p.from, po), k, v)

\* k is in the other half of the trie, behind the first bit of the root.
InOtherHalf(n, k) == PO(n.key, k, 0, Depth) = 0 /\ ~IsEmpty(Fork(n.forks, 0))

\* The other half is updated by itself; its nodes have no fork at bit 0 in turn.
Half(n, k) == IF InOtherHalf(n, k) THEN Fork(n.forks, 0) ELSE n

\* n with its other half replaced by res.
WithOtherHalf(n, res) ==
  IF IsEmpty(res) THEN Wedge(NoForks, n, 0, 0, Null)
  ELSE Pin(WhackForks(NoForks, res, -1, n, 0), n.key, n.val)

\* updateInner() of a root n.
UpdateInner(n, k, v, packed) ==
  IF IsEmpty(n) THEN IF v = NoValue THEN Null ELSE Pin(NoForks, k, v)
  ELSE LET res == UpdateEnd(Descent(Half(n, k), k), k, v, packed)
       IN  IF InOtherHalf(n, k) THEN WithOtherHalf(n, res) ELSE res

-----------------------------------------------------------------------------
(* find.                                                                   *)

\* findNext(): on with the fork in the direction of k.
FindNext(x, k) ==
  IF IsEmpty(x.node) THEN x
  ELSE LET po == PO(x.node.key, k, x.from, Depth)
       IN  IF po = Depth THEN x ELSE [node |-> Fork(x.node.forks, po), from |-> po]

\* The nodes find() goes through on its way to k; it ends at an empty node or
\* at that of k.
Way(n, k) ==
  LET way[d \in 0..Depth] == IF d = 0 THEN [node |-> n, from |-> 0] ELSE FindNext(way[d - 1], k)
  IN  way

Find(n, k) ==
  LET end == Way(n, k)[Depth].node
  IN  IF IsEmpty(end) THEN NoValue ELSE end.val

\* The nodes find() and update() unpack.
OnWay(n, k) == LET way == Way(n, k) IN {way[d].node : d \in 0..Depth} \ {Null, Empty}
=============================================================================
