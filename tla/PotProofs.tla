----------------------------- MODULE PotProofs -----------------------------
(***************************************************************************)
(* The persistent ordered trie is a map, for keys of any length and after  *)
(* any sequence of updates, saves and openings; walks over it are complete *)
(* and in order; and updates of an Index that overlap are atomic (the      *)
(* section at the end).                                                    *)
(*                                                                         *)
(* Shows(n, from, C): looking at the forks from `from` on, n has the       *)
(* entries C, its forks are well formed and their sizes right.  It is a    *)
(* matter of the forks of n and what each shows (ShowsLocal, LocalShows),  *)
(* so that an update needs to look at a node and its forks only.           *)
(***************************************************************************)
EXTENDS PotIteration, PotIndex, FiniteSetTheorems, SequenceTheorems, WellFoundedInduction, TLAPS

LEMMA Params == Depth \in Nat /\ Depth >= 1 /\ 0 \in 0..(Depth - 1) /\ 0 \in 0..Depth
BY PotOpsAssumption

-----------------------------------------------------------------------------
(* Induction, as a statement about sets, and the extremes of a set.        *)

LEMMA MinIs ==
  ASSUME NEW S, S \subseteq Nat, S # {}
  PROVE  Min(S) \in S /\ \A x \in S : Min(S) <= x
<1> DEFINE R == OpToRel(<, Nat)
<1>1. IsWellFoundedOn(R, Nat)
  BY NatLessThanWellFounded
<1>2. \A x, y \in Nat : x < y => <<x, y>> \in R
  BY DEF OpToRel
<1> HIDE DEF R
<1>3. PICK n \in S : \A m \in S : ~ (<<m, n>> \in R)
  BY <1>1, WFMin
<1>4. \A m \in S : n <= m
  <2> TAKE m \in S
  <2>1. m \in Nat /\ n \in Nat /\ ~ (m < n)
    BY <1>2, <1>3
  <2> QED
    BY <2>1
<1> QED
  BY <1>4, Zenon DEF Min

LEMMA MaxIs ==
  ASSUME NEW N \in Nat, NEW S, S \subseteq (-1)..N, S # {}
  PROVE  Max(S) \in S /\ \A x \in S : Max(S) >= x
<1> DEFINE T == {N - x : x \in S}
<1>1. T \subseteq Nat /\ T # {}
  <2>1. ASSUME NEW x \in S PROVE N - x \in Nat
    <3>1. x \in (-1)..N
      OBVIOUS
    <3> QED
      BY <3>1
  <2> QED
    BY <2>1
<1> HIDE DEF T
<1>2. Min(T) \in T /\ \A m \in T : Min(T) <= m
  BY <1>1, MinIs
<1>3. PICK x \in S : Min(T) = N - x
  BY <1>2 DEF T
<1>4. \A y \in S : x >= y
  <2> TAKE y \in S
  <2>1. N - y \in T
    BY DEF T
  <2>2. x \in (-1)..N /\ y \in (-1)..N
    OBVIOUS
  <2>3. N - x <= N - y
    BY <2>1, <1>2, <1>3
  <2> QED
    BY <2>2, <2>3
<1> QED
  BY <1>4, Zenon DEF Max

LEMMA AllNats ==
  ASSUME NEW S, 0 \in S, \A n \in Nat : n \in S => n + 1 \in S
  PROVE  Nat \subseteq S
<1> SUFFICES ASSUME Nat \ S # {} PROVE FALSE
  OBVIOUS
<1>1. PICK n \in Nat \ S : \A m \in Nat \ S : n <= m
  BY MinIs
<1>2. n # 0 /\ n - 1 \in Nat
  BY <1>1
<1>3. n - 1 \in S
  BY <1>1, <1>2
<1> QED
  BY <1>1, <1>2, <1>3

-----------------------------------------------------------------------------
(* Keys.                                                                   *)

\* a and b agree in the bits before i.
Same(a, b, i) == \A j \in 0..(i - 1) : a[j] = b[j]

\* Bit i is the first in which they differ.
Parts(a, b, i) == Same(a, b, i) /\ a[i] # b[i]

LEMMA POIs ==
  ASSUME NEW a, NEW b, NEW pos \in 0..Depth
  PROVE  LET p == PO(a, b, pos, Depth)
         IN  /\ p \in pos..Depth
             /\ p < Depth => a[p] # b[p]
             /\ \A i \in pos..(p - 1) : a[i] = b[i]
<1> DEFINE S == {i \in pos..(Depth - 1) : a[i] # b[i]} \cup {Depth}
           p == Min(S)
<1> USE Params
<1>1. S \subseteq pos..Depth /\ S \subseteq Nat /\ Depth \in S
  OBVIOUS
<1>2. p \in S /\ \A x \in S : p <= x
  BY <1>1, MinIs
<1>3. \A x \in S : x < Depth => a[x] # b[x]
  OBVIOUS
<1>4. \A i \in pos..(Depth - 1) : a[i] # b[i] => i \in S
  OBVIOUS
<1>5. PO(a, b, pos, Depth) = p
  BY DEF PO
<1> HIDE DEF S, p
<1>6. p \in pos..Depth
  BY <1>1, <1>2
<1>7. \A i \in pos..(p - 1) : a[i] = b[i]
  <2> TAKE i \in pos..(p - 1)
  <2>1. i \in pos..(Depth - 1) /\ ~ (p <= i)
    BY <1>6
  <2> QED
    BY <2>1, <1>4, <1>2
<1> QED
  BY <1>2, <1>3, <1>5, <1>6, <1>7

LEMMA POUnique ==
  ASSUME NEW a, NEW b, NEW pos \in 0..Depth, NEW q \in pos..Depth,
         q < Depth => a[q] # b[q], \A i \in pos..(q - 1) : a[i] = b[i]
  PROVE  PO(a, b, pos, Depth) = q
<1> DEFINE p == PO(a, b, pos, Depth)
<1> USE Params
<1>1. p \in pos..Depth /\ (p < Depth => a[p] # b[p]) /\ \A i \in pos..(p - 1) : a[i] = b[i]
  BY POIs
<1> HIDE DEF p
<1>2. ASSUME p < q PROVE FALSE
  <2>1. p \in pos..(q - 1) /\ p < Depth
    BY <1>1, <1>2
  <2> QED
    BY <2>1, <1>1
<1>3. ASSUME q < p PROVE FALSE
  <2>1. q \in pos..(p - 1) /\ q < Depth
    BY <1>1, <1>3
  <2> QED
    BY <2>1, <1>1
<1>4. p = q
  BY <1>1, <1>2, <1>3
<1> QED
  BY <1>4 DEF p

LEMMA PartsOnce ==
  ASSUME NEW a, NEW b, NEW i \in Nat, NEW j \in Nat, Parts(a, b, i), Same(a, b, j) \/ Parts(a, b, j)
  PROVE  (Parts(a, b, j) => i = j) /\ j <= i
<1>1. ASSUME i < j PROVE FALSE
  <2>1. i \in 0..(j - 1)
    BY <1>1
  <2> QED
    BY <2>1 DEF Parts, Same
<1>2. ASSUME j < i, Parts(a, b, j) PROVE FALSE
  <2>1. j \in 0..(i - 1)
    BY <1>2
  <2> QED
    BY <2>1, <1>2 DEF Parts, Same
<1> QED
  BY <1>1, <1>2

\* The position at which find() leaves n is the bit in which the keys part.
LEMMA POParts ==
  ASSUME NEW a, NEW b, NEW pos \in 0..Depth, Same(a, b, pos)
  PROVE  LET p == PO(a, b, pos, Depth)
         IN  p \in pos..Depth /\ Same(a, b, p) /\ (p < Depth => Parts(a, b, p))
<1> DEFINE p == PO(a, b, pos, Depth)
<1>1. p \in pos..Depth /\ (p < Depth => a[p] # b[p]) /\ \A i \in pos..(p - 1) : a[i] = b[i]
  BY POIs
<1> HIDE DEF p
<1>2. Same(a, b, p)
  <2> SUFFICES ASSUME NEW i \in 0..(p - 1) PROVE a[i] = b[i]
    BY DEF Same
  <2>1. i \in 0..(pos - 1) \/ i \in pos..(p - 1)
    BY <1>1, Params
  <2> QED
    BY <2>1, <1>1 DEF Same
<1>3. p \in pos..Depth /\ Same(a, b, p) /\ (p < Depth => Parts(a, b, p))
  BY <1>1, <1>2 DEF Parts
<1> QED
  BY <1>3 DEF p

LEMMA PartsPO ==
  ASSUME NEW a, NEW b, NEW i \in 0..(Depth - 1)
  PROVE  PO(a, b, 0, Depth) = i <=> Parts(a, b, i)
<1>1. Same(a, b, 0)
  BY DEF Same
<1>2. PO(a, b, 0, Depth) = i => Parts(a, b, i)
  BY <1>1, POParts, Params
<1>3. ASSUME Parts(a, b, i) PROVE PO(a, b, 0, Depth) = i
  <2>1. i \in 0..Depth /\ a[i] # b[i] /\ \A j \in 0..(i - 1) : a[j] = b[j]
    BY <1>3, Params DEF Parts, Same
  <2> QED
    BY <2>1, POUnique, Params
<1> QED
  BY <1>2, <1>3

LEMMA SameAll ==
  ASSUME NEW a \in Key, NEW b \in Key, Same(a, b, Depth)
  PROVE  a = b
<1>1. a = [i \in 0..(Depth - 1) |-> a[i]] /\ b = [i \in 0..(Depth - 1) |-> b[i]]
  BY DEF Key
<1>2. \A i \in 0..(Depth - 1) : a[i] = b[i]
  BY DEF Same
<1> QED
  BY <1>1, <1>2

LEMMA PartsOrSame ==
  ASSUME NEW a \in Key, NEW b \in Key, NEW i \in 0..Depth, Same(a, b, i), a # b
  PROVE  \E j \in i..(Depth - 1) : Parts(a, b, j)
<1> DEFINE p == PO(a, b, i, Depth)
<1>1. p \in i..Depth /\ Same(a, b, p) /\ (p < Depth => Parts(a, b, p))
  BY POParts
<1> HIDE DEF p
<1>2. p # Depth
  BY <1>1, SameAll
<1>3. p \in i..(Depth - 1)
  BY <1>1, <1>2, Params
<1>4. Parts(a, b, p)
  BY <1>1, <1>3, Params
<1> QED
  BY <1>3, <1>4

\* Two keys that both part from a third at bit i agree in it.
LEMMA SameBit ==
  ASSUME NEW a \in Key, NEW b \in Key, NEW c \in Key, NEW i \in 0..(Depth - 1), Parts(a, b, i), Parts(a, c, i)
  PROVE  Same(b, c, i + 1)
<1> SUFFICES ASSUME NEW j \in 0..i PROVE b[j] = c[j]
  BY DEF Same
<1>1. CASE j = i
  <2>1. a[i] \in {0, 1} /\ b[i] \in {0, 1} /\ c[i] \in {0, 1}
    BY DEF Key
  <2> QED
    BY <2>1, <1>1 DEF Parts
<1>2. CASE j # i
  <2>1. j \in 0..(i - 1)
    BY <1>2
  <2> QED
    BY <2>1 DEF Parts, Same
<1> QED
  BY <1>1, <1>2

LEMMA SameSym == \A a, b, i : (Same(a, b, i) <=> Same(b, a, i)) /\ (Parts(a, b, i) <=> Parts(b, a, i))
BY DEF Same, Parts

LEMMA SameTrans ==
  ASSUME NEW a, NEW b, NEW c, NEW i \in Nat, NEW j \in Nat, i <= j, Same(a, b, j)
  PROVE  /\ Same(a, b, i)
         /\ Same(b, c, i) <=> Same(a, c, i)
         /\ i < j => (Parts(b, c, i) <=> Parts(a, c, i))
<1>1. \A k \in 0..(i - 1) : k \in 0..(j - 1)
  OBVIOUS
<1>2. i < j => i \in 0..(j - 1)
  OBVIOUS
<1> QED
  BY <1>1, <1>2 DEF Same, Parts

\* If a and b part at i, a key that agrees with b beyond i parts from a at i.
LEMMA PartsTrans ==
  ASSUME NEW a, NEW b, NEW c, NEW i \in Nat, Parts(a, b, i), Same(b, c, i + 1)
  PROVE  Parts(a, c, i)
<1>1. i \in 0..(i + 1 - 1) /\ \A k \in 0..(i - 1) : k \in 0..(i + 1 - 1)
  OBVIOUS
<1> QED
  BY <1>1 DEF Same, Parts

LEMMA SameNext ==
  ASSUME NEW a, NEW b, NEW i \in Nat
  PROVE  Same(a, b, i + 1) <=> (Same(a, b, i) /\ ~Parts(a, b, i))
<1>1. \A k : k \in 0..(i + 1 - 1) <=> (k \in 0..(i - 1) \/ k = i)
  OBVIOUS
<1> QED
  BY <1>1 DEF Same, Parts

-----------------------------------------------------------------------------
(* The nodes below a node.                                                 *)

ReachFrom(r, n, from) ==
  r = [i \in from..Depth |-> IF i = from THEN {At(n, from)}
                             ELSE r[i - 1] \cup {At(m, i) : m \in Behind(r[i - 1], i - 1)}]

\* What Below() computes, up to position i, as a relation.
ReachUpTo(r, n, from, N) ==
  r = [i \in from..N |-> IF i = from THEN {At(n, from)}
                         ELSE r[i - 1] \cup {At(m, i) : m \in Behind(r[i - 1], i - 1)}]

LEMMA ReachExists ==
  ASSUME NEW n, NEW from \in Nat
  PROVE  \A d \in Nat : \E r : ReachUpTo(r, n, from, from + d)
<1> DEFINE S == {d \in Nat : \E r : ReachUpTo(r, n, from, from + d)}
<1>1. 0 \in S
  <2> DEFINE r == [i \in from..(from + 0) |-> {At(n, from)}]
  <2>1. ReachUpTo(r, n, from, from + 0)
    BY DEF ReachUpTo
  <2> QED
    BY <2>1
<1>2. ASSUME NEW d \in Nat, d \in S PROVE d + 1 \in S
  <2>1. PICK g : ReachUpTo(g, n, from, from + d)
    BY <1>2
  <2> DEFINE last == g[from + d] \cup {At(m, from + d + 1) : m \in Behind(g[from + d], from + d)}
             h == [i \in from..(from + (d + 1)) |-> IF i = from + d + 1 THEN last ELSE g[i]]
             R(i, u) == IF i = from THEN {At(n, from)} ELSE u \cup {At(m, i) : m \in Behind(u, i - 1)}
  <2>2. \A i \in from..(from + d) : g[i] = R(i, g[i - 1])
    BY <2>1 DEF ReachUpTo
  <2>3. \A i \in from..(from + (d + 1)) : h[i] = R(i, h[i - 1])
    <3> TAKE i \in from..(from + (d + 1))
    <3>1. CASE i = from + d + 1
      <4>1. h[i] = last /\ i - 1 = from + d /\ h[i - 1] = g[from + d] /\ i # from
        BY <3>1
      <4> HIDE DEF h
      <4> QED
        BY <4>1, <3>1
    <3>2. CASE i = from
      <4>1. h[i] = g[i] /\ i \in from..(from + d)
        BY <3>2
      <4> HIDE DEF h
      <4> QED
        BY <2>2, <3>2, <4>1
    <3>3. CASE i \in (from + 1)..(from + d)
      <4>1. h[i] = g[i] /\ h[i - 1] = g[i - 1]
        BY <3>3
      <4>2. i \in from..(from + d)
        BY <3>3
      <4>3. g[i] = R(i, g[i - 1])
        BY <2>2, <4>2, Zenon
      <4> HIDE DEF h, R
      <4> QED
        BY <4>1, <4>3
    <3> QED
      BY <3>1, <3>2, <3>3
  <2>4. ReachUpTo(h, n, from, from + (d + 1))
    BY <2>3 DEF ReachUpTo
  <2> QED
    BY <2>4
<1> HIDE DEF S
<1>3. Nat \subseteq S
  BY <1>1, <1>2, AllNats
<1> QED
  BY <1>3 DEF S

\* The function of Below().
Reach(n, from) == CHOOSE r : ReachFrom(r, n, from)

LEMMA ReachIs ==
  ASSUME NEW n, NEW from \in 0..Depth
  PROVE  /\ ~IsEmpty(n) => Below(n, from) = Reach(n, from)[Depth]
         /\ Reach(n, from)[from] = {At(n, from)}
         /\ \A i \in (from + 1)..Depth :
              Reach(n, from)[i] = Reach(n, from)[i - 1] \cup {At(m, i) : m \in Behind(Reach(n, from)[i - 1], i - 1)}
<1> DEFINE R(i, u) == IF i = from THEN {At(n, from)} ELSE u \cup {At(m, i) : m \in Behind(u, i - 1)}
<1> USE Params
<1>1. Depth - from \in Nat /\ from + (Depth - from) = Depth /\ from \in Nat
  OBVIOUS
<1>2. \E r : ReachUpTo(r, n, from, from + (Depth - from))
  BY <1>1, ReachExists
<1>3. \E r : ReachFrom(r, n, from)
  BY <1>1, <1>2 DEF ReachFrom, ReachUpTo
<1>4. ReachFrom(Reach(n, from), n, from)
  BY <1>3 DEF Reach
<1>5. \A i \in from..Depth : Reach(n, from)[i] = R(i, Reach(n, from)[i - 1])
  BY <1>4 DEF ReachFrom
<1>6. ~IsEmpty(n) => Below(n, from) = Reach(n, from)[Depth]
  BY Zenon DEF Below, Reach, ReachFrom
<1>7. from \in from..Depth
  OBVIOUS
<1>8. Reach(n, from)[from] = {At(n, from)}
  BY <1>5, <1>7
<1>9. \A i \in (from + 1)..Depth : i \in from..Depth /\ i # from
  OBVIOUS
<1> QED
  BY <1>5, <1>6, <1>8, <1>9

Branches(n, from) == {i \in from..(Depth - 1) : ~IsEmpty(Fork(n.forks, i))}

LEMMA BehindIs ==
  ASSUME NEW X, NEW i, NEW m
  PROVE  m \in Behind(X, i) <=> (~IsEmpty(m) /\ \E x \in X : m = Fork(x.node.forks, i))
BY DEF Behind, IsEmpty

\* One step further down: by the forks at j of the nodes reached so far.
Reaches(n, from, j, y) ==
  y \in Reach(n, from)[j + 1] <=>
    \/ y \in Reach(n, from)[j]
    \/ \E x \in Reach(n, from)[j] : ~IsEmpty(Fork(x.node.forks, j)) /\ y = At(Fork(x.node.forks, j), j + 1)

LEMMA ReachStep ==
  ASSUME NEW n, NEW from \in 0..Depth, NEW j \in from..(Depth - 1), NEW y
  PROVE  Reaches(n, from, j, y)
<1> USE Params DEF Reaches
<1>1. j + 1 \in (from + 1)..Depth /\ j + 1 - 1 = j
  OBVIOUS
<1>2. Reach(n, from)[j + 1] = Reach(n, from)[j] \cup {At(m, j + 1) : m \in Behind(Reach(n, from)[j], j)}
  BY <1>1, ReachIs
<1>3. \A m : m \in Behind(Reach(n, from)[j], j) <=>
        (~IsEmpty(m) /\ \E x \in Reach(n, from)[j] : m = Fork(x.node.forks, j))
  BY BehindIs
<1> QED
  BY <1>2, <1>3, Zenon

\* Of the nodes below n, those below its branches before j.
Branch(n, from, j, y) == \E i \in Branches(n, from) : i < j /\ y \in Reach(Fork(n.forks, i), i + 1)[j]

LEMMA ReachUnfold ==
  ASSUME NEW n, NEW from \in 0..Depth
  PROVE  \A d \in Nat : from + d <= Depth =>
           \A y : y \in Reach(n, from)[from + d] <=> (y = At(n, from) \/ Branch(n, from, from + d, y))
<1> DEFINE S == {d \in Nat : from + d <= Depth =>
                   \A y : y \in Reach(n, from)[from + d] <=> (y = At(n, from) \/ Branch(n, from, from + d, y))}
<1> USE Params
<1>1. 0 \in S
  <2>1. Reach(n, from)[from] = {At(n, from)}
    BY ReachIs
  <2>2. \A y : ~Branch(n, from, from, y)
    BY DEF Branch, Branches
  <2>3. from + 0 = from
    OBVIOUS
  <2> QED
    BY <2>1, <2>2, <2>3
<1>2. ASSUME NEW d \in Nat, d \in S PROVE d + 1 \in S
  <2> SUFFICES ASSUME from + (d + 1) <= Depth, NEW y
               PROVE  y \in Reach(n, from)[from + (d + 1)] <=> (y = At(n, from) \/ Branch(n, from, from + (d + 1), y))
    OBVIOUS
  <2> DEFINE j == from + d
  <2>1. j \in from..(Depth - 1) /\ from + (d + 1) = j + 1 /\ j \in Nat
    OBVIOUS
  <2>2. \A x : x \in Reach(n, from)[j] <=> (x = At(n, from) \/ Branch(n, from, j, x))
    BY <1>2, <2>1
  <2> HIDE DEF j, S
  <2>3. y \in Reach(n, from)[j + 1] <=>
          \/ y \in Reach(n, from)[j]
          \/ \E x \in Reach(n, from)[j] : ~IsEmpty(Fork(x.node.forks, j)) /\ y = At(Fork(x.node.forks, j), j + 1)
    BY <2>1, ReachStep DEF Reaches
  <2>4. \A i \in Branches(n, from) : i \in Nat /\ i + 1 \in 0..Depth /\ (i < j => j \in (i + 1)..(Depth - 1))
    BY <2>1 DEF Branches
  <2>5. ASSUME NEW i \in Branches(n, from), i < j, NEW z
        PROVE  z \in Reach(Fork(n.forks, i), i + 1)[j + 1] <=>
                 \/ z \in Reach(Fork(n.forks, i), i + 1)[j]
                 \/ \E x \in Reach(Fork(n.forks, i), i + 1)[j] :
                      ~IsEmpty(Fork(x.node.forks, j)) /\ z = At(Fork(x.node.forks, j), j + 1)
    <3>1. i + 1 \in 0..Depth /\ j \in (i + 1)..(Depth - 1)
      BY <2>4, <2>5
    <3>2. Reaches(Fork(n.forks, i), i + 1, j, z)
      BY <3>1, ReachStep
    <3> QED
      BY <3>2 DEF Reaches
  <2>6. j + 1 \in 0..Depth
    BY <2>1
  <2>7. Reach(Fork(n.forks, j), j + 1)[j + 1] = {At(Fork(n.forks, j), j + 1)}
    BY <2>6, ReachIs
  <2>8. j \in Branches(n, from) <=> ~IsEmpty(Fork(n.forks, j))
    BY <2>1 DEF Branches
  <2>9. At(n, from).node = n
    BY DEF At
  <2>10. ASSUME y \in Reach(n, from)[j + 1] PROVE y = At(n, from) \/ Branch(n, from, j + 1, y)
    <3>1. CASE y \in Reach(n, from)[j]
      <4>1. CASE y = At(n, from)
        BY <4>1
      <4>2. CASE Branch(n, from, j, y)
        <5>1. PICK i \in Branches(n, from) : i < j /\ y \in Reach(Fork(n.forks, i), i + 1)[j]
          BY <4>2 DEF Branch
        <5>2. y \in Reach(Fork(n.forks, i), i + 1)[j + 1] /\ i < j + 1
          BY <5>1, <2>5, <2>4, <2>1
        <5> QED
          BY <5>2 DEF Branch
      <4> QED
        BY <3>1, <4>1, <4>2, <2>2
    <3>2. CASE \E x \in Reach(n, from)[j] : ~IsEmpty(Fork(x.node.forks, j)) /\ y = At(Fork(x.node.forks, j), j + 1)
      <4>1. PICK x \in Reach(n, from)[j] : ~IsEmpty(Fork(x.node.forks, j)) /\ y = At(Fork(x.node.forks, j), j + 1)
        BY <3>2
      <4>2. CASE x = At(n, from)
        <5>1. j \in Branches(n, from) /\ y = At(Fork(n.forks, j), j + 1)
          BY <4>1, <4>2, <2>8, <2>9
        <5>2. y \in Reach(Fork(n.forks, j), j + 1)[j + 1] /\ j < j + 1
          BY <5>1, <2>7, <2>1
        <5> QED
          BY <5>1, <5>2 DEF Branch
      <4>3. CASE Branch(n, from, j, x)
        <5>1. PICK i \in Branches(n, from) : i < j /\ x \in Reach(Fork(n.forks, i), i + 1)[j]
          BY <4>3 DEF Branch
        <5>2. y \in Reach(Fork(n.forks, i), i + 1)[j + 1]
          BY <5>1, <2>5, <4>1
        <5>3. i < j + 1
          BY <5>1, <2>4, <2>1
        <5> QED
          BY <5>2, <5>3 DEF Branch
      <4> QED
        BY <4>2, <4>3, <2>2
    <3> QED
      BY <3>1, <3>2, <2>3, <2>10
  <2>11. ASSUME y = At(n, from) \/ Branch(n, from, j + 1, y) PROVE y \in Reach(n, from)[j + 1]
    <3>1. CASE y = At(n, from)
      BY <3>1, <2>2, <2>3
    <3>2. CASE Branch(n, from, j + 1, y)
      <4>1. PICK i \in Branches(n, from) : i < j + 1 /\ y \in Reach(Fork(n.forks, i), i + 1)[j + 1]
        BY <3>2 DEF Branch
      <4>2. CASE i = j
        <5>1. y = At(Fork(n.forks, j), j + 1) /\ ~IsEmpty(Fork(n.forks, j))
          BY <4>1, <4>2, <2>7, <2>8
        <5>2. At(n, from) \in Reach(n, from)[j]
          BY <2>2
        <5> QED
          BY <5>1, <5>2, <2>3, <2>9
      <4>3. CASE i < j
        <5>1. CASE y \in Reach(Fork(n.forks, i), i + 1)[j]
          <6>1. Branch(n, from, j, y)
            BY <4>3, <5>1 DEF Branch
          <6> QED
            BY <6>1, <2>2, <2>3
        <5>2. CASE \E x \in Reach(Fork(n.forks, i), i + 1)[j] :
                     ~IsEmpty(Fork(x.node.forks, j)) /\ y = At(Fork(x.node.forks, j), j + 1)
          <6>1. PICK x \in Reach(Fork(n.forks, i), i + 1)[j] :
                       ~IsEmpty(Fork(x.node.forks, j)) /\ y = At(Fork(x.node.forks, j), j + 1)
            BY <5>2
          <6>2. Branch(n, from, j, x)
            BY <4>3, <6>1 DEF Branch
          <6>3. x \in Reach(n, from)[j]
            BY <6>2, <2>2
          <6> QED
            BY <6>1, <6>3, <2>3
        <5> QED
          BY <4>1, <4>3, <5>1, <5>2, <2>5
      <4> QED
        BY <4>1, <4>2, <4>3, <2>4, <2>1
    <3> QED
      BY <3>1, <3>2, <2>11
  <2> QED
    BY <2>1, <2>10, <2>11
<1> HIDE DEF S
<1>3. Nat \subseteq S
  BY <1>1, <1>2, AllNats
<1> QED
  BY <1>3 DEF S

\* The nodes below n are n itself and those below its forks.
LEMMA BelowIs ==
  ASSUME NEW n, ~IsEmpty(n), NEW from \in 0..Depth, NEW y
  PROVE  y \in Below(n, from) <=>
           (y = At(n, from) \/ \E i \in Branches(n, from) : y \in Below(Fork(n.forks, i), i + 1))
<1> USE Params
<1>1. Depth - from \in Nat /\ from + (Depth - from) <= Depth /\ from + (Depth - from) = Depth
  OBVIOUS
<1>2. Below(n, from) = Reach(n, from)[Depth]
  BY ReachIs
<1>3. y \in Reach(n, from)[Depth] <=> (y = At(n, from) \/ Branch(n, from, Depth, y))
  BY <1>1, ReachUnfold
<1>4. \A i \in Branches(n, from) : i < Depth /\ i + 1 \in 0..Depth /\ ~IsEmpty(Fork(n.forks, i))
  BY DEF Branches
<1>5. \A i \in Branches(n, from) : Below(Fork(n.forks, i), i + 1) = Reach(Fork(n.forks, i), i + 1)[Depth]
  BY <1>4, ReachIs
<1> QED
  BY <1>2, <1>3, <1>4, <1>5 DEF Branch

-----------------------------------------------------------------------------
(* What a node shows.                                                      *)

Entry == Key \X Value

\* The entries whose keys part from k at i.
Cut(C, k, i) == {e \in C : Parts(k, e[1], i)}

\* The entries whose keys agree with k before i.
Rest(C, k, i) == {e \in C : Same(k, e[1], i)}

Shows(n, from, C) ==
  /\ ~IsEmpty(n)
  /\ Contents(n, from) = C
  /\ WellFormed(n, from)
  /\ SizesAgree(n, from)

\* What this comes to for a node and its forks.
Local(n, from, C) ==
  /\ ~IsEmpty(n)
  /\ DOMAIN n.forks \subseteq 0..(Depth - 1)
  /\ <<n.key, n.val>> \in C
  /\ \A e \in C : Same(n.key, e[1], from) /\ (e[1] = n.key => e = <<n.key, n.val>>)
  /\ \A i \in from..(Depth - 1) :
       /\ i \in DOMAIN n.forks <=> Cut(C, n.key, i) # {}
       /\ i \in DOMAIN n.forks =>
            /\ n.forks[i].size = Cardinality(Cut(C, n.key, i))
            /\ Shows(n.forks[i].node, i + 1, Cut(C, n.key, i))

\* A node whose forks are where they should be.
Placed(n, from) ==
  /\ DOMAIN n.forks \subseteq 0..(Depth - 1)
  /\ \A i \in DOMAIN n.forks : i >= from =>
       ~IsEmpty(n.forks[i].node) /\ PO(n.key, n.forks[i].node.key, 0, Depth) = i

LEMMA WellFormedIs ==
  ASSUME NEW n, ~IsEmpty(n), NEW from \in 0..Depth
  PROVE  /\ WellFormed(n, from) <=>
              (Placed(n, from) /\ \A i \in Branches(n, from) : WellFormed(Fork(n.forks, i), i + 1))
         /\ SizesAgree(n, from) <=>
              /\ \A i \in DOMAIN n.forks :
                   i >= from => n.forks[i].size = Cardinality(Contents(n.forks[i].node, i + 1))
              /\ \A i \in Branches(n, from) : SizesAgree(Fork(n.forks, i), i + 1)
<1> DEFINE W(x) == Placed(x.node, x.from)
           Z(x) == \A i \in Forks(x) : x.node.forks[i].size = Cardinality(Contents(x.node.forks[i].node, i + 1))
<1>1. \A m, f : WellFormed(m, f) <=> \A x \in Below(m, f) : W(x)
  BY DEF WellFormed, Placed, Forks
<1>2. \A m, f : SizesAgree(m, f) <=> \A x \in Below(m, f) : Z(x)
  BY DEF SizesAgree
<1>3. \A y : y \in Below(n, from) <=>
        (y = At(n, from) \/ \E i \in Branches(n, from) : y \in Below(Fork(n.forks, i), i + 1))
  BY BelowIs
<1>4. W(At(n, from)) <=> Placed(n, from)
  BY DEF At
<1>5. Z(At(n, from)) <=>
        \A i \in DOMAIN n.forks : i >= from => n.forks[i].size = Cardinality(Contents(n.forks[i].node, i + 1))
  BY DEF At, Forks
<1> HIDE DEF W, Z
<1>6. WellFormed(n, from) <=>
        (Placed(n, from) /\ \A i \in Branches(n, from) : WellFormed(Fork(n.forks, i), i + 1))
  BY <1>1, <1>3, <1>4, Zenon
<1>7. (\A x \in Below(n, from) : Z(x)) <=>
        (Z(At(n, from)) /\ \A i \in Branches(n, from) : \A x \in Below(Fork(n.forks, i), i + 1) : Z(x))
  BY <1>3, Zenon
<1> QED
  BY <1>2, <1>5, <1>6, <1>7

LEMMA ContentsIs ==
  ASSUME NEW n, ~IsEmpty(n), NEW from \in 0..Depth, NEW e
  PROVE  e \in Contents(n, from) <=>
           (e = <<n.key, n.val>> \/ \E i \in Branches(n, from) : e \in Contents(Fork(n.forks, i), i + 1))
<1> DEFINE E(x) == e = <<x.node.key, x.node.val>>
<1>1. \A y : y \in Below(n, from) <=>
        (y = At(n, from) \/ \E i \in Branches(n, from) : y \in Below(Fork(n.forks, i), i + 1))
  BY BelowIs
<1>2. \A m, f : e \in Contents(m, f) <=> \E x \in Below(m, f) : E(x)
  BY DEF Contents
<1>3. E(At(n, from)) <=> e = <<n.key, n.val>>
  BY DEF At
<1> HIDE DEF E
<1>4. (\E x \in Below(n, from) : E(x)) <=>
        (E(At(n, from)) \/ \E i \in Branches(n, from) : \E x \in Below(Fork(n.forks, i), i + 1) : E(x))
  BY <1>1, Zenon
<1> QED
  BY <1>2, <1>3, <1>4

LEMMA PlacedForks ==
  ASSUME NEW n, NEW from \in 0..Depth, Placed(n, from)
  PROVE  /\ \A i : i \in Branches(n, from) <=> (i \in DOMAIN n.forks /\ i >= from)
         /\ \A i : i \in Branches(n, from) <=> (i \in DOMAIN n.forks /\ i \in from..(Depth - 1))
         /\ \A i \in Branches(n, from) :
              /\ i \in from..(Depth - 1) /\ i \in 0..(Depth - 1) /\ i + 1 \in 0..Depth /\ i >= from
              /\ Fork(n.forks, i) = n.forks[i].node /\ ~IsEmpty(n.forks[i].node)
              /\ Parts(n.key, n.forks[i].node.key, i)
<1> USE Params
<1>1. \A i : i \in Branches(n, from) <=> (i \in DOMAIN n.forks /\ i >= from)
  BY DEF Branches, Placed, Fork, IsEmpty
<1>2. \A i \in Branches(n, from) : i \in from..(Depth - 1) /\ i \in 0..(Depth - 1) /\ i + 1 \in 0..Depth /\ i >= from
  BY DEF Branches
<1>3. \A i \in Branches(n, from) : Fork(n.forks, i) = n.forks[i].node
  BY <1>1 DEF Fork
<1>4. \A i \in Branches(n, from) : ~IsEmpty(n.forks[i].node) /\ Parts(n.key, n.forks[i].node.key, i)
  BY <1>1, <1>2, PartsPO DEF Placed
<1> QED
  BY <1>1, <1>2, <1>3, <1>4

\* All entries below n agree with it before `from`.
LEMMA PrefixAll ==
  \A h \in Nat : \A n : \A from \in 0..Depth :
    Depth - from <= h /\ ~IsEmpty(n) /\ WellFormed(n, from) =>
      \A e \in Contents(n, from) : Same(n.key, e[1], from)
<1> DEFINE P(h) == \A n : \A from \in 0..Depth :
                     Depth - from <= h /\ ~IsEmpty(n) /\ WellFormed(n, from) =>
                       \A e \in Contents(n, from) : Same(n.key, e[1], from)
           S == {h \in Nat : P(h)}
<1> USE Params
<1>1. ASSUME NEW h \in Nat, \A g \in Nat : g + 1 = h => P(g) PROVE P(h)
  <2> SUFFICES ASSUME NEW n, NEW from \in 0..Depth, Depth - from <= h, ~IsEmpty(n), WellFormed(n, from),
                      NEW e \in Contents(n, from)
               PROVE  Same(n.key, e[1], from)
    OBVIOUS
  <2>1. Placed(n, from) /\ \A i \in Branches(n, from) : WellFormed(Fork(n.forks, i), i + 1)
    BY WellFormedIs
  <2>2. CASE e = <<n.key, n.val>>
    BY <2>2 DEF Same
  <2>3. CASE \E i \in Branches(n, from) : e \in Contents(Fork(n.forks, i), i + 1)
    <3>1. PICK i \in Branches(n, from) : e \in Contents(Fork(n.forks, i), i + 1)
      BY <2>3
    <3>2. /\ i \in from..(Depth - 1) /\ i \in 0..(Depth - 1) /\ i + 1 \in 0..Depth
          /\ Fork(n.forks, i) = n.forks[i].node /\ ~IsEmpty(n.forks[i].node)
          /\ Parts(n.key, n.forks[i].node.key, i)
      BY <2>1, PlacedForks
    <3>3. h - 1 \in Nat /\ h - 1 + 1 = h /\ Depth - (i + 1) <= h - 1
      BY <3>2
    <3>4. P(h - 1)
      BY <1>1, <3>3
    <3>5. Same(n.forks[i].node.key, e[1], i + 1)
      BY <3>1, <3>2, <3>3, <3>4, <2>1
    <3>6. Parts(n.key, e[1], i)
      BY <3>2, <3>5, PartsTrans
    <3>7. from <= i /\ i \in Nat /\ from \in Nat /\ Same(n.key, e[1], i)
      BY <3>2, <3>6 DEF Parts
    <3> QED
      BY <3>7, SameTrans
  <2> QED
    BY <2>2, <2>3, ContentsIs
<1> HIDE DEF P
<1>2. 0 \in S
  BY <1>1
<1>3. ASSUME NEW h \in Nat, h \in S PROVE h + 1 \in S
  <2>1. \A g \in Nat : g + 1 = h + 1 => g = h
    OBVIOUS
  <2> QED
    BY <1>1, <1>3, <2>1
<1> HIDE DEF S
<1>4. Nat \subseteq S
  BY <1>2, <1>3, AllNats
<1> QED
  BY <1>4 DEF S, P

LEMMA PrefixIs ==
  ASSUME NEW n, NEW from \in 0..Depth, ~IsEmpty(n), WellFormed(n, from), NEW e \in Contents(n, from)
  PROVE  Same(n.key, e[1], from)
<1>1. Depth - from \in Nat /\ Depth - from <= Depth - from
  BY Params
<1> QED
  BY <1>1, PrefixAll

\* The entries behind a fork are those that part from n there.
LEMMA CutIs ==
  ASSUME NEW n, NEW from \in 0..Depth, ~IsEmpty(n), WellFormed(n, from), NEW i \in Branches(n, from)
  PROVE  Contents(Fork(n.forks, i), i + 1) = Cut(Contents(n, from), n.key, i)
<1> USE Params
<1>1. Placed(n, from) /\ \A j \in Branches(n, from) : WellFormed(Fork(n.forks, j), j + 1)
  BY WellFormedIs
<1>2. ASSUME NEW j \in Branches(n, from), NEW e \in Contents(Fork(n.forks, j), j + 1)
      PROVE  Parts(n.key, e[1], j)
  <2>1. /\ j + 1 \in 0..Depth /\ j \in Nat
        /\ Fork(n.forks, j) = n.forks[j].node /\ ~IsEmpty(n.forks[j].node)
        /\ Parts(n.key, n.forks[j].node.key, j)
    BY <1>1, PlacedForks
  <2>2. Same(n.forks[j].node.key, e[1], j + 1)
    BY <2>1, <1>1, <1>2, PrefixIs
  <2> QED
    BY <2>1, <2>2, PartsTrans
<1>3. ASSUME NEW e \in Contents(Fork(n.forks, i), i + 1) PROVE e \in Cut(Contents(n, from), n.key, i)
  BY <1>2, ContentsIs DEF Cut
<1>4. ASSUME NEW e \in Cut(Contents(n, from), n.key, i) PROVE e \in Contents(Fork(n.forks, i), i + 1)
  <2>1. e \in Contents(n, from) /\ Parts(n.key, e[1], i)
    BY DEF Cut
  <2>2. e # <<n.key, n.val>>
    BY <2>1 DEF Parts
  <2>3. PICK j \in Branches(n, from) : e \in Contents(Fork(n.forks, j), j + 1)
    BY <2>1, <2>2, ContentsIs
  <2>4. Parts(n.key, e[1], j)
    BY <1>2, <2>3
  <2>5. i \in Nat /\ j \in Nat
    BY DEF Branches
  <2>6. i = j
    BY <2>1, <2>4, <2>5, PartsOnce
  <2> QED
    BY <2>3, <2>6
<1> QED
  BY <1>3, <1>4

LEMMA ShowsLocal ==
  ASSUME NEW n, NEW from \in 0..Depth, NEW C, Shows(n, from, C)
  PROVE  Local(n, from, C)
<1> USE Params
<1>1. ~IsEmpty(n) /\ Contents(n, from) = C /\ WellFormed(n, from) /\ SizesAgree(n, from)
  BY DEF Shows
<1>2. /\ Placed(n, from)
      /\ \A i \in Branches(n, from) : WellFormed(Fork(n.forks, i), i + 1) /\ SizesAgree(Fork(n.forks, i), i + 1)
      /\ \A i \in DOMAIN n.forks :
           i >= from => n.forks[i].size = Cardinality(Contents(n.forks[i].node, i + 1))
  BY <1>1, WellFormedIs
<1>3. \A i \in Branches(n, from) :
        /\ i \in DOMAIN n.forks /\ i >= from /\ Fork(n.forks, i) = n.forks[i].node /\ ~IsEmpty(n.forks[i].node)
        /\ Contents(n.forks[i].node, i + 1) = Cut(C, n.key, i)
  BY <1>1, <1>2, PlacedForks, CutIs
<1>4. \A i \in Branches(n, from) : Shows(n.forks[i].node, i + 1, Cut(C, n.key, i))
  BY <1>2, <1>3 DEF Shows
<1>5. \A i \in from..(Depth - 1) : i \in DOMAIN n.forks <=> i \in Branches(n, from)
  BY <1>2, PlacedForks
<1>6. \A e : e \in C <=> (e = <<n.key, n.val>> \/ \E i \in Branches(n, from) : e \in Cut(C, n.key, i))
  BY <1>1, <1>3, ContentsIs
<1>7. \A i \in Branches(n, from) : Cut(C, n.key, i) # {}
  <2> SUFFICES ASSUME NEW i \in Branches(n, from) PROVE Cut(C, n.key, i) # {}
    OBVIOUS
  <2>1. i + 1 \in 0..Depth
    BY DEF Branches
  <2> DEFINE m == n.forks[i].node
  <2>2. <<m.key, m.val>> \in Contents(m, i + 1)
    BY <1>3, <2>1, ContentsIs
  <2> QED
    BY <2>2, <1>3
<1>8. ASSUME NEW e \in C, NEW i \in from..(Depth - 1), Parts(n.key, e[1], i)
      PROVE  i \in Branches(n, from)
  <2>1. e # <<n.key, n.val>>
    BY <1>8 DEF Parts
  <2>2. PICK j \in Branches(n, from) : e \in Cut(C, n.key, j)
    BY <2>1, <1>6
  <2>3. i \in Nat /\ j \in Nat /\ Parts(n.key, e[1], j)
    BY <2>2 DEF Branches, Cut
  <2>4. i = j
    BY <1>8, <2>3, PartsOnce
  <2> QED
    BY <2>2, <2>4
<1>9. \A i \in from..(Depth - 1) : i \in DOMAIN n.forks <=> Cut(C, n.key, i) # {}
  BY <1>5, <1>7, <1>8 DEF Cut
<1>10. \A i \in from..(Depth - 1) : i \in DOMAIN n.forks => n.forks[i].size = Cardinality(Cut(C, n.key, i))
  BY <1>2, <1>3, <1>5
<1>11. \A e \in C : Same(n.key, e[1], from)
  BY <1>1, PrefixIs
<1>12. ASSUME NEW e \in C, e[1] = n.key PROVE e = <<n.key, n.val>>
  <2>1. \A i \in Branches(n, from) : e \notin Cut(C, n.key, i)
    BY <1>12 DEF Cut, Parts
  <2> QED
    BY <2>1, <1>6
<1>13. <<n.key, n.val>> \in C
  BY <1>6
<1>14. DOMAIN n.forks \subseteq 0..(Depth - 1)
  BY <1>2 DEF Placed
<1> QED
  BY <1>1, <1>4, <1>5, <1>9, <1>10, <1>11, <1>12, <1>13, <1>14 DEF Local

LEMMA LocalShows ==
  ASSUME NEW n, NEW from \in 0..Depth, NEW C, C \subseteq Entry, Local(n, from, C)
  PROVE  Shows(n, from, C)
<1> USE Params
<1> DEFINE own == <<n.key, n.val>>
<1>1. ~IsEmpty(n) /\ DOMAIN n.forks \subseteq 0..(Depth - 1) /\ own \in C
  BY DEF Local
<1>2. \A i \in from..(Depth - 1) :
        /\ i \in DOMAIN n.forks <=> Cut(C, n.key, i) # {}
        /\ i \in DOMAIN n.forks =>
             /\ n.forks[i].size = Cardinality(Cut(C, n.key, i))
             /\ Shows(n.forks[i].node, i + 1, Cut(C, n.key, i))
  BY DEF Local
<1>3. \A e \in C : Same(n.key, e[1], from) /\ (e[1] = n.key => e = own)
  BY DEF Local
<1>4. ASSUME NEW i \in DOMAIN n.forks, i >= from
      PROVE  /\ i \in from..(Depth - 1) /\ i + 1 \in 0..Depth
             /\ ~IsEmpty(n.forks[i].node)
             /\ Contents(n.forks[i].node, i + 1) = Cut(C, n.key, i)
             /\ PO(n.key, n.forks[i].node.key, 0, Depth) = i
             /\ n.forks[i].size = Cardinality(Contents(n.forks[i].node, i + 1))
             /\ WellFormed(n.forks[i].node, i + 1) /\ SizesAgree(n.forks[i].node, i + 1)
  <2>1. i \in from..(Depth - 1) /\ i + 1 \in 0..Depth /\ i \in 0..(Depth - 1)
    BY <1>1, <1>4
  <2> DEFINE m == n.forks[i].node
  <2>2. Shows(m, i + 1, Cut(C, n.key, i)) /\ n.forks[i].size = Cardinality(Cut(C, n.key, i))
    BY <1>2, <1>4, <2>1
  <2>3. ~IsEmpty(m) /\ Contents(m, i + 1) = Cut(C, n.key, i) /\ WellFormed(m, i + 1) /\ SizesAgree(m, i + 1)
    BY <2>2 DEF Shows
  <2>4. <<m.key, m.val>> \in Cut(C, n.key, i)
    BY <2>1, <2>3, ContentsIs
  <2>5. Parts(n.key, m.key, i)
    BY <2>4 DEF Cut
  <2>6. PO(n.key, m.key, 0, Depth) = i
    BY <2>1, <2>5, PartsPO
  <2> QED
    BY <2>1, <2>2, <2>3, <2>6
<1>5. Placed(n, from)
  BY <1>1, <1>4 DEF Placed
<1>6. \A i : i \in Branches(n, from) => /\ i \in DOMAIN n.forks /\ i >= from /\ Fork(n.forks, i) = n.forks[i].node
                                        /\ i \in from..(Depth - 1)
  BY <1>5, PlacedForks
<1>7. \A i : i \in DOMAIN n.forks /\ i >= from => i \in Branches(n, from)
  BY <1>5, PlacedForks
<1>8. WellFormed(n, from) /\ SizesAgree(n, from)
  BY <1>1, <1>4, <1>5, <1>6, WellFormedIs
<1>9. ASSUME NEW e PROVE e \in Contents(n, from) <=> e \in C
  <2>1. e \in Contents(n, from) <=> (e = own \/ \E i \in Branches(n, from) : e \in Cut(C, n.key, i))
    BY <1>1, <1>4, <1>6, ContentsIs
  <2>2. ASSUME e \in C, e # own PROVE \E i \in Branches(n, from) : e \in Cut(C, n.key, i)
    <3>1. e[1] \in Key /\ n.key \in Key
      BY <2>2, <1>1 DEF Entry
    <3>2. Same(n.key, e[1], from) /\ n.key # e[1]
      BY <1>3, <2>2
    <3>3. PICK i \in from..(Depth - 1) : Parts(n.key, e[1], i)
      BY <3>1, <3>2, PartsOrSame
    <3>4. e \in Cut(C, n.key, i)
      BY <2>2, <3>3 DEF Cut
    <3>5. i \in DOMAIN n.forks /\ i >= from
      BY <3>4, <1>2
    <3> QED
      BY <3>4, <3>5, <1>7
  <2>3. \A i : Cut(C, n.key, i) \subseteq C
    BY DEF Cut
  <2> QED
    BY <2>1, <2>2, <2>3, <1>1
<1> QED
  BY <1>1, <1>8, <1>9 DEF Shows

-----------------------------------------------------------------------------
(* The sizes kept in the forks.                                            *)

ForkSize(n, i) == IF i \in DOMAIN n.forks THEN n.forks[i].size ELSE 0

\* What NewAtSize() adds up, up to position N, as a relation.
AddsUpTo(g, n, at, N) ==
  g = [i \in at..N |-> IF i = at THEN 1 ELSE g[i - 1] + (IF i \in DOMAIN n.forks THEN n.forks[i].size ELSE 0)]

LEMMA SumExists ==
  ASSUME NEW n, NEW at \in Int
  PROVE  \A d \in Nat : \E g : AddsUpTo(g, n, at, at + d)
<1> DEFINE S == {d \in Nat : \E g : AddsUpTo(g, n, at, at + d)}
<1>1. 0 \in S
  <2> DEFINE g == [i \in at..(at + 0) |-> 1]
  <2>1. AddsUpTo(g, n, at, at + 0)
    BY DEF AddsUpTo
  <2> QED
    BY <2>1
<1>2. ASSUME NEW d \in Nat, d \in S PROVE d + 1 \in S
  <2>1. PICK g : AddsUpTo(g, n, at, at + d)
    BY <1>2
  <2> DEFINE h == [i \in at..(at + (d + 1)) |-> IF i = at + d + 1 THEN g[at + d] + ForkSize(n, at + d + 1) ELSE g[i]]
             R(i, u) == IF i = at THEN 1 ELSE u + ForkSize(n, i)
  <2>2. \A i \in at..(at + d) : g[i] = R(i, g[i - 1])
    BY <2>1 DEF AddsUpTo, ForkSize
  <2>3. \A i \in at..(at + (d + 1)) : h[i] = R(i, h[i - 1])
    <3> TAKE i \in at..(at + (d + 1))
    <3>1. CASE i = at + d + 1
      <4>1. h[i] = g[at + d] + ForkSize(n, i) /\ i - 1 = at + d /\ h[i - 1] = g[at + d] /\ i # at
        BY <3>1
      <4> HIDE DEF h
      <4> QED
        BY <4>1, <3>1
    <3>2. CASE i = at
      <4>1. h[i] = g[i] /\ i \in at..(at + d)
        BY <3>2
      <4> HIDE DEF h
      <4> QED
        BY <2>2, <3>2, <4>1
    <3>3. CASE i \in (at + 1)..(at + d)
      <4>1. h[i] = g[i] /\ h[i - 1] = g[i - 1]
        BY <3>3
      <4>2. i \in at..(at + d)
        BY <3>3
      <4>3. g[i] = R(i, g[i - 1])
        BY <2>2, <4>2, Zenon
      <4> HIDE DEF h, R
      <4> QED
        BY <4>1, <4>3
    <3> QED
      BY <3>1, <3>2, <3>3
  <2>4. AddsUpTo(h, n, at, at + (d + 1))
    BY <2>3 DEF AddsUpTo, ForkSize
  <2> QED
    BY <2>4
<1> HIDE DEF S
<1>3. Nat \subseteq S
  BY <1>1, <1>2, AllNats
<1> QED
  BY <1>3 DEF S

Sum(n, at) == CHOOSE g : AddsUpTo(g, n, at, Depth)

LEMMA SumIs ==
  ASSUME NEW n, ~IsEmpty(n), NEW at \in (-1)..Depth
  PROVE  /\ NewAtSize(at, n) = Sum(n, at)[Depth]
         /\ Sum(n, at)[at] = 1
         /\ \A i \in (at + 1)..Depth : Sum(n, at)[i] = Sum(n, at)[i - 1] + ForkSize(n, i)
<1> DEFINE R(i, u) == IF i = at THEN 1 ELSE u + ForkSize(n, i)
<1> USE Params
<1>1. Depth - at \in Nat /\ at + (Depth - at) = Depth /\ at \in Int
  OBVIOUS
<1>2. \E g : AddsUpTo(g, n, at, at + (Depth - at))
  BY <1>1, SumExists
<1>3. \E g : AddsUpTo(g, n, at, Depth)
  BY <1>1, <1>2
<1>4. AddsUpTo(Sum(n, at), n, at, Depth)
  BY <1>3 DEF Sum
<1>5. \A i \in at..Depth : Sum(n, at)[i] = R(i, Sum(n, at)[i - 1])
  BY <1>4 DEF AddsUpTo, ForkSize
<1>6. NewAtSize(at, n) = Sum(n, at)[Depth]
  BY Zenon DEF NewAtSize, Sum, AddsUpTo
<1>7. at \in at..Depth /\ \A i \in (at + 1)..Depth : i \in at..Depth /\ i # at
  OBVIOUS
<1> QED
  BY <1>5, <1>6, <1>7

\* The size of a fork, from the sizes in the forks of its node, is the number
\* of entries behind it.
LEMMA SizeIs ==
  ASSUME NEW n, NEW from \in 0..Depth, NEW C, C \subseteq Entry, IsFiniteSet(C), Shows(n, from, C)
  PROVE  NewAtSize(from - 1, n) = Cardinality(C)
<1> USE Params
<1> DEFINE at == from - 1
           own == <<n.key, n.val>>
           \* n itself and the entries that part from it at i or before
           Upto(i) == {e \in C : e = own \/ ~Same(n.key, e[1], i + 1)}
           S == {d \in Nat : at + d <= Depth => Sum(n, at)[at + d] = Cardinality(Upto(at + d))}
<1>1. ~IsEmpty(n) /\ at \in (-1)..Depth
  BY DEF Shows
<1>2. Local(n, from, C)
  BY ShowsLocal
<1>3. own \in C /\ \A e \in C : Same(n.key, e[1], from) /\ (e[1] = n.key => e = own)
  BY <1>2 DEF Local
<1>4. /\ DOMAIN n.forks \subseteq 0..(Depth - 1)
      /\ \A i \in from..(Depth - 1) :
           /\ i \in DOMAIN n.forks => n.forks[i].size = Cardinality(Cut(C, n.key, i))
           /\ i \notin DOMAIN n.forks => Cut(C, n.key, i) = {}
  BY <1>2 DEF Local
<1>5. 0 \in S
  <2>1. at + 0 = at /\ at + 1 = from
    OBVIOUS
  <2>2. Upto(at) = {own}
    BY <1>3, <2>1
  <2>3. Sum(n, at)[at] = 1
    BY <1>1, SumIs
  <2>4. Cardinality({own}) = 1
    BY FS_Singleton
  <2> HIDE DEF Upto
  <2> QED
    BY <2>1, <2>2, <2>3, <2>4
<1>6. ASSUME NEW d \in Nat, d \in S PROVE d + 1 \in S
  <2> SUFFICES ASSUME at + (d + 1) <= Depth
               PROVE  Sum(n, at)[at + (d + 1)] = Cardinality(Upto(at + (d + 1)))
    OBVIOUS
  <2> DEFINE i == at + (d + 1)
  <2>1. i \in (at + 1)..Depth /\ i - 1 = at + d /\ i \in from..Depth /\ i \in Nat /\ at + d <= Depth /\ i - 1 + 1 = i
    OBVIOUS
  <2>2. Sum(n, at)[i - 1] = Cardinality(Upto(i - 1))
    BY <1>6, <2>1
  <2>3. Sum(n, at)[i] = Sum(n, at)[i - 1] + ForkSize(n, i)
    BY <1>1, <2>1, SumIs
  <2> HIDE DEF i, S, at
  <2>4. Upto(i) = Upto(i - 1) \cup Cut(C, n.key, i)
    <3>1. \A e \in C : Same(n.key, e[1], i + 1) <=> (Same(n.key, e[1], i) /\ ~Parts(n.key, e[1], i))
      BY <2>1, SameNext
    <3>2. \A e \in C : Parts(n.key, e[1], i) => Same(n.key, e[1], i)
      BY DEF Parts
    <3> QED
      BY <3>1, <3>2, <2>1 DEF Cut
  <2>5. Upto(i - 1) \cap Cut(C, n.key, i) = {}
    <3>1. \A e \in C : Parts(n.key, e[1], i) => Same(n.key, e[1], i) /\ e # own
      BY DEF Parts
    <3> QED
      BY <3>1, <2>1 DEF Cut
  <2>6. IsFiniteSet(Upto(i - 1)) /\ IsFiniteSet(Cut(C, n.key, i))
    <3>1. Upto(i - 1) \in SUBSET C /\ Cut(C, n.key, i) \in SUBSET C
      BY DEF Cut
    <3> QED
      BY <3>1, FS_Subset
  <2>7. Cardinality(Upto(i)) = Cardinality(Upto(i - 1)) + Cardinality(Cut(C, n.key, i)) - Cardinality({})
    BY <2>4, <2>5, <2>6, FS_Union
  <2>8. Cardinality({}) = 0 /\ Cardinality(Upto(i - 1)) \in Nat /\ Cardinality(Cut(C, n.key, i)) \in Nat
    BY <2>6, FS_EmptySet, FS_CardinalityType
  <2>9. ForkSize(n, i) = Cardinality(Cut(C, n.key, i))
    <3>1. CASE i = Depth
      <4>1. i \notin DOMAIN n.forks
        BY <1>4, <3>1
      <4>2. Cut(C, n.key, i) = {}
        <5> SUFFICES ASSUME NEW e \in C, Parts(n.key, e[1], i) PROVE FALSE
          BY DEF Cut
        <5>1. Same(n.key, e[1], Depth) /\ n.key \in Key /\ e[1] \in Key
          BY <3>1, <1>3 DEF Parts, Entry
        <5>2. n.key = e[1]
          BY <5>1, SameAll
        <5> QED
          BY <5>2 DEF Parts
      <4> QED
        BY <4>1, <4>2, <2>8 DEF ForkSize
    <3>2. CASE i # Depth
      <4>1. i \in from..(Depth - 1)
        BY <2>1, <3>2
      <4> QED
        BY <4>1, <1>4, <2>8 DEF ForkSize
    <3> QED
      BY <3>1, <3>2
  <2> HIDE DEF Upto
  <2>10. Sum(n, at)[i] = Cardinality(Upto(i))
    BY <2>2, <2>3, <2>7, <2>8, <2>9
  <2> QED
    BY <2>10 DEF i
<1> HIDE DEF S
<1>7. Nat \subseteq S
  BY <1>5, <1>6, AllNats
<1>8. Depth - at \in S /\ at + (Depth - at) = Depth
  BY <1>7
<1>9. Sum(n, at)[Depth] = Cardinality(Upto(Depth))
  BY <1>8 DEF S
<1>10. Upto(Depth) = C
  <2> SUFFICES ASSUME NEW e \in C, Same(n.key, e[1], Depth + 1) PROVE e = own
    OBVIOUS
  <2>1. Same(n.key, e[1], Depth) /\ n.key \in Key /\ e[1] \in Key
    BY <1>3, SameTrans DEF Entry, Same
  <2> QED
    BY <2>1, <1>3, SameAll
<1> HIDE DEF Upto, at
<1>11. NewAtSize(at, n) = Cardinality(C)
  BY <1>1, <1>9, <1>10, SumIs
<1> QED
  BY <1>11 DEF at

-----------------------------------------------------------------------------
(* The forks that the operations make, position by position.               *)

SameFork(f, g, i) == (i \in DOMAIN f <=> i \in DOMAIN g) /\ (i \in DOMAIN f => f[i] = g[i])

LEMMA AppendIs ==
  ASSUME NEW acc, NEW n, NEW from \in Int, NEW to \in Int, DOMAIN acc \subseteq Int, DOMAIN n.forks \subseteq Int
  PROVE  LET r == AppendRange(acc, n, from, to)
         IN  /\ DOMAIN r \subseteq Int
             /\ \A i \in Int : /\ i < from => SameFork(r, acc, i)
                               /\ from <= i /\ i < to => SameFork(r, n.forks, i)
                               /\ i >= from /\ i >= to => i \notin DOMAIN r
<1> DEFINE copied == {i \in DOMAIN n.forks : from <= i /\ i < to}
           kept   == {i \in DOMAIN acc : i < from}
           r      == AppendRange(acc, n, from, to)
<1>1. r = [i \in kept \cup copied |-> IF i \in copied THEN n.forks[i] ELSE Truncate(acc, from)[i]]
  BY DEF AppendRange, Truncate
<1>2. DOMAIN r = copied \cup kept
  BY <1>1
<1>3. \A i \in copied : r[i] = n.forks[i]
  BY <1>1
<1>4. \A i \in kept : i \notin copied /\ r[i] = acc[i]
  BY <1>1 DEF Truncate
<1> HIDE DEF r
<1>5. \A i \in Int : i < from => SameFork(r, acc, i)
  BY <1>2, <1>4 DEF SameFork
<1>6. \A i \in Int : from <= i /\ i < to => SameFork(r, n.forks, i)
  BY <1>2, <1>3 DEF SameFork
<1>7. \A i \in Int : i >= from /\ i >= to => i \notin DOMAIN r
  BY <1>2
<1>8. DOMAIN r \subseteq Int
  BY <1>2
<1> QED
  BY <1>5, <1>6, <1>7, <1>8 DEF r

LEMMA WithForkIs ==
  ASSUME NEW acc, NEW at, NEW n
  PROVE  LET r == WithFork(acc, at, n)
         IN  /\ DOMAIN r = DOMAIN acc \cup {at}
             /\ r[at] = [node |-> Reachable(at, n), size |-> NewAtSize(at, n)]
             /\ \A i : i # at => SameFork(r, acc, i)
BY DEF WithFork, SameFork

\* acc holds the forks before `from`, n those from there on.
Joined(acc, n, from) ==
  /\ from \in 0..Depth
  /\ DOMAIN acc \subseteq 0..(from - 1)
  /\ DOMAIN n.forks \subseteq 0..(Depth - 1)

LEMMA WhirlForksIs ==
  ASSUME NEW acc, NEW n, NEW from, Joined(acc, n, from), NEW at \in from..(Depth - 1)
  PROVE  LET r == WhirlForks(acc, n, from, at)
         IN  /\ DOMAIN r \subseteq 0..at /\ at \in DOMAIN r
             /\ r[at] = [node |-> Reachable(at, n), size |-> NewAtSize(at, n)]
             /\ \A i \in 0..(from - 1) : SameFork(r, acc, i)
             /\ \A i \in from..(at - 1) : SameFork(r, n.forks, i)
<1> DEFINE l == AppendRange(acc, n, from, at)
           r == WithFork(l, at, n)
<1> USE Params DEF Joined
<1>1. from \in Int /\ at \in Int /\ DOMAIN acc \subseteq Int /\ DOMAIN n.forks \subseteq Int
  OBVIOUS
<1>2. /\ DOMAIN l \subseteq Int
      /\ \A i \in Int : /\ i < from => SameFork(l, acc, i)
                        /\ from <= i /\ i < at => SameFork(l, n.forks, i)
                        /\ i >= from /\ i >= at => i \notin DOMAIN l
  BY <1>1, AppendIs
<1>3. /\ DOMAIN r = DOMAIN l \cup {at}
      /\ r[at] = [node |-> Reachable(at, n), size |-> NewAtSize(at, n)]
      /\ \A i : i # at => SameFork(r, l, i)
  BY WithForkIs
<1> HIDE DEF l, r
<1>4. DOMAIN l \subseteq 0..(at - 1)
  <2> SUFFICES ASSUME NEW i \in DOMAIN l PROVE i \in 0..(at - 1)
    OBVIOUS
  <2>1. i \in Int /\ (i < at \/ i < from)
    BY <1>2
  <2>2. i < at /\ (i < from => i \in DOMAIN acc) /\ (i >= from => i \in DOMAIN n.forks)
    BY <2>1, <1>2 DEF SameFork
  <2> QED
    BY <2>1, <2>2
<1>5. \A i \in 0..(from - 1) : SameFork(r, acc, i)
  <2> TAKE i \in 0..(from - 1)
  <2>1. i # at /\ i \in Int /\ i < from
    OBVIOUS
  <2> QED
    BY <2>1, <1>2, <1>3 DEF SameFork
<1>6. \A i \in from..(at - 1) : SameFork(r, n.forks, i)
  <2> TAKE i \in from..(at - 1)
  <2>1. i # at /\ i \in Int /\ from <= i /\ i < at
    OBVIOUS
  <2> QED
    BY <2>1, <1>2, <1>3 DEF SameFork
<1>7. DOMAIN r \subseteq 0..at /\ at \in DOMAIN r
  BY <1>3, <1>4
<1> QED
  BY <1>3, <1>5, <1>6, <1>7 DEF WhirlForks, r, l

\* wedge() that drops the fork at `at`.
LEMMA WedgeIs ==
  ASSUME NEW acc, NEW n, NEW from, Joined(acc, n, from), NEW at \in from..Depth
  PROVE  LET r == Wedge(acc, n, from, at, Null)
         IN  /\ r.key = n.key /\ r.val = n.val /\ ~IsEmpty(r)
             /\ DOMAIN r.forks \subseteq 0..(Depth - 1) /\ at \notin DOMAIN r.forks
             /\ \A i \in 0..(from - 1) : SameFork(r.forks, acc, i)
             /\ \A i \in from..(Depth - 1) : i # at => SameFork(r.forks, n.forks, i)
<1> DEFINE l == AppendRange(acc, n, from, at)
           f == AppendRange(l, n, at + 1, Depth)
<1> USE Params
<1>1. /\ from \in Int /\ at \in Int /\ at + 1 \in Int /\ Depth \in Int
      /\ DOMAIN acc \subseteq Int /\ DOMAIN n.forks \subseteq Int
  BY DEF Joined
<1>2. /\ DOMAIN l \subseteq Int
      /\ \A i \in Int : /\ i < from => SameFork(l, acc, i)
                        /\ from <= i /\ i < at => SameFork(l, n.forks, i)
                        /\ i >= from /\ i >= at => i \notin DOMAIN l
  BY <1>1, AppendIs
<1> HIDE DEF l
<1>3. /\ DOMAIN f \subseteq Int
      /\ \A i \in Int : /\ i < at + 1 => SameFork(f, l, i)
                        /\ at + 1 <= i /\ i < Depth => SameFork(f, n.forks, i)
                        /\ i >= at + 1 /\ i >= Depth => i \notin DOMAIN f
  BY <1>1, <1>2, AppendIs
<1> HIDE DEF f
<1>4. Wedge(acc, n, from, at, Null) = [key |-> n.key, val |-> n.val, forks |-> f]
  BY DEF Wedge, Pin, IsEmpty, f, l
<1>5. \A i \in 0..(from - 1) : SameFork(f, acc, i)
  <2> TAKE i \in 0..(from - 1)
  <2>1. i < at + 1 /\ i \in Int /\ i < from
    BY DEF Joined
  <2> QED
    BY <2>1, <1>2, <1>3 DEF SameFork
<1>6. \A i \in from..(Depth - 1) : i # at => SameFork(f, n.forks, i)
  <2> SUFFICES ASSUME NEW i \in from..(Depth - 1), i # at PROVE SameFork(f, n.forks, i)
    OBVIOUS
  <2>1. i \in Int /\ from <= i /\ i < Depth
    BY <1>1
  <2>2. CASE i < at
    BY <2>1, <2>2, <1>1, <1>2, <1>3 DEF SameFork
  <2>3. CASE i > at
    <3>1. at + 1 <= i
      BY <2>1, <2>3, <1>1
    <3> QED
      BY <2>1, <3>1, <1>3
  <2> QED
    BY <2>1, <2>2, <2>3, <1>1
<1>7. at \notin DOMAIN f
  BY <1>1, <1>2, <1>3 DEF SameFork
<1>8. DOMAIN f \subseteq 0..(Depth - 1)
  <2> SUFFICES ASSUME NEW i \in DOMAIN f PROVE i \in 0..(Depth - 1)
    OBVIOUS
  <2>1. i \in Int /\ i # at
    BY <1>3, <1>7
  <2>2. i < Depth
    BY <2>1, <1>1, <1>3
  <2>3. CASE i < from
    <3>1. i < at + 1
      BY <2>1, <2>3, <1>1
    <3>2. i \in DOMAIN acc
      BY <2>1, <2>3, <3>1, <1>2, <1>3 DEF SameFork
    <3> QED
      BY <3>2, <2>1, <2>2 DEF Joined
  <2>4. CASE i >= from
    BY <2>1, <2>2, <2>4 DEF Joined
  <2> QED
    BY <2>1, <2>3, <2>4, <1>1
<1>9. ~IsEmpty([key |-> n.key, val |-> n.val, forks |-> f])
  BY DEF IsEmpty, Null, Empty
<1> QED
  BY <1>4, <1>5, <1>6, <1>7, <1>8, <1>9

\* whack() behind the last bit.
LEMMA WhackEndIs ==
  ASSUME NEW acc, NEW n, NEW from, Joined(acc, n, from), NEW m, DOMAIN m.forks = {}
  PROVE  LET r == WhackForks(acc, n, from, m, Depth)
         IN  /\ DOMAIN r \subseteq 0..(Depth - 1)
             /\ \A i \in 0..(from - 1) : SameFork(r, acc, i)
             /\ \A i \in from..(Depth - 1) : SameFork(r, n.forks, i)
<1> DEFINE l == AppendRange(acc, n, from, Depth)
           f == AppendRange(l, m, Depth + 1, Depth)
<1> USE Params
<1>1. /\ from \in Int /\ Depth \in Int /\ Depth + 1 \in Int /\ from <= Depth
      /\ DOMAIN acc \subseteq Int /\ DOMAIN n.forks \subseteq Int /\ DOMAIN m.forks \subseteq Int
  BY DEF Joined
<1>2. /\ DOMAIN l \subseteq Int
      /\ \A i \in Int : /\ i < from => SameFork(l, acc, i)
                        /\ from <= i /\ i < Depth => SameFork(l, n.forks, i)
                        /\ i >= from /\ i >= Depth => i \notin DOMAIN l
  BY <1>1, AppendIs
<1> HIDE DEF l
<1>3. /\ DOMAIN f \subseteq Int
      /\ \A i \in Int : /\ i < Depth + 1 => SameFork(f, l, i)
                        /\ i >= Depth + 1 /\ i >= Depth => i \notin DOMAIN f
  BY <1>1, <1>2, AppendIs
<1> HIDE DEF f
<1>4. WhackForks(acc, n, from, m, Depth) = f
  BY DEF WhackForks, f, l
<1>5. \A i \in 0..(from - 1) : SameFork(f, acc, i)
  <2> TAKE i \in 0..(from - 1)
  <2>1. i < Depth + 1 /\ i \in Int /\ i < from
    BY <1>1
  <2> QED
    BY <2>1, <1>2, <1>3 DEF SameFork
<1>6. \A i \in from..(Depth - 1) : SameFork(f, n.forks, i)
  <2> TAKE i \in from..(Depth - 1)
  <2>1. i \in Int /\ from <= i /\ i < Depth /\ i < Depth + 1
    BY <1>1
  <2> QED
    BY <2>1, <1>2, <1>3 DEF SameFork
<1>7. DOMAIN f \subseteq 0..(Depth - 1)
  <2> SUFFICES ASSUME NEW i \in DOMAIN f PROVE i \in 0..(Depth - 1)
    OBVIOUS
  <2>1. i \in Int /\ i < Depth + 1
    BY <1>1, <1>3
  <2>2. i \in DOMAIN l /\ i < Depth
    BY <2>1, <1>1, <1>2, <1>3 DEF SameFork
  <2>3. CASE i < from
    BY <2>1, <2>2, <2>3, <1>2 DEF SameFork, Joined
  <2>4. CASE i >= from
    BY <2>1, <2>2, <2>4, <1>2 DEF SameFork, Joined
  <2> QED
    BY <2>1, <2>3, <2>4, <1>1
<1> QED
  BY <1>4, <1>5, <1>6, <1>7

\* whack() at the first bit: r becomes the other half of n.
LEMMA WhackHalfIs ==
  ASSUME NEW r, NEW n, DOMAIN r.forks \subseteq 0..(Depth - 1), 0 \notin DOMAIN r.forks,
         DOMAIN n.forks \subseteq 0..(Depth - 1)
  PROVE  LET w == WhackForks(NoForks, r, -1, n, 0)
         IN  /\ DOMAIN w \subseteq 0..(Depth - 1) /\ 0 \in DOMAIN w
             /\ w[0] = [node |-> Reachable(0, r), size |-> NewAtSize(0, r)]
             /\ \A i \in 1..(Depth - 1) : SameFork(w, n.forks, i)
<1> DEFINE l == AppendRange(NoForks, r, -1, 0)
           h == WithFork(l, 0, r)
           f == AppendRange(h, n, 0 + 1, Depth)
<1> USE Params
<1>1. /\ DOMAIN r.forks \subseteq Int /\ DOMAIN n.forks \subseteq Int
      /\ DOMAIN NoForks = {} /\ DOMAIN NoForks \subseteq Int
      /\ -1 \in Int /\ 0 \in Int /\ 0 + 1 \in Int /\ Depth \in Int
  BY DEF NoForks
<1>2. /\ DOMAIN l \subseteq Int
      /\ \A i \in Int : /\ i < -1 => SameFork(l, NoForks, i)
                        /\ -1 <= i /\ i < 0 => SameFork(l, r.forks, i)
                        /\ i >= -1 /\ i >= 0 => i \notin DOMAIN l
  BY <1>1, AppendIs
<1> HIDE DEF l
<1>3. \A i \in Int : i \notin DOMAIN l
  <2> TAKE i \in Int
  <2>1. i < -1 \/ i = -1 \/ i >= 0
    OBVIOUS
  <2> QED
    BY <2>1, <1>1, <1>2 DEF SameFork
<1>4. /\ DOMAIN h = DOMAIN l \cup {0}
      /\ h[0] = [node |-> Reachable(0, r), size |-> NewAtSize(0, r)]
  BY DEF WithFork
<1> HIDE DEF h
<1>5. DOMAIN h = {0} /\ DOMAIN h \subseteq Int
  BY <1>2, <1>3, <1>4
<1>6. /\ DOMAIN f \subseteq Int
      /\ \A i \in Int : /\ i < 0 + 1 => SameFork(f, h, i)
                        /\ 0 + 1 <= i /\ i < Depth => SameFork(f, n.forks, i)
                        /\ i >= 0 + 1 /\ i >= Depth => i \notin DOMAIN f
  BY <1>1, <1>5, AppendIs
<1> HIDE DEF f
<1>7. WhackForks(NoForks, r, -1, n, 0) = f
  BY DEF WhackForks, f, h, l
<1>8. 0 \in DOMAIN f /\ f[0] = [node |-> Reachable(0, r), size |-> NewAtSize(0, r)]
  BY <1>4, <1>5, <1>6 DEF SameFork
<1>9. DOMAIN f \subseteq 0..(Depth - 1)
  <2> SUFFICES ASSUME NEW i \in DOMAIN f PROVE i \in 0..(Depth - 1)
    OBVIOUS
  <2>1. i \in Int
    BY <1>6
  <2>2. i >= 0
    BY <2>1, <1>5, <1>6 DEF SameFork
  <2>3. i >= 1 => i < Depth
    BY <2>1, <1>6
  <2> QED
    BY <2>1, <2>2, <2>3
<1>10. \A i \in 1..(Depth - 1) : SameFork(f, n.forks, i)
  BY <1>6
<1> QED
  BY <1>7, <1>8, <1>9, <1>10

-----------------------------------------------------------------------------
(* A trie in the middle of an operation.                                   *)

\* Entries that are a map.
IsMap(C) == C \subseteq Entry /\ IsFiniteSet(C) /\ \A d, e \in C : d[1] = e[1] => d = e

\* The fork at i, if there is one, has the entries D behind it.
Right(fs, i, D) ==
  /\ i \in DOMAIN fs <=> D # {}
  /\ i \in DOMAIN fs => fs[i].size = Cardinality(D) /\ Shows(fs[i].node, i + 1, D)

\* The other half of a trie has no fork at bit 0 in turn.
HalfKept(fs) == 0 \in DOMAIN fs => 0 \notin DOMAIN fs[0].node.forks

Whole(n, C) == Shows(n, 0, C) /\ HalfKept(n.forks)

\* acc with the forks of n from `from` on is a trie with the entries C.
Stands(acc, n, from, C) ==
  /\ Joined(acc, n, from)
  /\ ~IsEmpty(n)
  /\ <<n.key, n.val>> \in C
  /\ \A i \in 0..(from - 1) : Right(acc, i, Cut(C, n.key, i))
  /\ \A i \in from..(Depth - 1) : Right(n.forks, i, Cut(C, n.key, i))
  /\ from = 0 => HalfKept(n.forks)
  /\ from > 0 => HalfKept(acc)

LEMMA RightSame ==
  ASSUME NEW f, NEW g, NEW i, SameFork(f, g, i)
  PROVE  (\A D : Right(f, i, D) <=> Right(g, i, D)) /\ (i = 0 => (HalfKept(f) <=> HalfKept(g)))
BY DEF SameFork, Right, HalfKept

LEMMA IsWhole ==
  ASSUME NEW C, IsMap(C), NEW r, ~IsEmpty(r), DOMAIN r.forks \subseteq 0..(Depth - 1), <<r.key, r.val>> \in C,
         \A i \in 0..(Depth - 1) : Right(r.forks, i, Cut(C, r.key, i)), HalfKept(r.forks)
  PROVE  Whole(r, C)
<1>1. \A e \in C : Same(r.key, e[1], 0) /\ (e[1] = r.key => e = <<r.key, r.val>>)
  BY DEF IsMap, Same
<1>2. Local(r, 0, C)
  BY <1>1 DEF Local, Right
<1>3. C \subseteq Entry
  BY DEF IsMap
<1> QED
  BY <1>2, <1>3, LocalShows, Params DEF Whole

LEMMA WholeStands ==
  ASSUME NEW C, NEW n, Whole(n, C)
  PROVE  Stands(NoForks, n, 0, C)
<1>1. Local(n, 0, C)
  BY ShowsLocal, Params DEF Whole
<1>2. DOMAIN NoForks = {}
  BY DEF NoForks
<1> QED
  BY <1>1, <1>2, Params DEF Local, Stands, Joined, Right, Whole

LEMMA StandsWhole ==
  ASSUME NEW C, IsMap(C), NEW acc, NEW n, NEW from, Stands(acc, n, from, C),
         NEW r, ~IsEmpty(r), r.key = n.key, <<r.key, r.val>> \in C, DOMAIN r.forks \subseteq 0..(Depth - 1),
         \A i \in 0..(from - 1) : SameFork(r.forks, acc, i),
         \A i \in from..(Depth - 1) : SameFork(r.forks, n.forks, i)
  PROVE  Whole(r, C)
<1> USE Params
<1>1. from \in 0..Depth
  BY DEF Stands, Joined
<1>2. \A i \in 0..(Depth - 1) : Right(r.forks, i, Cut(C, r.key, i))
  <2> TAKE i \in 0..(Depth - 1)
  <2>1. CASE i < from
    <3>1. i \in 0..(from - 1)
      BY <2>1, <1>1
    <3> QED
      BY <3>1, RightSame DEF Stands
  <2>2. CASE i >= from
    <3>1. i \in from..(Depth - 1)
      BY <2>2, <1>1
    <3> QED
      BY <3>1, RightSame DEF Stands
  <2> QED
    BY <2>1, <2>2, <1>1
<1>3. HalfKept(r.forks)
  <2>1. CASE from = 0
    <3>1. 0 \in from..(Depth - 1)
      BY <2>1
    <3> QED
      BY <2>1, <3>1, RightSame DEF Stands
  <2>2. CASE from > 0
    <3>1. 0 \in 0..(from - 1)
      BY <2>2, <1>1
    <3> QED
      BY <2>2, <3>1, RightSame DEF Stands
  <2> QED
    BY <2>1, <2>2, <1>1
<1> QED
  BY <1>2, <1>3, IsWhole

\* From any bit on, a node shows the entries that agree with it before.
LEMMA RestShows ==
  ASSUME NEW C, IsMap(C), NEW acc, NEW n, NEW from, Stands(acc, n, from, C), NEW j \in from..Depth
  PROVE  Shows(n, j, Rest(C, n.key, j))
<1> USE Params
<1>1. from \in 0..Depth /\ j \in 0..Depth
  BY DEF Stands, Joined
<1>2. \A i \in j..(Depth - 1) : i \in from..(Depth - 1) /\ Cut(Rest(C, n.key, j), n.key, i) = Cut(C, n.key, i)
  <2> TAKE i \in j..(Depth - 1)
  <2>1. j \in Nat /\ i \in Nat /\ j <= i
    BY <1>1
  <2>2. \A e \in C : Parts(n.key, e[1], i) => Same(n.key, e[1], j)
    BY <2>1, SameTrans DEF Parts
  <2> QED
    BY <1>1, <2>2 DEF Cut, Rest
<1>3. \A i \in j..(Depth - 1) : Right(n.forks, i, Cut(Rest(C, n.key, j), n.key, i))
  BY <1>2 DEF Stands
<1>4. /\ ~IsEmpty(n) /\ DOMAIN n.forks \subseteq 0..(Depth - 1)
      /\ <<n.key, n.val>> \in Rest(C, n.key, j)
  BY DEF Stands, Joined, Rest, Same
<1>5. \A e \in Rest(C, n.key, j) : Same(n.key, e[1], j) /\ (e[1] = n.key => e = <<n.key, n.val>>)
  BY DEF Stands, Rest, IsMap
<1>6. Local(n, j, Rest(C, n.key, j))
  BY <1>3, <1>4, <1>5 DEF Local, Right
<1>7. Rest(C, n.key, j) \subseteq Entry
  BY DEF Rest, IsMap
<1> QED
  BY <1>1, <1>6, <1>7, LocalShows

LEMMA ReachableShows ==
  ASSUME NEW C, C \subseteq Entry, NEW n, NEW at \in (-1)..(Depth - 1), Shows(n, at + 1, C)
  PROVE  /\ Shows(Reachable(at, n), at + 1, C)
         /\ 0 \notin DOMAIN n.forks => 0 \notin DOMAIN Reachable(at, n).forks
<1> USE Params
<1>1. CASE KeepPassed
  BY <1>1 DEF Reachable
<1>2. CASE ~KeepPassed
  <2> DEFINE fs == [i \in {j \in DOMAIN n.forks : j > at} |-> n.forks[i]]
             r  == [key |-> n.key, val |-> n.val, forks |-> fs]
  <2>1. Reachable(at, n) = r
    BY <1>2 DEF Reachable, Pin
  <2>2. at + 1 \in 0..Depth
    OBVIOUS
  <2>3. Local(n, at + 1, C)
    BY <2>2, ShowsLocal
  <2>4. DOMAIN fs = {j \in DOMAIN n.forks : j > at} /\ \A i \in DOMAIN fs : fs[i] = n.forks[i]
    OBVIOUS
  <2> HIDE DEF fs
  <2>5. r.forks = fs /\ r.key = n.key /\ r.val = n.val /\ ~IsEmpty(r)
    BY DEF IsEmpty, Null, Empty
  <2> HIDE DEF r
  <2>6. \A i \in (at + 1)..(Depth - 1) : (i \in DOMAIN fs <=> i \in DOMAIN n.forks)
    BY <2>4
  <2>7. Local(r, at + 1, C)
    BY <2>3, <2>4, <2>5, <2>6 DEF Local
  <2> QED
    BY <2>1, <2>2, <2>4, <2>5, <2>7, LocalShows
<1> QED
  BY <1>1, <1>2, PotOpsAssumption

\* What a key b that parts from a at `at` makes of the cuts.
Moved(C, a, b, at) ==
  /\ \A i \in 0..(at - 1) : Cut(C, b, i) = Cut(C, a, i)
  /\ Cut(C, b, at) = Rest(C, a, at + 1)
  /\ \A i \in (at + 1)..(Depth - 1) : Cut(C, b, i) = Cut(Cut(C, a, at), b, i)

LEMMA CutMoves ==
  ASSUME NEW C, C \subseteq Entry, NEW a \in Key, NEW b \in Key, NEW at \in 0..(Depth - 1), Parts(a, b, at)
  PROVE  Moved(C, a, b, at)
<1> USE Params DEF Moved
<1>1. at \in Nat /\ Same(a, b, at) /\ Parts(b, a, at)
  BY SameSym DEF Parts
<1>2. \A e \in C : e[1] \in Key
  BY DEF Entry
<1>3. \A i \in 0..(at - 1) : Cut(C, b, i) = Cut(C, a, i)
  <2> TAKE i \in 0..(at - 1)
  <2>1. i \in Nat /\ i <= at /\ i < at
    BY <1>1
  <2>2. \A e \in C : Parts(b, e[1], i) <=> Parts(a, e[1], i)
    BY <1>1, <2>1, SameTrans
  <2> QED
    BY <2>2 DEF Cut
<1>4. Cut(C, b, at) = Rest(C, a, at + 1)
  <2>1. ASSUME NEW e \in C, Parts(b, e[1], at) PROVE Same(a, e[1], at + 1)
    BY <1>1, <1>2, <2>1, SameBit
  <2>2. ASSUME NEW e \in C, Same(a, e[1], at + 1) PROVE Parts(b, e[1], at)
    BY <1>1, <2>2, PartsTrans
  <2> QED
    BY <2>1, <2>2 DEF Cut, Rest
<1>5. \A i \in (at + 1)..(Depth - 1) : Cut(C, b, i) = Cut(Cut(C, a, at), b, i)
  <2> TAKE i \in (at + 1)..(Depth - 1)
  <2>1. i \in Nat /\ at + 1 <= i /\ at + 1 \in Nat
    BY <1>1
  <2>2. ASSUME NEW e \in C, Parts(b, e[1], i) PROVE Parts(a, e[1], at)
    <3>1. Same(b, e[1], at + 1)
      BY <2>1, <2>2, SameTrans DEF Parts
    <3> QED
      BY <1>1, <3>1, PartsTrans
  <2> QED
    BY <2>2 DEF Cut
<1> QED
  BY <1>3, <1>4, <1>5

\* What whirl() puts before a key k that parts from n at `at`.
LEMMA Whirled ==
  ASSUME NEW C, IsMap(C), NEW acc, NEW n, NEW from, Stands(acc, n, from, C),
         NEW at \in from..(Depth - 1), NEW k \in Key, Parts(n.key, k, at), at = 0 => 0 \notin DOMAIN n.forks
  PROVE  LET r == WhirlForks(acc, n, from, at)
         IN  /\ DOMAIN r \subseteq 0..at /\ at \in DOMAIN r
             /\ \A i \in 0..at : Right(r, i, Cut(C, k, i))
             /\ HalfKept(r)
<1> DEFINE r == WhirlForks(acc, n, from, at)
           D == Rest(C, n.key, at + 1)
           size == NewAtSize(at, n)
           m == Reachable(at, n)
<1> USE Params
<1>1. Joined(acc, n, from) /\ from \in 0..Depth /\ at \in 0..(Depth - 1) /\ at + 1 \in from..Depth /\ at + 1 \in 0..Depth
  BY DEF Stands, Joined
<1>2. /\ DOMAIN r \subseteq 0..at /\ at \in DOMAIN r
      /\ r[at] = [node |-> m, size |-> size]
      /\ \A i \in 0..(from - 1) : SameFork(r, acc, i)
      /\ \A i \in from..(at - 1) : SameFork(r, n.forks, i)
  BY <1>1, WhirlForksIs
<1> HIDE DEF r
<1>3. C \subseteq Entry /\ IsFiniteSet(C) /\ <<n.key, n.val>> \in C /\ n.key \in Key
  BY DEF IsMap, Stands, Entry
<1>4. /\ \A i \in 0..(at - 1) : Cut(C, k, i) = Cut(C, n.key, i)
      /\ Cut(C, k, at) = D
  BY <1>1, <1>3, CutMoves DEF Moved
<1>5. Shows(n, at + 1, D)
  BY <1>1, RestShows
<1>6. D \subseteq Entry /\ IsFiniteSet(D)
  <2>1. D \subseteq C
    BY DEF Rest
  <2> QED
    BY <2>1, <1>3, FS_Subset
<1>7. <<n.key, n.val>> \in D
  BY <1>3 DEF Rest, Same
<1> HIDE DEF D, m, size
<1>8. size = Cardinality(D)
  <2> DEFINE f == at + 1
  <2>1. f \in 0..Depth /\ Shows(n, f, D) /\ f - 1 = at
    BY <1>1, <1>5
  <2> HIDE DEF f
  <2>2. NewAtSize(f - 1, n) = Cardinality(D)
    BY <2>1, <1>6, SizeIs
  <2> QED
    BY <2>1, <2>2 DEF size
<1>9. Shows(m, at + 1, D) /\ (0 \notin DOMAIN n.forks => 0 \notin DOMAIN m.forks)
  <2>1. at \in (-1)..(Depth - 1)
    BY <1>1
  <2> QED
    BY <2>1, <1>5, <1>6, ReachableShows DEF m
<1>10. Right(r, at, D)
  BY <1>2, <1>7, <1>8, <1>9 DEF Right
<1>11. \A i \in 0..at : Right(r, i, Cut(C, k, i))
  <2> TAKE i \in 0..at
  <2>1. CASE i = at
    BY <2>1, <1>4, <1>10
  <2>2. CASE i < from
    <3>1. i \in 0..(from - 1) /\ i \in 0..(at - 1)
      BY <2>2, <1>1
    <3>2. Right(acc, i, Cut(C, n.key, i)) /\ SameFork(r, acc, i)
      BY <3>1, <1>2 DEF Stands
    <3> QED
      BY <3>1, <3>2, <1>4, RightSame
  <2>3. CASE i >= from /\ i # at
    <3>1. i \in from..(at - 1) /\ i \in from..(Depth - 1) /\ i \in 0..(at - 1)
      BY <2>3, <1>1
    <3>2. Right(n.forks, i, Cut(C, n.key, i)) /\ SameFork(r, n.forks, i)
      BY <3>1, <1>2 DEF Stands
    <3> QED
      BY <3>1, <3>2, <1>4, RightSame
  <2> QED
    BY <2>1, <2>2, <2>3, <1>1
<1>12. HalfKept(r)
  <2>1. CASE at = 0
    BY <2>1, <1>2, <1>9 DEF HalfKept
  <2>2. CASE at # 0 /\ from = 0
    <3>1. 0 \in from..(at - 1) /\ HalfKept(n.forks)
      BY <2>2, <1>1 DEF Stands
    <3> QED
      BY <3>1, <1>2, RightSame
  <2>3. CASE from # 0
    <3>1. 0 \in 0..(from - 1) /\ HalfKept(acc)
      BY <2>3, <1>1 DEF Stands
    <3> QED
      BY <3>1, <1>2, RightSame
  <2> QED
    BY <2>1, <2>2, <2>3
<1> QED
  BY <1>2, <1>11, <1>12 DEF r

\* The fork of a node that stands is a node that shows what is behind it.
LEMMA ForkIs ==
  ASSUME NEW C, C \subseteq Entry, NEW a \in Key, NEW fs, NEW at \in 0..(Depth - 1), Right(fs, at, Cut(C, a, at)),
         at \in DOMAIN fs, NEW m, m = fs[at].node
  PROVE  /\ ~IsEmpty(m) /\ DOMAIN m.forks \subseteq 0..(Depth - 1)
         /\ <<m.key, m.val>> \in C /\ m.key \in Key /\ Parts(a, m.key, at)
         /\ \A i \in (at + 1)..(Depth - 1) : Right(m.forks, i, Cut(C, m.key, i))
<1> USE Params
<1>1. at + 1 \in 0..Depth /\ Shows(m, at + 1, Cut(C, a, at))
  BY DEF Right
<1>2. Local(m, at + 1, Cut(C, a, at))
  BY <1>1, ShowsLocal
<1>3. <<m.key, m.val>> \in C /\ Parts(a, m.key, at)
  BY <1>2 DEF Local, Cut
<1>4. m.key \in Key
  BY <1>3 DEF Entry
<1>5. \A i \in (at + 1)..(Depth - 1) : Cut(C, m.key, i) = Cut(Cut(C, a, at), m.key, i)
  BY <1>3, <1>4, CutMoves DEF Moved
<1> QED
  BY <1>2, <1>3, <1>4, <1>5 DEF Local, Right

\* A step on the way to a key, and of pullTail().
LEMMA Stepped ==
  ASSUME NEW C, IsMap(C), NEW acc, NEW n, NEW from, Stands(acc, n, from, C),
         NEW at \in from..(Depth - 1), at # 0, at \in DOMAIN n.forks, NEW m, m = n.forks[at].node
  PROVE  Stands(WhirlForks(acc, n, from, at), m, at + 1, C) /\ m.key \in Key /\ Parts(n.key, m.key, at)
<1> DEFINE r == WhirlForks(acc, n, from, at)
<1> USE Params
<1>1. at \in 0..(Depth - 1) /\ Right(n.forks, at, Cut(C, n.key, at))
  BY DEF Stands, Joined
<1>2. C \subseteq Entry /\ n.key \in Key
  BY DEF Stands, IsMap, Entry
<1>3. /\ ~IsEmpty(m) /\ DOMAIN m.forks \subseteq 0..(Depth - 1)
      /\ <<m.key, m.val>> \in C /\ m.key \in Key /\ Parts(n.key, m.key, at)
      /\ \A i \in (at + 1)..(Depth - 1) : Right(m.forks, i, Cut(C, m.key, i))
  BY <1>1, <1>2, ForkIs
<1>4. /\ DOMAIN r \subseteq 0..at /\ at \in DOMAIN r
      /\ \A i \in 0..at : Right(r, i, Cut(C, m.key, i))
      /\ HalfKept(r)
  BY <1>3, Whirled
<1> HIDE DEF r
<1>5. at + 1 \in 0..Depth /\ at + 1 - 1 = at /\ at + 1 > 0 /\ at + 1 # 0
  BY <1>1
<1>6. Stands(r, m, at + 1, C)
  BY <1>3, <1>4, <1>5 DEF Stands, Joined
<1> QED
  BY <1>3, <1>6 DEF r

\* Taking out the entry of k: what is behind the last fork moves up.
LEMMA Removed ==
  ASSUME NEW C, IsMap(C), NEW k \in Key, NEW v, <<k, v>> \in C, NEW fs, HalfKept(fs),
         \A i \in 0..(Depth - 1) : Right(fs, i, Cut(C, k, i)),
         NEW j \in 0..(Depth - 1), j \in DOMAIN fs, \A i \in (j + 1)..(Depth - 1) : i \notin DOMAIN fs,
         NEW m, m = fs[j].node,
         NEW acc, DOMAIN acc \subseteq 0..(j - 1), \A i \in 0..(j - 1) : SameFork(acc, fs, i)
  PROVE  Stands(acc, m, j + 1, C \ {<<k, v>>}) /\ m.key \in Key /\ Parts(k, m.key, j)
<1> DEFINE own == <<k, v>>
           D == C \ {own}
<1> USE Params
<1>1. C \subseteq Entry
  BY DEF IsMap
<1>2. /\ ~IsEmpty(m) /\ DOMAIN m.forks \subseteq 0..(Depth - 1)
      /\ <<m.key, m.val>> \in C /\ m.key \in Key /\ Parts(k, m.key, j)
      /\ \A i \in (j + 1)..(Depth - 1) : Right(m.forks, i, Cut(C, m.key, i))
  BY <1>1, ForkIs
<1>3. j + 1 \in 0..Depth /\ j + 1 - 1 = j /\ j + 1 > 0 /\ j + 1 # 0 /\ j \in Nat
  OBVIOUS
<1>4. <<m.key, m.val>> \in D
  BY <1>2 DEF Parts
<1>5. /\ \A i \in 0..(j - 1) : Cut(C, m.key, i) = Cut(C, k, i)
      /\ Cut(C, m.key, j) = Rest(C, k, j + 1)
      /\ \A i \in (j + 1)..(Depth - 1) : Cut(C, m.key, i) = Cut(Cut(C, k, j), m.key, i)
  <2> DEFINE b == m.key
  <2>1. b \in Key /\ Parts(k, b, j)
    BY <1>2
  <2>2. Moved(C, k, b, j)
    BY <2>1, <1>1, CutMoves
  <2> QED
    BY <2>2 DEF Moved
<1>6. \A i \in 0..Depth : own \notin Cut(C, k, i)
  BY DEF Cut, Parts
<1>7. \A i \in 0..Depth : Cut(D, m.key, i) = Cut(C, m.key, i) \ {own}
  BY DEF Cut
<1> HIDE DEF D, own
<1>8. \A i \in 0..(j - 1) : Right(acc, i, Cut(D, m.key, i))
  <2> TAKE i \in 0..(j - 1)
  <2>1. i \in 0..(Depth - 1) /\ i \in 0..Depth
    OBVIOUS
  <2>2. Cut(C, m.key, i) = Cut(C, k, i) /\ own \notin Cut(C, k, i)
    BY <2>1, <1>5, <1>6
  <2>3. Cut(D, m.key, i) = Cut(C, m.key, i) \ {own}
    BY <2>1, <1>7
  <2>4. Cut(D, m.key, i) = Cut(C, k, i)
    BY <2>2, <2>3
  <2> QED
    BY <2>1, <2>4, RightSame
<1>9. Right(acc, j, Cut(D, m.key, j))
  <2>1. ASSUME NEW e \in Rest(C, k, j + 1) PROVE e = own
    <3>1. e \in C /\ Same(k, e[1], j + 1) /\ e[1] \in Key
      BY <1>1 DEF Rest, Entry
    <3>2. CASE e[1] = k
      BY <3>1, <3>2 DEF IsMap, own
    <3>3. CASE e[1] # k
      <4>1. PICK i \in (j + 1)..(Depth - 1) : Parts(k, e[1], i)
        BY <1>3, <3>1, <3>3, PartsOrSame
      <4>2. e \in Cut(C, k, i) /\ i \in 0..(Depth - 1)
        BY <3>1, <4>1 DEF Cut
      <4> QED
        BY <4>1, <4>2 DEF Right
    <3> QED
      BY <3>2, <3>3
  <2>2. Cut(D, m.key, j) = {}
    <3>1. j \in 0..Depth
      OBVIOUS
    <3> QED
      BY <3>1, <2>1, <1>5, <1>7
  <2> QED
    BY <2>2 DEF Right
<1>10. \A i \in 0..j : Right(acc, i, Cut(D, m.key, i))
  <2> TAKE i \in 0..j
  <2>1. i = j \/ i \in 0..(j - 1)
    OBVIOUS
  <2> QED
    BY <2>1, <1>8, <1>9
<1>11. \A i \in (j + 1)..(Depth - 1) : Right(m.forks, i, Cut(D, m.key, i))
  <2> TAKE i \in (j + 1)..(Depth - 1)
  <2>1. own \notin Cut(C, m.key, i)
    BY <1>5, <1>6, <1>3 DEF Cut
  <2>2. i \in 0..Depth /\ Right(m.forks, i, Cut(C, m.key, i))
    BY <1>2, <1>3
  <2>3. Cut(D, m.key, i) = Cut(C, m.key, i)
    BY <2>1, <2>2, <1>7
  <2> QED
    BY <2>2, <2>3
<1>12. HalfKept(acc)
  <2>1. CASE j = 0
    BY <2>1 DEF HalfKept
  <2>2. CASE j # 0
    <3>1. 0 \in 0..(j - 1)
      BY <2>2
    <3> QED
      BY <3>1, RightSame
  <2> QED
    BY <2>1, <2>2
<1>13. DOMAIN acc \subseteq 0..j
  OBVIOUS
<1> HIDE DEF D
<1>14. Stands(acc, m, j + 1, D)
  BY <1>2, <1>3, <1>4, <1>10, <1>11, <1>12, <1>13 DEF Stands, Joined
<1> QED
  BY <1>2, <1>14 DEF D, own

-----------------------------------------------------------------------------
(* Putting an entry.                                                       *)

\* The entries after an update of k to v.
With(C, k, v) == {e \in C : e[1] # k} \cup (IF v = NoValue THEN {} ELSE {<<k, v>>})

LEMMA WithIs ==
  ASSUME NEW C, IsMap(C), NEW k \in Key, NEW v \in Value \cup {NoValue}
  PROVE  IsMap(With(C, k, v)) /\ \A i : Cut(With(C, k, v), k, i) = Cut(C, k, i)
<1> DEFINE D == {e \in C : e[1] # k}
<1>1. D \subseteq C /\ C \subseteq Entry /\ IsFiniteSet(C) /\ \A d, e \in C : d[1] = e[1] => d = e
  BY DEF IsMap
<1>2. IsFiniteSet(D)
  BY <1>1, FS_Subset
<1>3. \A i : Cut(D, k, i) = Cut(C, k, i)
  BY DEF Cut, Parts
<1>4. CASE v = NoValue
  <2>1. With(C, k, v) = D
    BY <1>4 DEF With
  <2> HIDE DEF D
  <2> QED
    BY <2>1, <1>1, <1>2, <1>3 DEF IsMap
<1>5. CASE v # NoValue
  <2>1. With(C, k, v) = D \cup {<<k, v>>} /\ v \in Value
    BY <1>5 DEF With
  <2>2. <<k, v>>[1] = k /\ \A e \in D : e[1] # k
    OBVIOUS
  <2>3. \A i : Cut(D \cup {<<k, v>>}, k, i) = Cut(D, k, i)
    BY DEF Cut, Parts
  <2> HIDE DEF D
  <2>4. IsFiniteSet(D \cup {<<k, v>>})
    BY <1>2, FS_AddElement
  <2>5. D \cup {<<k, v>>} \subseteq Entry
    BY <1>1, <2>1 DEF Entry
  <2>6. \A d, e \in D \cup {<<k, v>>} : d[1] = e[1] => d = e
    BY <1>1, <2>2
  <2> QED
    BY <2>1, <2>3, <2>4, <2>5, <2>6, <1>3 DEF IsMap
<1> QED
  BY <1>4, <1>5

\* An entry that is new takes the place of the node from which it parts.
LEMMA Inserted ==
  ASSUME NEW C, IsMap(C), NEW acc, NEW n, NEW from, Stands(acc, n, from, C), NEW k \in Key, NEW v \in Value,
         NEW at \in from..(Depth - 1), Parts(n.key, k, at), at \notin DOMAIN n.forks
  PROVE  Whole(Pin(WhirlForks(acc, n, from, at), k, v), With(C, k, v))
<1> DEFINE w == WhirlForks(acc, n, from, at)
           r == [key |-> k, val |-> v, forks |-> w]
           D == With(C, k, v)
<1> USE Params
<1>1. at \in 0..(Depth - 1) /\ n.key \in Key /\ C \subseteq Entry
  BY DEF Stands, Joined, IsMap, Entry
<1>2. /\ DOMAIN w \subseteq 0..at /\ at \in DOMAIN w
      /\ \A i \in 0..at : Right(w, i, Cut(C, k, i))
      /\ HalfKept(w)
  BY Whirled
<1>3. Pin(w, k, v) = r
  BY DEF Pin
<1> HIDE DEF w
<1>4. r.key = k /\ r.val = v /\ r.forks = w /\ ~IsEmpty(r)
  BY DEF IsEmpty, Null, Empty
<1> HIDE DEF r
<1>5. IsMap(D) /\ \A i : Cut(D, k, i) = Cut(C, k, i)
  BY WithIs
<1>6. <<k, v>> \in D
  BY NoValueAssumption DEF With
<1>7. Cut(C, n.key, at) = {}
  BY DEF Stands, Right
<1>8. \A i \in (at + 1)..(Depth - 1) : Cut(C, k, i) = {}
  <2>1. \A i \in (at + 1)..(Depth - 1) : Cut(C, k, i) = Cut(Cut(C, n.key, at), k, i)
    BY <1>1, CutMoves DEF Moved
  <2> QED
    BY <2>1, <1>7 DEF Cut
<1> HIDE DEF D
<1>9. \A i \in 0..(Depth - 1) : Right(w, i, Cut(D, k, i))
  <2> TAKE i \in 0..(Depth - 1)
  <2>1. CASE i \in 0..at
    BY <2>1, <1>2, <1>5
  <2>2. CASE i \notin 0..at
    <3>1. i \in (at + 1)..(Depth - 1) /\ i \notin DOMAIN w
      BY <2>2, <1>1, <1>2
    <3> QED
      BY <3>1, <1>5, <1>8 DEF Right
  <2> QED
    BY <2>1, <2>2
<1>10. DOMAIN w \subseteq 0..(Depth - 1)
  BY <1>1, <1>2
<1>11. Whole(r, D)
  BY <1>4, <1>5, <1>6, <1>9, <1>10, <1>2, IsWhole
<1> QED
  BY <1>3, <1>11 DEF w, D

\* An entry that is there gets another value.
LEMMA Replaced ==
  ASSUME NEW C, IsMap(C), NEW acc, NEW n, NEW from, Stands(acc, n, from, C), NEW v \in Value
  PROVE  Whole(Pin(WhackForks(acc, n, from, Pin(NoForks, n.key, v), Depth), n.key, v), With(C, n.key, v))
<1> DEFINE k == n.key
           m == Pin(NoForks, k, v)
           w == WhackForks(acc, n, from, m, Depth)
           r == [key |-> k, val |-> v, forks |-> w]
           D == With(C, k, v)
<1> USE Params
<1>1. Joined(acc, n, from) /\ from \in 0..Depth /\ k \in Key
  BY DEF Stands, Joined, IsMap, Entry
<1>2. DOMAIN m.forks = {}
  BY DEF Pin, NoForks
<1> HIDE DEF m
<1>3. /\ DOMAIN w \subseteq 0..(Depth - 1)
      /\ \A i \in 0..(from - 1) : SameFork(w, acc, i)
      /\ \A i \in from..(Depth - 1) : SameFork(w, n.forks, i)
  BY <1>1, <1>2, WhackEndIs
<1> HIDE DEF w
<1>4. Pin(w, k, v) = r
  BY DEF Pin
<1>5. r.key = k /\ r.val = v /\ r.forks = w /\ ~IsEmpty(r)
  BY DEF IsEmpty, Null, Empty
<1> HIDE DEF r
<1>6. IsMap(D) /\ \A i : Cut(D, k, i) = Cut(C, k, i)
  BY <1>1, WithIs
<1>7. <<k, v>> \in D
  BY NoValueAssumption DEF With
<1> HIDE DEF D
<1>8. \A i \in 0..(Depth - 1) : Right(w, i, Cut(D, k, i))
  <2> TAKE i \in 0..(Depth - 1)
  <2>1. CASE i < from
    <3>1. i \in 0..(from - 1)
      BY <2>1, <1>1
    <3> QED
      BY <3>1, <1>3, <1>6, RightSame DEF Stands
  <2>2. CASE i >= from
    <3>1. i \in from..(Depth - 1)
      BY <2>2, <1>1
    <3> QED
      BY <3>1, <1>3, <1>6, RightSame DEF Stands
  <2> QED
    BY <2>1, <2>2, <1>1
<1>9. HalfKept(w)
  <2>1. CASE from = 0
    <3>1. 0 \in from..(Depth - 1)
      BY <2>1
    <3> QED
      BY <2>1, <3>1, <1>3, RightSame DEF Stands
  <2>2. CASE from > 0
    <3>1. 0 \in 0..(from - 1)
      BY <2>2, <1>1
    <3> QED
      BY <2>2, <3>1, <1>3, RightSame DEF Stands
  <2> QED
    BY <2>1, <2>2, <1>1
<1>10. Whole(r, D)
  BY <1>3, <1>5, <1>6, <1>7, <1>8, <1>9, IsWhole
<1> QED
  BY <1>4, <1>10 DEF w, D, m

-----------------------------------------------------------------------------
(* The functions that stand for calls at the end of a call.                *)

\* One step of pullTail(), updateInner(), findNode(), iterateInner() and find().
Onward(of, x, k, y) ==
  IF of = "pull" THEN PullUp(x, y)
  ELSE IF of = "update" THEN Down(x, k)
  ELSE IF of = "node" THEN FindNodeNext(x, k, y)
  ELSE IF of = "iterate" THEN IterateInner(x, k)
  ELSE FindNext(x, k)

StepsUpTo(g, of, x, k, y, N) == g = [d \in 0..N |-> IF d = 0 THEN x ELSE Onward(of, g[d - 1], k, y)]

Steps(g, of, x, k, y, M) ==
  /\ g = [d \in 0..M |-> g[d]]
  /\ g[0] = x
  /\ \A d \in 1..M : g[d] = Onward(of, g[d - 1], k, y)

LEMMA StepsExist ==
  ASSUME NEW of, NEW x, NEW k, NEW y, NEW M \in Nat
  PROVE  \E g : Steps(g, of, x, k, y, M)
<1> DEFINE S == {N \in Nat : \E g : StepsUpTo(g, of, x, k, y, N)}
           R(d, z) == IF d = 0 THEN x ELSE Onward(of, z, k, y)
<1>1. 0 \in S
  <2> DEFINE g == [d \in 0..0 |-> x]
  <2>1. StepsUpTo(g, of, x, k, y, 0)
    BY DEF StepsUpTo
  <2> QED
    BY <2>1
<1>2. ASSUME NEW N \in Nat, N \in S PROVE N + 1 \in S
  <2>1. PICK g : StepsUpTo(g, of, x, k, y, N)
    BY <1>2
  <2> DEFINE h == [d \in 0..(N + 1) |-> IF d = N + 1 THEN Onward(of, g[N], k, y) ELSE g[d]]
  <2>2. \A d \in 0..N : g[d] = R(d, g[d - 1])
    BY <2>1 DEF StepsUpTo
  <2>3. \A d \in 0..(N + 1) : h[d] = R(d, h[d - 1])
    <3> TAKE d \in 0..(N + 1)
    <3>1. CASE d = N + 1
      <4>1. h[d] = Onward(of, g[N], k, y) /\ d - 1 = N /\ h[d - 1] = g[N] /\ d # 0
        BY <3>1
      <4> HIDE DEF h
      <4> QED
        BY <4>1
    <3>2. CASE d = 0
      <4>1. h[d] = g[d] /\ d \in 0..N
        BY <3>2
      <4> HIDE DEF h
      <4> QED
        BY <2>2, <3>2, <4>1
    <3>3. CASE d \in 1..N
      <4>1. h[d] = g[d] /\ h[d - 1] = g[d - 1] /\ d \in 0..N
        BY <3>3
      <4>2. g[d] = R(d, g[d - 1])
        BY <2>2, <4>1, Zenon
      <4> HIDE DEF h, R
      <4> QED
        BY <4>1, <4>2
    <3> QED
      BY <3>1, <3>2, <3>3
  <2>4. StepsUpTo(h, of, x, k, y, N + 1)
    BY <2>3 DEF StepsUpTo
  <2> QED
    BY <2>4
<1> HIDE DEF S
<1>3. M \in S
  BY <1>1, <1>2, AllNats
<1>4. PICK g : StepsUpTo(g, of, x, k, y, M)
  BY <1>3 DEF S
<1>5. g = [d \in 0..M |-> g[d]] /\ \A d \in 0..M : g[d] = R(d, g[d - 1])
  BY <1>4 DEF StepsUpTo
<1>6. g[0] = x
  <2>1. 0 \in 0..M
    OBVIOUS
  <2> QED
    BY <1>5, <2>1
<1>7. \A d \in 1..M : g[d] = Onward(of, g[d - 1], k, y)
  <2> TAKE d \in 1..M
  <2>1. d \in 0..M /\ d # 0
    OBVIOUS
  <2>2. g[d] = R(d, g[d - 1])
    BY <1>5, <2>1, Zenon
  <2> QED
    BY <2>1, <2>2
<1> QED
  BY <1>5, <1>6, <1>7, Zenon DEF Steps

-----------------------------------------------------------------------------
(* Taking an entry out.                                                    *)

LEMMA LastForkIs ==
  ASSUME NEW n, NEW from \in 0..Depth, DOMAIN n.forks \subseteq 0..(Depth - 1)
  PROVE  LET last == LastFork(n, from)
         IN  /\ \A i \in DOMAIN n.forks : i >= from => i <= last
             /\ \/ last = -1 /\ -1 \notin DOMAIN n.forks
                \/ last \in DOMAIN n.forks /\ last \in from..(Depth - 1)
<1> DEFINE S == {i \in DOMAIN n.forks : i >= from} \cup {-1}
           last == Max(S)
<1> USE Params
<1>1. S \subseteq (-1)..Depth /\ S # {} /\ Depth \in Nat
  OBVIOUS
<1>2. last \in S /\ \A x \in S : last >= x
  BY <1>1, MaxIs
<1>3. LastFork(n, from) = last
  BY DEF LastFork
<1>4. \A i \in DOMAIN n.forks : i >= from => i \in S
  OBVIOUS
<1>5. last = -1 \/ (last \in DOMAIN n.forks /\ last \in from..(Depth - 1))
  BY <1>2
<1>6. -1 \notin DOMAIN n.forks
  OBVIOUS
<1> HIDE DEF S, last
<1>7. \A i \in DOMAIN n.forks : i >= from => i <= last
  <2> SUFFICES ASSUME NEW i \in DOMAIN n.forks, i >= from PROVE i <= last
    OBVIOUS
  <2>1. i \in Int /\ last \in Int /\ last >= i
    BY <1>1, <1>2, <1>4
  <2> QED
    BY <2>1
<1> QED
  BY <1>3, <1>5, <1>6, <1>7

\* The trie under construction of which p is the place.
Under(p, C) == Stands(p.acc, p.node, p.from, C)

LEMMA PlaceIs == \A acc, n, from : LET p == Place(acc, n, from) IN p.acc = acc /\ p.node = n /\ p.from = from
BY DEF Place

LEMMA ForkThere ==
  ASSUME NEW fs, NEW i, ~IsEmpty(Fork(fs, i))
  PROVE  i \in DOMAIN fs /\ Fork(fs, i) = fs[i].node
BY DEF Fork, IsEmpty

LEMMA PullUpStands ==
  ASSUME NEW C, IsMap(C), NEW p, Under(p, C), p.from > 0, NEW pk
  PROVE  Under(PullUp(p, pk), C) /\ PullUp(p, pk).from > 0
<1> DEFINE last == LastFork(p.node, p.from)
           m == Fork(p.node.forks, last)
<1> USE Params
<1>1. Stands(p.acc, p.node, p.from, C)
  BY DEF Under
<1>2. p.from \in 0..Depth /\ DOMAIN p.node.forks \subseteq 0..(Depth - 1)
  BY <1>1 DEF Stands, Joined
<1>3. \/ last = -1 /\ -1 \notin DOMAIN p.node.forks
      \/ last \in DOMAIN p.node.forks /\ last \in p.from..(Depth - 1)
  BY <1>2, LastForkIs
<1>4. PullUp(p, pk) = IF LooksEmpty(m, pk) THEN p ELSE Whirl(p, last)
  BY DEF PullUp
<1> HIDE DEF last
<1>5. CASE LooksEmpty(m, pk)
  BY <1>4, <1>5
<1>6. CASE ~LooksEmpty(m, pk)
  <2>1. ~IsEmpty(m)
    BY <1>6 DEF LooksEmpty
  <2>2. last \in DOMAIN p.node.forks /\ m = p.node.forks[last].node
    BY <2>1, ForkThere
  <2>3. last \in p.from..(Depth - 1) /\ last # 0
    BY <1>2, <1>3, <2>2
  <2> DEFINE acc == p.acc
             n == p.node
             from == p.from
  <2>4. /\ Stands(acc, n, from, C)
        /\ last \in from..(Depth - 1) /\ last # 0 /\ last \in DOMAIN n.forks /\ m = n.forks[last].node
    BY <1>1, <2>2, <2>3
  <2> HIDE DEF acc, n, from, m
  <2>5. Stands(WhirlForks(acc, n, from, last), m, last + 1, C)
    BY <2>4, Stepped
  <2>6. PullUp(p, pk) = Place(WhirlForks(acc, n, from, last), m, last + 1)
    BY <1>4, <1>6 DEF Whirl, acc, n, from, m
  <2>7. last + 1 > 0
    BY <2>3, <1>2
  <2> QED
    BY <2>5, <2>6, <2>7, PlaceIs DEF Under
<1> QED
  BY <1>5, <1>6

PullWay(p, pk) == CHOOSE moved : moved = [d \in 0..Depth |-> IF d = 0 THEN p ELSE PullUp(moved[d - 1], pk)]

LEMMA PullWayIs ==
  ASSUME NEW p, NEW pk
  PROVE  PullWay(p, pk)[0] = p /\ \A d \in 1..Depth : PullWay(p, pk)[d] = PullUp(PullWay(p, pk)[d - 1], pk)
<1> USE Params
<1> DEFINE R(d, y) == IF d = 0 THEN p ELSE PullUp(y, pk)
<1>1. PICK g : Steps(g, "pull", p, {}, pk, Depth)
  BY StepsExist
<1>2. \A d \in 0..Depth : g[d] = R(d, g[d - 1])
  <2> TAKE d \in 0..Depth
  <2>1. d = 0 \/ (d # 0 /\ d \in 1..Depth)
    OBVIOUS
  <2> QED
    BY <1>1, <2>1 DEF Steps, Onward
<1> HIDE DEF R
<1>3. g = [d \in 0..Depth |-> R(d, g[d - 1])]
  BY <1>1, <1>2 DEF Steps
<1>4. \E f : f = [d \in 0..Depth |-> R(d, f[d - 1])]
  BY <1>3, Zenon
<1> DEFINE f == PullWay(p, pk)
<1>5. f = [d \in 0..Depth |-> R(d, f[d - 1])]
  BY <1>4, Zenon DEF PullWay, R
<1> HIDE DEF f
<1>6. \A d \in 0..Depth : f[d] = R(d, f[d - 1])
  BY <1>5
<1>7. f[0] = p /\ \A d \in 1..Depth : f[d] = PullUp(f[d - 1], pk)
  BY <1>6 DEF R
<1> QED
  BY <1>7 DEF f

LEMMA PullTailWhole ==
  ASSUME NEW C, IsMap(C), NEW p, Under(p, C), p.from > 0, NEW pk
  PROVE  Whole(PullTail(p, pk), C)
<1> DEFINE S == {d \in Nat : d <= Depth => Under(PullWay(p, pk)[d], C) /\ PullWay(p, pk)[d].from > 0}
<1> USE Params
<1>1. 0 \in S
  BY PullWayIs
<1>2. ASSUME NEW d \in Nat, d \in S PROVE d + 1 \in S
  <2> SUFFICES ASSUME d + 1 <= Depth
               PROVE  Under(PullWay(p, pk)[d + 1], C) /\ PullWay(p, pk)[d + 1].from > 0
    OBVIOUS
  <2> DEFINE x == PullWay(p, pk)[d]
  <2>1. Under(x, C) /\ x.from > 0
    BY <1>2
  <2>2. d + 1 \in 1..Depth /\ d + 1 - 1 = d
    OBVIOUS
  <2>3. PullWay(p, pk)[d + 1] = PullUp(x, pk)
    BY <2>2, PullWayIs
  <2> HIDE DEF x
  <2>4. Under(PullUp(x, pk), C) /\ PullUp(x, pk).from > 0
    BY <2>1, PullUpStands
  <2> QED
    BY <2>3, <2>4
<1> HIDE DEF S
<1>3. Depth \in S
  BY <1>1, <1>2, AllNats
<1> DEFINE end == PullWay(p, pk)[Depth]
           acc == end.acc
           n == end.node
           from == end.from
           r == Wedge(acc, n, from, Depth, Null)
<1>4. PullTail(p, pk) = r
  BY Zenon DEF PullTail, PullWay
<1>5. Stands(acc, n, from, C)
  BY <1>3 DEF S, Under
<1> HIDE DEF acc, n, from
<1>6. Joined(acc, n, from) /\ Depth \in from..Depth /\ from \in 0..Depth /\ <<n.key, n.val>> \in C
  BY <1>5 DEF Stands, Joined
<1>7. /\ r.key = n.key /\ r.val = n.val /\ ~IsEmpty(r)
      /\ DOMAIN r.forks \subseteq 0..(Depth - 1)
      /\ \A i \in 0..(from - 1) : SameFork(r.forks, acc, i)
      /\ \A i \in from..(Depth - 1) : i # Depth => SameFork(r.forks, n.forks, i)
  BY <1>6, WedgeIs
<1> HIDE DEF r
<1>8. \A i \in from..(Depth - 1) : SameFork(r.forks, n.forks, i)
  BY <1>7, <1>6
<1>9. Whole(r, C)
  BY <1>5, <1>6, <1>7, <1>8, StandsWhole
<1> QED
  BY <1>4, <1>9

\* pull(): with forks, without forks below a parent, and alone.
LEMMA Pulled ==
  ASSUME NEW C, IsMap(C), NEW p, Under(p, C), p.from > 0 => p.from - 1 \in DOMAIN p.acc, NEW pk,
         LET m == Fork(p.node.forks, LastFork(p.node, p.from)) IN ~IsEmpty(m) => m.key \notin pk
  PROVE  LET own == <<p.node.key, p.node.val>>
         IN  \/ Pull(p, pk) = Empty /\ C = {own}
             \/ Whole(Pull(p, pk), C \ {own})
<1> DEFINE acc == p.acc
           n == p.node
           from == p.from
           last == LastFork(n, from)
           m == Fork(n.forks, last)
           parent == Fork(acc, from - 1)
           own == <<n.key, n.val>>
           D == C \ {own}
<1> USE Params
<1>1. Stands(acc, n, from, C) /\ (from > 0 => from - 1 \in DOMAIN acc) /\ (~IsEmpty(m) => m.key \notin pk)
  BY DEF Under
<1>2. Pull(p, pk) = IF ~LooksEmpty(m, pk)
                    THEN PullTail(Place(Wedge(acc, n, from, last, Null).forks, m, last + 1), pk)
                    ELSE IF parent = Null THEN Empty
                    ELSE Wedge(Truncate(acc, from - 1), parent, from - 1, from - 1, Null)
  BY DEF Pull
<1> HIDE DEF acc, n, from, last, m, parent
<1>3. /\ Joined(acc, n, from) /\ from \in 0..Depth /\ DOMAIN n.forks \subseteq 0..(Depth - 1)
      /\ DOMAIN acc \subseteq 0..(from - 1) /\ own \in C /\ n.key \in Key /\ C \subseteq Entry
  BY <1>1 DEF Stands, Joined, IsMap, Entry
<1>4. IsMap(D)
  <2>1. D \subseteq C
    OBVIOUS
  <2>2. IsFiniteSet(D)
    BY <2>1, FS_Subset DEF IsMap
  <2> QED
    BY <2>1, <2>2 DEF IsMap
<1>5. /\ \A i \in DOMAIN n.forks : i >= from => i <= last
      /\ \/ last = -1 /\ -1 \notin DOMAIN n.forks
         \/ last \in DOMAIN n.forks /\ last \in from..(Depth - 1)
  BY <1>3, LastForkIs DEF last
\* the forks with those of acc
<1> DEFINE v == Wedge(acc, n, from, Depth, Null)
<1>6. /\ v.key = n.key /\ v.val = n.val /\ ~IsEmpty(v)
      /\ DOMAIN v.forks \subseteq 0..(Depth - 1)
      /\ \A i \in 0..(from - 1) : SameFork(v.forks, acc, i)
      /\ \A i \in from..(Depth - 1) : SameFork(v.forks, n.forks, i)
  <2>1. Depth \in from..Depth
    BY <1>3
  <2>2. /\ v.key = n.key /\ v.val = n.val /\ ~IsEmpty(v)
        /\ DOMAIN v.forks \subseteq 0..(Depth - 1)
        /\ \A i \in 0..(from - 1) : SameFork(v.forks, acc, i)
        /\ \A i \in from..(Depth - 1) : i # Depth => SameFork(v.forks, n.forks, i)
    BY <1>3, <2>1, WedgeIs
  <2> HIDE DEF v
  <2> QED
    BY <2>2, <1>3
<1> HIDE DEF v
<1>7. Whole(v, C)
  BY <1>1, <1>3, <1>6, StandsWhole
<1> DEFINE fs == v.forks
<1>8. HalfKept(fs) /\ \A i \in 0..(Depth - 1) : Right(fs, i, Cut(C, n.key, i))
  BY <1>6, <1>7, WholeStands DEF Stands
<1>9. DOMAIN fs \subseteq 0..(Depth - 1)
  BY <1>6
<1> HIDE DEF fs, D
<1>10. CASE ~LooksEmpty(m, pk)
  <2>1. ~IsEmpty(m)
    BY <1>10 DEF LooksEmpty
  <2>2. last \in DOMAIN n.forks /\ m = n.forks[last].node
    BY <2>1, ForkThere DEF m
  <2>3. last \in from..(Depth - 1) /\ last \in 0..(Depth - 1) /\ last \in from..Depth
    BY <1>3, <1>5, <2>2
  <2>4. last \in DOMAIN fs /\ m = fs[last].node
    BY <2>2, <2>3, <1>6 DEF SameFork, fs
  <2>5. \A i \in (last + 1)..(Depth - 1) : i \notin DOMAIN fs
    <3> TAKE i \in (last + 1)..(Depth - 1)
    <3>1. i \in from..(Depth - 1) /\ i >= from /\ ~(i <= last)
      BY <2>3, <1>3
    <3> QED
      BY <3>1, <1>5, <1>6 DEF SameFork, fs
  <2> DEFINE left == Wedge(acc, n, from, last, Null).forks
  <2>6. /\ DOMAIN left \subseteq 0..(Depth - 1) /\ last \notin DOMAIN left
        /\ \A i \in 0..(from - 1) : SameFork(left, acc, i)
        /\ \A i \in from..(Depth - 1) : i # last => SameFork(left, n.forks, i)
    BY <1>3, <2>3, WedgeIs
  <2> HIDE DEF left
  <2>7. \A i \in 0..(last - 1) : SameFork(left, fs, i)
    <3> TAKE i \in 0..(last - 1)
    <3>1. i # last /\ (i \in 0..(from - 1) \/ i \in from..(Depth - 1))
      BY <2>3, <1>3
    <3> QED
      BY <3>1, <2>6, <1>6 DEF SameFork, fs
  <2>8. DOMAIN left \subseteq 0..(last - 1)
    <3> SUFFICES ASSUME NEW i \in DOMAIN left, i > last PROVE FALSE
      BY <2>3, <2>6
    <3>1. i \in from..(Depth - 1) /\ i # last /\ i >= from /\ ~(i <= last)
      BY <2>3, <2>6, <1>3
    <3> QED
      BY <3>1, <2>6, <1>5 DEF SameFork
  <2>9. Stands(left, m, last + 1, D)
    BY <1>3, <1>8, <2>3, <2>4, <2>5, <2>7, <2>8, Removed DEF D
  <2> DEFINE q == Place(left, m, last + 1)
  <2>10. Under(q, D) /\ q.from > 0
    BY <2>9, <2>3, PlaceIs DEF Under
  <2> HIDE DEF q
  <2>11. Whole(PullTail(q, pk), D)
    BY <2>10, <1>4, PullTailWhole
  <2> QED
    BY <2>11, <1>2, <1>10 DEF q, left, D, n
<1>11. CASE LooksEmpty(m, pk)
  <2>1. IsEmpty(m)
    BY <1>1, <1>11 DEF LooksEmpty
  <2>2. \A i \in from..(Depth - 1) : i \notin DOMAIN fs
    <3> SUFFICES ASSUME NEW i \in from..(Depth - 1), i \in DOMAIN fs PROVE FALSE
      OBVIOUS
    <3>1. i \in DOMAIN n.forks /\ i >= from
      BY <1>6 DEF SameFork, fs
    <3>2. last \in DOMAIN n.forks /\ last \in from..(Depth - 1)
      BY <3>1, <1>3, <1>5
    <3>3. m = n.forks[last].node
      BY <3>2 DEF m, Fork
    <3>4. Right(n.forks, last, Cut(C, n.key, last))
      BY <3>2, <1>1 DEF Stands
    <3>5. last \in 0..(Depth - 1)
      BY <3>2, <1>3
    <3>6. ~IsEmpty(m)
      BY <3>2, <3>3, <3>4 DEF Right, Shows
    <3> QED
      BY <3>6, <2>1
  <2>3. CASE from = 0
    <3>1. 0 - 1 \notin DOMAIN acc
      BY <2>3, <1>3
    <3>2. parent = Null
      BY <2>3, <3>1 DEF parent, Fork
    <3>3. \A e \in C : e = own
      <4> TAKE e \in C
      <4>1. e[1] \in Key /\ Same(n.key, e[1], 0) /\ 0 \in 0..Depth
        BY <1>3 DEF Entry, Same
      <4>2. CASE e[1] = n.key
        BY <4>2, <1>3 DEF IsMap
      <4>3. CASE e[1] # n.key
        <5>1. PICK i \in 0..(Depth - 1) : Parts(n.key, e[1], i)
          BY <4>1, <4>3, <1>3, PartsOrSame
        <5>2. Cut(C, n.key, i) # {}
          BY <5>1 DEF Cut
        <5>3. i \in DOMAIN fs
          BY <5>2, <1>8 DEF Right
        <5> QED
          BY <5>3, <2>2, <2>3
      <4> QED
        BY <4>2, <4>3
    <3>4. C = {own}
      BY <3>3, <1>3
    <3> QED
      BY <3>2, <3>4, <1>2, <1>11 DEF n
  <2>4. CASE from > 0
    <3> DEFINE j == from - 1
               t == Truncate(acc, j)
               r == Wedge(t, parent, j, j, Null)
    <3>1. j \in 0..(Depth - 1) /\ j + 1 = from /\ j \in DOMAIN acc
      BY <2>4, <1>1, <1>3
    <3>2. j \in 0..(from - 1)
      BY <3>1, <1>3
    <3> HIDE DEF j
    <3>3. j \in DOMAIN fs /\ fs[j] = acc[j]
      BY <3>1, <3>2, <1>6 DEF SameFork, fs
    <3>4. parent = fs[j].node
      BY <3>1, <3>3 DEF parent, Fork, j
    <3>5. ~IsEmpty(parent) /\ DOMAIN parent.forks \subseteq 0..(Depth - 1)
      BY <3>1, <3>3, <3>4, <1>3, <1>8, ForkIs
    <3>6. \A i \in (j + 1)..(Depth - 1) : i \notin DOMAIN fs
      BY <2>2, <3>1
    <3>7. DOMAIN t = {i \in DOMAIN acc : i < j} /\ \A i \in DOMAIN t : t[i] = acc[i]
      BY DEF Truncate
    <3> HIDE DEF t
    <3>8. DOMAIN t \subseteq 0..(j - 1)
      BY <3>1, <3>7, <1>3
    <3>9. \A i \in 0..(j - 1) : SameFork(t, fs, i)
      <4> TAKE i \in 0..(j - 1)
      <4>1. i \in 0..(from - 1) /\ i < j
        BY <3>1
      <4> QED
        BY <4>1, <3>7, <1>6 DEF SameFork, fs
    <3>10. Stands(t, parent, j + 1, D)
      BY <1>3, <1>8, <3>1, <3>3, <3>4, <3>6, <3>8, <3>9, Removed DEF D
    <3>11. Joined(t, parent, j) /\ j \in j..Depth
      BY <3>1, <3>5, <3>8 DEF Joined
    <3>12. /\ r.key = parent.key /\ r.val = parent.val /\ ~IsEmpty(r)
           /\ DOMAIN r.forks \subseteq 0..(Depth - 1) /\ j \notin DOMAIN r.forks
           /\ \A i \in 0..(j - 1) : SameFork(r.forks, t, i)
           /\ \A i \in j..(Depth - 1) : i # j => SameFork(r.forks, parent.forks, i)
      BY <3>11, WedgeIs
    <3> HIDE DEF r
    <3>13. \A i \in 0..(j + 1 - 1) : SameFork(r.forks, t, i)
      <4> TAKE i \in 0..(j + 1 - 1)
      <4>1. i \in 0..(j - 1) \/ (i = j /\ i \notin DOMAIN t)
        BY <3>1, <3>8
      <4> QED
        BY <4>1, <3>12 DEF SameFork
    <3>14. \A i \in (j + 1)..(Depth - 1) : SameFork(r.forks, parent.forks, i)
      <4> TAKE i \in (j + 1)..(Depth - 1)
      <4>1. i \in j..(Depth - 1) /\ i # j
        BY <3>1
      <4> QED
        BY <4>1, <3>12
    <3>15. <<r.key, r.val>> \in D
      BY <3>10, <3>12 DEF Stands
    <3>16. Whole(r, D)
      <4> DEFINE f == j + 1
      <4>1. Stands(t, parent, f, D) /\ \A i \in 0..(f - 1) : SameFork(r.forks, t, i)
        BY <3>10, <3>13, <3>1
      <4>2. \A i \in f..(Depth - 1) : SameFork(r.forks, parent.forks, i)
        BY <3>14
      <4> HIDE DEF f
      <4> QED
        BY <4>1, <4>2, <3>12, <3>15, <1>4, StandsWhole
    <3>17. parent # Null
      BY <3>5 DEF IsEmpty
    <3>18. Pull(p, pk) = r
      BY <1>2, <1>11, <3>17 DEF r, t, j
    <3> QED
      BY <3>16, <3>18 DEF D, n
  <2> QED
    BY <2>3, <2>4, <1>3
<1> QED
  BY <1>10, <1>11

-----------------------------------------------------------------------------
(* The way of an update.                                                   *)

\* p is on the way from n to k.
Bound(p, n, k, C) ==
  /\ Under(p, C)
  /\ Same(p.node.key, k, p.from)
  /\ p.from > 0 => p.from - 1 \in DOMAIN p.acc
  /\ p.from = 0 => p.node = n

\* There is no fork in the direction of k.
Stuck(p, k) == IsEmpty(Fork(p.node.forks, PO(p.node.key, k, p.from, Depth)))

LEMMA DownBound ==
  ASSUME NEW C, IsMap(C), NEW n, NEW k \in Key, ~InOtherHalf(n, k), NEW p, Bound(p, n, k, C)
  PROVE  /\ Bound(Down(p, k), n, k, C)
         /\ Stuck(p, k) => Down(p, k) = p
         /\ ~Stuck(p, k) => Down(p, k).from > p.from
<1> DEFINE acc == p.acc
           x == p.node
           from == p.from
           po == PO(x.key, k, from, Depth)
           m == Fork(x.forks, po)
<1> USE Params
<1>1. Stands(acc, x, from, C) /\ Same(x.key, k, from)
  BY DEF Bound, Under
<1>2. from = 0 => x = n
  BY DEF Bound
<1>3. Down(p, k) = IF IsEmpty(m) THEN p ELSE Place(WhirlForks(acc, x, from, po), m, po + 1)
  BY DEF Down, Whirl
<1>4. Stuck(p, k) <=> IsEmpty(m)
  BY DEF Stuck
<1> HIDE DEF acc, x, from
<1>5. from \in 0..Depth /\ DOMAIN x.forks \subseteq 0..(Depth - 1) /\ x.key \in Key
  BY <1>1 DEF Stands, Joined, IsMap, Entry
<1>6. po \in from..Depth /\ (po < Depth => Parts(x.key, k, po))
  BY <1>1, <1>5, POParts
<1> HIDE DEF po
<1>7. CASE IsEmpty(m)
  BY <1>3, <1>4, <1>7
<1>8. CASE ~IsEmpty(m)
  <2>1. po \in DOMAIN x.forks /\ m = x.forks[po].node
    BY <1>8, ForkThere
  <2>2. po \in from..(Depth - 1) /\ po \in 0..(Depth - 1) /\ po \in Nat /\ Parts(x.key, k, po)
    BY <2>1, <1>5, <1>6
  <2>3. po # 0
    <3> SUFFICES ASSUME po = 0 PROVE FALSE
      OBVIOUS
    <3>1. from = 0 /\ x = n
      BY <2>2, <1>2, <1>5
    <3> QED
      BY <3>1, <1>8 DEF InOtherHalf, po
  <2> HIDE DEF m
  <2> DEFINE w == WhirlForks(acc, x, from, po)
             q == Place(w, m, po + 1)
  <2>4. Stands(w, m, po + 1, C) /\ m.key \in Key /\ Parts(x.key, m.key, po)
    BY <1>1, <2>1, <2>2, <2>3, Stepped
  <2>5. Same(m.key, k, po + 1)
    <3> DEFINE b == m.key
    <3>1. b \in Key /\ Parts(x.key, b, po)
      BY <2>4
    <3> HIDE DEF b
    <3>2. Same(b, k, po + 1)
      BY <3>1, <2>2, <1>5, SameBit
    <3> QED
      BY <3>2 DEF b
  <2>6. po \in DOMAIN w
    BY <1>1, <2>2, WhirlForksIs DEF Stands
  <2> HIDE DEF w
  <2>7. q.acc = w /\ q.node = m /\ q.from = po + 1
    BY PlaceIs
  <2> HIDE DEF q
  <2>8. po + 1 > 0 /\ po + 1 # 0 /\ po + 1 - 1 = po /\ po + 1 > from
    BY <2>2, <1>5
  <2>9. Bound(q, n, k, C)
    <3>1. Stands(q.acc, q.node, q.from, C)
      BY <2>4, <2>7, Zenon
    <3>2. Same(q.node.key, k, q.from)
      BY <2>5, <2>7, Zenon
    <3>3. q.from - 1 \in DOMAIN q.acc
      <4>1. q.from - 1 = po
        BY <2>2, <2>7
      <4> QED
        BY <4>1, <2>6, <2>7, Zenon
    <3>4. q.from # 0
      BY <2>7, <2>8
    <3> QED
      BY <3>1, <3>2, <3>3, <3>4, Zenon DEF Bound, Under
  <2>10. Down(p, k) = q
    BY <1>3, <1>8 DEF q, w
  <2> QED
    BY <2>7, <2>8, <2>9, <2>10, <1>4, <1>8 DEF from
<1> QED
  BY <1>7, <1>8

DownWay(n, k) == CHOOSE way : way = [d \in 0..Depth |-> IF d = 0 THEN Place(NoForks, n, 0) ELSE Down(way[d - 1], k)]

LEMMA DownWayIs ==
  ASSUME NEW n, NEW k
  PROVE  /\ DownWay(n, k)[0] = Place(NoForks, n, 0)
         /\ \A d \in 1..Depth : DownWay(n, k)[d] = Down(DownWay(n, k)[d - 1], k)
<1> USE Params
<1> DEFINE R(d, y) == IF d = 0 THEN Place(NoForks, n, 0) ELSE Down(y, k)
<1>1. PICK g : Steps(g, "update", Place(NoForks, n, 0), k, {}, Depth)
  BY StepsExist
<1>2. \A d \in 0..Depth : g[d] = R(d, g[d - 1])
  <2> TAKE d \in 0..Depth
  <2>1. d = 0 \/ (d # 0 /\ d \in 1..Depth)
    OBVIOUS
  <2> QED
    BY <1>1, <2>1 DEF Steps, Onward
<1> HIDE DEF R
<1>3. g = [d \in 0..Depth |-> R(d, g[d - 1])]
  BY <1>1, <1>2 DEF Steps
<1>4. \E f : f = [d \in 0..Depth |-> R(d, f[d - 1])]
  BY <1>3, Zenon
<1> DEFINE f == DownWay(n, k)
<1>5. f = [d \in 0..Depth |-> R(d, f[d - 1])]
  BY <1>4, Zenon DEF DownWay, R
<1> HIDE DEF f
<1>6. \A d \in 0..Depth : f[d] = R(d, f[d - 1])
  BY <1>5
<1>7. f[0] = Place(NoForks, n, 0) /\ \A d \in 1..Depth : f[d] = Down(f[d - 1], k)
  BY <1>6 DEF R
<1> QED
  BY <1>7 DEF f

\* The way ends where there is no fork in the direction of k.
LEMMA DescentIs ==
  ASSUME NEW C, IsMap(C), NEW n, Whole(n, C), NEW k \in Key, ~InOtherHalf(n, k)
  PROVE  Bound(Descent(n, k), n, k, C) /\ Stuck(Descent(n, k), k)
<1> DEFINE at(d) == DownWay(n, k)[d]
           P(x, d) == Bound(x, n, k, C) /\ (Stuck(x, k) \/ x.from >= d)
           S == {d \in Nat : d <= Depth => P(at(d), d)}
<1> USE Params
<1>1. 0 \in S
  <2> DEFINE x == Place(NoForks, n, 0)
  <2>1. at(0) = x
    BY DownWayIs
  <2>2. Stands(NoForks, n, 0, C)
    BY WholeStands
  <2>3. x.acc = NoForks /\ x.node = n /\ x.from = 0
    BY PlaceIs
  <2> HIDE DEF x
  <2>4. P(x, 0)
    BY <2>2, <2>3 DEF Bound, Under, Same
  <2> QED
    BY <2>1, <2>4
<1>2. ASSUME NEW d \in Nat, d \in S PROVE d + 1 \in S
  <2> SUFFICES ASSUME d + 1 <= Depth PROVE P(at(d + 1), d + 1)
    OBVIOUS
  <2> DEFINE x == at(d)
  <2>1. P(x, d)
    BY <1>2
  <2>2. d + 1 \in 1..Depth /\ d + 1 - 1 = d
    OBVIOUS
  <2>3. at(d + 1) = Down(x, k)
    BY <2>2, DownWayIs
  <2> HIDE DEF x
  <2>4. /\ Bound(Down(x, k), n, k, C)
        /\ Stuck(x, k) => Down(x, k) = x
        /\ ~Stuck(x, k) => Down(x, k).from > x.from
    BY <2>1, DownBound
  <2>5. x.from \in 0..Depth /\ Down(x, k).from \in 0..Depth
    BY <2>1, <2>4 DEF Bound, Under, Stands, Joined
  <2>6. ~Stuck(x, k) => Down(x, k).from >= d + 1
    BY <2>1, <2>4, <2>5
  <2>7. P(Down(x, k), d + 1)
    BY <2>1, <2>4, <2>6
  <2> QED
    BY <2>3, <2>7
<1> HIDE DEF S
<1>3. Depth \in S
  BY <1>1, <1>2, AllNats
<1> DEFINE x == at(Depth)
<1>4. Descent(n, k) = x
  BY Zenon DEF Descent, DownWay
<1>5. P(x, Depth)
  BY <1>3 DEF S
<1> HIDE DEF x
<1>6. Stuck(x, k)
  <2> SUFFICES ASSUME x.from >= Depth PROVE Stuck(x, k)
    BY <1>5
  <2>1. x.from = Depth /\ DOMAIN x.node.forks \subseteq 0..(Depth - 1)
    BY <1>5 DEF Bound, Under, Stands, Joined
  <2>2. PO(x.node.key, k, Depth, Depth) \in Depth..Depth
    BY POIs
  <2>3. PO(x.node.key, k, x.from, Depth) = Depth
    BY <2>1, <2>2
  <2>4. Fork(x.node.forks, Depth) = Null
    BY <2>1 DEF Fork
  <2> QED
    BY <2>3, <2>4 DEF Stuck, IsEmpty
<1> QED
  BY <1>4, <1>5, <1>6

\* What updateInner() makes of a trie with the entries C: null if they stay.
Updated(r, C, k, v) ==
  \/ r = Null /\ With(C, k, v) = C
  \/ With(C, k, v) # C /\ ((r = Empty /\ With(C, k, v) = {}) \/ Whole(r, With(C, k, v)))

LEMMA UpdateEndIs ==
  ASSUME NEW C, IsMap(C), NEW n, NEW k \in Key, NEW v \in Value \cup {NoValue}, NEW pk,
         NEW p, Bound(p, n, k, C), Stuck(p, k),
         (v = NoValue /\ \E e \in C : e[1] = k) =>
           LET m == Fork(p.node.forks, LastFork(p.node, p.from)) IN ~IsEmpty(m) => m.key \notin pk
  PROVE  Updated(UpdateEnd(p, k, v, pk), C, k, v)
<1> DEFINE acc == p.acc
           x == p.node
           from == p.from
           po == PO(x.key, k, from, Depth)
<1> USE Params
<1>1. Stands(acc, x, from, C) /\ Same(x.key, k, from) /\ IsEmpty(Fork(x.forks, po))
  BY DEF Bound, Under, Stuck
<1>2. /\ po = Depth /\ v = NoValue => UpdateEnd(p, k, v, pk) = Pull(p, pk)
      /\ po = Depth /\ v # NoValue /\ v = x.val => UpdateEnd(p, k, v, pk) = Null
      /\ po = Depth /\ v # NoValue /\ v # x.val =>
           UpdateEnd(p, k, v, pk) = Pin(WhackForks(acc, x, from, Pin(NoForks, k, v), Depth), k, v)
      /\ po < Depth /\ v = NoValue => UpdateEnd(p, k, v, pk) = Null
      /\ po < Depth /\ v # NoValue => UpdateEnd(p, k, v, pk) = Pin(WhirlForks(acc, x, from, po), k, v)
  <2>1. from \in 0..Depth
    BY <1>1 DEF Stands, Joined
  <2>2. po \in from..Depth
    BY <1>1, <2>1, POParts
  <2>3. x.val # NoValue
    BY <1>1, NoValueAssumption DEF Stands, IsMap, Entry
  <2>4. UpdateEnd(p, k, v, pk) =
          CASE po = Depth /\ v = NoValue -> Pull(p, pk)
            [] po = Depth /\ v = x.val   -> Null
            [] po = Depth /\ v \notin {NoValue, x.val} ->
                 Pin(WhackForks(acc, x, from, Pin(NoForks, k, v), Depth), k, v)
            [] po < Depth /\ v = NoValue -> Null
            [] po < Depth /\ v # NoValue -> Pin(WhirlForks(acc, x, from, po), k, v)
    BY DEF UpdateEnd
  <2> HIDE DEF acc, x, from, po
  <2>5. ~(po = Depth /\ po < Depth)
    BY <2>1, <2>2
  <2> QED
    BY <2>3, <2>4, <2>5
<1>3. x.key = p.node.key /\ <<x.key, x.val>> = <<p.node.key, p.node.val>>
  OBVIOUS
<1> HIDE DEF acc, x, from
<1>4. /\ from \in 0..Depth /\ DOMAIN x.forks \subseteq 0..(Depth - 1)
      /\ <<x.key, x.val>> \in C /\ x.key \in Key /\ C \subseteq Entry /\ x.val \in Value
  BY <1>1 DEF Stands, Joined, IsMap, Entry
<1>5. po \in from..Depth /\ Same(x.key, k, po) /\ (po < Depth => Parts(x.key, k, po))
  BY <1>1, <1>4, POParts
<1> HIDE DEF po
<1> DEFINE own == <<x.key, x.val>>
<1>6. \A e \in C : e[1] = x.key => e = own
  BY <1>4 DEF IsMap
<1>7. CASE po = Depth
  <2>1. k = x.key
    BY <1>4, <1>5, <1>7, SameAll
  <2>2. CASE v = NoValue
    <3>1. own \in C /\ own[1] = k
      BY <2>1, <1>4
    <3> DEFINE m == Fork(p.node.forks, LastFork(p.node, p.from))
    <3>2. ~IsEmpty(m) => m.key \notin pk
      BY <3>1, <2>2
    <3>3. Under(p, C) /\ (p.from > 0 => p.from - 1 \in DOMAIN p.acc)
      BY DEF Bound
    <3>4. \/ Pull(p, pk) = Empty /\ C = {<<p.node.key, p.node.val>>}
          \/ Whole(Pull(p, pk), C \ {<<p.node.key, p.node.val>>})
      BY <3>2, <3>3, Pulled
    <3>5. With(C, k, v) = C \ {own} /\ With(C, k, v) # C
      BY <2>1, <2>2, <1>6, <1>4 DEF With
    <3> QED
      BY <3>4, <3>5, <1>2, <1>3, <1>7, <2>2 DEF Updated
  <2>3. CASE v # NoValue /\ v = x.val
    <3>1. With(C, k, v) = C
      BY <2>1, <2>3, <1>6, <1>4 DEF With
    <3> QED
      BY <3>1, <1>2, <1>7, <2>3 DEF Updated
  <2>4. CASE v # NoValue /\ v # x.val
    <3>1. Whole(Pin(WhackForks(acc, x, from, Pin(NoForks, k, v), Depth), k, v), With(C, k, v))
      BY <1>1, <2>1, <2>4, Replaced
    <3>2. own \in C /\ own \notin With(C, k, v)
      BY <1>4, <2>1, <2>4 DEF With
    <3> QED
      BY <3>1, <3>2, <1>2, <1>7, <2>4 DEF Updated
  <2> QED
    BY <2>2, <2>3, <2>4
<1>8. CASE po < Depth
  <2>1. po \in from..(Depth - 1) /\ Parts(x.key, k, po)
    BY <1>4, <1>5, <1>8
  <2>2. Right(x.forks, po, Cut(C, x.key, po))
    BY <1>1, <2>1 DEF Stands
  <2>3. po \notin DOMAIN x.forks
    <3> SUFFICES ASSUME po \in DOMAIN x.forks PROVE FALSE
      OBVIOUS
    <3> QED
      BY <2>2, <1>1 DEF Right, Shows, Fork
  <2>4. CASE v = NoValue
    <3>1. Cut(C, x.key, po) = {}
      BY <2>2, <2>3 DEF Right
    <3>2. \A e \in C : e[1] # k
      BY <3>1, <2>1 DEF Cut
    <3>3. With(C, k, v) = C
      BY <3>2, <2>4 DEF With
    <3> QED
      BY <3>3, <1>2, <1>8, <2>4 DEF Updated
  <2>5. CASE v # NoValue
    <3>1. Whole(Pin(WhirlForks(acc, x, from, po), k, v), With(C, k, v))
      BY <1>1, <2>1, <2>3, <2>5, Inserted
    <3>2. <<k, v>> \in With(C, k, v) /\ <<k, v>> \notin C
      <4>1. Cut(C, x.key, po) = {}
        BY <2>2, <2>3 DEF Right
      <4>2. <<k, v>>[1] = k
        OBVIOUS
      <4> QED
        BY <4>1, <4>2, <2>1, <2>5 DEF Cut, With
    <3> QED
      BY <3>1, <3>2, <1>2, <1>8, <2>5 DEF Updated
  <2> QED
    BY <2>4, <2>5
<1> QED
  BY <1>4, <1>5, <1>7, <1>8

\* The entries whose keys do not agree with k before i.
Others(C, k, i) == {e \in C : ~Same(k, e[1], i)}

\* A blind deletion: what is behind the forks of the node goes with it.
LEMMA BlindEnd ==
  ASSUME NEW C, IsMap(C), NEW n, NEW k \in Key, NEW pk, NEW p, Bound(p, n, k, C), Stuck(p, k),
         \E e \in C : e[1] = k,
         LET m == Fork(p.node.forks, LastFork(p.node, p.from)) IN ~IsEmpty(m) /\ m.key \in pk
  PROVE  LET r == UpdateEnd(p, k, NoValue, pk)
             D == Others(C, k, p.from)
         IN  (r = Empty /\ D = {}) \/ Whole(r, D)
<1> DEFINE acc == p.acc
           x == p.node
           from == p.from
           po == PO(x.key, k, from, Depth)
           own == <<k, x.val>>
           y == Pin(NoForks, k, x.val)
           q == Place(acc, y, from)
           D == Others(C, k, from)
           E == D \cup {own}
<1> USE Params
<1>1. /\ Stands(acc, x, from, C) /\ Same(x.key, k, from) /\ IsEmpty(Fork(x.forks, po))
      /\ from > 0 => from - 1 \in DOMAIN acc
  BY DEF Bound, Under, Stuck
<1>2. po = Depth /\ x.val # NoValue => UpdateEnd(p, k, NoValue, pk) = Pull(p, pk)
  <2>1. ~(Depth < Depth)
    OBVIOUS
  <2> QED
    BY <2>1 DEF UpdateEnd
<1>3. Pull(p, pk) = IF Fork(acc, from - 1) = Null THEN Empty
                    ELSE Wedge(Truncate(acc, from - 1), Fork(acc, from - 1), from - 1, from - 1, Null)
  BY DEF Pull, LooksEmpty
<1>4. q.acc = acc /\ q.node = y /\ q.from = from
  BY PlaceIs
<1>5. y.key = k /\ y.val = x.val /\ y.forks = NoForks /\ ~IsEmpty(y) /\ DOMAIN NoForks = {}
  BY DEF Pin, IsEmpty, Null, Empty, NoForks
<1> HIDE DEF acc, x, from, y, q
<1>6. /\ from \in 0..Depth /\ DOMAIN acc \subseteq 0..(from - 1) /\ x.key \in Key
      /\ <<x.key, x.val>> \in C /\ C \subseteq Entry /\ x.val \in Value
      /\ \A d, e \in C : d[1] = e[1] => d = e
  BY <1>1 DEF Stands, Joined, IsMap, Entry
<1>7. po \in from..Depth /\ (po < Depth => Parts(x.key, k, po)) /\ Same(x.key, k, po)
  BY <1>1, <1>6, POParts
<1>8. po = Depth
  <2> SUFFICES ASSUME po # Depth PROVE FALSE
    OBVIOUS
  <2> HIDE DEF po
  <2>1. po \in from..(Depth - 1) /\ Parts(x.key, k, po)
    BY <1>6, <1>7
  <2>2. Right(x.forks, po, Cut(C, x.key, po))
    BY <2>1, <1>1 DEF Stands
  <2>3. Cut(C, x.key, po) # {}
    BY <2>1 DEF Cut
  <2> QED
    BY <2>2, <2>3, <1>1 DEF Right, Shows, Fork
<1> HIDE DEF po
<1>9. k = x.key /\ own \in C
  BY <1>6, <1>7, <1>8, SameAll
<1>10. Pull(q, pk) = Pull(p, pk)
  <2>1. LastFork(y, from) = -1 \/ LastFork(y, from) \in DOMAIN y.forks
    BY <1>5, <1>6, LastForkIs
  <2>2. Fork(y.forks, LastFork(y, from)) = Null
    BY <1>5 DEF Fork
  <2>3. LooksEmpty(Fork(y.forks, LastFork(y, from)), pk)
    BY <2>2 DEF LooksEmpty, IsEmpty
  <2> QED
    BY <1>3, <1>4, <2>3 DEF Pull
<1>11. \A i \in 0..(from - 1) : Cut(E, k, i) = Cut(C, k, i)
  <2> TAKE i \in 0..(from - 1)
  <2>1. \A b : Parts(k, b, i) => ~Same(k, b, from)
    BY DEF Parts, Same
  <2>2. own[1] = k /\ ~Parts(k, k, i)
    BY DEF Parts
  <2> HIDE DEF own
  <2> QED
    BY <2>1, <2>2, <1>9 DEF Cut, Others
<1>12. \A i \in from..(Depth - 1) : Cut(E, k, i) = {}
  <2> TAKE i \in from..(Depth - 1)
  <2>1. \A b : Parts(k, b, i) => Same(k, b, from)
    BY <1>6 DEF Parts, Same
  <2>2. own[1] = k /\ ~Parts(k, k, i)
    BY DEF Parts
  <2> HIDE DEF own
  <2> QED
    BY <2>1, <2>2 DEF Cut, Others
<1>13. IsMap(E) /\ own \in E
  <2>1. E \subseteq C
    BY <1>9 DEF Others
  <2>2. IsFiniteSet(E)
    BY <2>1, FS_Subset DEF IsMap
  <2> HIDE DEF E
  <2>3. IsMap(E)
    BY <2>1, <2>2, <1>6 DEF IsMap
  <2> QED
    BY <2>3 DEF E
<1>14. E \ {own} = D
  <2>1. own[1] = k /\ Same(k, k, from)
    BY DEF Same
  <2> HIDE DEF own
  <2> QED
    BY <2>1 DEF Others
<1>15. HalfKept(NoForks) /\ (from > 0 => HalfKept(acc))
  BY <1>1, <1>5 DEF HalfKept, Stands
<1> HIDE DEF E, D, own
<1>16. Stands(acc, y, from, E)
  <2>1. Joined(acc, y, from) /\ <<y.key, y.val>> \in E
    BY <1>5, <1>6, <1>13 DEF Joined, own
  <2>2. \A i \in 0..(from - 1) : Right(acc, i, Cut(E, k, i))
    BY <1>1, <1>9, <1>11 DEF Stands
  <2>3. \A i \in from..(Depth - 1) : Right(NoForks, i, Cut(E, k, i))
    BY <1>5, <1>12 DEF Right
  <2> QED
    BY <2>1, <2>2, <2>3, <1>5, <1>15 DEF Stands
<1>17. \/ Pull(q, pk) = Empty /\ E = {own}
       \/ Whole(Pull(q, pk), E \ {own})
  <2>1. Under(q, E) /\ (q.from > 0 => q.from - 1 \in DOMAIN q.acc)
    BY <1>1, <1>4, <1>16 DEF Under
  <2>2. IsEmpty(Fork(q.node.forks, LastFork(q.node, q.from)))
    <3>1. Fork(y.forks, LastFork(y, from)) = Null
      <4>1. LastFork(y, from) \notin DOMAIN y.forks
        BY <1>5
      <4> QED
        BY <4>1 DEF Fork
    <3> QED
      BY <3>1, <1>4 DEF IsEmpty
  <2>3. <<q.node.key, q.node.val>> = own
    BY <1>4, <1>5 DEF own
  <2> QED
    BY <2>1, <2>2, <2>3, <1>13, Pulled
<1>18. UpdateEnd(p, k, NoValue, pk) = Pull(p, pk)
  BY <1>2, <1>6, <1>8, NoValueAssumption
<1> QED
  BY <1>10, <1>14, <1>17, <1>18 DEF D, from

LEMMA SingleWhole ==
  ASSUME NEW k \in Key, NEW v \in Value
  PROVE  Whole(Pin(NoForks, k, v), {<<k, v>>})
<1> DEFINE C == {<<k, v>>}
           r == [key |-> k, val |-> v, forks |-> NoForks]
<1>1. Pin(NoForks, k, v) = r
  BY DEF Pin
<1>2. r.key = k /\ r.val = v /\ r.forks = NoForks /\ ~IsEmpty(r)
  BY DEF IsEmpty, Null, Empty
<1>3. DOMAIN NoForks = {}
  BY DEF NoForks
<1> HIDE DEF r
<1>4. IsMap(C)
  <2>1. IsFiniteSet(C)
    BY FS_Singleton
  <2>2. C \subseteq Entry /\ \A d, e \in C : d = e
    BY DEF Entry
  <2> HIDE DEF C
  <2> QED
    BY <2>1, <2>2 DEF IsMap
<1>5. \A i : Cut(C, k, i) = {}
  BY DEF Cut, Parts
<1>6. <<k, v>> \in C
  OBVIOUS
<1> HIDE DEF C
<1>7. \A i \in 0..(Depth - 1) : Right(r.forks, i, Cut(C, r.key, i))
  BY <1>2, <1>3, <1>5 DEF Right
<1>8. HalfKept(r.forks)
  BY <1>2, <1>3 DEF HalfKept
<1>9. Whole(r, C)
  <2>1. DOMAIN r.forks \subseteq 0..(Depth - 1) /\ <<r.key, r.val>> \in C
    BY <1>2, <1>3, <1>6
  <2> QED
    BY <2>1, <1>2, <1>4, <1>7, <1>8, IsWhole
<1> QED
  BY <1>1, <1>9 DEF C

LEMMA CutMap ==
  ASSUME NEW C, IsMap(C), NEW k, NEW i
  PROVE  IsMap(Cut(C, k, i)) /\ Cut(C, k, i) \subseteq C
<1>1. Cut(C, k, i) \subseteq C
  BY DEF Cut
<1>2. IsFiniteSet(Cut(C, k, i))
  BY <1>1, FS_Subset DEF IsMap
<1> QED
  BY <1>1, <1>2 DEF IsMap

\* The other half of a trie is a trie.
LEMMA HalfWhole ==
  ASSUME NEW C, IsMap(C), NEW n, Whole(n, C), 0 \in DOMAIN n.forks, NEW h, h = n.forks[0].node
  PROVE  Whole(h, Cut(C, n.key, 0)) /\ 0 \notin DOMAIN h.forks
<1> DEFINE D == Cut(C, n.key, 0)
<1> USE Params
<1>1. Stands(NoForks, n, 0, C)
  BY WholeStands
<1>2. Right(n.forks, 0, D) /\ HalfKept(n.forks)
  BY <1>1 DEF Stands
<1>3. Shows(h, 0 + 1, D) /\ 0 \notin DOMAIN h.forks
  BY <1>2 DEF Right, HalfKept
<1>4. 0 + 1 = 1 /\ 1 \in 0..Depth
  OBVIOUS
<1>5. Local(h, 1, D)
  BY <1>3, <1>4, ShowsLocal
<1>6. IsMap(D)
  BY CutMap
<1> HIDE DEF D
<1>7. /\ ~IsEmpty(h) /\ DOMAIN h.forks \subseteq 0..(Depth - 1) /\ <<h.key, h.val>> \in D
      /\ \A e \in D : Same(h.key, e[1], 1)
      /\ \A i \in 1..(Depth - 1) : Right(h.forks, i, Cut(D, h.key, i))
  BY <1>5 DEF Local, Right
<1>8. Cut(D, h.key, 0) = {}
  <2>1. 0 \in 0..(1 - 1)
    OBVIOUS
  <2> QED
    BY <2>1, <1>7 DEF Cut, Same, Parts
<1>9. Right(h.forks, 0, Cut(D, h.key, 0))
  BY <1>3, <1>8 DEF Right
<1>10. \A i \in 0..(Depth - 1) : i = 0 \/ i \in 1..(Depth - 1)
  OBVIOUS
<1>11. \A i \in 0..(Depth - 1) : Right(h.forks, i, Cut(D, h.key, i))
  BY <1>7, <1>9, <1>10
<1>12. HalfKept(h.forks)
  BY <1>3 DEF HalfKept
<1>13. Whole(h, D)
  BY <1>6, <1>7, <1>11, <1>12, IsWhole
<1> QED
  BY <1>3, <1>13 DEF D

\* A trie with its other half replaced by r.
LEMMA OtherHalfWhole ==
  ASSUME NEW C, IsMap(C), NEW n, Whole(n, C), NEW E, IsMap(E), <<n.key, n.val>> \in E,
         \A i \in 1..(Depth - 1) : Cut(E, n.key, i) = Cut(C, n.key, i),
         NEW r, \/ IsEmpty(r) /\ Cut(E, n.key, 0) = {}
                \/ Whole(r, Cut(E, n.key, 0))
  PROVE  Whole(WithOtherHalf(n, r), E)
<1> DEFINE D == Cut(E, n.key, 0)
<1> USE Params
<1>1. Stands(NoForks, n, 0, C)
  BY WholeStands
<1>2. /\ ~IsEmpty(n) /\ DOMAIN n.forks \subseteq 0..(Depth - 1) /\ <<n.key, n.val>> \in C
      /\ \A i \in 0..(Depth - 1) : Right(n.forks, i, Cut(C, n.key, i))
  BY <1>1 DEF Stands, Joined
<1>3. IsMap(E)
  OBVIOUS
<1>4. C \subseteq Entry /\ n.key \in Key
  BY <1>2 DEF IsMap, Entry
<1>5. D = Cut(E, n.key, 0)
  OBVIOUS
<1>6. IsMap(D) /\ D \subseteq E
  BY <1>3, <1>5, CutMap
<1>7. \A i \in 1..(Depth - 1) : Cut(E, n.key, i) = Cut(C, n.key, i)
  OBVIOUS
<1>8. <<n.key, n.val>> \in E
  OBVIOUS
<1> HIDE DEF D
<1>9. \A i \in 0..(Depth - 1) : i = 0 \/ i \in 1..(Depth - 1)
  OBVIOUS
<1>10. CASE IsEmpty(r) /\ D = {}
  <2> DEFINE w == Wedge(NoForks, n, 0, 0, Null)
  <2>1. Joined(NoForks, n, 0) /\ 0 \in 0..Depth
    BY <1>1 DEF Stands
  <2>2. /\ w.key = n.key /\ w.val = n.val /\ ~IsEmpty(w)
        /\ DOMAIN w.forks \subseteq 0..(Depth - 1) /\ 0 \notin DOMAIN w.forks
        /\ \A i \in 0..(Depth - 1) : i # 0 => SameFork(w.forks, n.forks, i)
    BY <2>1, WedgeIs
  <2>3. WithOtherHalf(n, r) = w
    BY <1>10 DEF WithOtherHalf
  <2> HIDE DEF w
  <2>4. \A i \in 0..(Depth - 1) : Right(w.forks, i, Cut(E, w.key, i))
    <3> TAKE i \in 0..(Depth - 1)
    <3>1. CASE i = 0
      BY <3>1, <2>2, <1>5, <1>10 DEF Right
    <3>2. CASE i \in 1..(Depth - 1)
      <4>1. i # 0 /\ SameFork(w.forks, n.forks, i) /\ Right(n.forks, i, Cut(E, n.key, i))
        BY <3>2, <2>2, <1>2, <1>7
      <4> QED
        BY <4>1, <2>2, RightSame
    <3> QED
      BY <3>1, <3>2, <1>9
  <2>5. HalfKept(w.forks)
    BY <2>2 DEF HalfKept
  <2>6. Whole(w, E)
    BY <2>2, <2>4, <2>5, <1>3, <1>8, IsWhole
  <2> QED
    BY <2>3, <2>6
<1>11. CASE Whole(r, D)
  <2>1. Stands(NoForks, r, 0, D)
    BY <1>11, WholeStands
  <2>2. /\ ~IsEmpty(r) /\ DOMAIN r.forks \subseteq 0..(Depth - 1) /\ <<r.key, r.val>> \in D
        /\ Right(r.forks, 0, Cut(D, r.key, 0))
    BY <2>1 DEF Stands, Joined
  <2>3. D \subseteq Entry /\ IsFiniteSet(D) /\ r.key \in Key /\ Parts(n.key, r.key, 0)
    BY <2>2, <1>5, <1>6 DEF IsMap, Entry, Cut
  <2>4. ASSUME NEW e \in D PROVE Same(r.key, e[1], 1)
    <3>1. e[1] \in Key /\ Parts(n.key, e[1], 0)
      BY <2>3, <1>5 DEF Cut, Entry
    <3> DEFINE b == r.key
               c == e[1]
    <3>2. b \in Key /\ c \in Key /\ Parts(n.key, b, 0) /\ Parts(n.key, c, 0)
      BY <2>3, <3>1
    <3> HIDE DEF b, c
    <3>3. Same(b, c, 0 + 1)
      BY <3>2, <1>4, SameBit
    <3> QED
      BY <3>3 DEF b, c
  <2>5. 0 \notin DOMAIN r.forks
    <3>1. 0 \in 0..(1 - 1)
      OBVIOUS
    <3>2. Cut(D, r.key, 0) = {}
      BY <3>1, <2>4 DEF Cut, Same, Parts
    <3> QED
      BY <3>2, <2>2 DEF Right
  <2>6. Shows(r, 1, D)
    <3>1. 1 \in 0..Depth
      OBVIOUS
    <3>2. Shows(r, 1, Rest(D, r.key, 1))
      BY <3>1, <2>1, <1>6, RestShows
    <3>3. Rest(D, r.key, 1) = D
      BY <2>4 DEF Rest
    <3> QED
      BY <3>2, <3>3
  <2> DEFINE m == Reachable(0, r)
             size == NewAtSize(0, r)
             w == WhackForks(NoForks, r, -1, n, 0)
             s == [key |-> n.key, val |-> n.val, forks |-> w]
  <2>7. Shows(m, 1, D) /\ 0 \notin DOMAIN m.forks
    <3>1. 0 \in (-1)..(Depth - 1) /\ 0 + 1 = 1
      OBVIOUS
    <3> QED
      BY <3>1, <2>3, <2>5, <2>6, ReachableShows
  <2>8. size = Cardinality(D)
    <3>1. 1 \in 0..Depth /\ 1 - 1 = 0
      OBVIOUS
    <3>2. NewAtSize(1 - 1, r) = Cardinality(D)
      BY <3>1, <2>3, <2>6, SizeIs
    <3> QED
      BY <3>1, <3>2
  <2> HIDE DEF m, size
  <2>9. /\ DOMAIN w \subseteq 0..(Depth - 1) /\ 0 \in DOMAIN w
        /\ w[0] = [node |-> m, size |-> size]
        /\ \A i \in 1..(Depth - 1) : SameFork(w, n.forks, i)
    BY <2>2, <2>5, <1>2, WhackHalfIs DEF m, size
  <2>10. WithOtherHalf(n, r) = s
    BY <2>2 DEF WithOtherHalf, Pin
  <2> HIDE DEF w
  <2>11. s.key = n.key /\ s.val = n.val /\ s.forks = w /\ ~IsEmpty(s)
    BY DEF IsEmpty, Null, Empty
  <2> HIDE DEF s
  <2>12. Right(w, 0, D)
    <3>1. 0 + 1 = 1
      OBVIOUS
    <3> QED
      BY <3>1, <2>2, <2>7, <2>8, <2>9 DEF Right
  <2>13. \A i \in 0..(Depth - 1) : Right(w, i, Cut(E, n.key, i))
    <3> TAKE i \in 0..(Depth - 1)
    <3>1. CASE i = 0
      BY <3>1, <2>12, <1>5
    <3>2. CASE i \in 1..(Depth - 1)
      <4>1. SameFork(w, n.forks, i) /\ Right(n.forks, i, Cut(E, n.key, i))
        BY <3>2, <2>9, <1>2, <1>7
      <4> QED
        BY <4>1, RightSame
    <3> QED
      BY <3>1, <3>2, <1>9
  <2>14. HalfKept(w)
    BY <2>7, <2>9 DEF HalfKept
  <2>15. Whole(s, E)
    BY <2>9, <2>11, <2>13, <2>14, <1>3, <1>8, IsWhole
  <2> QED
    BY <2>10, <2>15
<1> QED
  BY <1>10, <1>11 DEF D

\* The trie holds C, or nothing.
Holds(n, C) == IsMap(C) /\ (Whole(n, C) \/ (n = Empty /\ C = {}))

\* An update that is neither idle nor blind.
LEMMA UpdateInnerIs ==
  ASSUME NEW C, NEW n, Holds(n, C), NEW k \in Key, NEW v \in Value \cup {NoValue}, NEW pk,
         (n # Empty /\ InOtherHalf(n, k)) => With(C, k, v) # C,
         (v = NoValue /\ \E e \in C : e[1] = k) =>
           LET m == LastOf(n, k) IN ~IsEmpty(m) => m.key \notin pk
  PROVE  Updated(UpdateInner(n, k, v, pk), C, k, v)
<1> DEFINE r == UpdateEnd(Descent(Half(n, k), k), k, v, pk)
<1> USE Params
<1>1. IsMap(C)
  BY DEF Holds
<1>2. CASE IsEmpty(n)
  <2>1. C = {}
    BY <1>2 DEF Holds, Whole, Shows
  <2>2. UpdateInner(n, k, v, pk) = IF v = NoValue THEN Null ELSE Pin(NoForks, k, v)
    BY <1>2 DEF UpdateInner
  <2>3. CASE v = NoValue
    <3>1. With(C, k, v) = C
      BY <2>1, <2>3 DEF With
    <3> QED
      BY <2>2, <2>3, <3>1 DEF Updated
  <2>4. CASE v # NoValue
    <3>1. With(C, k, v) = {<<k, v>>} /\ v \in Value
      BY <2>1, <2>4 DEF With
    <3> QED
      BY <2>1, <2>2, <2>4, <3>1, SingleWhole DEF Updated
  <2> QED
    BY <2>3, <2>4
<1>3. CASE ~IsEmpty(n) /\ ~InOtherHalf(n, k)
  <2> DEFINE p == Descent(n, k)
  <2>1. Whole(n, C)
    BY <1>3 DEF Holds, IsEmpty
  <2>2. Half(n, k) = n
    BY <1>3 DEF Half
  <2>3. Bound(p, n, k, C) /\ Stuck(p, k)
    BY <2>1, <1>1, <1>3, DescentIs
  <2>4. LastOf(n, k) = Fork(p.node.forks, LastFork(p.node, p.from))
    BY <2>2 DEF LastOf
  <2>5. UpdateInner(n, k, v, pk) = UpdateEnd(p, k, v, pk)
    BY <1>3, <2>2 DEF UpdateInner
  <2> HIDE DEF p
  <2> QED
    BY <1>1, <2>3, <2>4, <2>5, UpdateEndIs
<1>4. CASE ~IsEmpty(n) /\ InOtherHalf(n, k)
  <2> DEFINE h == Fork(n.forks, 0)
             p == Descent(h, k)
             D == Cut(C, n.key, 0)
  <2>1. Whole(n, C) /\ n # Empty
    BY <1>4 DEF Holds, IsEmpty
  <2>2. Half(n, k) = h /\ PO(n.key, k, 0, Depth) = 0 /\ ~IsEmpty(h)
    BY <1>4 DEF Half, InOtherHalf
  <2>3. Parts(n.key, k, 0)
    BY <2>2, PartsPO
  <2>4. 0 \in DOMAIN n.forks /\ h = n.forks[0].node
    BY <2>2, ForkThere
  <2>5. UpdateInner(n, k, v, pk) = WithOtherHalf(n, UpdateEnd(p, k, v, pk))
    BY <1>4, <2>2 DEF UpdateInner
  <2>6. LastOf(n, k) = Fork(p.node.forks, LastFork(p.node, p.from))
    BY <2>2 DEF LastOf
  <2> HIDE DEF h, p
  <2>7. Whole(h, D) /\ 0 \notin DOMAIN h.forks
    BY <2>1, <2>4, <1>1, HalfWhole
  <2>8. IsMap(D) /\ D \subseteq C
    BY <1>1, CutMap
  <2>9. ~InOtherHalf(h, k)
    BY <2>7 DEF InOtherHalf, Fork, IsEmpty
  <2> HIDE DEF D
  <2>10. Bound(p, h, k, D) /\ Stuck(p, k)
    BY <2>7, <2>8, <2>9, DescentIs DEF p
  <2>11. Updated(UpdateEnd(p, k, v, pk), D, k, v)
    BY <2>6, <2>8, <2>10, UpdateEndIs
  <2>12. With(D, k, v) # D
    <3> SUFFICES ASSUME With(D, k, v) = D PROVE With(C, k, v) = C
      BY <1>4, <2>1
    <3>1. \A e : e \in D <=> (e \in C /\ Parts(n.key, e[1], 0))
      BY DEF D, Cut
    <3>2. v # NoValue => <<k, v>> \in D
      BY DEF With
    <3>3. \A e \in C : e[1] = k => e \in D
      BY <2>3, <3>1
    <3>4. \A e \in D : e[1] = k => v # NoValue /\ e = <<k, v>>
      BY DEF With
    <3> QED
      BY <2>8, <3>2, <3>3, <3>4 DEF With
  <2> DEFINE q == UpdateEnd(p, k, v, pk)
  <2>13. (IsEmpty(q) /\ With(D, k, v) = {}) \/ Whole(q, With(D, k, v))
    BY <2>11, <2>12 DEF Updated, IsEmpty
  <2> HIDE DEF q
  <2>14. Whole(WithOtherHalf(n, q), With(C, k, v))
    <3> DEFINE E == With(C, k, v)
    <3>1. IsMap(E)
      BY <1>1, WithIs
    <3>2. Cut(E, n.key, 0) = With(D, k, v)
      BY <2>3 DEF With, Cut, D
    <3>3. \A i \in 1..(Depth - 1) : Cut(E, n.key, i) = Cut(C, n.key, i)
      <4> TAKE i \in 1..(Depth - 1)
      <4>1. n.key \in Key
        <5>1. <<n.key, n.val>> \in C
          BY <2>1, WholeStands DEF Stands
        <5> QED
          BY <5>1, <1>1 DEF IsMap, Entry
      <4>2. ~Parts(n.key, k, i)
        BY <2>3, <4>1, PartsOnce
      <4> QED
        BY <4>2 DEF With, Cut
    <3>4. <<n.key, n.val>> \in C
      BY <2>1, WholeStands DEF Stands
    <3>5. <<n.key, n.val>> \in E
      BY <2>3, <3>4 DEF With, Parts
    <3> HIDE DEF E
    <3>6. Whole(WithOtherHalf(n, q), E)
      BY <1>1, <2>1, <2>13, <3>1, <3>2, <3>3, <3>5, OtherHalfWhole
    <3> QED
      BY <3>6 DEF E
  <2>15. With(C, k, v) # C
    BY <1>4, <2>1
  <2> QED
    BY <2>5, <2>14, <2>15 DEF Updated, q
<1> QED
  BY <1>2, <1>3, <1>4

\* An idle update drops the other half.
LEMMA IdleInner ==
  ASSUME NEW C, NEW n, Holds(n, C), n # Empty, NEW k \in Key, InOtherHalf(n, k), NEW v \in Value \cup {NoValue},
         NEW pk, With(C, k, v) = C
  PROVE  Whole(UpdateInner(n, k, v, pk), C \ Cut(C, n.key, 0))
<1> DEFINE h == Fork(n.forks, 0)
           p == Descent(h, k)
           D == Cut(C, n.key, 0)
           E == C \ D
<1> USE Params
<1>1. IsMap(C) /\ Whole(n, C) /\ ~IsEmpty(n)
  BY DEF Holds, Whole, Shows
<1>2. Half(n, k) = h /\ PO(n.key, k, 0, Depth) = 0 /\ ~IsEmpty(h)
  BY DEF Half, InOtherHalf
<1>3. <<n.key, n.val>> \in C /\ n.key \in Key
  <2>1. <<n.key, n.val>> \in C
    BY <1>1, WholeStands DEF Stands
  <2> QED
    BY <2>1, <1>1 DEF IsMap, Entry
<1>4. Parts(n.key, k, 0)
  BY <1>2, <1>3, PartsPO
<1>5. 0 \in DOMAIN n.forks /\ h = n.forks[0].node
  BY <1>2, ForkThere
<1>6. UpdateInner(n, k, v, pk) = WithOtherHalf(n, UpdateEnd(p, k, v, pk))
  BY <1>1, <1>2 DEF UpdateInner
<1> HIDE DEF h, p
<1>7. Whole(h, D) /\ 0 \notin DOMAIN h.forks
  BY <1>1, <1>5, HalfWhole
<1>8. IsMap(D) /\ D \subseteq C
  BY <1>1, CutMap
<1>9. ~InOtherHalf(h, k)
  BY <1>7 DEF InOtherHalf, Fork, IsEmpty
<1>10. With(D, k, v) = D
  BY <1>4 DEF With, D, Cut
<1> HIDE DEF D
<1>11. Bound(p, h, k, D) /\ Stuck(p, k)
  BY <1>7, <1>8, <1>9, DescentIs DEF p
<1>12. v = NoValue => \A e \in D : e[1] # k
  BY <1>10 DEF With
<1>13. Updated(UpdateEnd(p, k, v, pk), D, k, v)
  BY <1>8, <1>11, <1>12, UpdateEndIs
<1>14. IsEmpty(UpdateEnd(p, k, v, pk))
  BY <1>10, <1>13 DEF Updated, IsEmpty
<1>15. IsMap(E)
  <2>1. E \subseteq C
    OBVIOUS
  <2>2. IsFiniteSet(E)
    BY <2>1, <1>1, FS_Subset DEF IsMap
  <2> QED
    BY <2>1, <2>2, <1>1 DEF IsMap
<1>16. Cut(E, n.key, 0) = {} /\ <<n.key, n.val>> \in E
  BY <1>3 DEF Cut, D, Parts
<1>17. \A i \in 1..(Depth - 1) : Cut(E, n.key, i) = Cut(C, n.key, i)
  <2> TAKE i \in 1..(Depth - 1)
  <2>1. \A e \in C : Parts(n.key, e[1], i) => e \notin D
    <3> SUFFICES ASSUME NEW e \in C, Parts(n.key, e[1], i), Parts(n.key, e[1], 0) PROVE FALSE
      BY DEF D, Cut
    <3>1. n.key[0] # e[1][0] /\ 0 \in 0..(i - 1)
      BY DEF Parts
    <3> QED
      BY <3>1 DEF Parts, Same
  <2> QED
    BY <2>1 DEF Cut
<1> DEFINE q == UpdateEnd(p, k, v, pk)
<1> HIDE DEF E, q
<1>18. Whole(WithOtherHalf(n, q), E)
  BY <1>1, <1>14, <1>15, <1>16, <1>17, OtherHalfWhole DEF q
<1> QED
  BY <1>6, <1>18 DEF E, D, q

\* A blind deletion of k drops the entries behind the forks of its node.
Blinded(n, k, C) ==
  {e \in C : ~((InOtherHalf(n, k) => e[1][0] = k[0]) /\ Same(k, e[1], Descent(Half(n, k), k).from))}

LEMMA BlindInner ==
  ASSUME NEW C, NEW n, Holds(n, C), NEW k \in Key, NEW pk, \E e \in C : e[1] = k,
         LET m == LastOf(n, k) IN ~IsEmpty(m) /\ m.key \in pk
  PROVE  LET r == UpdateInner(n, k, NoValue, pk)
             E == Blinded(n, k, C)
         IN  (r = Empty /\ E = {}) \/ Whole(r, E)
<1> DEFINE p == Descent(Half(n, k), k)
           E == Blinded(n, k, C)
<1> USE Params
<1>1. IsMap(C) /\ Whole(n, C) /\ ~IsEmpty(n)
  BY DEF Holds, Whole, Shows
<1>2. LastOf(n, k) = Fork(p.node.forks, LastFork(p.node, p.from))
  BY DEF LastOf
<1>3. CASE ~InOtherHalf(n, k)
  <2>1. Half(n, k) = n
    BY <1>3 DEF Half
  <2>2. Bound(p, n, k, C) /\ Stuck(p, k)
    BY <2>1, <1>1, <1>3, DescentIs
  <2>3. UpdateInner(n, k, NoValue, pk) = UpdateEnd(p, k, NoValue, pk)
    BY <1>1, <1>3 DEF UpdateInner
  <2>4. E = Others(C, k, p.from)
    BY <1>3 DEF Blinded, Others
  <2> HIDE DEF p, E
  <2>5. LET r == UpdateEnd(p, k, NoValue, pk)
            D == Others(C, k, p.from)
        IN  (r = Empty /\ D = {}) \/ Whole(r, D)
    BY <1>1, <1>2, <2>2, BlindEnd
  <2> QED
    BY <2>3, <2>4, <2>5 DEF E
<1>4. CASE InOtherHalf(n, k)
  <2> DEFINE h == Fork(n.forks, 0)
             D == Cut(C, n.key, 0)
             F == Others(D, k, p.from)
             q == UpdateEnd(p, k, NoValue, pk)
  <2>1. Half(n, k) = h /\ PO(n.key, k, 0, Depth) = 0 /\ ~IsEmpty(h)
    BY <1>4 DEF Half, InOtherHalf
  <2>2. <<n.key, n.val>> \in C /\ n.key \in Key /\ C \subseteq Entry
    <3>1. <<n.key, n.val>> \in C
      BY <1>1, WholeStands DEF Stands
    <3> QED
      BY <3>1, <1>1 DEF IsMap, Entry
  <2>3. Parts(n.key, k, 0)
    BY <2>1, <2>2, PartsPO
  <2>4. 0 \in DOMAIN n.forks /\ h = n.forks[0].node
    BY <2>1, ForkThere
  <2>5. UpdateInner(n, k, NoValue, pk) = WithOtherHalf(n, q)
    BY <1>1, <1>4 DEF UpdateInner
  <2>6. p = Descent(h, k)
    BY <2>1
  <2> HIDE DEF h, p, q, E
  <2>7. Whole(h, D) /\ 0 \notin DOMAIN h.forks
    BY <1>1, <2>4, HalfWhole
  <2>8. IsMap(D) /\ D \subseteq C
    BY <1>1, CutMap
  <2>9. ~InOtherHalf(h, k)
    BY <2>7 DEF InOtherHalf, Fork, IsEmpty
  <2>10. \E e \in D : e[1] = k
    BY <2>3 DEF Cut
  <2> HIDE DEF D
  <2>11. Bound(p, h, k, D) /\ Stuck(p, k)
    BY <2>6, <2>7, <2>8, <2>9, DescentIs
  <2>12. (q = Empty /\ F = {}) \/ Whole(q, F)
    BY <1>2, <2>8, <2>10, <2>11, BlindEnd DEF q
  \* the keys in the other half are those that begin as k does
  <2>13. \A e \in C : Parts(n.key, e[1], 0) <=> e[1][0] = k[0]
    <3> TAKE e \in C
    <3>1. e[1] \in Key
      BY <2>2 DEF Entry
    <3>2. n.key[0] \in {0, 1} /\ e[1][0] \in {0, 1} /\ k[0] \in {0, 1} /\ n.key[0] # k[0]
      BY <3>1, <2>2, <2>3 DEF Key, Parts
    <3> QED
      BY <3>2 DEF Parts, Same
  <2>14. Cut(E, n.key, 0) = F
    BY <1>4, <2>13 DEF E, Blinded, Cut, Others, D, p
  <2>15. <<n.key, n.val>> \in E
    <3>1. ~Parts(n.key, n.key, 0)
      BY DEF Parts
    <3>2. <<n.key, n.val>>[1][0] # k[0]
      BY <2>2, <2>13, <3>1
    <3> QED
      BY <1>4, <2>2, <3>2 DEF E, Blinded
  <2>16. \A i \in 1..(Depth - 1) : Cut(E, n.key, i) = Cut(C, n.key, i)
    <3> TAKE i \in 1..(Depth - 1)
    <3>1. \A e \in C : Parts(n.key, e[1], i) => e[1][0] # k[0]
      <4> SUFFICES ASSUME NEW e \in C, Parts(n.key, e[1], i) PROVE ~Parts(n.key, e[1], 0)
        BY <2>13
      <4>1. 0 \in 0..(i - 1)
        OBVIOUS
      <4> QED
        BY <4>1 DEF Parts, Same
    <3> QED
      BY <1>4, <3>1 DEF E, Blinded, Cut
  <2>17. IsMap(E)
    <3>1. E \subseteq C
      BY DEF E, Blinded
    <3>2. IsFiniteSet(E)
      BY <3>1, <1>1, FS_Subset DEF IsMap
    <3> QED
      BY <3>1, <3>2, <1>1 DEF IsMap
  <2> HIDE DEF F
  <2>18. (IsEmpty(q) /\ F = {}) \/ Whole(q, F)
    BY <2>12 DEF IsEmpty
  <2>19. Whole(WithOtherHalf(n, q), E)
    BY <1>1, <2>14, <2>15, <2>16, <2>17, <2>18, OtherHalfWhole
  <2> QED
    BY <2>5, <2>19 DEF E
<1> QED
  BY <1>3, <1>4

-----------------------------------------------------------------------------
(* The way of find().                                                      *)

LEMMA WayIs ==
  ASSUME NEW n, NEW k
  PROVE  /\ Way(n, k)[0] = [node |-> n, from |-> 0]
         /\ \A d \in 1..Depth : Way(n, k)[d] = FindNext(Way(n, k)[d - 1], k)
<1> USE Params
<1> DEFINE R(d, y) == IF d = 0 THEN [node |-> n, from |-> 0] ELSE FindNext(y, k)
<1>1. PICK g : Steps(g, "find", [node |-> n, from |-> 0], k, {}, Depth)
  BY StepsExist
<1>2. \A d \in 0..Depth : g[d] = R(d, g[d - 1])
  <2> TAKE d \in 0..Depth
  <2>1. d = 0 \/ (d # 0 /\ d \in 1..Depth)
    OBVIOUS
  <2> QED
    BY <1>1, <2>1 DEF Steps, Onward
<1> HIDE DEF R
<1>3. g = [d \in 0..Depth |-> R(d, g[d - 1])]
  BY <1>1, <1>2 DEF Steps
<1>4. \E f : f = [d \in 0..Depth |-> R(d, f[d - 1])]
  BY <1>3, Zenon
<1> DEFINE f == Way(n, k)
<1>5. f = [d \in 0..Depth |-> R(d, f[d - 1])]
  BY <1>4, Zenon DEF Way, R
<1> HIDE DEF f
<1>6. \A d \in 0..Depth : f[d] = R(d, f[d - 1])
  BY <1>5
<1>7. /\ f[0] = [node |-> n, from |-> 0]
      /\ \A d \in 1..Depth : f[d] = FindNext(f[d - 1], k)
  BY <1>6 DEF R
<1> QED
  BY <1>7 DEF f

\* x shows all entries with keys that agree with k before f.
Sees(x, f, k, C) == x.from \in 0..f /\ Shows(x.node, f, Rest(C, k, f))

\* After d steps: k is not there, or x is its node, or x is at d or beyond.
Seeks(x, d, k, C) ==
  \/ IsEmpty(x.node) /\ \A e \in C : e[1] # k
  \/ \E f \in 0..Depth : Sees(x, f, k, C) /\ (x.node.key = k \/ f >= d)

LEMMA SeenIs ==
  ASSUME NEW C, IsMap(C), NEW x, NEW k \in Key, NEW f \in 0..Depth, Sees(x, f, k, C)
  PROVE  /\ ~IsEmpty(x.node) /\ Same(k, x.node.key, f) /\ <<x.node.key, x.node.val>> \in C /\ x.node.key \in Key
         /\ DOMAIN x.node.forks \subseteq 0..(Depth - 1)
         /\ \A i \in f..(Depth - 1) : Right(x.node.forks, i, Cut(Rest(C, k, f), x.node.key, i))
<1>1. Local(x.node, f, Rest(C, k, f))
  BY ShowsLocal DEF Sees
<1>2. <<x.node.key, x.node.val>> \in C /\ Same(k, x.node.key, f)
  BY <1>1 DEF Local, Rest
<1> QED
  BY <1>1, <1>2 DEF Local, Right, IsMap, Entry

\* The fork at which x leaves the way to k.
LEMMA SeenNext ==
  ASSUME NEW C, IsMap(C), NEW k \in Key, NEW x, NEW f \in 0..Depth, Sees(x, f, k, C),
         NEW po, po = PO(x.node.key, k, x.from, Depth)
  PROVE  /\ po \in f..Depth /\ Same(k, x.node.key, po)
         /\ po = Depth => x.node.key = k
         /\ po < Depth =>
              /\ Parts(k, x.node.key, po)
              /\ po \in DOMAIN x.node.forks => Shows(Fork(x.node.forks, po), po + 1, Rest(C, k, po + 1))
              /\ po \notin DOMAIN x.node.forks =>
                   IsEmpty(Fork(x.node.forks, po)) /\ Rest(C, k, po + 1) = {}
<1> DEFINE n == x.node
           from == x.from
           m == Fork(n.forks, po)
           D == Rest(C, k, po + 1)
<1> USE Params
<1>1. /\ Same(k, n.key, f) /\ n.key \in Key
      /\ \A i \in f..(Depth - 1) : Right(n.forks, i, Cut(Rest(C, k, f), n.key, i))
  BY SeenIs
<1>2. from \in 0..f /\ from \in 0..Depth
  BY DEF Sees
<1>3. po = PO(n.key, k, from, Depth)
  OBVIOUS
<1> HIDE DEF n, from
<1>4. Same(n.key, k, f) /\ Same(n.key, k, from)
  BY <1>1, <1>2, SameSym, SameTrans
<1>5. po \in from..Depth /\ Same(n.key, k, po) /\ (po < Depth => Parts(n.key, k, po))
  BY <1>2, <1>3, <1>4, POParts
<1>6. CASE po = Depth
  <2>1. n.key = k
    BY <1>1, <1>5, <1>6, SameAll
  <2> QED
    BY <2>1, <1>5, <1>6, SameSym DEF n
<1>7. CASE po # Depth
  <2>1. po \in 0..(Depth - 1) /\ po \in Nat /\ Parts(n.key, k, po) /\ Parts(k, n.key, po)
    BY <1>2, <1>5, <1>7, SameSym
  <2>2. f <= po /\ f \in Nat /\ po \in f..(Depth - 1)
    BY <2>1, <1>4, PartsOnce
  <2>3. Cut(Rest(C, k, f), n.key, po) = D
    <3>1. \A e \in C : Parts(n.key, e[1], po) => Same(k, e[1], f)
      <4> SUFFICES ASSUME NEW e \in C, Parts(n.key, e[1], po) PROVE Same(k, e[1], f)
        OBVIOUS
      <4>1. Same(n.key, e[1], po)
        BY DEF Parts
      <4>2. Same(n.key, e[1], f)
        BY <4>1, <2>1, <2>2, SameTrans
      <4> QED
        BY <4>2, <1>1, <2>2, SameTrans
    <3>2. Cut(Rest(C, k, f), n.key, po) = Cut(C, n.key, po)
      BY <3>1 DEF Cut, Rest
    <3>3. C \subseteq Entry
      BY DEF IsMap
    <3>4. Cut(C, n.key, po) = D
      BY <3>3, <1>1, <2>1, CutMoves DEF Moved
    <3> QED
      BY <3>2, <3>4
  <2>4. Right(n.forks, po, D)
    BY <1>1, <2>2, <2>3
  <2>5. po \in DOMAIN n.forks => Shows(m, po + 1, D)
    BY <2>4 DEF Right, Fork
  <2>6. po \notin DOMAIN n.forks => IsEmpty(m) /\ D = {}
    BY <2>4 DEF Right, Fork, IsEmpty
  <2>7. po \in f..Depth /\ Same(k, n.key, po)
    BY <2>1, <2>2 DEF Parts
  <2> HIDE DEF m, D
  <2>8. /\ po \in f..Depth /\ Same(k, n.key, po) /\ Parts(k, n.key, po)
        /\ po \in DOMAIN n.forks => Shows(m, po + 1, D)
        /\ po \notin DOMAIN n.forks => IsEmpty(m) /\ D = {}
    BY <2>1, <2>5, <2>6, <2>7
  <2> QED
    BY <2>8, <1>7 DEF n, m, D
<1> QED
  BY <1>6, <1>7

LEMMA FindNextSeeks ==
  ASSUME NEW C, IsMap(C), NEW k \in Key, NEW d \in 0..(Depth - 1), NEW x, ~IsEmpty(x.node), Seeks(x, d, k, C)
  PROVE  Seeks(FindNext(x, k), d + 1, k, C)
<1> DEFINE n == x.node
           po == PO(n.key, k, x.from, Depth)
           y == [node |-> Fork(n.forks, po), from |-> po]
           D == Rest(C, k, po + 1)
<1> USE Params
<1>1. PICK f \in 0..Depth : Sees(x, f, k, C) /\ (n.key = k \/ f >= d)
  BY DEF Seeks
<1>2. /\ po \in f..Depth
      /\ po = Depth => n.key = k
      /\ po < Depth =>
           /\ Parts(k, n.key, po)
           /\ po \in DOMAIN n.forks => Shows(y.node, po + 1, D)
           /\ po \notin DOMAIN n.forks => IsEmpty(y.node) /\ D = {}
  BY <1>1, SeenNext
<1>3. FindNext(x, k) = IF po = Depth THEN x ELSE y
  BY DEF FindNext
<1>4. y.from = po
  OBVIOUS
<1> HIDE DEF n, po, y, D
<1>5. CASE po = Depth
  BY <1>1, <1>2, <1>3, <1>5 DEF Seeks, n
<1>6. CASE po # Depth
  <2>1. po + 1 \in 0..Depth /\ po \in 0..(po + 1) /\ po < Depth
    BY <1>2, <1>6
  <2>2. CASE po \in DOMAIN n.forks
    <3>1. Sees(y, po + 1, k, C)
      BY <1>2, <1>4, <2>1, <2>2 DEF Sees, D
    <3>2. po + 1 >= d + 1
      BY <1>1, <1>2, <2>1 DEF Parts
    <3> QED
      BY <1>3, <1>6, <2>1, <3>1, <3>2 DEF Seeks
  <2>3. CASE po \notin DOMAIN n.forks
    <3>1. \A e \in C : e[1] # k
      BY <1>2, <2>1, <2>3 DEF D, Rest, Same
    <3> QED
      BY <1>2, <1>3, <1>6, <2>1, <2>3, <3>1 DEF Seeks
  <2> QED
    BY <2>2, <2>3
<1> QED
  BY <1>5, <1>6

\* find() ends at an empty node or at that of k.
LEMMA FindIs ==
  ASSUME NEW C, NEW n, Holds(n, C), NEW k \in Key
  PROVE  LET end == Way(n, k)[Depth].node
         IN  \/ IsEmpty(end) /\ \A e \in C : e[1] # k
             \/ ~IsEmpty(end) /\ end.key = k /\ <<k, end.val>> \in C
<1> DEFINE at(d) == Way(n, k)[d]
           S == {d \in Nat : d <= Depth => Seeks(at(d), d, k, C)}
<1> USE Params
<1>1. IsMap(C)
  BY DEF Holds
<1>2. 0 \in S
  <2> DEFINE x == [node |-> n, from |-> 0]
  <2>1. at(0) = x
    BY WayIs
  <2>2. x.node = n /\ x.from = 0
    OBVIOUS
  <2> HIDE DEF x
  <2>3. CASE n = Empty
    <3>1. IsEmpty(x.node)
      BY <2>2, <2>3 DEF IsEmpty
    <3>2. C = {}
      BY <2>3 DEF Holds, Whole, Shows, IsEmpty
    <3>3. \A e \in C : e[1] # k
      BY <3>2
    <3>4. Seeks(x, 0, k, C)
      BY <3>1, <3>3 DEF Seeks
    <3> QED
      BY <2>1, <3>4
  <2>4. CASE n # Empty
    <3>1. Rest(C, k, 0) = C
      BY DEF Rest, Same
    <3>2. Sees(x, 0, k, C)
      BY <2>2, <2>4, <3>1 DEF Sees, Holds, Whole
    <3> QED
      BY <2>1, <3>2 DEF Seeks
  <2> QED
    BY <2>3, <2>4
<1>3. ASSUME NEW d \in Nat, d \in S PROVE d + 1 \in S
  <2> SUFFICES ASSUME d + 1 <= Depth PROVE Seeks(at(d + 1), d + 1, k, C)
    OBVIOUS
  <2> DEFINE x == at(d)
  <2>1. Seeks(x, d, k, C)
    BY <1>3
  <2>2. d + 1 \in 1..Depth /\ d + 1 - 1 = d /\ d \in 0..(Depth - 1)
    OBVIOUS
  <2>3. at(d + 1) = FindNext(x, k)
    <3> DEFINE j == d + 1
    <3>1. j \in 1..Depth /\ j - 1 = d
      BY <2>2
    <3> HIDE DEF j
    <3>2. Way(n, k)[j] = FindNext(Way(n, k)[j - 1], k)
      BY <3>1, WayIs, Zenon
    <3>3. at(j) = FindNext(x, k)
      BY <3>1, <3>2, Zenon
    <3> QED
      BY <3>3 DEF j
  <2> HIDE DEF x
  <2>4. CASE IsEmpty(x.node)
    <3>1. \A f \in 0..Depth : ~Sees(x, f, k, C)
      BY <2>4 DEF Sees, Shows
    <3>2. FindNext(x, k) = x
      BY <2>4 DEF FindNext
    <3> QED
      BY <2>1, <2>3, <2>4, <3>1, <3>2 DEF Seeks
  <2>5. CASE ~IsEmpty(x.node)
    BY <2>1, <2>2, <2>3, <2>5, <1>1, FindNextSeeks
  <2> QED
    BY <2>4, <2>5
<1> HIDE DEF S
<1>4. Depth \in S
  BY <1>2, <1>3, AllNats
<1> DEFINE x == at(Depth)
<1>5. Seeks(x, Depth, k, C)
  BY <1>4 DEF S
<1> HIDE DEF x
<1>6. CASE IsEmpty(x.node) /\ \A e \in C : e[1] # k
  BY <1>6 DEF x
<1>7. CASE \E f \in 0..Depth : Sees(x, f, k, C) /\ (x.node.key = k \/ f >= Depth)
  <2>1. PICK f \in 0..Depth : Sees(x, f, k, C) /\ (x.node.key = k \/ f >= Depth)
    BY <1>7
  <2>2. /\ ~IsEmpty(x.node) /\ Same(k, x.node.key, f)
        /\ <<x.node.key, x.node.val>> \in C /\ x.node.key \in Key
    BY <2>1, <1>1, SeenIs
  <2>3. x.node.key = k
    <3>1. f >= Depth => f = Depth
      OBVIOUS
    <3> QED
      BY <2>1, <2>2, <3>1, SameAll
  <2> QED
    BY <2>2, <2>3 DEF x
<1> QED
  BY <1>5, <1>6, <1>7 DEF Seeks

-----------------------------------------------------------------------------
(* Walks over the entries: iterate().                                      *)

IsSeq(s) == \E S : s \in Seq(S)

LEMMA SeqOne == IsSeq(<<>>) /\ \A x : IsSeq(<<x>>)
<1>1. <<>> \in Seq({}) /\ \A x : <<x>> \in Seq({x})
  OBVIOUS
<1> QED
  BY <1>1 DEF IsSeq

LEMMA SeqJoin ==
  ASSUME NEW s, NEW t, IsSeq(s), IsSeq(t)
  PROVE  /\ IsSeq(s \o t) /\ <<>> \o s = s
         /\ \A u : IsSeq(u) => (s \o t) \o u = s \o (t \o u)
<1>1. PICK S : s \in Seq(S)
  BY DEF IsSeq
<1>2. PICK T : t \in Seq(T)
  BY DEF IsSeq
<1>3. ASSUME NEW u, IsSeq(u) PROVE (s \o t) \o u = s \o (t \o u)
  <2>1. PICK U : u \in Seq(U)
    BY <1>3 DEF IsSeq
  <2> DEFINE V == S \cup T \cup U
  <2>2. s \in Seq(V) /\ t \in Seq(V) /\ u \in Seq(V)
    BY <1>1, <1>2, <2>1, SeqMonotonic
  <2> HIDE DEF V
  <2> QED
    BY <2>2, ConcatAssociative
<1>4. s \in Seq(S \cup T) /\ t \in Seq(S \cup T)
  BY <1>1, <1>2, SeqMonotonic
<1>5. s \o t \in Seq(S \cup T) /\ <<>> \o s = s
  BY <1>4, ConcatProperties, ConcatEmptySeq
<1> QED
  BY <1>3, <1>5 DEF IsSeq

LEMMA SeqFirst ==
  ASSUME NEW x, NEW s, IsSeq(s)
  PROVE  LET t == <<x>> \o s IN IsSeq(t) /\ t # <<>> /\ Head(t) = x /\ Tail(t) = s
<1> DEFINE t == <<x>> \o s
<1>1. PICK S : s \in Seq(S)
  BY DEF IsSeq
<1> DEFINE T == S \cup {x}
<1>2. s \in Seq(T) /\ <<x>> \in Seq(T) /\ Len(<<x>>) = 1 /\ <<x>>[1] = x
  BY <1>1, SeqMonotonic
<1> HIDE DEF T
<1>3. /\ t \in Seq(T) /\ Len(t) = 1 + Len(s) /\ Len(s) \in Nat
      /\ \A i \in 1..(1 + Len(s)) : t[i] = IF i <= 1 THEN <<x>>[i] ELSE s[i - 1]
  BY <1>2, ConcatProperties, LenProperties
<1> HIDE DEF t
<1>4. t # <<>> /\ t[1] = x
  BY <1>2, <1>3
<1>5. Head(t) = x
  BY <1>3, <1>4
<1>6. Tail(t) \in Seq(T) /\ Len(Tail(t)) = Len(s) /\ \A i \in 1..Len(s) : Tail(t)[i] = t[i + 1]
  BY <1>3, <1>4, HeadTailProperties
<1>7. \A i \in 1..Len(s) : t[i + 1] = s[i]
  <2> TAKE i \in 1..Len(s)
  <2>1. i + 1 \in 1..(1 + Len(s)) /\ ~ (i + 1 <= 1) /\ i + 1 - 1 = i
    BY <1>3
  <2> QED
    BY <2>1, <1>3
<1>8. Tail(t) = s
  BY <1>2, <1>6, <1>7, SeqEqual
<1> QED
  BY <1>3, <1>4, <1>5, <1>8 DEF t, IsSeq

\* How close a key is to the pivot.
Near(k, pivot) == PO(k, pivot, 0, Depth)

\* The entry a may come before the entry b.
Before(a, b, pivot) == a[1] # b[1] /\ Near(a[1], pivot) >= Near(b[1], pivot)

\* w are the keys of D, each once, the closest to the pivot first.
Ordered(w, D, pivot) ==
  /\ w \in Seq(Key)
  /\ \A i \in 1..Len(w) : \E e \in D : e[1] = w[i]
  /\ \A e \in D : \E i \in 1..Len(w) : w[i] = e[1]
  /\ \A i, j \in 1..Len(w) : i < j => w[i] # w[j] /\ Near(w[i], pivot) >= Near(w[j], pivot)

LEMMA OrderedOne ==
  ASSUME NEW D, NEW pivot, NEW e, D = {e}, e[1] \in Key
  PROVE  Ordered(<<e[1]>>, D, pivot)
<1> DEFINE w == <<e[1]>>
<1>1. w \in Seq(Key) /\ Len(w) = 1 /\ w[1] = e[1]
  OBVIOUS
<1> HIDE DEF w
<1>2. Ordered(w, D, pivot)
  BY <1>1 DEF Ordered
<1> QED
  BY <1>2 DEF w

LEMMA OrderedNone ==
  ASSUME NEW pivot
  PROVE  Ordered(<<>>, {}, pivot)
<1>1. <<>> \in Seq(Key) /\ Len(<<>>) = 0
  OBVIOUS
<1> QED
  BY <1>1 DEF Ordered

LEMMA OrderedJoin ==
  ASSUME NEW u, NEW v, NEW A, NEW B, NEW pivot, Ordered(u, A, pivot), Ordered(v, B, pivot),
         \A a \in A, b \in B : Before(a, b, pivot)
  PROVE  Ordered(u \o v, A \cup B, pivot)
<1> DEFINE w == u \o v
           m == Len(u)
           n == Len(v)
<1>1. /\ u \in Seq(Key) /\ v \in Seq(Key) /\ m \in Nat /\ n \in Nat
      /\ \A i \in 1..m : \E e \in A : e[1] = u[i]
      /\ \A i \in 1..n : \E e \in B : e[1] = v[i]
      /\ \A e \in A : \E i \in 1..m : u[i] = e[1]
      /\ \A e \in B : \E i \in 1..n : v[i] = e[1]
      /\ \A i, j \in 1..m : i < j => u[i] # u[j] /\ Near(u[i], pivot) >= Near(u[j], pivot)
      /\ \A i, j \in 1..n : i < j => v[i] # v[j] /\ Near(v[i], pivot) >= Near(v[j], pivot)
  BY LenProperties DEF Ordered
<1>2. /\ w \in Seq(Key) /\ Len(w) = m + n
      /\ \A i \in 1..(m + n) : w[i] = IF i <= m THEN u[i] ELSE v[i - m]
  BY <1>1, ConcatProperties
<1> HIDE DEF w, m, n
<1>2a. \A i \in 1..(m + n) : w[i] = IF i <= m THEN u[i] ELSE v[i - m]
  BY <1>2
<1>3. \A i \in 1..m : i \in 1..(m + n) /\ w[i] = u[i]
  BY <1>1, <1>2a
<1>4. \A i \in 1..n : m + i \in 1..(m + n) /\ w[m + i] = v[i]
  <2> TAKE i \in 1..n
  <2> DEFINE k == m + i
  <2>1. k \in 1..(m + n) /\ ~ (k <= m) /\ k - m = i
    BY <1>1
  <2> HIDE DEF k
  <2>2. w[k] = IF k <= m THEN u[k] ELSE v[k - m]
    BY <2>1, <1>2a, Zenon
  <2>3. w[k] = v[i]
    BY <2>1, <2>2, Zenon
  <2> QED
    BY <2>1, <2>3 DEF k
<1>5. \A i \in 1..(m + n) : i \in 1..m \/ (i - m \in 1..n /\ m + (i - m) = i)
  BY <1>1
<1>6. \A i \in 1..(m + n) : \E e \in A \cup B : e[1] = w[i]
  <2> TAKE i \in 1..(m + n)
  <2>1. CASE i \in 1..m
    BY <2>1, <1>1, <1>3
  <2>2. CASE i - m \in 1..n /\ m + (i - m) = i
    <3>1. w[i] = v[i - m]
      BY <2>2, <1>4
    <3> QED
      BY <3>1, <2>2, <1>1
  <2> QED
    BY <2>1, <2>2, <1>5
<1>7. \A e \in A \cup B : \E i \in 1..(m + n) : w[i] = e[1]
  BY <1>1, <1>3, <1>4
<1>8. ASSUME NEW i \in 1..(m + n), NEW j \in 1..(m + n), i < j
      PROVE  w[i] # w[j] /\ Near(w[i], pivot) >= Near(w[j], pivot)
  <2>1. CASE i \in 1..m /\ j \in 1..m
    BY <2>1, <1>1, <1>3, <1>8
  <2>2. CASE i \in 1..m /\ j - m \in 1..n /\ m + (j - m) = j
    <3>1. w[i] = u[i] /\ w[j] = v[j - m]
      BY <2>2, <1>3, <1>4
    <3>2. PICK a \in A : a[1] = w[i]
      BY <3>1, <2>2, <1>1
    <3>3. PICK b \in B : b[1] = w[j]
      BY <3>1, <2>2, <1>1
    <3> QED
      BY <3>2, <3>3 DEF Before
  <2>3. CASE i - m \in 1..n /\ m + (i - m) = i /\ j - m \in 1..n /\ m + (j - m) = j
    <3>1. w[i] = v[i - m] /\ w[j] = v[j - m] /\ i - m < j - m
      BY <2>3, <1>4, <1>1, <1>8
    <3> QED
      BY <3>1, <2>3, <1>1
  <2>4. ~ (j \in 1..m /\ i \notin 1..m)
    BY <1>1, <1>8
  <2> QED
    BY <2>1, <2>2, <2>3, <2>4, <1>5
<1> QED
  BY <1>2, <1>6, <1>7, <1>8 DEF Ordered, w

\* How close keys are to the pivot.
LEMMA NearIs ==
  ASSUME NEW a, NEW b, NEW i \in 0..Depth
  PROVE  /\ Near(a, b) \in 0..Depth
         /\ Same(a, b, i) => Near(a, b) >= i
         /\ i < Depth /\ Parts(a, b, i) => Near(a, b) = i
<1> DEFINE p == PO(a, b, 0, Depth)
<1> USE Params
<1>1. p \in 0..Depth /\ (p < Depth => Parts(a, b, p))
  <2>1. Same(a, b, 0)
    BY DEF Same
  <2> QED
    BY <2>1, POParts
<1>2. Near(a, b) = p
  BY DEF Near
<1>3. i < Depth /\ Parts(a, b, i) => p = i
  BY PartsPO
<1> HIDE DEF p
<1>4. ASSUME Same(a, b, i), p < i PROVE FALSE
  <2>1. p \in 0..(i - 1) /\ p < Depth
    BY <1>1, <1>4
  <2> QED
    BY <2>1, <1>1, <1>4 DEF Same, Parts
<1> QED
  BY <1>1, <1>2, <1>3, <1>4

\* Where the pivot parts from the key k of a node.
LEMMA PivotIs ==
  ASSUME NEW k \in Key, NEW pivot \in Key, NEW at \in 0..(Depth - 1)
  PROVE  LET po == PO(k, pivot, at + 1, Depth)
         IN  /\ po \in (at + 1)..Depth
             /\ \/ Same(k, pivot, po) /\ (po < Depth => Parts(k, pivot, po))
                \/ \E i \in 0..at : \A a : Same(k, a, at + 1) => Near(a, pivot) = i
<1> DEFINE po == PO(k, pivot, at + 1, Depth)
<1> USE Params
<1>1. at + 1 \in 0..Depth
  OBVIOUS
<1>2. po \in (at + 1)..Depth
  BY <1>1, POIs
<1>3. Same(k, pivot, at + 1) => Same(k, pivot, po) /\ (po < Depth => Parts(k, pivot, po))
  BY <1>1, POParts
<1> HIDE DEF po
<1>4. ASSUME ~Same(k, pivot, at + 1)
      PROVE  \E i \in 0..at : \A a : Same(k, a, at + 1) => Near(a, pivot) = i
  <2>1. Same(k, pivot, 0) /\ k # pivot
    BY <1>4 DEF Same
  <2>2. PICK i \in 0..(Depth - 1) : Parts(k, pivot, i)
    BY <2>1, PartsOrSame
  <2>3. i <= at
    <3>1. ASSUME ~ (i <= at) PROVE FALSE
      <4>1. at + 1 \in Nat /\ i \in Nat /\ at + 1 <= i /\ Same(k, pivot, i)
        BY <2>2, <3>1 DEF Parts
      <4>2. Same(k, pivot, at + 1)
        BY <4>1, SameTrans
      <4> QED
        BY <4>2, <1>4
    <3> QED
      BY <3>1
  <2>4. ASSUME NEW a, Same(k, a, at + 1) PROVE Near(a, pivot) = i
    <3>1. i + 1 \in Nat /\ at + 1 \in Nat /\ i + 1 <= at + 1
      BY <2>3
    <3>2. Same(k, a, i + 1)
      BY <3>1, <2>4, SameTrans
    <3>3. Parts(pivot, k, i)
      BY <2>2, SameSym
    <3>4. Parts(pivot, a, i)
      BY <3>2, <3>3, PartsTrans
    <3>5. Parts(a, pivot, i) /\ i \in 0..Depth /\ i < Depth
      BY <3>4, SameSym
    <3> QED
      BY <3>5, NearIs
  <2> QED
    BY <2>3, <2>4
<1> QED
  BY <1>2, <1>3, <1>4 DEF po

\* Of two keys the one that stays longer with a node is closer, as long as the
\* pivot stays with it.
LEMMA StayCloser ==
  ASSUME NEW k \in Key, NEW pivot \in Key, NEW at \in 0..(Depth - 1), NEW a, NEW b,
         Same(k, a, at + 1), Same(k, b, at + 1),
         NEW j \in (at + 1)..(PO(k, pivot, at + 1, Depth) - 1), Parts(k, b, j), Same(k, a, j + 1)
  PROVE  a # b /\ Near(a, pivot) >= Near(b, pivot)
<1> DEFINE po == PO(k, pivot, at + 1, Depth)
<1> USE Params
<1>1. /\ po \in (at + 1)..Depth
      /\ \/ Same(k, pivot, po)
         \/ \E i \in 0..at : \A c : Same(k, c, at + 1) => Near(c, pivot) = i
  BY PivotIs
<1>2. j \in (at + 1)..(po - 1)
  OBVIOUS
<1> HIDE DEF po
<1>3. j \in 0..(Depth - 1) /\ j \in Nat /\ j + 1 \in 0..Depth /\ j + 1 <= po /\ po \in Nat /\ j + 1 \in Nat
  BY <1>1, <1>2
<1>4. Parts(b, k, j)
  BY SameSym
<1>5. Parts(b, a, j)
  BY <1>3, <1>4, PartsTrans
<1>6. a # b
  BY <1>5 DEF Parts
<1>7. CASE Same(k, pivot, po)
  <2>1. Same(k, pivot, j + 1)
    BY <1>3, <1>7, SameTrans
  <2>2. Parts(b, pivot, j)
    BY <2>1, <1>3, <1>4, PartsTrans
  <2>3. Near(b, pivot) = j
    BY <2>2, <1>3, NearIs
  <2>4. Same(a, pivot, j + 1)
    BY <2>1 DEF Same
  <2>5. Near(a, pivot) >= j + 1 /\ Near(a, pivot) \in 0..Depth
    BY <2>4, <1>3, NearIs
  <2> QED
    BY <2>3, <2>5, <1>3, <1>6
<1>8. CASE \E i \in 0..at : \A c : Same(k, c, at + 1) => Near(c, pivot) = i
  <2>1. PICK i \in 0..at : \A c : Same(k, c, at + 1) => Near(c, pivot) = i
    BY <1>8
  <2>2. Near(a, pivot) = i /\ Near(b, pivot) = i /\ i \in Nat
    BY <2>1
  <2> QED
    BY <2>2, <1>6
<1> QED
  BY <1>1, <1>7, <1>8

\* A key that leaves the node where the pivot does is closer than those that stay.
LEMMA LeaveCloser ==
  ASSUME NEW k \in Key, NEW pivot \in Key, NEW at \in 0..(Depth - 1), NEW a \in Key, NEW b,
         Same(k, a, at + 1), Same(k, b, at + 1),
         NEW po, po = PO(k, pivot, at + 1, Depth), po < Depth, Parts(k, a, po), Same(k, b, po + 1)
  PROVE  a # b /\ Near(a, pivot) >= Near(b, pivot)
<1> USE Params
<1>1. /\ po \in (at + 1)..Depth
      /\ \/ Parts(k, pivot, po)
         \/ \E i \in 0..at : \A c : Same(k, c, at + 1) => Near(c, pivot) = i
  BY PivotIs
<1>2. po \in 0..(Depth - 1) /\ po \in Nat /\ po + 1 \in 0..Depth /\ po \in 0..Depth
  BY <1>1
<1>3. Parts(a, b, po)
  <2>1. Parts(a, k, po)
    BY SameSym
  <2> QED
    BY <2>1, <1>2, PartsTrans
<1>4. a # b
  BY <1>3 DEF Parts
<1>5. CASE Parts(k, pivot, po)
  <2>1. Same(a, pivot, po + 1)
    BY <1>2, <1>5, SameBit
  <2>2. Near(a, pivot) >= po + 1 /\ Near(a, pivot) \in 0..Depth
    BY <2>1, <1>2, NearIs
  <2>3. Parts(pivot, b, po)
    <3>1. Parts(pivot, k, po)
      BY <1>5, SameSym
    <3> QED
      BY <3>1, <1>2, PartsTrans
  <2>4. Parts(b, pivot, po)
    BY <2>3, SameSym
  <2>5. Near(b, pivot) = po
    BY <2>4, <1>2, NearIs
  <2> QED
    BY <2>2, <2>5, <1>2, <1>4
<1>6. CASE \E i \in 0..at : \A c : Same(k, c, at + 1) => Near(c, pivot) = i
  <2>1. PICK i \in 0..at : \A c : Same(k, c, at + 1) => Near(c, pivot) = i
    BY <1>6
  <2>2. Near(a, pivot) = i /\ Near(b, pivot) = i /\ i \in Nat
    BY <2>1
  <2> QED
    BY <2>2, <1>4
<1> QED
  BY <1>1, <1>5, <1>6

\* What SliceCalls() computes, up to position N, as a relation.
SliceUpTo(g, n, from, N) ==
  g = [i \in from..N |-> IF i = from THEN <<>> ELSE ForkCalls(n, i - 1) \o g[i - 1]]

Slices(n, from, to) == CHOOSE g : SliceUpTo(g, n, from, to)

LEMMA SlicesExist ==
  ASSUME NEW n, NEW from \in Nat
  PROVE  \A d \in Nat : \E g : SliceUpTo(g, n, from, from + d)
<1> DEFINE S == {d \in Nat : \E g : SliceUpTo(g, n, from, from + d)}
<1>1. 0 \in S
  <2> DEFINE g == [i \in from..(from + 0) |-> <<>>]
  <2>1. SliceUpTo(g, n, from, from + 0)
    BY DEF SliceUpTo
  <2> QED
    BY <2>1
<1>2. ASSUME NEW d \in Nat, d \in S PROVE d + 1 \in S
  <2>1. PICK g : SliceUpTo(g, n, from, from + d)
    BY <1>2
  <2> DEFINE last == ForkCalls(n, from + d) \o g[from + d]
             h == [i \in from..(from + (d + 1)) |-> IF i = from + d + 1 THEN last ELSE g[i]]
             R(i, u) == IF i = from THEN <<>> ELSE ForkCalls(n, i - 1) \o u
  <2>2. \A i \in from..(from + d) : g[i] = R(i, g[i - 1])
    BY <2>1 DEF SliceUpTo
  <2>2a. last = ForkCalls(n, from + d) \o g[from + d]
    OBVIOUS
  <2> HIDE DEF last
  <2>3. \A i \in from..(from + (d + 1)) : h[i] = R(i, h[i - 1])
    <3> TAKE i \in from..(from + (d + 1))
    <3>1. CASE i = from + d + 1
      <4>1. h[i] = last /\ i - 1 = from + d /\ h[i - 1] = g[from + d] /\ i # from
        BY <3>1
      <4> HIDE DEF h
      <4>2. R(i, h[i - 1]) = ForkCalls(n, from + d) \o g[from + d]
        BY <4>1
      <4> QED
        BY <4>1, <4>2, <2>2a
    <3>2. CASE i = from
      <4>1. h[i] = g[i] /\ i \in from..(from + d)
        BY <3>2
      <4> HIDE DEF h
      <4> QED
        BY <2>2, <3>2, <4>1
    <3>3. CASE i \in (from + 1)..(from + d)
      <4>1. h[i] = g[i] /\ h[i - 1] = g[i - 1]
        BY <3>3
      <4>2. i \in from..(from + d)
        BY <3>3
      <4>3. g[i] = R(i, g[i - 1])
        BY <2>2, <4>2, Zenon
      <4> HIDE DEF h, R
      <4> QED
        BY <4>1, <4>3
    <3> QED
      BY <3>1, <3>2, <3>3
  <2>4. SliceUpTo(h, n, from, from + (d + 1))
    BY <2>3 DEF SliceUpTo
  <2> QED
    BY <2>4
<1> HIDE DEF S
<1>3. Nat \subseteq S
  BY <1>1, <1>2, AllNats
<1> QED
  BY <1>3 DEF S

\* g has one fork more at each position.
Stacks(g, n, from, to) == \A i \in from..(to - 1) : g[i + 1] = ForkCalls(n, i) \o g[i]

LEMMA SlicesAre ==
  ASSUME NEW n, NEW from \in Nat, NEW to \in Nat, from <= to
  PROVE  /\ SliceCalls(n, from, to) = Slices(n, from, to)[to]
         /\ Slices(n, from, to)[from] = <<>>
         /\ Stacks(Slices(n, from, to), n, from, to)
<1> DEFINE R(i, u) == IF i = from THEN <<>> ELSE ForkCalls(n, i - 1) \o u
           g == Slices(n, from, to)
<1>1. to - from \in Nat /\ from + (to - from) = to
  OBVIOUS
<1>2. \E f : SliceUpTo(f, n, from, from + (to - from))
  BY <1>1, SlicesExist
<1>3. SliceUpTo(g, n, from, to)
  BY <1>1, <1>2 DEF Slices
<1>4. \A i \in from..to : g[i] = R(i, g[i - 1])
  BY <1>3 DEF SliceUpTo
<1>5. SliceCalls(n, from, to) = g[to]
  BY Zenon DEF SliceCalls, Slices, SliceUpTo
<1> HIDE DEF g
<1>6. g[from] = <<>>
  BY <1>4
<1>7. \A i \in from..(to - 1) : g[i + 1] = ForkCalls(n, i) \o g[i]
  <2> TAKE i \in from..(to - 1)
  <2> DEFINE j == i + 1
  <2>1. j \in from..to /\ j - 1 = i /\ j # from
    OBVIOUS
  <2> HIDE DEF j
  <2>2. g[j] = R(j, g[j - 1])
    BY <2>1, <1>4, Zenon
  <2>3. g[j] = ForkCalls(n, i) \o g[i]
    BY <2>1, <2>2
  <2> QED
    BY <2>3 DEF j
<1> QED
  BY <1>5, <1>6, <1>7 DEF g, Stacks

-----------------------------------------------------------------------------
(* What calls emit, and within how many steps.                             *)

LEMMA Times ==
  ASSUME NEW a \in Nat, NEW b \in Nat, NEW K \in Nat
  PROVE  /\ a * K \in Nat
         /\ (a + b) * K = a * K + b * K
         /\ \A L \in Nat : K <= L => a * K <= a * L
         /\ a >= 1 => 1 + a * K <= a * (K + 1)
<1>1. a * K \in Nat /\ (a + b) * K = a * K + b * K
  OBVIOUS
<1>2. ASSUME NEW L \in Nat, K <= L PROVE a * K <= a * L
  <2> DEFINE M == L - K
  <2>1. M \in Nat /\ L = K + M
    BY <1>2
  <2> HIDE DEF M
  <2>2. a * L = a * K + a * M
    BY <2>1
  <2>3. a * M \in Nat
    BY <2>1
  <2> QED
    BY <1>1, <2>2, <2>3
<1>3. a * (K + 1) = a * K + a
  OBVIOUS
<1> QED
  BY <1>1, <1>2, <1>3

State(ks, cs) == [keys |-> ks, calls |-> cs]

\* F is a walk of N steps.
Walks(F, N, pivot) == \A d \in 0..(N - 1) : F[d + 1] = IterateInner(F[d], pivot)

\* Within m steps from d on the walk F emits the keys of D in order.
Ends(F, d, m, pivot, ks, D, rest) ==
  \E t \in Nat : \E w : t <= m /\ Ordered(w, D, pivot) /\ F[d + t] = State(ks \o w, rest)

\* In the walk F the calls cs emit the keys of D in order, in K steps for each.
Emits(F, N, pivot, cs, D, K) ==
  \A rest, ks : \A d \in Nat :
    /\ IsSeq(rest)
    /\ ks \in Seq(Key)
    /\ d + Cardinality(D) * K <= N
    /\ F[d] = State(ks, cs \o rest)
    => Ends(F, d, Cardinality(D) * K, pivot, ks, D, rest)

LEMMA EmitsNone ==
  ASSUME NEW F, NEW N, NEW pivot, NEW K \in Nat
  PROVE  Emits(F, N, pivot, <<>>, {}, K)
<1> SUFFICES ASSUME NEW rest, NEW ks, NEW d \in Nat, IsSeq(rest), ks \in Seq(Key), F[d] = State(ks, <<>> \o rest)
             PROVE  Ends(F, d, Cardinality({}) * K, pivot, ks, {}, rest)
  BY DEF Emits
<1>1. <<>> \o rest = rest /\ ks \o <<>> = ks
  BY SeqJoin, SeqOne, ConcatEmptySeq
<1>2. Cardinality({}) = 0 /\ 0 * K = 0 /\ d + 0 = d
  BY FS_EmptySet
<1>3. Ordered(<<>>, {}, pivot)
  BY OrderedNone
<1>4. 0 <= Cardinality({}) * K /\ F[d + 0] = State(ks \o <<>>, rest)
  BY <1>1, <1>2
<1> QED
  BY <1>3, <1>4 DEF Ends

LEMMA EmitsMore ==
  ASSUME NEW F, NEW N \in Nat, NEW pivot, NEW cs, NEW D, IsFiniteSet(D), NEW K \in Nat, NEW L \in Nat, K <= L,
         Emits(F, N, pivot, cs, D, K)
  PROVE  Emits(F, N, pivot, cs, D, L)
<1> DEFINE m == Cardinality(D)
<1>1. m \in Nat
  BY FS_CardinalityType
<1> HIDE DEF m
<1>2. m * K \in Nat /\ m * L \in Nat /\ m * K <= m * L
  BY <1>1, Times
<1>3. \A d \in Nat : d + m * L <= N => d + m * K <= N
  BY <1>2
<1>4. \A t \in Nat : t <= m * K => t <= m * L
  BY <1>2
<1> QED
  BY <1>3, <1>4 DEF Emits, Ends, m

LEMMA EmitsUse ==
  ASSUME NEW F, NEW N, NEW pivot, NEW cs, NEW D, NEW K, Emits(F, N, pivot, cs, D, K),
         NEW rest, NEW ks, NEW d \in Nat, NEW m, m = Cardinality(D) * K,
         IsSeq(rest), ks \in Seq(Key), d + m <= N, F[d] = State(ks, cs \o rest)
  PROVE  Ends(F, d, m, pivot, ks, D, rest)
BY DEF Emits

LEMMA EmitsJoin ==
  ASSUME NEW F, NEW N \in Nat, NEW pivot, NEW cs, NEW ct, IsSeq(cs), IsSeq(ct),
         NEW A, NEW B, IsFiniteSet(A), IsFiniteSet(B), NEW K \in Nat,
         Emits(F, N, pivot, cs, A, K), Emits(F, N, pivot, ct, B, K),
         \A a \in A, b \in B : Before(a, b, pivot)
  PROVE  Emits(F, N, pivot, cs \o ct, A \cup B, K)
<1> DEFINE D == A \cup B
           a == Cardinality(A) * K
           b == Cardinality(B) * K
<1>1. a \in Nat /\ b \in Nat /\ Cardinality(D) * K = a + b
  <2>1. A \cap B = {}
    BY DEF Before
  <2>2. Cardinality(D) = Cardinality(A) + Cardinality(B) - 0
    BY <2>1, FS_Union, FS_EmptySet
  <2>3. Cardinality(A) \in Nat /\ Cardinality(B) \in Nat
    BY FS_CardinalityType
  <2> DEFINE p == Cardinality(A)
             q == Cardinality(B)
  <2>4. p \in Nat /\ q \in Nat /\ Cardinality(D) = p + q
    BY <2>2, <2>3
  <2> HIDE DEF p, q, D
  <2>5. p * K \in Nat /\ q * K \in Nat /\ Cardinality(D) * K = p * K + q * K
    BY <2>4, Times
  <2> QED
    BY <2>5 DEF p, q
<1>2. SUFFICES ASSUME NEW rest, NEW ks, NEW d \in Nat, IsSeq(rest), ks \in Seq(Key), d + Cardinality(D) * K <= N,
                      F[d] = State(ks, (cs \o ct) \o rest)
               PROVE  Ends(F, d, Cardinality(D) * K, pivot, ks, D, rest)
  BY DEF Emits
<1>3. IsSeq(ct \o rest) /\ (cs \o ct) \o rest = cs \o (ct \o rest)
  BY <1>2, SeqJoin
<1>4. d + a <= N /\ F[d] = State(ks, cs \o (ct \o rest))
  BY <1>1, <1>2, <1>3
<1>5. PICK t \in Nat : \E u : t <= a /\ Ordered(u, A, pivot) /\ F[d + t] = State(ks \o u, ct \o rest)
  <2> DEFINE m == a
             r == ct \o rest
  <2>1. m = Cardinality(A) * K /\ IsSeq(r) /\ d + m <= N /\ F[d] = State(ks, cs \o r)
    BY <1>3, <1>4
  <2> HIDE DEF m, r, a, b, D
  <2>2. Ends(F, d, m, pivot, ks, A, r)
    BY <2>1, <1>2, EmitsUse
  <2> QED
    BY <2>2 DEF m, r, a, Ends
<1>5a. PICK u : t <= a /\ Ordered(u, A, pivot) /\ F[d + t] = State(ks \o u, ct \o rest)
  BY <1>5
<1>5b. u \in Seq(Key)
  BY <1>5a DEF Ordered
<1>6. ks \o u \in Seq(Key)
  BY <1>2, <1>5b, ConcatProperties
<1>7. d + t \in Nat /\ (d + t) + b <= N
  BY <1>1, <1>2, <1>5a
<1>8. PICK s \in Nat : \E v : s <= b /\ Ordered(v, B, pivot) /\ F[(d + t) + s] = State((ks \o u) \o v, rest)
  <2> DEFINE f == d + t
             kt == ks \o u
             m == b
  <2>1. f \in Nat /\ f + m <= N /\ m = Cardinality(B) * K /\ kt \in Seq(Key) /\ F[f] = State(kt, ct \o rest)
    BY <1>2, <1>5a, <1>6, <1>7
  <2> HIDE DEF f, kt, m, a, b, D
  <2>2. Ends(F, f, m, pivot, kt, B, rest)
    BY <2>1, <1>2, EmitsUse
  <2> QED
    BY <2>2 DEF f, kt, m, b, Ends
<1>8a. PICK v : s <= b /\ Ordered(v, B, pivot) /\ F[(d + t) + s] = State((ks \o u) \o v, rest)
  BY <1>8
<1>8b. v \in Seq(Key)
  BY <1>8a DEF Ordered
<1>9. (ks \o u) \o v = ks \o (u \o v)
  BY <1>2, <1>5b, <1>8b, ConcatAssociative
<1>10. Ordered(u \o v, D, pivot)
  BY <1>5a, <1>8a, OrderedJoin
<1>11. t + s \in Nat /\ t + s <= Cardinality(D) * K /\ d + (t + s) = (d + t) + s
  BY <1>1, <1>5a, <1>8a
<1> HIDE DEF a, b, D
<1> QED
  BY <1>8a, <1>9, <1>10, <1>11 DEF Ends

\* Whether a call emits one key, or as many as the calls it makes.
LEMMA LeafEmits ==
  ASSUME NEW F, NEW N \in Nat, NEW pivot, Walks(F, N, pivot), NEW c, ~IsEmpty(c.node), c.size = 1,
         NEW D, NEW e, D = {e}, e[1] = c.node.key, e[1] \in Key, NEW K \in Nat, K >= 1
  PROVE  Emits(F, N, pivot, <<c>>, D, K)
<1>0. Cardinality(D) = 1
  BY FS_Singleton
<1>1. Cardinality(D) * K = K
  BY <1>0
<1>2. SUFFICES ASSUME NEW rest, NEW ks, NEW d \in Nat, IsSeq(rest), ks \in Seq(Key), d + K <= N,
                      F[d] = State(ks, <<c>> \o rest)
               PROVE  Ends(F, d, K, pivot, ks, D, rest)
  BY <1>1 DEF Emits
<1> DEFINE s == F[d]
           t == <<c>> \o rest
<1>3. t # <<>> /\ Head(t) = c /\ Tail(t) = rest
  BY <1>2, SeqFirst
<1>4. F[d + 1] = IterateInner(s, pivot)
  <2>1. d \in 0..(N - 1)
    BY <1>2
  <2> QED
    BY <2>1 DEF Walks
<1>5. s.calls = t /\ s.keys = ks
  BY <1>2 DEF State
<1> HIDE DEF s, t
<1>6. IterateInner(s, pivot) = [keys |-> Append(ks, c.node.key), calls |-> rest]
  BY <1>3, <1>5 DEF IterateInner
<1>7. Append(ks, c.node.key) = ks \o <<e[1]>>
  BY <1>2, AppendIsConcat
<1>8. F[d + 1] = State(ks \o <<e[1]>>, rest)
  BY <1>4, <1>6, <1>7 DEF State
<1>9. Ordered(<<e[1]>>, D, pivot)
  BY OrderedOne
<1> QED
  BY <1>8, <1>9 DEF Ends

LEMMA NodeEmits ==
  ASSUME NEW F, NEW N \in Nat, NEW pivot, Walks(F, N, pivot), NEW c, ~IsEmpty(c.node), c.size # 1,
         IsSeq(Calls(c, pivot)), NEW D, Cardinality(D) \in Nat, Cardinality(D) >= 1, NEW K \in Nat,
         Emits(F, N, pivot, Calls(c, pivot), D, K)
  PROVE  Emits(F, N, pivot, <<c>>, D, K + 1)
<1> DEFINE m == Cardinality(D) * K
           l == Cardinality(D) * (K + 1)
           cs == Calls(c, pivot)
<1>1. m \in Nat /\ l \in Nat /\ 1 + m <= l
  BY Times
<1>2. SUFFICES ASSUME NEW rest, NEW ks, NEW d \in Nat, IsSeq(rest), ks \in Seq(Key), d + l <= N,
                      F[d] = State(ks, <<c>> \o rest)
               PROVE  Ends(F, d, l, pivot, ks, D, rest)
  BY DEF Emits
<1> HIDE DEF m, l, cs
<1> DEFINE s == F[d]
           t == <<c>> \o rest
           f == d + 1
<1>3. t # <<>> /\ Head(t) = c /\ Tail(t) = rest
  BY <1>2, SeqFirst
<1>4. f \in Nat /\ f + m <= N /\ F[f] = IterateInner(s, pivot)
  <2>1. d \in 0..(N - 1)
    BY <1>1, <1>2
  <2> QED
    BY <2>1, <1>1, <1>2 DEF Walks
<1>5. s.calls = t /\ s.keys = ks
  BY <1>2 DEF State
<1> HIDE DEF s, t
<1>6. IterateInner(s, pivot) = [keys |-> ks, calls |-> cs \o rest]
  BY <1>3, <1>5 DEF IterateInner, cs
<1>7. F[f] = State(ks, cs \o rest)
  BY <1>4, <1>6 DEF State
<1> HIDE DEF f
<1>8. m = Cardinality(D) * K /\ Emits(F, N, pivot, cs, D, K)
  BY DEF m, cs
<1>9. Ends(F, f, m, pivot, ks, D, rest)
  BY <1>2, <1>4, <1>7, <1>8, EmitsUse
<1>10. PICK u \in Nat : \E w : u <= m /\ Ordered(w, D, pivot) /\ F[f + u] = State(ks \o w, rest)
  BY <1>9 DEF Ends
<1>11. 1 + u \in Nat /\ 1 + u <= l /\ f + u = d + (1 + u)
  BY <1>1, <1>10 DEF f
<1> QED
  BY <1>10, <1>11 DEF Ends

-----------------------------------------------------------------------------
(* The calls of a walk.                                                    *)

\* The call c is for the entries D.
Good(c, D) ==
  /\ c.at \in 0..Depth
  /\ IsMap(D)
  /\ ~IsEmpty(c.node)
  /\ <<c.node.key, c.node.val>> \in D
  /\ c.size = Cardinality(D)
  /\ IF c.at = Depth THEN D = {<<c.node.key, c.node.val>>} ELSE Shows(c.node, c.at + 1, D)

\* Calls at most h bits from the end emit their entries.
Deep(F, N, pivot, h) ==
  \A c, D : Good(c, D) /\ Depth - c.at <= h => Emits(F, N, pivot, <<c>>, D, h + 1)

LEMMA RestIsMap ==
  ASSUME NEW C, IsMap(C), NEW k, NEW i
  PROVE  IsMap(Rest(C, k, i)) /\ IsMap(Cut(C, k, i))
<1>1. Rest(C, k, i) \subseteq C /\ Cut(C, k, i) \subseteq C
  BY DEF Rest, Cut
<1> QED
  BY <1>1, FS_Subset DEF IsMap

\* From any bit on, a node shows the entries that agree with it before.
LEMMA ShowsRest ==
  ASSUME NEW C, IsMap(C), NEW n, NEW from \in 0..Depth, Shows(n, from, C), NEW j \in from..Depth
  PROVE  Shows(n, j, Rest(C, n.key, j)) /\ <<n.key, n.val>> \in Rest(C, n.key, j)
<1> USE Params
<1>1. Local(n, from, C) /\ j \in 0..Depth
  BY ShowsLocal
<1>2. \A i \in j..(Depth - 1) : i \in from..(Depth - 1) /\ Cut(Rest(C, n.key, j), n.key, i) = Cut(C, n.key, i)
  <2> TAKE i \in j..(Depth - 1)
  <2>1. j \in Nat /\ i \in Nat /\ j <= i
    BY <1>1
  <2>2. \A e \in C : Parts(n.key, e[1], i) => Same(n.key, e[1], j)
    BY <2>1, SameTrans DEF Parts
  <2> QED
    BY <1>1, <2>2 DEF Cut, Rest
<1>3. /\ ~IsEmpty(n) /\ DOMAIN n.forks \subseteq 0..(Depth - 1)
      /\ <<n.key, n.val>> \in Rest(C, n.key, j)
  BY <1>1 DEF Local, Rest, Same
<1>4. \A e \in Rest(C, n.key, j) : Same(n.key, e[1], j) /\ (e[1] = n.key => e = <<n.key, n.val>>)
  BY <1>1 DEF Local, Rest
<1>5. Local(n, j, Rest(C, n.key, j))
  BY <1>1, <1>2, <1>3, <1>4 DEF Local
<1>6. Rest(C, n.key, j) \subseteq Entry
  BY DEF Rest, IsMap
<1> QED
  BY <1>1, <1>3, <1>5, <1>6, LocalShows

\* The calls a call makes: that for a fork, and that for the node itself.
LEMMA ForkGood ==
  ASSUME NEW n, NEW from \in 0..Depth, NEW D, IsMap(D), Shows(n, from, D), NEW i \in from..(Depth - 1),
         i \in DOMAIN n.forks
  PROVE  Good(Call(n.forks[i].node, i, n.forks[i].size), Cut(D, n.key, i))
<1> DEFINE m == n.forks[i].node
           c == Call(m, i, n.forks[i].size)
           A == Cut(D, n.key, i)
<1> USE Params
<1>1. Local(n, from, D)
  BY ShowsLocal
<1>2. n.forks[i].size = Cardinality(A) /\ Shows(m, i + 1, A)
  BY <1>1 DEF Local
<1>3. c.node = m /\ c.at = i /\ c.size = n.forks[i].size
  BY DEF Call
<1>4. IsMap(A)
  BY RestIsMap
<1> HIDE DEF A, c, m
<1>5. i + 1 \in 0..Depth /\ i \in 0..Depth /\ i # Depth
  OBVIOUS
<1>6. Local(m, i + 1, A)
  BY <1>2, <1>5, ShowsLocal
<1>7. Good(c, A)
  BY <1>2, <1>3, <1>4, <1>5, <1>6 DEF Good, Local
<1> QED
  BY <1>7 DEF A, c, m

\* The entries that stay with n at bit po.
Stay(D, n, po) == IF po = Depth THEN {<<n.key, n.val>>} ELSE Rest(D, n.key, po + 1)

LEMMA SelfGood ==
  ASSUME NEW n, NEW from \in 0..Depth, NEW D, IsMap(D), Shows(n, from, D), NEW po \in from..Depth
  PROVE  Good(Call(n, po, NewAtSize(po, n)), Stay(D, n, po))
<1> DEFINE c == Call(n, po, NewAtSize(po, n))
           own == <<n.key, n.val>>
           A == Stay(D, n, po)
<1> USE Params
<1>1. Local(n, from, D) /\ po \in 0..Depth
  BY ShowsLocal
<1>2. c.node = n /\ c.at = po /\ c.size = NewAtSize(po, n)
  BY DEF Call
<1>3. ~IsEmpty(n) /\ own \in D
  BY <1>1 DEF Local
<1> HIDE DEF c, own, A
<1>4. CASE po = Depth
  <2>1. A = {own}
    BY <1>4 DEF A, Stay, own
  <2>2. IsMap(A) /\ Cardinality(A) = 1
    BY <2>1, <1>3, FS_Singleton DEF IsMap
  <2>3. NewAtSize(Depth, n) = Sum(n, Depth)[Depth] /\ Sum(n, Depth)[Depth] = 1
    BY <1>3, SumIs
  <2>4. Good(c, A)
    BY <1>1, <1>2, <1>3, <1>4, <2>1, <2>2, <2>3 DEF Good, own
  <2> QED
    BY <2>4 DEF c, A
<1>5. CASE po # Depth
  <2> DEFINE j == po + 1
  <2>1. j \in from..Depth /\ j \in 0..Depth /\ j - 1 = po
    BY <1>1, <1>5
  <2>2. A = Rest(D, n.key, j)
    BY <1>5 DEF A, Stay
  <2> HIDE DEF j
  <2>3. Shows(n, j, A) /\ own \in A
    BY <2>1, <2>2, ShowsRest DEF own
  <2>4. IsMap(A)
    BY <2>2, RestIsMap
  <2>5. NewAtSize(j - 1, n) = Cardinality(A)
    BY <2>1, <2>3, <2>4, SizeIs DEF IsMap
  <2>6. Shows(n, po + 1, A)
    BY <2>3 DEF j
  <2>7. Good(c, A)
    BY <1>1, <1>2, <1>3, <1>5, <2>1, <2>3, <2>4, <2>5, <2>6 DEF Good, own
  <2> QED
    BY <2>7 DEF c, A
<1> QED
  BY <1>4, <1>5

LEMMA ForkEmits ==
  ASSUME NEW F, NEW N \in Nat, NEW pivot, NEW h \in Nat, Deep(F, N, pivot, h),
         NEW n, NEW from \in 0..Depth, NEW D, IsMap(D), Shows(n, from, D), NEW i \in from..(Depth - 1), Depth - i <= h
  PROVE  IsSeq(ForkCalls(n, i)) /\ Emits(F, N, pivot, ForkCalls(n, i), Cut(D, n.key, i), h + 1)
<1> DEFINE A == Cut(D, n.key, i)
           c == Call(n.forks[i].node, i, n.forks[i].size)
<1>1. CASE i \in DOMAIN n.forks
  <2>1. ForkCalls(n, i) = <<c>>
    BY <1>1 DEF ForkCalls
  <2>2. Good(c, A)
    BY <1>1, ForkGood
  <2>3. c.at = i
    BY DEF Call
  <2> HIDE DEF A, c
  <2>4. Emits(F, N, pivot, <<c>>, A, h + 1)
    BY <2>2, <2>3 DEF Deep
  <2> QED
    BY <2>1, <2>4, SeqOne DEF A
<1>2. CASE i \notin DOMAIN n.forks
  <2>1. ForkCalls(n, i) = <<>>
    BY <1>2 DEF ForkCalls
  <2>2. A = {}
    BY <1>2, ShowsLocal DEF Local
  <2>3. h + 1 \in Nat
    OBVIOUS
  <2> HIDE DEF A
  <2>4. Emits(F, N, pivot, <<>>, {}, h + 1)
    BY <2>3, EmitsNone
  <2> QED
    BY <2>1, <2>2, <2>4, SeqOne DEF A
<1> QED
  BY <1>1, <1>2

\* The entries that part from the key k before bit i.
Gone(D, k, i) == {e \in D : ~Same(k, e[1], i)}

\* The entries that part from n where the pivot does.
Leave(D, n, po) == IF po = Depth THEN {} ELSE Cut(D, n.key, po)

LEMMA GoneNext ==
  ASSUME NEW D, NEW k, NEW i \in Nat
  PROVE  Gone(D, k, i + 1) = Cut(D, k, i) \cup Gone(D, k, i)
<1>1. \A e \in D : Same(k, e[1], i + 1) <=> (Same(k, e[1], i) /\ ~Parts(k, e[1], i))
  BY SameNext
<1>2. \A e \in D : Parts(k, e[1], i) => Same(k, e[1], i)
  BY DEF Parts
<1> QED
  BY <1>1, <1>2 DEF Gone, Cut

LEMMA GoneIs ==
  ASSUME NEW D, NEW k, NEW from \in Nat, \A e \in D : Same(k, e[1], from), NEW i \in Nat, from <= i,
         NEW e \in Gone(D, k, i)
  PROVE  \E j \in from..(i - 1) : Parts(k, e[1], j)
<1> DEFINE S == {d \in Nat : (\A j \in from..(from + d - 1) : ~Parts(k, e[1], j)) => Same(k, e[1], from + d)}
<1>1. 0 \in S
  BY DEF Gone
<1>2. ASSUME NEW d \in Nat, d \in S PROVE d + 1 \in S
  <2> DEFINE f == from + d
  <2>1. SUFFICES ASSUME \A j \in from..(from + (d + 1) - 1) : ~Parts(k, e[1], j)
                 PROVE  Same(k, e[1], from + (d + 1))
    OBVIOUS
  <2>2. f \in Nat /\ f \in from..(from + (d + 1) - 1) /\ f + 1 = from + (d + 1)
    OBVIOUS
  <2>3. \A j \in from..(from + d - 1) : j \in from..(from + (d + 1) - 1)
    OBVIOUS
  <2>4. Same(k, e[1], f)
    BY <1>2, <2>1, <2>3
  <2> HIDE DEF f
  <2>5. Same(k, e[1], f + 1)
    BY <2>1, <2>2, <2>4, SameNext
  <2> QED
    BY <2>2, <2>5
<1> HIDE DEF S
<1>3. i - from \in Nat /\ from + (i - from) = i /\ from + (i - from) - 1 = i - 1
  OBVIOUS
<1>4. i - from \in S
  BY <1>1, <1>2, <1>3, AllNats
<1>5. (\A j \in from..(i - 1) : ~Parts(k, e[1], j)) => Same(k, e[1], i)
  BY <1>3, <1>4 DEF S
<1> QED
  BY <1>5 DEF Gone

\* The entries that left n before bit i come behind those that are still with it.
LEMMA GoneBehind ==
  ASSUME NEW n, NEW at \in 0..(Depth - 1), NEW D, IsMap(D), Shows(n, at + 1, D), NEW pivot \in Key,
         NEW po, po = PO(n.key, pivot, at + 1, Depth), NEW i \in (at + 1)..po,
         NEW a \in D, Same(n.key, a[1], i), NEW b \in Gone(D, n.key, i)
  PROVE  Before(a, b, pivot)
<1> USE Params
<1>1. po \in (at + 1)..Depth /\ at + 1 \in 0..Depth /\ at + 1 \in Nat
  BY POIs
<1>2. /\ \A e \in D : Same(n.key, e[1], at + 1)
      /\ <<n.key, n.val>> \in D
  BY <1>1, ShowsLocal DEF Local
<1>3. n.key \in Key
  BY <1>2 DEF IsMap, Entry
<1>4. i \in Nat /\ at + 1 <= i
  BY <1>1
<1>5. PICK j \in (at + 1)..(i - 1) : Parts(n.key, b[1], j)
  BY <1>1, <1>2, <1>4, GoneIs
<1>6. j \in (at + 1)..(po - 1) /\ j + 1 \in Nat /\ j + 1 <= i
  BY <1>1, <1>5
<1>7. Same(n.key, a[1], j + 1)
  BY <1>4, <1>6, SameTrans
<1>8. Same(n.key, a[1], at + 1) /\ Same(n.key, b[1], at + 1)
  BY <1>2 DEF Gone
<1>9. a[1] # b[1] /\ Near(a[1], pivot) >= Near(b[1], pivot)
  BY <1>3, <1>5, <1>6, <1>7, <1>8, StayCloser
<1> QED
  BY <1>9 DEF Before

LEMMA SliceEmits ==
  ASSUME NEW F, NEW N \in Nat, NEW pivot \in Key, NEW h \in Nat, Deep(F, N, pivot, h),
         NEW n, NEW at \in 0..(Depth - 1), Depth - at <= h + 1, NEW D, IsMap(D), Shows(n, at + 1, D),
         NEW po, po = PO(n.key, pivot, at + 1, Depth)
  PROVE  /\ IsSeq(SliceCalls(n, at + 1, po))
         /\ Emits(F, N, pivot, SliceCalls(n, at + 1, po), Gone(D, n.key, po), h + 1)
<1> DEFINE from == at + 1
           g == Slices(n, from, po)
           U(i) == Gone(D, n.key, i)
           P(i) == IsSeq(g[i]) /\ Emits(F, N, pivot, g[i], U(i), h + 1)
           S == {d \in Nat : from + d <= po => P(from + d)}
<1> USE Params
<1>1. po \in from..Depth /\ from \in 0..Depth /\ from \in Nat /\ po \in Nat /\ from <= po
  BY POIs
<1>2. /\ SliceCalls(n, from, po) = g[po]
      /\ g[from] = <<>>
      /\ \A i \in from..(po - 1) : g[i + 1] = ForkCalls(n, i) \o g[i]
  <2>1. SliceCalls(n, from, po) = g[po] /\ g[from] = <<>> /\ Stacks(g, n, from, po)
    BY <1>1, SlicesAre
  <2> QED
    BY <2>1 DEF Stacks
<1>3. \A e \in D : Same(n.key, e[1], from)
  BY <1>1, ShowsLocal DEF Local
<1>4. P(from)
  <2>1. U(from) = {}
    BY <1>3 DEF Gone
  <2>2. h + 1 \in Nat
    OBVIOUS
  <2> HIDE DEF U, g, from
  <2>3. Emits(F, N, pivot, <<>>, {}, h + 1)
    BY <2>2, EmitsNone
  <2> QED
    BY <1>2, <2>1, <2>3, SeqOne
<1>5. ASSUME NEW i \in from..(po - 1), P(i) PROVE P(i + 1)
  <2> DEFINE fc == ForkCalls(n, i)
             A == Cut(D, n.key, i)
             B == U(i)
             j == i + 1
  <2>1. i \in from..(Depth - 1) /\ Depth - i <= h /\ i \in from..po /\ i \in Nat
    BY <1>1
  <2>2. IsSeq(fc) /\ Emits(F, N, pivot, fc, A, h + 1)
    BY <1>1, <2>1, ForkEmits
  <2>3. IsSeq(g[i]) /\ Emits(F, N, pivot, g[i], B, h + 1)
    BY <1>5
  <2>4. g[j] = fc \o g[i]
    BY <1>2
  <2>5. U(j) = A \cup B
    BY <2>1, GoneNext
  <2>6. A \subseteq D /\ B \subseteq D /\ IsFiniteSet(A) /\ IsFiniteSet(B)
    <3>1. A \subseteq D /\ B \subseteq D
      BY DEF Cut, Gone
    <3> QED
      BY <3>1, FS_Subset DEF IsMap
  <2>7. ASSUME NEW a \in A, NEW b \in B PROVE Before(a, b, pivot)
    <3>1. Same(n.key, a[1], i) /\ a \in D
      BY DEF Cut, Parts
    <3> QED
      BY <2>1, <3>1, GoneBehind
  <2>8. h + 1 \in Nat
    OBVIOUS
  <2> HIDE DEF fc, A, B, g
  <2>9. IsSeq(fc \o g[i]) /\ Emits(F, N, pivot, fc \o g[i], A \cup B, h + 1)
    BY <2>2, <2>3, <2>6, <2>7, <2>8, SeqJoin, EmitsJoin
  <2> HIDE DEF j, U
  <2>10. P(j)
    BY <2>4, <2>5, <2>9
  <2> QED
    BY <2>10 DEF j
<1> HIDE DEF P
<1>6. 0 \in S
  BY <1>4
<1>7. ASSUME NEW d \in Nat, d \in S PROVE d + 1 \in S
  <2> DEFINE i == from + d
  <2>1. SUFFICES ASSUME from + (d + 1) <= po PROVE P(from + (d + 1))
    OBVIOUS
  <2>2. i \in from..(po - 1) /\ i <= po /\ i + 1 = from + (d + 1)
    BY <1>1, <2>1
  <2>3. P(i)
    BY <1>7, <2>2
  <2> HIDE DEF i
  <2>4. P(i + 1)
    BY <2>2, <2>3, <1>5
  <2> QED
    BY <2>2, <2>4
<1> HIDE DEF S
<1>8. po - from \in Nat /\ from + (po - from) = po /\ po <= po
  BY <1>1
<1>9. po - from \in S
  BY <1>6, <1>7, <1>8, AllNats
<1>10. P(po)
  BY <1>8, <1>9 DEF S
<1> QED
  BY <1>2, <1>10 DEF P

\* What the calls emit that one makes.
LEMMA CallsEmit ==
  ASSUME NEW F, NEW N \in Nat, NEW pivot \in Key, NEW h \in Nat, Deep(F, N, pivot, h),
         NEW c, NEW D, Good(c, D), c.at < Depth, Depth - c.at <= h + 1
  PROVE  IsSeq(Calls(c, pivot)) /\ Emits(F, N, pivot, Calls(c, pivot), D, h + 1)
<1> DEFINE n == c.node
           at == c.at
           from == at + 1
           k == n.key
           po == PO(k, pivot, from, Depth)
           slice == SliceCalls(n, from, po)
           self == <<Call(n, po, NewAtSize(po, n))>>
           near == ForkCalls(n, po)
           A == Leave(D, n, po)
           B == Stay(D, n, po)
           U == Gone(D, k, po)
<1> USE Params
<1>1. at \in 0..(Depth - 1) /\ IsMap(D) /\ Shows(n, from, D) /\ from \in 0..Depth /\ from \in Nat
  BY DEF Good
<1>2. po \in from..Depth
  BY <1>1, POIs
<1>3. Calls(c, pivot) = (near \o self) \o slice
  BY DEF Calls, InReverse
<1>4. Local(n, from, D)
  BY <1>1, ShowsLocal
<1>5. <<k, n.val>> \in D /\ k \in Key /\ \A e \in D : Same(k, e[1], from) /\ (e[1] = k => e = <<k, n.val>>)
  BY <1>4, <1>1 DEF Local, IsMap, Entry
<1> HIDE DEF n, at, from, k, po
<1>6. IsSeq(slice) /\ Emits(F, N, pivot, slice, U, h + 1)
  BY <1>1, SliceEmits DEF from, po, k, at
<1>7. IsSeq(self) /\ Emits(F, N, pivot, self, B, h + 1)
  <2> DEFINE s == Call(n, po, NewAtSize(po, n))
  <2>1. Good(s, B)
    BY <1>1, <1>2, SelfGood
  <2>2. s.at = po
    BY DEF Call
  <2>3. Depth - po <= h
    BY <1>1, <1>2 DEF from, at
  <2> HIDE DEF s, B
  <2>4. Emits(F, N, pivot, <<s>>, B, h + 1)
    BY <2>1, <2>2, <2>3 DEF Deep
  <2> QED
    BY <2>4, SeqOne DEF s
<1>8. IsSeq(near) /\ Emits(F, N, pivot, near, A, h + 1)
  <2>1. CASE po = Depth
    <3>1. po \notin DOMAIN n.forks
      BY <1>4, <2>1 DEF Local
    <3>2. near = <<>> /\ A = {}
      BY <3>1, <2>1 DEF ForkCalls, Leave
    <3>3. h + 1 \in Nat
      OBVIOUS
    <3> HIDE DEF near, A
    <3>4. Emits(F, N, pivot, <<>>, {}, h + 1)
      BY <3>3, EmitsNone
    <3> QED
      BY <3>2, <3>4, SeqOne
  <2>2. CASE po # Depth
    <3>1. po \in from..(Depth - 1) /\ Depth - po <= h
      BY <1>1, <1>2, <2>2 DEF from, at
    <3>2. A = Cut(D, k, po)
      BY <2>2 DEF Leave, k
    <3> HIDE DEF A, near
    <3>3. IsSeq(ForkCalls(n, po)) /\ Emits(F, N, pivot, ForkCalls(n, po), Cut(D, n.key, po), h + 1)
      BY <1>1, <3>1, ForkEmits
    <3> QED
      BY <3>2, <3>3 DEF near, k
  <2> QED
    BY <2>1, <2>2
<1>9. \A e \in A : Same(k, e[1], po) /\ (po < Depth => Parts(k, e[1], po)) /\ po < Depth
  BY <1>2 DEF Leave, Cut, Parts, k
<1>10. \A e \in B : Same(k, e[1], po) /\ (po < Depth => Same(k, e[1], po + 1))
  <2>1. CASE po = Depth
    BY <2>1 DEF Stay, k, Same
  <2>2. CASE po # Depth
    <3>1. \A e \in B : Same(k, e[1], po + 1)
      BY <2>2 DEF Stay, Rest, k
    <3>2. po \in Nat
      BY <1>2, <1>1
    <3> QED
      BY <3>1, <3>2, SameNext
  <2> QED
    BY <2>1, <2>2
<1>11. A \subseteq D /\ B \subseteq D /\ U \subseteq D
  BY <1>5 DEF Leave, Stay, Cut, Rest, Gone, k
<1>12. D = (A \cup B) \cup U
  <2>1. ASSUME NEW e \in D, e \notin U PROVE e \in A \cup B
    <3>1. Same(k, e[1], po)
      BY <2>1 DEF Gone
    <3>2. CASE po = Depth
      <4>1. e[1] \in Key
        BY <1>1 DEF IsMap, Entry
      <4>2. e[1] = k
        BY <3>1, <3>2, <4>1, <1>5, SameAll
      <4> QED
        BY <3>2, <4>2, <1>5 DEF Stay, k
    <3>3. CASE po # Depth
      <4>1. po \in Nat
        BY <1>1, <1>2
      <4>2. Same(k, e[1], po + 1) \/ Parts(k, e[1], po)
        BY <3>1, <4>1, SameNext
      <4> QED
        BY <3>3, <4>2 DEF Leave, Stay, Cut, Rest, k
    <3> QED
      BY <3>2, <3>3
  <2> HIDE DEF A, B, U
  <2> QED
    BY <2>1, <1>11
<1>13. ASSUME NEW a \in A, NEW b \in B PROVE Before(a, b, pivot)
  <2>1. Same(k, a[1], from) /\ Same(k, b[1], from) /\ a[1] \in Key
    BY <1>1, <1>5, <1>11 DEF IsMap, Entry
  <2>2. po < Depth /\ Parts(k, a[1], po) /\ Same(k, b[1], po + 1)
    BY <1>9, <1>10
  <2> QED
    BY <1>1, <1>5, <2>1, <2>2, LeaveCloser DEF Before, po, from
<1>14. ASSUME NEW a \in A \cup B, NEW b \in U PROVE Before(a, b, pivot)
  <2>1. Same(k, a[1], po) /\ a \in D
    BY <1>9, <1>10, <1>11
  <2>2. po \in from..po
    BY <1>1, <1>2
  <2> HIDE DEF A, B
  <2> QED
    BY <1>1, <2>1, <2>2, GoneBehind DEF from, po, k
<1>15. IsFiniteSet(A) /\ IsFiniteSet(B) /\ IsFiniteSet(U) /\ IsFiniteSet(A \cup B)
  BY <1>1, <1>11, FS_Subset, FS_Union DEF IsMap
<1>16. h + 1 \in Nat
  OBVIOUS
<1> HIDE DEF A, B, U, near, self, slice
<1>17. IsSeq(near \o self) /\ Emits(F, N, pivot, near \o self, A \cup B, h + 1)
  BY <1>7, <1>8, <1>13, <1>15, <1>16, SeqJoin, EmitsJoin
<1>18. IsSeq((near \o self) \o slice) /\ Emits(F, N, pivot, (near \o self) \o slice, D, h + 1)
  BY <1>6, <1>12, <1>14, <1>15, <1>16, <1>17, SeqJoin, EmitsJoin
<1> QED
  BY <1>3, <1>18

\* On a walk every call emits its entries.
LEMMA WalksEmit ==
  ASSUME NEW F, NEW N \in Nat, NEW pivot \in Key, Walks(F, N, pivot)
  PROVE  \A h \in Nat : Deep(F, N, pivot, h)
<1> DEFINE S == {h \in Nat : Deep(F, N, pivot, h)}
<1> USE Params
<1>1. ASSUME NEW c, NEW D, Good(c, D), NEW K \in Nat, K >= 1, c.size = 1
      PROVE  Emits(F, N, pivot, <<c>>, D, K)
  <2> DEFINE e == <<c.node.key, c.node.val>>
  <2>1. ~IsEmpty(c.node) /\ e \in D /\ IsFiniteSet(D) /\ Cardinality(D) = 1 /\ D \subseteq Entry
    BY <1>1 DEF Good, IsMap
  <2>2. D = {e}
    BY <2>1, FS_Singleton
  <2>3. e[1] = c.node.key /\ e[1] \in Key
    BY <2>1 DEF Entry
  <2> HIDE DEF e
  <2> QED
    BY <1>1, <2>1, <2>2, <2>3, LeafEmits
<1>2. ASSUME NEW c, NEW D, Good(c, D)
      PROVE  /\ IsFiniteSet(D) /\ Cardinality(D) \in Nat /\ Cardinality(D) >= 1 /\ c.size = Cardinality(D) /\ ~IsEmpty(c.node)
             /\ c.at \in 0..Depth /\ (c.at = Depth => c.size = 1)
  <2>1. IsFiniteSet(D) /\ D # {} /\ c.size = Cardinality(D) /\ ~IsEmpty(c.node) /\ c.at \in 0..Depth
    BY <1>2 DEF Good, IsMap
  <2>2. Cardinality(D) \in Nat /\ Cardinality(D) # 0
    BY <2>1, FS_EmptySet, FS_CardinalityType
  <2>3. c.at = Depth => Cardinality(D) = 1
    BY <1>2, FS_Singleton DEF Good
  <2> QED
    BY <2>1, <2>2, <2>3
<1>3. 0 \in S
  <2> SUFFICES ASSUME NEW c, NEW D, Good(c, D), Depth - c.at <= 0 PROVE Emits(F, N, pivot, <<c>>, D, 0 + 1)
    BY DEF Deep
  <2>1. c.size = 1 /\ 0 + 1 \in Nat /\ 0 + 1 >= 1
    BY <1>2
  <2> QED
    BY <1>1, <2>1
<1>4. ASSUME NEW h \in Nat, h \in S PROVE h + 1 \in S
  <2> DEFINE K == h + 1
  <2>1. K \in Nat /\ K + 1 \in Nat /\ K + 1 >= 1
    OBVIOUS
  <2> SUFFICES ASSUME NEW c, NEW D, Good(c, D), Depth - c.at <= K PROVE Emits(F, N, pivot, <<c>>, D, K + 1)
    BY DEF Deep
  <2>2. CASE c.size = 1
    <3> HIDE DEF K
    <3> QED
      BY <1>1, <2>1, <2>2
  <2>3. CASE c.size # 1
    <3>1. c.at < Depth /\ Cardinality(D) \in Nat /\ Cardinality(D) >= 1 /\ ~IsEmpty(c.node)
      BY <1>2, <2>3
    <3>2. IsSeq(Calls(c, pivot)) /\ Emits(F, N, pivot, Calls(c, pivot), D, K)
      BY <1>4, <3>1, CallsEmit
    <3> HIDE DEF K
    <3> QED
      BY <2>1, <2>3, <3>1, <3>2, NodeEmits
  <2> QED
    BY <2>2, <2>3
<1> HIDE DEF S
<1>5. Nat \subseteq S
  BY <1>3, <1>4, AllNats
<1> QED
  BY <1>5 DEF S

-----------------------------------------------------------------------------
(* Where a walk begins: findNode().                                        *)

LEMMA POUpTo ==
  ASSUME NEW a, NEW b, NEW pos, NEW len \in 0..Depth, pos \in 0..len
  PROVE  LET po == PO(a, b, pos, Depth)
         IN  PO(a, b, pos, len) = IF po < len THEN po ELSE len
<1> DEFINE po == PO(a, b, pos, Depth)
           p  == PO(a, b, pos, len)
           S  == {i \in pos..(len - 1) : a[i] # b[i]} \cup {len}
<1> USE Params
<1>1. pos \in 0..Depth /\ po \in pos..Depth /\ (po < Depth => a[po] # b[po]) /\ \A i \in pos..(po - 1) : a[i] = b[i]
  BY POIs
<1>2. S \subseteq Nat /\ len \in S /\ p = Min(S) /\ \A i \in S : i <= len
  BY DEF PO
<1>3. \A i : i \in S <=> (i = len \/ (i \in pos..(len - 1) /\ a[i] # b[i]))
  OBVIOUS
<1> HIDE DEF S, p, po
<1>4. p \in S /\ \A i \in S : p <= i
  BY <1>2, MinIs
<1>5. p \in Nat /\ p <= len
  BY <1>2, <1>4
<1>6. CASE po < len
  <2>1. po \in S
    BY <1>1, <1>3, <1>6
  <2>2. p <= po /\ p # len
    BY <1>1, <1>4, <1>5, <1>6, <2>1
  <2>3. p \in pos..(len - 1) /\ a[p] # b[p]
    BY <1>3, <1>4, <2>2
  <2>4. ~ (p < po)
    BY <1>1, <2>3
  <2> QED
    BY <1>1, <1>5, <1>6, <2>2, <2>4 DEF p, po
<1>7. CASE ~ (po < len)
  <2>1. p = len
    BY <1>1, <1>3, <1>4, <1>7
  <2> QED
    BY <1>7, <2>1 DEF p, po
<1> QED
  BY <1>6, <1>7

\* The way of FindNode().
NodeWay(n, p, len) ==
  CHOOSE way : way = [d \in 0..Depth |-> IF d = 0 THEN At(n, 0) ELSE FindNodeNext(way[d - 1], p, len)]

LEMMA NodeWayIs ==
  ASSUME NEW n, NEW p, NEW len
  PROVE  /\ NodeWay(n, p, len)[0] = At(n, 0)
         /\ \A d \in 1..Depth : NodeWay(n, p, len)[d] = FindNodeNext(NodeWay(n, p, len)[d - 1], p, len)
         /\ LET end == NodeWay(n, p, len)[Depth].node
            IN  FindNode(n, p, len) = IF IsEmpty(end) THEN Null ELSE end
<1> USE Params
<1> DEFINE R(d, y) == IF d = 0 THEN At(n, 0) ELSE FindNodeNext(y, p, len)
<1>1. PICK g : Steps(g, "node", At(n, 0), p, len, Depth)
  BY StepsExist
<1>2. \A d \in 0..Depth : g[d] = R(d, g[d - 1])
  <2> TAKE d \in 0..Depth
  <2>1. d = 0 \/ (d # 0 /\ d \in 1..Depth)
    OBVIOUS
  <2> QED
    BY <1>1, <2>1 DEF Steps, Onward
<1> HIDE DEF R
<1>3. g = [d \in 0..Depth |-> R(d, g[d - 1])]
  BY <1>1, <1>2 DEF Steps
<1>4. \E f : f = [d \in 0..Depth |-> R(d, f[d - 1])]
  BY <1>3, Zenon
<1> DEFINE f == NodeWay(n, p, len)
<1>5. f = [d \in 0..Depth |-> R(d, f[d - 1])]
  BY <1>4, Zenon DEF NodeWay, R
<1>6. FindNode(n, p, len) = IF IsEmpty(f[Depth].node) THEN Null ELSE f[Depth].node
  BY Zenon DEF FindNode, NodeWay
<1> HIDE DEF f
<1>7. \A d \in 0..Depth : f[d] = R(d, f[d - 1])
  BY <1>5
<1>8. f[0] = At(n, 0) /\ \A d \in 1..Depth : f[d] = FindNodeNext(f[d - 1], p, len)
  BY <1>7 DEF R
<1> QED
  BY <1>6, <1>8 DEF f

\* After d steps: no key has the prefix, or x sees all that have it, and agrees
\* with it or is at d or beyond.
Starts(x, d, p, len, C) ==
  \/ IsEmpty(x.node) /\ Rest(C, p, len) = {}
  \/ \E f \in 0..len : Sees(x, f, p, C) /\ (Same(p, x.node.key, len) \/ f >= d)

LEMMA FindNodeStarts ==
  ASSUME NEW C, IsMap(C), NEW p \in Key, NEW len \in 0..(Depth - 1), NEW d \in Nat, NEW x, Starts(x, d, p, len, C)
  PROVE  Starts(FindNodeNext(x, p, len), d + 1, p, len, C)
<1> USE Params
<1>1. CASE IsEmpty(x.node)
  <2>1. \A f : ~Sees(x, f, p, C)
    BY <1>1 DEF Sees, Shows
  <2>2. FindNodeNext(x, p, len) = x
    BY <1>1 DEF FindNodeNext
  <2> QED
    BY <1>1, <2>1, <2>2 DEF Starts
<1>2. CASE ~IsEmpty(x.node)
  <2> DEFINE n == x.node
             po == PO(n.key, p, x.from, Depth)
             m == Fork(n.forks, po)
             y == At(m, po)
  <2>1. PICK f \in 0..len : Sees(x, f, p, C) /\ (Same(p, n.key, len) \/ f >= d)
    BY <1>2 DEF Starts
  <2>2. f \in 0..Depth /\ len \in 0..Depth /\ len \in Nat
    OBVIOUS
  <2>3. /\ po \in f..Depth /\ Same(p, n.key, po)
        /\ po < Depth =>
             /\ Parts(p, n.key, po)
             /\ po \in DOMAIN n.forks => Shows(m, po + 1, Rest(C, p, po + 1))
             /\ po \notin DOMAIN n.forks => IsEmpty(m) /\ Rest(C, p, po + 1) = {}
    BY <2>1, <2>2, SeenNext
  <2>4. x.from \in 0..len
    BY <2>1 DEF Sees
  <2>5. PO(n.key, p, x.from, len) = IF po < len THEN po ELSE len
    BY <2>2, <2>4, POUpTo
  <2>6. y.node = m /\ y.from = po
    BY DEF At
  <2> HIDE DEF n, po, m, y
  <2>7. CASE po < len
    <3>1. FindNodeNext(x, p, len) = y
      BY <1>2, <2>5, <2>7, <2>2 DEF FindNodeNext, n, m, y
    <3>2. po + 1 \in 0..len /\ po \in 0..(po + 1) /\ po + 1 \in Nat /\ po \in Nat /\ po + 1 <= len /\ po < Depth
      BY <2>2, <2>3, <2>7
    <3>3. CASE po \in DOMAIN n.forks
      <4>1. Sees(y, po + 1, p, C)
        BY <2>3, <2>6, <3>2, <3>3 DEF Sees
      <4>2. ~Same(p, n.key, len)
        BY <2>2, <2>3, <2>7, <3>2, PartsOnce
      <4>3. po + 1 >= d + 1
        BY <2>1, <2>3, <4>2, <3>2
      <4> QED
        BY <3>1, <3>2, <4>1, <4>3 DEF Starts
    <3>4. CASE po \notin DOMAIN n.forks
      <4>1. \A e \in C : Same(p, e[1], len) => Same(p, e[1], po + 1)
        BY <2>2, <3>2, SameTrans
      <4>2. Rest(C, p, len) = {}
        BY <2>3, <3>2, <3>4, <4>1 DEF Rest
      <4> QED
        BY <2>3, <2>6, <3>1, <3>2, <3>4, <4>2 DEF Starts
    <3> QED
      BY <3>3, <3>4
  <2>8. CASE ~ (po < len)
    <3>1. FindNodeNext(x, p, len) = x
      BY <1>2, <2>5, <2>8 DEF FindNodeNext, n
    <3>2. po \in Nat /\ len <= po
      BY <2>2, <2>3, <2>8
    <3>3. Same(p, n.key, len)
      BY <2>2, <2>3, <3>2, SameTrans
    <3> QED
      BY <2>1, <3>1, <3>3 DEF Starts, n
  <2> QED
    BY <2>7, <2>8
<1> QED
  BY <1>1, <1>2

\* findNode() finds a node with the prefix from which all entries with the
\* prefix and the next bit of the node can be reached.
LEMMA FindNodeIs ==
  ASSUME NEW C, NEW n, Holds(n, C), NEW p \in Key, NEW len \in 0..(Depth - 1)
  PROVE  LET m == FindNode(n, p, len)
         IN  \/ m = Null /\ Rest(C, p, len) = {}
             \/ /\ m # Null /\ Same(p, m.key, len)
                /\ Shows(m, len + 1, Rest(C, m.key, len + 1))
<1> DEFINE at(d) == NodeWay(n, p, len)[d]
           S == {d \in Nat : d <= Depth => Starts(at(d), d, p, len, C)}
<1> USE Params
<1>1. IsMap(C)
  BY DEF Holds
<1>2. 0 \in S
  <2> DEFINE x == At(n, 0)
  <2>1. at(0) = x
    BY NodeWayIs
  <2>2. x.node = n /\ x.from = 0
    BY DEF At
  <2> HIDE DEF x
  <2>3. CASE n = Empty
    <3>1. IsEmpty(x.node)
      BY <2>2, <2>3 DEF IsEmpty
    <3>2. Rest(C, p, len) = {}
      BY <2>3 DEF Holds, Whole, Shows, IsEmpty, Rest
    <3>3. Starts(x, 0, p, len, C)
      BY <3>1, <3>2 DEF Starts
    <3> QED
      BY <2>1, <3>3
  <2>4. CASE n # Empty
    <3>1. Rest(C, p, 0) = C /\ 0 \in 0..len
      BY DEF Rest, Same
    <3>2. Sees(x, 0, p, C)
      BY <2>2, <2>4, <3>1 DEF Sees, Holds, Whole
    <3> QED
      BY <2>1, <3>1, <3>2 DEF Starts
  <2> QED
    BY <2>3, <2>4
<1>3. ASSUME NEW d \in Nat, d \in S PROVE d + 1 \in S
  <2> SUFFICES ASSUME d + 1 <= Depth PROVE Starts(at(d + 1), d + 1, p, len, C)
    OBVIOUS
  <2> DEFINE x == at(d)
             j == d + 1
  <2>1. Starts(x, d, p, len, C)
    BY <1>3
  <2>2. j \in 1..Depth /\ j - 1 = d
    OBVIOUS
  <2> HIDE DEF j
  <2>3. at(j) = FindNodeNext(NodeWay(n, p, len)[j - 1], p, len)
    BY <2>2, NodeWayIs, Zenon
  <2>4. at(j) = FindNodeNext(x, p, len)
    BY <2>2, <2>3, Zenon
  <2> HIDE DEF x
  <2>5. Starts(FindNodeNext(x, p, len), d + 1, p, len, C)
    BY <1>1, <2>1, FindNodeStarts
  <2> QED
    BY <2>4, <2>5 DEF j
<1> HIDE DEF S
<1>4. Depth \in S
  BY <1>2, <1>3, AllNats
<1> DEFINE x == at(Depth)
           m == FindNode(n, p, len)
<1>5. Starts(x, Depth, p, len, C)
  BY <1>4 DEF S
<1>6. m = IF IsEmpty(x.node) THEN Null ELSE x.node
  BY NodeWayIs
<1> HIDE DEF x, m
<1>7. CASE IsEmpty(x.node) /\ Rest(C, p, len) = {}
  BY <1>6, <1>7 DEF m
<1>8. CASE \E f \in 0..len : Sees(x, f, p, C) /\ (Same(p, x.node.key, len) \/ f >= Depth)
  <2>1. PICK f \in 0..len : Sees(x, f, p, C) /\ (Same(p, x.node.key, len) \/ f >= Depth)
    BY <1>8
  <2>2. Shows(x.node, f, Rest(C, p, f)) /\ Same(p, x.node.key, len)
    BY <2>1 DEF Sees
  <2>3. ~IsEmpty(x.node)
    BY <2>2 DEF Shows
  <2>4. m = x.node /\ m # Null
    BY <1>6, <2>3 DEF IsEmpty
  <2> DEFINE j == len + 1
  <2>5. f \in 0..Depth /\ j \in f..Depth /\ f \in Nat /\ len \in Nat /\ f <= len /\ j \in Nat /\ len <= j
    OBVIOUS
  <2>6. IsMap(Rest(C, p, f))
    BY <1>1, RestIsMap
  <2> HIDE DEF j
  <2>7. Shows(m, j, Rest(Rest(C, p, f), m.key, j))
    BY <2>2, <2>4, <2>5, <2>6, ShowsRest
  <2>8. \A e \in C : Same(m.key, e[1], j) => Same(p, e[1], f)
    <3> SUFFICES ASSUME NEW e \in C, Same(m.key, e[1], j) PROVE Same(p, e[1], f)
      OBVIOUS
    <3>1. Same(m.key, e[1], len)
      BY <2>5, SameTrans
    <3>2. Same(p, e[1], len)
      BY <2>2, <2>4, <2>5, <3>1, SameTrans
    <3> QED
      BY <2>5, <3>2, SameTrans
  <2>9. Rest(Rest(C, p, f), m.key, j) = Rest(C, m.key, j)
    BY <2>8 DEF Rest
  <2>10. Shows(m, len + 1, Rest(C, m.key, len + 1))
    BY <2>7, <2>9 DEF j
  <2> QED
    BY <2>2, <2>4, <2>10 DEF m
<1> QED
  BY <1>5, <1>7, <1>8 DEF Starts

\* The states iterate() goes through.
WalkOf(c, pivot, last) ==
  CHOOSE state : state = [d \in 0..last |-> IF d = 0 THEN [keys |-> <<>>, calls |-> <<c>>]
                                            ELSE IterateInner(state[d - 1], pivot)]

LEMMA WalkIs ==
  ASSUME NEW top, NEW p, NEW len, NEW pivot,
         NEW n, n = FindNode(top, p, len), n # Null, NEW size, size = NewAtSize(len, n),
         NEW last \in Nat, last = size * (Depth + 1)
  PROVE  LET F == WalkOf(Call(n, len, size), pivot, last)
         IN  /\ Walks(F, last, pivot)
             /\ F[0] = State(<<>>, <<Call(n, len, size)>>)
             /\ Iterate(top, p, len, pivot) = Emitted(F[last].keys)
<1> DEFINE c == Call(n, len, size)
           start == [keys |-> <<>>, calls |-> <<c>>]
           R(d, y) == IF d = 0 THEN start ELSE IterateInner(y, pivot)
           f == WalkOf(c, pivot, last)
<1>0. Iterate(top, p, len, pivot) = Emitted(f[last].keys)
  BY Zenon DEF Iterate, WalkOf
<1> HIDE DEF c
<1>1. PICK g : Steps(g, "iterate", start, pivot, {}, last)
  BY StepsExist
<1>2. \A d \in 0..last : g[d] = R(d, g[d - 1])
  <2> TAKE d \in 0..last
  <2>1. d = 0 \/ (d # 0 /\ d \in 1..last)
    OBVIOUS
  <2> HIDE DEF start
  <2> QED
    BY <1>1, <2>1 DEF Steps, Onward
<1> HIDE DEF R
<1>3. g = [d \in 0..last |-> R(d, g[d - 1])]
  BY <1>1, <1>2 DEF Steps
<1>4. \E h : h = [d \in 0..last |-> R(d, h[d - 1])]
  BY <1>3, Zenon
<1>5. f = [d \in 0..last |-> R(d, f[d - 1])]
  BY <1>4, Zenon DEF WalkOf, R
<1> HIDE DEF f
<1>6. \A d \in 0..last : f[d] = R(d, f[d - 1])
  BY <1>5
<1>7. f[0] = State(<<>>, <<c>>)
  BY <1>6 DEF R, State
<1>8. Walks(f, last, pivot)
  <2> SUFFICES ASSUME NEW d \in 0..(last - 1) PROVE f[d + 1] = IterateInner(f[d], pivot)
    BY DEF Walks
  <2> DEFINE j == d + 1
  <2>1. j \in 0..last /\ j # 0 /\ j - 1 = d
    OBVIOUS
  <2> HIDE DEF j
  <2>2. f[j] = R(j, f[j - 1])
    BY <1>6, <2>1, Zenon
  <2>3. f[j] = IterateInner(f[d], pivot)
    BY <2>1, <2>2 DEF R
  <2> QED
    BY <2>3 DEF j
<1> QED
  BY <1>0, <1>7, <1>8 DEF f, c

\* A walk without calls has come to its end.
LEMMA WalkEnds ==
  ASSUME NEW F, NEW N \in Nat, NEW pivot, Walks(F, N, pivot), NEW t \in 0..N, NEW w, F[t] = State(w, <<>>)
  PROVE  F[N].keys = w
<1> DEFINE S == {d \in Nat : t + d <= N => F[t + d] = State(w, <<>>)}
<1>1. 0 \in S
  <2>1. t + 0 = t
    OBVIOUS
  <2> QED
    BY <2>1
<1>2. ASSUME NEW d \in Nat, d \in S PROVE d + 1 \in S
  <2> DEFINE j == t + d
  <2> SUFFICES ASSUME t + (d + 1) <= N PROVE F[t + (d + 1)] = State(w, <<>>)
    OBVIOUS
  <2>1. j \in 0..(N - 1) /\ j + 1 = t + (d + 1) /\ j <= N
    OBVIOUS
  <2>2. F[j] = State(w, <<>>)
    BY <1>2, <2>1
  <2> HIDE DEF j
  <2>3. F[j + 1] = IterateInner(F[j], pivot)
    BY <2>1 DEF Walks
  <2> DEFINE s == State(w, <<>>)
  <2>4. s.calls = <<>>
    BY DEF State
  <2> HIDE DEF s
  <2>5. IterateInner(s, pivot) = s
    BY <2>4 DEF IterateInner
  <2>6. F[j + 1] = s
    BY <2>2, <2>3, <2>5 DEF s
  <2> QED
    BY <2>1, <2>6 DEF s
<1> HIDE DEF S
<1>3. N - t \in Nat /\ t + (N - t) = N /\ t + (N - t) <= N
  OBVIOUS
<1>4. N - t \in S
  BY <1>1, <1>2, <1>3, AllNats
<1>5. F[N] = State(w, <<>>)
  BY <1>3, <1>4 DEF S
<1> QED
  BY <1>5 DEF State

LEMMA IterateIs ==
  ASSUME NEW C, NEW n, Holds(n, C), NEW p \in Key, NEW len \in 0..(Depth - 1), NEW pivot \in Key
  PROVE  LET m == FindNode(n, p, len)
             s == Iterate(n, p, len, pivot)
         IN  \/ s = ErrNotFound /\ Rest(C, p, len) = {}
             \/ /\ ~s.error /\ Same(p, m.key, len)
                /\ <<m.key, m.val>> \in Rest(C, m.key, len + 1)
                /\ Ordered(s.keys, Rest(C, m.key, len + 1), pivot)
<1> DEFINE m == FindNode(n, p, len)
           s == Iterate(n, p, len, pivot)
           D == Rest(C, m.key, len + 1)
           size == NewAtSize(len, m)
           c == Call(m, len, size)
           K == Depth + 1
           last == size * K
           F == WalkOf(c, pivot, last)
<1> USE Params
<1>1. \/ m = Null /\ Rest(C, p, len) = {}
      \/ m # Null /\ Same(p, m.key, len) /\ Shows(m, len + 1, D)
  BY FindNodeIs
<1>2. CASE m = Null
  <2>1. s = ErrNotFound
    BY <1>2 DEF Iterate
  <2>2. m # Null => FALSE
    BY <1>2
  <2> QED
    BY <1>1, <2>1, <2>2
<1>3. CASE m # Null
  <2>1. Shows(m, len + 1, D) /\ Same(p, m.key, len)
    BY <1>1, <1>3
  <2>2. IsMap(D)
    BY RestIsMap DEF Holds
  <2>3. Good(c, D)
    <3> DEFINE j == len + 1
    <3>1. j \in 0..Depth /\ j - 1 = len /\ len \in 0..Depth /\ len # Depth
      OBVIOUS
    <3>2. Shows(m, j, D)
      BY <2>1
    <3> HIDE DEF j, D, m, size
    <3>3. NewAtSize(j - 1, m) = Cardinality(D)
      BY <3>1, <3>2, <2>2, SizeIs DEF IsMap
    <3>4. Local(m, j, D)
      BY <3>1, <3>2, ShowsLocal
    <3>5. c.node = m /\ c.at = len /\ c.size = size
      BY DEF Call
    <3> HIDE DEF c
    <3>6. size = Cardinality(D)
      BY <3>1, <3>3 DEF size
    <3> QED
      BY <2>1, <2>2, <3>1, <3>4, <3>5, <3>6 DEF Good, Local
  <2>3a. <<m.key, m.val>> \in D
    <3> DEFINE j == len + 1
    <3>1. j \in 0..Depth
      OBVIOUS
    <3>2. Shows(m, j, D)
      BY <2>1
    <3> HIDE DEF j, D, m
    <3>3. Local(m, j, D)
      BY <3>1, <3>2, ShowsLocal
    <3> QED
      BY <3>3 DEF Local
  <2>4. size = Cardinality(D) /\ size \in Nat
    <3>1. size = c.size
      BY DEF Call
    <3> HIDE DEF c, D, size
    <3> QED
      BY <3>1, <2>2, <2>3, FS_CardinalityType DEF Good, IsMap
  <2>5. K \in Nat /\ last \in Nat
    <3> HIDE DEF size
    <3> QED
      BY <2>4
  <2> HIDE DEF size
  <2>6. Walks(F, last, pivot) /\ F[0] = State(<<>>, <<c>>) /\ ~s.error /\ s.keys = F[last].keys
    <3>1. last = size * (Depth + 1) /\ size = NewAtSize(len, m)
      BY DEF size
    <3> HIDE DEF m, last
    <3>2. Walks(F, last, pivot) /\ F[0] = State(<<>>, <<c>>) /\ s = Emitted(F[last].keys)
      BY <1>3, <2>5, <3>1, WalkIs DEF m
    <3> HIDE DEF F, s, c
    <3> QED
      BY <3>2 DEF Emitted
  <2>7. c.at = len
    BY DEF Call
  <2> HIDE DEF m, s, D, F, c, last
  <2>8. Emits(F, last, pivot, <<c>>, D, Depth + 1)
    <3>1. Deep(F, last, pivot, Depth)
      BY <2>5, <2>6, WalksEmit
    <3>2. Depth - c.at <= Depth
      BY <2>7
    <3> QED
      BY <2>3, <3>1, <3>2 DEF Deep
  <2>9. last = Cardinality(D) * (Depth + 1) /\ 0 + last <= last /\ 0 \in Nat
    BY <2>4, <2>5 DEF last
  <2>10. <<c>> \o <<>> = <<c>> /\ <<>> \in Seq(Key) /\ IsSeq(<<>>)
    <3>1. <<c>> \in Seq({c}) /\ <<>> \in Seq(Key)
      OBVIOUS
    <3> QED
      BY <3>1, ConcatEmptySeq, SeqOne
  <2>11. Ends(F, 0, last, pivot, <<>>, D, <<>>)
    BY <2>6, <2>8, <2>9, <2>10, EmitsUse
  <2>12. PICK t \in Nat : \E w : t <= last /\ Ordered(w, D, pivot) /\ F[0 + t] = State(<<>> \o w, <<>>)
    BY <2>11 DEF Ends
  <2>13. PICK w : t <= last /\ Ordered(w, D, pivot) /\ F[0 + t] = State(<<>> \o w, <<>>)
    BY <2>12
  <2>14. <<>> \o w = w
    <3>1. w \in Seq(Key)
      BY <2>13 DEF Ordered
    <3> QED
      BY <3>1, ConcatEmptySeq
  <2>15. t \in 0..last /\ 0 + t = t
    BY <2>5, <2>13
  <2>16. F[t] = State(w, <<>>)
    BY <2>13, <2>14, <2>15
  <2>17. F[last].keys = w
    BY <2>5, <2>6, <2>15, <2>16, WalkEnds
  <2> QED
    BY <2>1, <2>3a, <2>6, <2>13, <2>17 DEF m, s, D
<1> QED
  BY <1>2, <1>3

LEMMA OrderedIs ==
  ASSUME NEW w, NEW D, NEW pivot, Ordered(w, D, pivot)
  PROVE  LET found == {w[i] : i \in DOMAIN w}
         IN  /\ Cardinality(found) = Len(w)
             /\ \A k : k \in found <=> \E e \in D : e[1] = k
             /\ \A i, j \in DOMAIN w : i < j => Near(w[i], pivot) >= Near(w[j], pivot)
<1> DEFINE found == {w[i] : i \in DOMAIN w}
<1>1. w \in Seq(Key) /\ DOMAIN w = 1..Len(w) /\ Len(w) \in Nat
  BY LenProperties DEF Ordered
<1>2. /\ \A i \in 1..Len(w) : \E e \in D : e[1] = w[i]
      /\ \A e \in D : \E i \in 1..Len(w) : w[i] = e[1]
      /\ \A i, j \in 1..Len(w) : i < j => w[i] # w[j] /\ Near(w[i], pivot) >= Near(w[j], pivot)
  BY DEF Ordered
<1>3. \A k : k \in found <=> \E i \in 1..Len(w) : w[i] = k
  BY <1>1
<1> HIDE DEF found
<1> DEFINE I == 1..Len(w)
           g == [i \in I |-> w[i]]
<1>4. g \in [I -> found] /\ \A k \in found : \E i \in I : g[i] = k
  BY <1>3
<1>5. ASSUME NEW i \in I, NEW j \in I, g[i] = g[j] PROVE i = j
  <2>1. w[i] = w[j]
    BY <1>5
  <2>2. i < j \/ j < i \/ i = j
    OBVIOUS
  <2> QED
    BY <1>2, <2>1, <2>2
<1>6. IsFiniteSet(I) /\ Cardinality(I) = Len(w)
  BY <1>1, FS_Interval
<1> HIDE DEF g, I
<1>7. g \in Injection(I, found) /\ g \in Surjection(I, found)
  BY <1>4, <1>5 DEF Injection, Surjection, IsInjective
<1>8. g \in Bijection(I, found)
  BY <1>7 DEF Bijection
<1>9. Cardinality(found) = Len(w)
  BY <1>6, <1>8, FS_Bijection DEF ExistsBijection
<1>10. \A k : k \in found <=> \E e \in D : e[1] = k
  BY <1>2, <1>3
<1>11. \A i, j \in DOMAIN w : i < j => Near(w[i], pivot) >= Near(w[j], pivot)
  BY <1>1, <1>2
<1> QED
  BY <1>9, <1>10, <1>11 DEF found

-----------------------------------------------------------------------------
(* The trie and its callers.                                               *)

\* The map the callers have in mind, as entries.
Entries(f) == {<<k, f[k]>> : k \in DOMAIN f}

\* The map the trie should be.
Kept == [k \in Held |-> kv[k]]

\* The inductive invariant: nodes that are packed are nodes of the trie, and
\* the trie is one that every operation leaves whole.
TrieInv ==
  /\ DOMAIN kv \subseteq Key
  /\ \A k \in DOMAIN kv : kv[k] \in Value
  /\ lost \subseteq DOMAIN kv
  /\ packed \subseteq Held
  /\ Holds(trie, Entries(Kept))

LEMMA KeptIs == DOMAIN Kept = Held /\ Held \subseteq DOMAIN kv /\ \A k \in Held : Kept[k] = kv[k]
BY DEF Kept, Held

LEMMA EntriesIs ==
  ASSUME NEW f
  PROVE  /\ \A k, v : <<k, v>> \in Entries(f) <=> (k \in DOMAIN f /\ v = f[k])
         /\ \A e \in Entries(f) : e[1] \in DOMAIN f /\ e = <<e[1], f[e[1]]>>
BY DEF Entries

LEMMA TrieInitInv == TrieInit => TrieInv
<1> SUFFICES ASSUME TrieInit PROVE TrieInv
  OBVIOUS
<1>1. trie = Empty /\ packed = {} /\ DOMAIN kv = {} /\ lost = {}
  BY DEF TrieInit, NoEntries
<1>2. Entries(Kept) = {}
  BY <1>1 DEF Entries, Kept, Held
<1>3. IsMap({})
  BY FS_EmptySet DEF IsMap
<1> QED
  BY <1>1, <1>2, <1>3 DEF TrieInv, Holds

\* Current() is what the entries say.
LEMMA CurrentIs ==
  ASSUME TrieInv, NEW k \in Key, NEW v \in Value \cup {NoValue}
  PROVE  /\ v = Current(k) <=> With(Entries(Kept), k, v) = Entries(Kept)
         /\ k \in Held <=> \E e \in Entries(Kept) : e[1] = k
<1> DEFINE C == Entries(Kept)
<1>1. \A j, w : <<j, w>> \in C <=> (j \in Held /\ w = kv[j])
  BY EntriesIs, KeptIs
<1>2. \A e \in C : e[1] \in Held /\ e = <<e[1], kv[e[1]]>>
  BY EntriesIs, KeptIs
<1>3. \A j \in Held : kv[j] # NoValue
  BY KeptIs, NoValueAssumption DEF TrieInv
<1> HIDE DEF C
<1>4. k \in Held <=> \E e \in C : e[1] = k
  <2>1. <<k, kv[k]>>[1] = k
    OBVIOUS
  <2> QED
    BY <2>1, <1>1, <1>2
<1>5. CASE v = NoValue
  <2>1. With(C, k, v) = {e \in C : e[1] # k}
    BY <1>5 DEF With
  <2>2. v = Current(k) <=> k \notin Held
    BY <1>3, <1>5 DEF Current
  <2> QED
    BY <2>1, <2>2, <1>4 DEF C
<1>6. CASE v # NoValue
  <2>1. With(C, k, v) = {e \in C : e[1] # k} \cup {<<k, v>>}
    BY <1>6 DEF With
  <2>2. v = Current(k) <=> <<k, v>> \in C
    BY <1>1, <1>6 DEF Current
  <2>3. <<k, v>> \in C => \A e \in C : e[1] = k => e = <<k, v>>
    BY <1>1, <1>2
  <2> QED
    BY <2>1, <2>2, <2>3, <1>4 DEF C
<1> QED
  BY <1>5, <1>6

\* The entries an update leaves.
Left(C, k, v) == {e \in With(C, k, v) : e[1] \notin Dropped(k, v)}

LEMMA LeftIs ==
  ASSUME TrieInv, NEW k \in Key, NEW v \in Value \cup {NoValue}
  PROVE  LET C == Entries(Kept)
         IN  /\ ~Idle(k, v) /\ ~Blind(k, v) => Left(C, k, v) = With(C, k, v)
             /\ Idle(k, v) => Left(C, k, v) = C \ Cut(C, trie.key, 0)
             /\ Blind(k, v) => Left(C, k, v) = Blinded(trie, k, C)
<1> DEFINE C == Entries(Kept)
<1>1. C \subseteq Entry /\ IsMap(C) /\ Holds(trie, C)
  BY DEF TrieInv, Holds, IsMap
<1> HIDE DEF C
<1>2. ASSUME ~Idle(k, v), ~Blind(k, v) PROVE Left(C, k, v) = With(C, k, v)
  BY <1>2 DEF Left, Dropped
<1>3. ASSUME Idle(k, v) PROVE Left(C, k, v) = C \ Cut(C, trie.key, 0)
  <2>1. With(C, k, v) = C
    BY <1>3, CurrentIs DEF Idle, C
  <2>2. trie # Empty /\ InOtherHalf(trie, k)
    BY <1>3 DEF Idle
  <2>3. Dropped(k, v) = {j \in Key : j[0] = k[0]}
    <3>1. \A j : \A i \in 0..(0 - 1) : j[i] = k[i]
      OBVIOUS
    <3> QED
      BY <1>3, <2>2, <3>1 DEF Dropped
  <2>4. Whole(trie, C)
    BY <1>1, <2>2 DEF Holds
  <2>5. trie.key \in Key
    <3>1. <<trie.key, trie.val>> \in C
      BY <2>4, WholeStands DEF Stands
    <3> QED
      BY <3>1, <1>1 DEF Entry
  <2>6. Parts(trie.key, k, 0)
    BY <2>2, <2>5, PartsPO, Params DEF InOtherHalf
  <2>7. \A e \in C : Parts(trie.key, e[1], 0) <=> e[1][0] = k[0]
    <3> TAKE e \in C
    <3>1. e[1] \in Key
      BY <1>1 DEF Entry
    <3>2. trie.key[0] \in {0, 1} /\ e[1][0] \in {0, 1} /\ k[0] \in {0, 1} /\ trie.key[0] # k[0]
      BY <3>1, <2>5, <2>6, Params DEF Key, Parts
    <3> QED
      BY <3>2 DEF Parts, Same
  <2> QED
    BY <2>1, <2>3, <2>7, <1>1 DEF Left, Cut, Entry
<1>4. ASSUME Blind(k, v) PROVE Left(C, k, v) = Blinded(trie, k, C)
  <2> DEFINE from == Descent(Half(trie, k), k).from
             D == {j \in Key : (InOtherHalf(trie, k) => j[0] = k[0]) /\ Same(k, j, from)}
  <2>1. v = NoValue /\ k \in Held
    BY <1>4 DEF Blind
  <2>2. ~Idle(k, v)
    <3>1. v # Current(k)
      BY <2>1, NoValueAssumption, KeptIs DEF Current, TrieInv
    <3> QED
      BY <3>1 DEF Idle
  <2>3. Dropped(k, v) = D
    <3>1. Dropped(k, v) = {j \in Key : (InOtherHalf(trie, k) => j[0] = k[0]) /\ \A i \in 0..(from - 1) : j[i] = k[i]}
      BY <1>4, <2>2 DEF Dropped
    <3> HIDE DEF from
    <3>2. \A j : Same(k, j, from) <=> \A i \in 0..(from - 1) : j[i] = k[i]
      BY DEF Same
    <3> QED
      BY <3>1, <3>2
  <2>4. k \in D
    BY DEF Same
  <2>5. With(C, k, v) = {e \in C : e[1] # k}
    BY <2>1 DEF With
  <2>6. Blinded(trie, k, C) = {e \in C : e[1] \notin D}
    BY <1>1 DEF Blinded, Entry
  <2> HIDE DEF D
  <2> QED
    BY <2>3, <2>4, <2>5, <2>6 DEF Left
<1> QED
  BY <1>2, <1>3, <1>4 DEF C

\* update() makes of the trie what the callers make of their map, less what it
\* drops.
LEMMA InstallHolds ==
  ASSUME TrieInv, NEW k \in Key, NEW v \in Value \cup {NoValue}, Install(k, v)
  PROVE  Holds(trie', Left(Entries(Kept), k, v))
<1> DEFINE C == Entries(Kept)
           r == UpdateInner(trie, k, v, packed)
           m == LastOf(trie, k)
<1>1. Holds(trie, C) /\ IsMap(C)
  BY DEF TrieInv, Holds
<1>2. trie' = IF r = Null THEN trie ELSE r
  BY DEF Install
<1>3. v = Current(k) <=> With(C, k, v) = C
  BY CurrentIs
<1>4. k \in Held <=> \E e \in C : e[1] = k
  BY CurrentIs
<1>5. /\ ~Idle(k, v) /\ ~Blind(k, v) => Left(C, k, v) = With(C, k, v)
      /\ Idle(k, v) => Left(C, k, v) = C \ Cut(C, trie.key, 0)
      /\ Blind(k, v) => Left(C, k, v) = Blinded(trie, k, C)
  BY LeftIs
<1>6. IsMap(Left(C, k, v))
  <2>1. IsMap(With(C, k, v))
    BY <1>1, WithIs
  <2>2. Left(C, k, v) \subseteq With(C, k, v)
    BY DEF Left
  <2>3. IsFiniteSet(Left(C, k, v))
    BY <2>1, <2>2, FS_Subset DEF IsMap
  <2> QED
    BY <2>1, <2>2, <2>3 DEF IsMap
<1> HIDE DEF C, m
<1>7. Empty # Null /\ \A x, D : Whole(x, D) => x # Null
  BY DEF Empty, Null, Whole, Shows, IsEmpty
<1>8. CASE Idle(k, v)
  <2>1. Whole(r, C \ Cut(C, trie.key, 0))
    BY <1>1, <1>3, <1>8, IdleInner DEF Idle
  <2> HIDE DEF r
  <2> QED
    BY <2>1, <1>2, <1>5, <1>6, <1>7, <1>8 DEF Holds, C
<1>9. CASE Blind(k, v)
  <2>1. v = NoValue /\ (\E e \in C : e[1] = k) /\ ~IsEmpty(m) /\ m.key \in packed
    BY <1>4, <1>9 DEF Blind, m
  <2>2. (r = Empty /\ Blinded(trie, k, C) = {}) \/ Whole(r, Blinded(trie, k, C))
    BY <2>1, <1>1, BlindInner DEF m
  <2> HIDE DEF r
  <2> QED
    BY <2>2, <1>2, <1>5, <1>6, <1>7, <1>9 DEF Holds, C
<1>10. CASE ~Idle(k, v) /\ ~Blind(k, v)
  <2>1. (trie # Empty /\ InOtherHalf(trie, k)) => With(C, k, v) # C
    BY <1>3, <1>10 DEF Idle
  <2>2. (v = NoValue /\ \E e \in C : e[1] = k) => (~IsEmpty(m) => m.key \notin packed)
    BY <1>4, <1>10 DEF Blind, m
  <2>3. Updated(r, C, k, v)
    BY <2>1, <2>2, <1>1, UpdateInnerIs DEF m
  <2> HIDE DEF r
  <2>4. CASE r = Null /\ With(C, k, v) = C
    BY <2>4, <1>1, <1>2, <1>5, <1>10 DEF C
  <2>5. CASE (r = Empty /\ With(C, k, v) = {}) \/ Whole(r, With(C, k, v))
    BY <2>5, <1>2, <1>5, <1>6, <1>7, <1>10 DEF Holds, C
  <2> QED
    BY <2>3, <2>4, <2>5 DEF Updated
<1> QED
  BY <1>8, <1>9, <1>10

\* What Install makes of the keys that are held.
LEMMA HeldNext ==
  ASSUME TrieInv, NEW k \in Key, NEW v \in Value \cup {NoValue}, Install(k, v),
         DOMAIN kv' \subseteq DOMAIN kv \cup {k}, \A j \in DOMAIN kv : j # k => j \in DOMAIN kv' /\ kv'[j] = kv[j],
         IF v = NoValue THEN k \notin DOMAIN kv' ELSE k \in DOMAIN kv' /\ kv'[k] = v
  PROVE  /\ Entries(Kept)' = Left(Entries(Kept), k, v)
         /\ packed' \subseteq Held'
         /\ lost' \subseteq DOMAIN kv' /\ DOMAIN kv' \subseteq Key /\ \A j \in DOMAIN kv' : kv'[j] \in Value
<1> DEFINE C == Entries(Kept)
           D == Dropped(k, v)
           E == Entries(Kept)'
<1>1. lost' = ((lost \ {k}) \cup D) \cap DOMAIN kv' /\ packed' = (packed \ {n.key : n \in OnWay(trie, k)}) \ D
  BY DEF Install
<1>2. \A j, w : <<j, w>> \in C <=> (j \in Held /\ w = kv[j])
  BY EntriesIs, KeptIs
<1>3. \A e \in C : e[1] \in Held /\ e = <<e[1], kv[e[1]]>>
  BY EntriesIs, KeptIs
<1>4. E = {<<j, kv'[j]>> : j \in Held'}
  BY DEF Entries, Kept
<1>5. Held = DOMAIN kv \ lost /\ Held' = DOMAIN kv' \ lost'
  BY DEF Held
<1>6. C \subseteq Entry /\ Holds(trie, C)
  BY DEF TrieInv, Holds, IsMap
<1> HIDE DEF C, D, E
<1>7. \A j : j # k => (j \in Held' <=> j \in Held /\ j \notin D)
  BY <1>1, <1>5
<1>8. k \in Held' <=> v # NoValue /\ k \notin D
  BY <1>1, <1>5
<1>9. ASSUME NEW e \in E PROVE e \in Left(C, k, v)
  <2>1. PICK j \in Held' : e = <<j, kv'[j]>>
    BY <1>4
  <2>2. j \notin D /\ e[1] = j
    BY <2>1, <1>7, <1>8
  <2>3. CASE j = k
    BY <2>1, <2>2, <2>3, <1>8 DEF Left, With, D
  <2>4. CASE j # k
    <3>1. j \in Held /\ j \in DOMAIN kv /\ kv'[j] = kv[j]
      BY <2>4, <1>5, <1>7
    <3>2. e \in C
      BY <3>1, <2>1, <1>2
    <3> QED
      BY <3>2, <2>2, <2>4 DEF Left, With, D
  <2> QED
    BY <2>3, <2>4
<1>10. ASSUME NEW e \in Left(C, k, v) PROVE e \in E
  <2>1. e \in With(C, k, v) /\ e[1] \notin D
    BY DEF Left, D
  <2>2. CASE e \in C /\ e[1] # k
    <3>1. e[1] \in Held /\ e = <<e[1], kv[e[1]]>> /\ e[1] \in DOMAIN kv
      BY <2>2, <1>3, <1>5
    <3>2. e[1] \in Held' /\ kv'[e[1]] = kv[e[1]]
      BY <2>1, <2>2, <3>1, <1>7
    <3> QED
      BY <3>1, <3>2, <1>4
  <2>3. CASE v # NoValue /\ e = <<k, v>>
    <3>1. e[1] = k
      BY <2>3
    <3>2. k \in Held' /\ kv'[k] = v
      BY <2>1, <2>3, <3>1, <1>8
    <3> QED
      BY <2>3, <3>2, <1>4
  <2> QED
    BY <2>1, <2>2, <2>3 DEF With
<1>11. E = Left(C, k, v)
  BY <1>9, <1>10
\* the node of k is unpacked
<1>12. v = NoValue => k \notin packed'
  <2> DEFINE end == Way(trie, k)[Depth].node
  <2> SUFFICES ASSUME k \in packed PROVE k \in {n.key : n \in OnWay(trie, k)}
    BY <1>1
  <2>1. k \in Held
    BY DEF TrieInv
  <2>2. <<k, kv[k]>> \in C /\ <<k, kv[k]>>[1] = k
    BY <2>1, <1>2
  <2>3. ~IsEmpty(end) /\ end.key = k
    <3>1. \/ IsEmpty(end) /\ \A e \in C : e[1] # k
          \/ ~IsEmpty(end) /\ end.key = k /\ <<k, end.val>> \in C
      BY <1>6, FindIs
    <3> HIDE DEF end
    <3> QED
      BY <2>2, <3>1
  <2>4. end \in OnWay(trie, k)
    BY <2>3, Params DEF OnWay, IsEmpty
  <2> HIDE DEF end
  <2> QED
    BY <2>3, <2>4
<1>13. packed' \subseteq Held'
  <2> SUFFICES ASSUME NEW j \in packed' PROVE j \in Held'
    OBVIOUS
  <2>1. j \in Held /\ j \notin D
    BY <1>1 DEF TrieInv
  <2>2. j = k => v # NoValue
    BY <1>12
  <2> QED
    BY <2>1, <2>2, <1>7, <1>8
<1>14. lost' \subseteq DOMAIN kv' /\ DOMAIN kv' \subseteq Key
  BY <1>1 DEF TrieInv
<1>15. ASSUME NEW j \in DOMAIN kv' PROVE kv'[j] \in Value
  <2>1. CASE j = k
    BY <2>1
  <2>2. CASE j # k
    BY <2>2 DEF TrieInv
  <2> QED
    BY <2>1, <2>2
<1> QED
  BY <1>11, <1>13, <1>14, <1>15 DEF C, E

LEMMA PutInv ==
  ASSUME TrieInv, NEW k \in Key, NEW v \in Value, Put(k, v)
  PROVE  TrieInv'
<1>1. v # NoValue
  BY NoValueAssumption
<1>2. Install(k, v) /\ kv' = [j \in DOMAIN kv \cup {k} |-> IF j = k THEN v ELSE kv[j]]
  BY DEF Put
<1>3. DOMAIN kv' = DOMAIN kv \cup {k} /\ kv'[k] = v /\ \A j \in DOMAIN kv : j # k => kv'[j] = kv[j]
  BY <1>2
<1>4. Holds(trie', Left(Entries(Kept), k, v))
  BY <1>2, InstallHolds
<1>5. /\ Entries(Kept)' = Left(Entries(Kept), k, v)
      /\ packed' \subseteq Held'
      /\ lost' \subseteq DOMAIN kv' /\ DOMAIN kv' \subseteq Key /\ \A j \in DOMAIN kv' : kv'[j] \in Value
  BY <1>1, <1>2, <1>3, HeldNext
<1> QED
  BY <1>4, <1>5 DEF TrieInv

LEMMA DeleteInv ==
  ASSUME TrieInv, NEW k \in Key, Delete(k)
  PROVE  TrieInv'
<1>1. Install(k, NoValue) /\ kv' = [j \in DOMAIN kv \ {k} |-> kv[j]]
  BY DEF Delete
<1>2. DOMAIN kv' = DOMAIN kv \ {k} /\ \A j \in DOMAIN kv : j # k => kv'[j] = kv[j]
  BY <1>1
<1>3. Holds(trie', Left(Entries(Kept), k, NoValue))
  BY <1>1, InstallHolds
<1>4. /\ Entries(Kept)' = Left(Entries(Kept), k, NoValue)
      /\ packed' \subseteq Held'
      /\ lost' \subseteq DOMAIN kv' /\ DOMAIN kv' \subseteq Key /\ \A j \in DOMAIN kv' : kv'[j] \in Value
  BY <1>1, <1>2, HeldNext
<1> QED
  BY <1>3, <1>4 DEF TrieInv

LEMMA LookupInv ==
  ASSUME TrieInv, NEW k \in Key, Lookup(k)
  PROVE  TrieInv'
<1>1. trie' = trie /\ kv' = kv /\ lost' = lost /\ packed' \subseteq packed
  BY DEF Lookup, Unpack
<1>2. Held' = Held /\ Entries(Kept)' = Entries(Kept)
  BY <1>1 DEF Held, Kept, Entries
<1> QED
  BY <1>1, <1>2 DEF TrieInv

LEMMA SaveAndLoadInv ==
  ASSUME TrieInv, SaveAndLoad
  PROVE  TrieInv'
<1>1. /\ trie' = trie /\ kv' = kv /\ lost' = lost /\ trie # Empty
      /\ packed' \subseteq {x.node.key : x \in Below(trie, 0)}
  BY DEF SaveAndLoad, ReadFromReference
<1>2. Contents(trie, 0) = Entries(Kept)
  BY <1>1 DEF TrieInv, Holds, Whole, Shows
<1>3. \A x \in Below(trie, 0) : <<x.node.key, x.node.val>> \in Entries(Kept)
  BY <1>2 DEF Contents
<1>4. \A x \in Below(trie, 0) : x.node.key \in Held
  BY <1>3, EntriesIs, KeptIs
<1>5. Held' = Held /\ Entries(Kept)' = Entries(Kept)
  BY <1>1 DEF Held, Kept, Entries
<1>6. packed' \subseteq Held
  BY <1>1, <1>4
<1> QED
  BY <1>1, <1>5, <1>6 DEF TrieInv

\* The inductive invariant, for keys of any length, any values, any updates, and
\* tries that keep the forks out of reach as well as tries that drop them.
THEOREM TrieInvariant == TrieSpec => []TrieInv
<1>1. TrieInit => TrieInv
  BY TrieInitInv
<1>2. TrieInv /\ [TrieNext]_potVars => TrieInv'
  <2> SUFFICES ASSUME TrieInv, [TrieNext]_potVars PROVE TrieInv'
    OBVIOUS
  <2>1. CASE \E k \in Key, v \in Value : Put(k, v)
    BY <2>1, PutInv
  <2>2. CASE \E k \in Key : Delete(k)
    BY <2>2, DeleteInv
  <2>3. CASE \E k \in Key : Lookup(k)
    BY <2>3, LookupInv
  <2>4. CASE SaveAndLoad
    BY <2>4, SaveAndLoadInv
  <2>5. CASE UNCHANGED potVars
    BY <2>5 DEF potVars, TrieInv, Kept, Held
  <2> QED
    BY <2>1, <2>2, <2>3, <2>4, <2>5 DEF TrieNext
<1> QED
  BY <1>1, <1>2, PTL DEF TrieSpec

LEMMA EmptyShows ==
  ASSUME NEW n, IsEmpty(n)
  PROVE  WellFormed(n, 0) /\ SizesAgree(n, 0) /\ Contents(n, 0) = {}
<1>1. Below(n, 0) = {}
  BY DEF Below
<1> QED
  BY <1>1 DEF WellFormed, SizesAgree, Contents

\* Every fork leads to the entries that part there from its node, and keeps
\* their number (newAt, append, wedge, whirl and whack of ops.ts, and pull).
THEOREM NodesAreSound == TrieSpec => []NodesSound
<1>1. TrieInv => NodesSound
  <2> SUFFICES ASSUME TrieInv PROVE NodesSound
    OBVIOUS
  <2>1. WellFormed(trie, 0) /\ SizesAgree(trie, 0)
    <3>1. CASE trie = Empty
      BY <3>1, EmptyShows DEF IsEmpty
    <3>2. CASE trie # Empty
      BY <3>2 DEF TrieInv, Holds, Whole, Shows
    <3> QED
      BY <3>1, <3>2
  <2> QED
    BY <2>1 DEF NodesSound, TrieTypeOK, TrieInv
<1> QED
  BY <1>1, TrieInvariant, PTL

LEMMA EntriesCount ==
  ASSUME NEW f, IsFiniteSet(Entries(f))
  PROVE  Cardinality(Entries(f)) = Cardinality(DOMAIN f)
<1> DEFINE g == [k \in DOMAIN f |-> <<k, f[k]>>]
<1>1. g \in [DOMAIN f -> Entries(f)]
  BY DEF Entries
<1>2. IsInjective(g)
  BY DEF IsInjective
<1>3. \A e \in Entries(f) : \E k \in DOMAIN f : g[k] = e
  BY DEF Entries
<1> HIDE DEF g
<1>4. g \in Injection(DOMAIN f, Entries(f)) /\ g \in Surjection(DOMAIN f, Entries(f))
  BY <1>1, <1>2, <1>3 DEF Injection, Surjection
<1> QED
  BY <1>4, FS_Injection

\* The trie is the map its callers have in mind, less what idle updates and
\* blind deletions dropped: it has each of its entries once and counted once,
\* and find() gets at each (update and find of pot.ts and ops.ts).
THEOREM TrieStaysMap == TrieSpec => []TrieIsMap
<1>1. TrieInv => TrieIsMap
  <2> SUFFICES ASSUME TrieInv PROVE TrieIsMap
    OBVIOUS
  <2> DEFINE C == Entries(Kept)
  <2>1. Holds(trie, C) /\ IsMap(C)
    BY DEF TrieInv, Holds
  <2>2. Contents(trie, 0) = C
    <3>1. CASE trie = Empty
      BY <3>1, <2>1, EmptyShows DEF IsEmpty, Holds, Whole, Shows
    <3>2. CASE trie # Empty
      BY <3>2, <2>1 DEF Holds, Whole, Shows
    <3> QED
      BY <3>1, <3>2
  <2>3. trie # Empty => NewAtSize(-1, trie) = Cardinality(Held)
    <3> SUFFICES ASSUME trie # Empty PROVE NewAtSize(-1, trie) = Cardinality(Held)
      OBVIOUS
    <3>1. Cardinality(C) = Cardinality(Held)
      BY <2>1, EntriesCount, KeptIs DEF IsMap
    <3> HIDE DEF C
    <3>2. Shows(trie, 0, C) /\ C \subseteq Entry /\ IsFiniteSet(C)
      BY <2>1 DEF Holds, Whole, IsMap
    <3>3. NewAtSize(0 - 1, trie) = Cardinality(C)
      BY <3>2, SizeIs, Params
    <3>4. 0 - 1 = -1
      OBVIOUS
    <3> QED
      BY <3>1, <3>3, <3>4
  <2>4. ASSUME NEW k \in Key PROVE Find(trie, k) = Current(k)
    <3> DEFINE end == Way(trie, k)[Depth].node
    <3>0. \A v : <<k, v>> \in C <=> (k \in Held /\ v = kv[k])
      BY EntriesIs, KeptIs
    <3> HIDE DEF C
    <3>1. \/ IsEmpty(end) /\ \A e \in C : e[1] # k
          \/ ~IsEmpty(end) /\ end.key = k /\ <<k, end.val>> \in C
      BY <2>1, FindIs
    <3>2. Find(trie, k) = IF IsEmpty(end) THEN NoValue ELSE end.val
      BY DEF Find
    <3> HIDE DEF end
    <3>3. CASE IsEmpty(end) /\ \A e \in C : e[1] # k
      <4>1. <<k, kv[k]>> \notin C
        BY <3>3
      <4>2. k \notin Held
        BY <4>1, <3>0
      <4> QED
        BY <3>2, <3>3, <4>2 DEF Current
    <3>4. CASE ~IsEmpty(end) /\ <<k, end.val>> \in C
      <4>1. k \in Held /\ end.val = kv[k]
        BY <3>4, <3>0
      <4> QED
        BY <3>2, <3>4, <4>1 DEF Current
    <3> QED
      BY <3>1, <3>3, <3>4
  <2>5. C = {<<k, kv[k]>> : k \in Held}
    BY KeptIs DEF Entries
  <2>6. ContentsAgree
    BY <2>2, <2>3, <2>5 DEF ContentsAgree
  <2> QED
    BY <2>4, <2>6 DEF TrieIsMap, FindAgrees
<1> QED
  BY <1>1, TrieInvariant, PTL

\* iterate() fails exactly when nothing has the prefix.  It visits entries with
\* the prefix, each once, the closest to the pivot first, and all that agree in
\* the bit behind the prefix with one it visits.
THEOREM IterationStaysOrdered == TrieSpec => []IterateOrdered
<1>1. TrieInv => IterateOrdered
  <2> DEFINE C == Entries(Kept)
  <2> SUFFICES ASSUME TrieInv, NEW len \in 0..(Depth - 1), NEW p \in Prefix(len), NEW pivot \in Key
               PROVE  LET s     == Iterate(trie, p, len, pivot)
                          found == KeysOf(s.keys)
                      IN  /\ s.error <=> HeldWith(p, len) = {}
                          /\ ~s.error => found # {}
                          /\ found \subseteq HeldWith(p, len)
                          /\ \A k \in found : {j \in HeldWith(p, len) : j[len] = k[len]} \subseteq found
                          /\ Cardinality(found) = Len(s.keys)
                          /\ \A i, j \in DOMAIN s.keys :
                               i < j => PO(s.keys[i], pivot, 0, Depth) >= PO(s.keys[j], pivot, 0, Depth)
    BY DEF IterateOrdered
  <2> DEFINE s == Iterate(trie, p, len, pivot)
             found == KeysOf(s.keys)
             start == FindNode(trie, p, len)
             held == HeldWith(p, len)
  <2>1. Holds(trie, C) /\ p \in Key
    BY DEF TrieInv, Prefix
  <2>2. \/ s = ErrNotFound /\ Rest(C, p, len) = {}
        \/ /\ ~s.error /\ Same(p, start.key, len)
           /\ <<start.key, start.val>> \in Rest(C, start.key, len + 1)
           /\ Ordered(s.keys, Rest(C, start.key, len + 1), pivot)
    BY <2>1, IterateIs
  <2>3. \A k : k \in held <=> (k \in Held /\ Same(p, k, len))
    BY DEF HeldWith, Prefixed, Same
  <2>4. \A k \in Held : <<k, kv[k]>> \in C /\ <<k, kv[k]>>[1] = k
    BY EntriesIs, KeptIs
  <2>5. \A e \in C : e[1] \in Held
    BY EntriesIs, KeptIs
  <2>6. found = {s.keys[i] : i \in DOMAIN s.keys}
    BY DEF KeysOf
  <2> HIDE DEF C, s, start, held, found
  <2>7. CASE s = ErrNotFound /\ Rest(C, p, len) = {}
    <3>1. s.error /\ s.keys = <<>>
      BY <2>7 DEF ErrNotFound
    <3>2. DOMAIN s.keys = {} /\ Len(s.keys) = 0
      BY <3>1
    <3>3. held = {}
      BY <2>3, <2>4, <2>7 DEF Rest
    <3>4. found = {}
      BY <3>2, <2>6
    <3>5. Cardinality(found) = 0
      BY <3>4, FS_EmptySet
    <3> QED
      BY <3>1, <3>2, <3>3, <3>4, <3>5 DEF s, found, held
  <2>8. CASE /\ ~s.error /\ Same(p, start.key, len)
             /\ <<start.key, start.val>> \in Rest(C, start.key, len + 1)
             /\ Ordered(s.keys, Rest(C, start.key, len + 1), pivot)
    <3> DEFINE D == Rest(C, start.key, len + 1)
    <3>1. /\ Cardinality(found) = Len(s.keys)
          /\ \A k : k \in found <=> \E e \in D : e[1] = k
          /\ \A i, j \in DOMAIN s.keys : i < j => Near(s.keys[i], pivot) >= Near(s.keys[j], pivot)
      <4>1. Ordered(s.keys, D, pivot)
        BY <2>8
      <4> HIDE DEF D
      <4>2. LET w == {s.keys[i] : i \in DOMAIN s.keys}
            IN  /\ Cardinality(w) = Len(s.keys)
                /\ \A k : k \in w <=> \E e \in D : e[1] = k
                /\ \A i, j \in DOMAIN s.keys : i < j => Near(s.keys[i], pivot) >= Near(s.keys[j], pivot)
        BY <4>1, OrderedIs, Zenon
      <4> QED
        BY <2>6, <4>2, Zenon DEF D
    <3>2. \A k : Same(start.key, k, len + 1) <=> (Same(p, k, len) /\ k[len] = start.key[len])
      <4> TAKE k
      <4>1. len \in Nat
        OBVIOUS
      <4>2. Same(start.key, k, len + 1) <=> (Same(start.key, k, len) /\ ~Parts(start.key, k, len))
        BY <4>1, SameNext
      <4>3. Same(start.key, k, len + 1) <=> (Same(start.key, k, len) /\ start.key[len] = k[len])
        BY <4>2, Zenon DEF Parts
      <4>4. Same(start.key, k, len) <=> Same(p, k, len)
        BY <2>8, <4>1, SameTrans
      <4> QED
        BY <4>3, <4>4
    <3>3. \A k : k \in found <=> (k \in held /\ k[len] = start.key[len])
      <4>1. \A k : (\E e \in D : e[1] = k) <=> (k \in Held /\ Same(start.key, k, len + 1))
        BY <2>4, <2>5 DEF Rest
      <4> QED
        BY <3>1, <3>2, <4>1, <2>3
    <3>4. start.key \in found
      <4>1. <<start.key, start.val>> \in D /\ <<start.key, start.val>>[1] = start.key
        BY <2>8
      <4> HIDE DEF D
      <4> QED
        BY <3>1, <4>1
    <3>5. held # {} /\ found # {} /\ found \subseteq held
      BY <3>3, <3>4
    <3>6. \A k \in found : {j \in held : j[len] = k[len]} \subseteq found
      BY <3>3
    <3> QED
      BY <2>8, <3>1, <3>5, <3>6 DEF s, found, held, Near
  <2> QED
    BY <2>2, <2>7, <2>8
<1> QED
  BY <1>1, TrieInvariant, PTL

-----------------------------------------------------------------------------
(* Concurrent updates: the mutex makes the updates of an Index atomic, for *)
(* any number of updates and saves.  None is lost, the roots of Index and  *)
(* SwarmPot agree and a saved reference holds what was done before.        *)
(*                                                                         *)
(* IndexInv is inductive.  What it adds to the properties says that only   *)
(* the head of the mutex is under way (MutexInv), so that the root it read *)
(* is still the root when it replaces it (BaseIsRoot, FreshIsNext).        *)

\* Appending an update adds it to those that made the root.
LEMMA ElementsAppend ==
  ASSUME NEW S, NEW s \in Seq(S), NEW e \in S
  PROVE  Elements(Append(s, e)) = Elements(s) \cup {e}
<1>1. DOMAIN Append(s, e) = 1..(Len(s) + 1) /\ DOMAIN s = 1..Len(s) /\ Len(s) \in Nat
  OBVIOUS
<1>2. \A i \in DOMAIN s : Append(s, e)[i] = s[i]
  OBVIOUS
<1>3. Append(s, e)[Len(s) + 1] = e
  OBVIOUS
<1>4. DOMAIN Append(s, e) = DOMAIN s \cup {Len(s) + 1}
  BY <1>1
<1> QED
  BY <1>2, <1>3, <1>4 DEF Elements

\* A sequence whose elements are in T is a sequence over T.
LEMMA SeqOver ==
  ASSUME NEW S, NEW T, NEW s \in Seq(S), \A i \in DOMAIN s : s[i] \in T
  PROVE  s \in Seq(T)
<1>1. Len(s) \in Nat /\ DOMAIN s = 1..Len(s) /\ s = [i \in 1..Len(s) |-> s[i]]
  OBVIOUS
<1> QED
  BY <1>1

\* What the steps of an update that keeps the mutex leave in order.
LEMMA StayInMutex ==
  ASSUME TypeOK, MutexInv, NEW u \in Update, NEW to \in InMutex,
         pc[u] \in InMutex, Moves(u, to), UNCHANGED chain, to \in Holding => MyTurn(u)
  PROVE  /\ chain' \in Seq({v \in Update : pc'[v] \in InMutex})
         /\ MutexInv'
<1>1. \A v \in Update : pc'[v] \in InMutex <=> pc[v] \in InMutex
  BY DEF TypeOK, Moves
<1>2. {v \in Update : pc'[v] \in InMutex} = {v \in Update : pc[v] \in InMutex}
  BY <1>1
<1>3. chain' \in Seq({v \in Update : pc'[v] \in InMutex})
  BY <1>2 DEF TypeOK
<1>4. \A v \in Update : pc'[v] \in Holding => v = Head(chain')
  BY DEF TypeOK, MutexInv, MyTurn, Moves
<1> QED
  BY <1>2, <1>3, <1>4 DEF MutexInv, Elements

\* An update that is under way leaves the mutex to the next one.
LEMMA LeaveMutex ==
  ASSUME TypeOK, MutexInv, NEW u \in Update, NEW to \in Ended,
         pc[u] \in Holding, Moves(u, to), Release
  PROVE  /\ chain' \in Seq({v \in Update : pc'[v] \in InMutex})
         /\ MutexInv'
<1> DEFINE Busy == {v \in Update : pc[v] \in InMutex}
<1>1. chain \in Seq(Busy) /\ u = Head(chain) /\ u \in Elements(chain)
  BY DEF TypeOK, MutexInv, InMutex
<1>2. chain # <<>> /\ chain[1] = u /\ Len(chain) \in Nat \ {0}
  BY <1>1 DEF Elements
<1>3. /\ chain' \in Seq(Busy)
      /\ DOMAIN chain' = 1..(Len(chain) - 1)
      /\ \A i \in DOMAIN chain' : chain'[i] = chain[i + 1] /\ i + 1 \in DOMAIN chain
  BY <1>1, <1>2 DEF Release
<1>4. \A i \in DOMAIN chain' : chain'[i] # u
  <2>1. \A i \in DOMAIN chain' : i + 1 # 1 /\ i + 1 \in DOMAIN chain /\ 1 \in DOMAIN chain
    BY <1>2, <1>3
  <2> QED
    BY <1>2, <1>3, <2>1 DEF MutexInv
<1>5. \A v \in Update : pc'[v] = IF v = u THEN to ELSE pc[v]
  BY DEF TypeOK, Moves
<1>6. to \notin InMutex
  BY DEF Ended, InMutex, Holding
<1>7. {v \in Update : pc'[v] \in InMutex} = Busy \ {u}
  BY <1>5, <1>6
<1>8. \A i \in DOMAIN chain' : chain'[i] \in Busy \ {u}
  BY <1>3, <1>4
<1>9. chain' \in Seq({v \in Update : pc'[v] \in InMutex})
  BY <1>3, <1>7, <1>8, SeqOver
<1>10. Busy \ {u} \subseteq Elements(chain')
  <2> SUFFICES ASSUME NEW v \in Busy, v # u PROVE v \in Elements(chain')
    OBVIOUS
  <2>1. PICK i \in DOMAIN chain : chain[i] = v
    BY DEF MutexInv, Elements
  <2>2. i \in 2..Len(chain)
    BY <1>1, <1>2, <2>1
  <2>3. i - 1 \in DOMAIN chain' /\ (i - 1) + 1 = i
    BY <1>2, <1>3, <2>2
  <2> QED
    BY <1>3, <2>1, <2>3 DEF Elements
<1>11. \A i, j \in DOMAIN chain' : chain'[i] = chain'[j] => i = j
  <2> SUFFICES ASSUME NEW i \in DOMAIN chain', NEW j \in DOMAIN chain', chain'[i] = chain'[j]
               PROVE  i = j
    OBVIOUS
  <2>1. i + 1 = j + 1
    BY <1>3 DEF MutexInv
  <2> QED
    BY <1>2, <1>3, <2>1
<1>12. \A v \in Update : pc'[v] \notin Holding
  <2>1. \A v \in Update : pc[v] \in Holding => v = u
    BY <1>1 DEF MutexInv
  <2> QED
    BY <1>5, <1>6, <2>1 DEF InMutex
<1> QED
  BY <1>7, <1>9, <1>10, <1>11, <1>12 DEF MutexInv

-----------------------------------------------------------------------------
(* The steps of an update.                                                 *)

\* The roots a save may return hold every change that was made.
LEMMA ChangesInModeRoot ==
  ASSUME IndexInv
  PROVE  Changes \subseteq Elements(modeRoot.log)
<1>1. CASE \A u \in Update : pc[u] # "switching"
  BY <1>1 DEF IndexInv, NoUpdateLost, RootsAgree
<1>2. CASE \E u \in Update : pc[u] = "switching"
  <2>1. PICK u \in Update : pc[u] = "switching"
    BY <1>2
  <2>2. modeRoot.log = Append(root.log, u) /\ root.log \in Seq(Update)
    BY <2>1 DEF IndexInv, FreshIsNext, TypeOK, Root
  <2> QED
    BY <2>2, ElementsAppend DEF IndexInv, NoUpdateLost
<1> QED
  BY <1>1, <1>2

\* A call that moves without being done changes nothing that was done.
LEMMA ChangesStay ==
  ASSUME TypeOK, NEW c \in Update \cup Save, NEW to, Moves(c, to),
         pc[c] # "changed", to # "changed"
  PROVE  Changes' = Changes
BY DEF TypeOK, Moves, Changes

\* An update waits in the mutex, or is rejected.
LEMMA CallUpdateKeeps ==
  ASSUME IndexInv, NEW u \in Update, CallUpdate(u)
  PROVE  IndexInv'
<1> USE DEF CallUpdate
<1>1. TypeOK /\ MutexInv
  BY DEF IndexInv
<1>2. PICK to \in {"rejected", "waiting"} : Moves(u, to)
  OBVIOUS
<1>3. /\ \A v \in Update \cup Save : pc'[v] = IF v = u THEN to ELSE pc[v]
      /\ pc' \in [Update \cup Save -> {"idle", "saving"} \cup InMutex \cup Ended]
  BY <1>1, <1>2 DEF TypeOK, Moves, Ended, InMutex
<1>4. chain' \in Seq({v \in Update : pc'[v] \in InMutex}) /\ MutexInv'
  <2> DEFINE Busy == {v \in Update : pc[v] \in InMutex}
  <2>1. chain \in Seq(Busy) /\ u \notin Busy /\ Len(chain) \in Nat
    BY <1>1 DEF TypeOK, InMutex, Holding
  <2>2. \A v \in Update : pc'[v] \in Holding => v # u /\ pc[v] \in Holding
    BY <1>3 DEF Holding
  <2>3. CASE closed
    <3>1. chain' = chain /\ pc'[u] = "rejected"
      BY <1>1, <2>3 DEF TypeOK, Moves
    <3>2. {v \in Update : pc'[v] \in InMutex} = Busy
      BY <1>3, <2>1, <3>1 DEF InMutex, Holding
    <3> QED
      BY <1>1, <2>1, <2>2, <3>1, <3>2 DEF MutexInv
  <2>4. CASE ~closed
    <3>1. chain' = Append(chain, u) /\ pc'[u] = "waiting"
      BY <1>1, <2>4 DEF TypeOK, Moves
    <3>2. {v \in Update : pc'[v] \in InMutex} = Busy \cup {u}
      BY <1>3, <2>1, <3>1 DEF InMutex
    <3>3. chain \in Seq(Busy \cup {u})
      BY <2>1, SeqOver
    <3>4. chain' \in Seq(Busy \cup {u}) /\ Elements(chain') = Elements(chain) \cup {u}
      BY <3>1, <3>3, ElementsAppend
    <3>5. /\ DOMAIN chain' = 1..(Len(chain) + 1)
          /\ \A i \in 1..Len(chain) : chain'[i] = chain[i] /\ chain[i] # u
          /\ chain'[Len(chain) + 1] = u
      BY <2>1, <3>1
    <3>6. \A i, j \in DOMAIN chain' : chain'[i] = chain'[j] => i = j
      BY <1>1, <2>1, <3>5 DEF MutexInv
    <3>7. \A v \in Update : pc'[v] \in Holding => v = Head(chain')
      <4> SUFFICES ASSUME NEW v \in Update, pc'[v] \in Holding PROVE v = Head(chain')
        OBVIOUS
      <4>1. v \in Elements(chain) /\ v = Head(chain)
        BY <1>1, <2>2 DEF MutexInv, InMutex
      <4>2. Len(chain) >= 1
        BY <2>1, <4>1 DEF Elements
      <4> QED
        BY <2>1, <3>1, <3>5, <4>1, <4>2
    <3> QED
      BY <1>1, <3>2, <3>4, <3>6, <3>7 DEF MutexInv
  <2> QED
    BY <2>3, <2>4
<1>5. Changes' = Changes
  BY <1>1, <1>2, ChangesStay
<1>6. TypeOK'
  BY <1>1, <1>3, <1>4 DEF TypeOK
<1>7. BaseIsRoot' /\ FreshIsNext'
  BY <1>3 DEF IndexInv, BaseIsRoot, FreshIsNext, Holding
<1>8. BeforeIsDone' /\ NoUpdateLost' /\ SaveIsFresh'
  BY <1>3, <1>5, PotIndexAssumption DEF IndexInv, BeforeIsDone, NoUpdateLost, SaveIsFresh, Elements
<1>9. RootsAgree'
  BY <1>3 DEF IndexInv, RootsAgree, TypeOK
<1> QED
  BY <1>4, <1>6, <1>7, <1>8, <1>9 DEF IndexInv

\* The head of the mutex reads the root.
LEMMA EnterKeeps ==
  ASSUME IndexInv, NEW u \in Update, Enter(u)
  PROVE  IndexInv'
<1> USE DEF Enter
<1>1. TypeOK /\ MutexInv
  BY DEF IndexInv
<1>2. "computing" \in InMutex /\ pc[u] \in InMutex
  BY DEF InMutex, Holding
<1>3. chain' \in Seq({v \in Update : pc'[v] \in InMutex}) /\ MutexInv'
  BY <1>1, <1>2, StayInMutex
<1>4. /\ \A v \in Update \cup Save : pc'[v] = IF v = u THEN "computing" ELSE pc[v]
      /\ pc' \in [Update \cup Save -> {"idle", "saving"} \cup InMutex \cup Ended]
  BY <1>1, <1>2 DEF TypeOK, Moves
<1>5. Changes' = Changes
  BY <1>1, ChangesStay
<1>6. TypeOK'
  BY <1>1, <1>3, <1>4 DEF TypeOK
<1>7. BaseIsRoot' /\ FreshIsNext'
  BY <1>1, <1>4 DEF IndexInv, BaseIsRoot, FreshIsNext, TypeOK
<1>8. BeforeIsDone' /\ NoUpdateLost' /\ SaveIsFresh'
  BY <1>4, <1>5, PotIndexAssumption DEF IndexInv, BeforeIsDone, NoUpdateLost, SaveIsFresh, Elements
<1>9. RootsAgree'
  BY <1>4 DEF IndexInv, RootsAgree, TypeOK
<1> QED
  BY <1>3, <1>6, <1>7, <1>8, <1>9 DEF IndexInv

\* An update that ends without a change leaves the roots as they are.
LEMMA EndUnchangedKeeps ==
  ASSUME IndexInv, NEW u \in Update, NEW to \in {"unchanged", "failed"},
         pc[u] = "computing", Moves(u, to), Release,
         UNCHANGED <<base, fresh, root, modeRoot, closed, before, saved>>
  PROVE  IndexInv'
<1>1. TypeOK /\ MutexInv
  BY DEF IndexInv
<1>2. to \in Ended /\ pc[u] \in Holding
  BY DEF Ended, Holding
<1>3. chain' \in Seq({v \in Update : pc'[v] \in InMutex}) /\ MutexInv'
  BY <1>1, <1>2, LeaveMutex
<1>4. /\ \A v \in Update \cup Save : pc'[v] = IF v = u THEN to ELSE pc[v]
      /\ pc' \in [Update \cup Save -> {"idle", "saving"} \cup InMutex \cup Ended]
  BY <1>1, <1>2 DEF TypeOK, Moves
<1>5. Changes' = Changes
  BY <1>1, ChangesStay
<1>6. TypeOK'
  BY <1>1, <1>3, <1>4 DEF TypeOK
<1>7. BaseIsRoot' /\ FreshIsNext'
  BY <1>4 DEF IndexInv, BaseIsRoot, FreshIsNext, Holding
<1>8. BeforeIsDone' /\ NoUpdateLost' /\ SaveIsFresh'
  BY <1>4, <1>5, PotIndexAssumption DEF IndexInv, BeforeIsDone, NoUpdateLost, SaveIsFresh, Elements
<1>9. RootsAgree'
  BY <1>4 DEF IndexInv, RootsAgree
<1> QED
  BY <1>3, <1>6, <1>7, <1>8, <1>9 DEF IndexInv

\* The root of the SwarmPot is one change ahead of that of the Index.
LEMMA PackKeeps ==
  ASSUME IndexInv, NEW u \in Update, Pack(u)
  PROVE  IndexInv'
<1> USE DEF Pack
<1>1. TypeOK /\ MutexInv
  BY DEF IndexInv
<1>2. "switching" \in InMutex /\ pc[u] \in Holding /\ pc[u] \in InMutex
  BY DEF InMutex, Holding
<1>3. base[u] = root /\ u = Head(chain) /\ u \in Elements(chain)
  BY <1>2 DEF IndexInv, BaseIsRoot, MutexInv
<1>4. MyTurn(u)
  BY <1>3 DEF MyTurn, Elements
<1>5. chain' \in Seq({v \in Update : pc'[v] \in InMutex}) /\ MutexInv'
  BY <1>1, <1>2, <1>4, StayInMutex
<1>6. /\ \A v \in Update \cup Save : pc'[v] = IF v = u THEN "switching" ELSE pc[v]
      /\ pc' \in [Update \cup Save -> {"idle", "saving"} \cup InMutex \cup Ended]
  BY <1>1, <1>2 DEF TypeOK, Moves
<1>7. Changes' = Changes
  BY <1>1, ChangesStay
<1>8. PICK e \in BOOLEAN :
        /\ fresh' = [fresh EXCEPT ![u] = [log |-> Append(base[u].log, u), empty |-> e]]
        /\ modeRoot' = [log |-> Append(base[u].log, u), empty |-> e]
  OBVIOUS
<1>9. modeRoot' \in Root /\ fresh' \in [Update -> Root]
  <2>1. base[u].log \in Seq(Update)
    BY <1>1 DEF TypeOK, Root
  <2>2. Append(base[u].log, u) \in Seq(Update)
    BY <2>1
  <2>3. modeRoot' \in Root
    BY <1>8, <2>2 DEF Root
  <2> QED
    BY <1>1, <1>8, <2>3 DEF TypeOK
<1>10. TypeOK'
  BY <1>1, <1>5, <1>6, <1>9 DEF TypeOK
<1>11. BaseIsRoot'
  BY <1>2, <1>6 DEF IndexInv, BaseIsRoot
<1>12. FreshIsNext'
  <2>1. fresh'[u] = modeRoot' /\ modeRoot'.log = Append(root.log, u)
    BY <1>1, <1>3, <1>8 DEF TypeOK
  <2>2. \A v \in Update : pc'[v] = "switching" => v = u
    BY <1>2, <1>3, <1>5, <1>6 DEF MutexInv, Holding
  <2> QED
    BY <2>1, <2>2 DEF FreshIsNext
<1>13. BeforeIsDone' /\ NoUpdateLost' /\ SaveIsFresh'
  BY <1>6, <1>7, PotIndexAssumption DEF IndexInv, BeforeIsDone, NoUpdateLost, SaveIsFresh, Elements
<1>14. RootsAgree'
  BY <1>6 DEF RootsAgree
<1> QED
  BY <1>5, <1>10, <1>11, <1>12, <1>13, <1>14 DEF IndexInv

\* The Index follows, and the update is done.
LEMMA SwitchKeeps ==
  ASSUME IndexInv, NEW u \in Update, Switch(u)
  PROVE  IndexInv'
<1> USE DEF Switch
<1>1. TypeOK /\ MutexInv
  BY DEF IndexInv
<1>2. "changed" \in Ended /\ pc[u] \in Holding /\ "changed" \notin Holding
  BY DEF Ended, Holding
<1>3. chain' \in Seq({v \in Update : pc'[v] \in InMutex}) /\ MutexInv'
  BY <1>1, <1>2, LeaveMutex
<1>4. /\ \A v \in Update \cup Save : pc'[v] = IF v = u THEN "changed" ELSE pc[v]
      /\ pc' \in [Update \cup Save -> {"idle", "saving"} \cup InMutex \cup Ended]
  BY <1>1, <1>2 DEF TypeOK, Moves
<1>5. Changes' = Changes \cup {u}
  BY <1>4 DEF Changes
<1>6. root' = fresh[u] /\ modeRoot' = fresh[u] /\ root'.log = Append(root.log, u)
  BY DEF IndexInv, FreshIsNext
<1>7. root' \in Root
  BY <1>1, <1>6 DEF TypeOK
<1>8. TypeOK'
  BY <1>1, <1>3, <1>4, <1>7 DEF TypeOK
<1>9. \A v \in Update : pc'[v] \notin Holding
  <2>1. \A v \in Update : pc[v] \in Holding => v = u
    BY <1>1, <1>2 DEF MutexInv
  <2> QED
    BY <1>2, <1>4, <2>1
<1>10. BaseIsRoot' /\ FreshIsNext' /\ RootsAgree'
  BY <1>6, <1>9 DEF BaseIsRoot, FreshIsNext, RootsAgree, Holding
<1>11. NoUpdateLost'
  <2>1. root.log \in Seq(Update)
    BY <1>1 DEF TypeOK, Root
  <2> QED
    BY <1>5, <1>6, <2>1, ElementsAppend DEF IndexInv, NoUpdateLost
<1>12. BeforeIsDone' /\ SaveIsFresh'
  BY <1>4, <1>5, PotIndexAssumption DEF IndexInv, BeforeIsDone, SaveIsFresh, Elements
<1> QED
  BY <1>3, <1>8, <1>10, <1>11, <1>12 DEF IndexInv

-----------------------------------------------------------------------------
(* The steps of a save.                                                    *)

\* A save remembers nothing: what was done by then stays done.
LEMMA CallSaveKeeps ==
  ASSUME IndexInv, NEW s \in Save, CallSave(s)
  PROVE  IndexInv'
<1> USE DEF CallSave
<1>1. TypeOK /\ MutexInv
  BY DEF IndexInv
<1>2. PICK to \in {"rejected", "saving"} : Moves(s, to)
  OBVIOUS
<1>3. /\ \A v \in Update \cup Save : pc'[v] = IF v = s THEN to ELSE pc[v]
      /\ pc' \in [Update \cup Save -> {"idle", "saving"} \cup InMutex \cup Ended]
  BY <1>1, <1>2 DEF TypeOK, Moves, Ended
<1>4. \A v \in Update : pc'[v] = pc[v]
  BY <1>3, PotIndexAssumption
<1>5. Changes' = Changes
  BY <1>4 DEF Changes
<1>6. before' \in [Save -> SUBSET Update]
  BY <1>1 DEF TypeOK, Changes
<1>7. TypeOK' /\ MutexInv'
  <2>1. {v \in Update : pc'[v] \in InMutex} = {v \in Update : pc[v] \in InMutex}
    BY <1>4
  <2> QED
    BY <1>1, <1>3, <1>4, <1>6, <2>1 DEF TypeOK, MutexInv, Elements
<1>8. BaseIsRoot' /\ FreshIsNext' /\ RootsAgree'
  BY <1>4 DEF IndexInv, BaseIsRoot, FreshIsNext, RootsAgree
<1>9. NoUpdateLost'
  BY <1>5 DEF IndexInv, NoUpdateLost, Elements
<1>10. BeforeIsDone' /\ SaveIsFresh'
  <2>1. \A t \in Save : t # s => before'[t] = before[t] /\ pc'[t] = pc[t]
    BY <1>1, <1>3 DEF TypeOK
  <2>2. before'[s] = Changes /\ pc'[s] # "saved"
    BY <1>1, <1>3 DEF TypeOK
  <2> QED
    BY <1>5, <2>1, <2>2 DEF IndexInv, BeforeIsDone, SaveIsFresh, Elements
<1> QED
  BY <1>7, <1>8, <1>9, <1>10 DEF IndexInv

\* The reference is that of a root which holds what was done before.
LEMMA ReturnReferenceKeeps ==
  ASSUME IndexInv, NEW s \in Save, ReturnReference(s)
  PROVE  IndexInv'
<1> USE DEF ReturnReference
<1>1. TypeOK /\ MutexInv
  BY DEF IndexInv
<1>2. PICK to \in {"rejected", "saved"} : Moves(s, to)
  OBVIOUS
<1>3. /\ \A v \in Update \cup Save : pc'[v] = IF v = s THEN to ELSE pc[v]
      /\ pc' \in [Update \cup Save -> {"idle", "saving"} \cup InMutex \cup Ended]
  BY <1>1, <1>2 DEF TypeOK, Moves, Ended
<1>4. \A v \in Update : pc'[v] = pc[v]
  BY <1>3, PotIndexAssumption
<1>5. Changes' = Changes
  BY <1>4 DEF Changes
<1>6. saved' \in [Save -> Root]
  BY <1>1 DEF TypeOK
<1>7. TypeOK' /\ MutexInv'
  <2>1. {v \in Update : pc'[v] \in InMutex} = {v \in Update : pc[v] \in InMutex}
    BY <1>4
  <2> QED
    BY <1>1, <1>3, <1>4, <1>6, <2>1 DEF TypeOK, MutexInv, Elements
<1>8. BaseIsRoot' /\ FreshIsNext' /\ RootsAgree'
  BY <1>4 DEF IndexInv, BaseIsRoot, FreshIsNext, RootsAgree
<1>9. NoUpdateLost'
  BY <1>5 DEF IndexInv, NoUpdateLost, Elements
<1>10. before[s] \subseteq Changes
  BY DEF IndexInv, BeforeIsDone
<1>11. BeforeIsDone'
  BY <1>3, <1>5, <1>10 DEF IndexInv, BeforeIsDone
<1>12. SaveIsFresh'
  <2>1. \A t \in Save : t # s => saved'[t] = saved[t] /\ pc'[t] = pc[t]
    BY <1>1, <1>3 DEF TypeOK
  <2>2. pc'[s] = "saved" => saved'[s] = modeRoot
    BY <1>1 DEF TypeOK, Moves
  <2>3. pc'[s] = "saved" => before[s] \subseteq Elements(saved'[s].log)
    BY <1>10, <2>2, ChangesInModeRoot
  <2> QED
    BY <2>1, <2>3 DEF IndexInv, SaveIsFresh, Elements
<1> QED
  BY <1>7, <1>8, <1>9, <1>11, <1>12 DEF IndexInv

-----------------------------------------------------------------------------
(* The theorems.                                                           *)

LEMMA InitIndexInv == Init => IndexInv
<1> SUFFICES ASSUME Init PROVE IndexInv
  OBVIOUS
<1> USE DEF Init
<1>1. <<>> \in Seq(Update) /\ NoRoot \in Root /\ root \in Root /\ root.log = <<>>
  BY DEF Root, NoRoot
<1>2. \A c \in Update \cup Save : pc[c] = "idle"
  OBVIOUS
<1>3. Changes = {} /\ Elements(<<>>) = {}
  BY <1>2 DEF Changes, Elements
<1>4. {u \in Update : pc[u] \in InMutex} = {}
  BY <1>2 DEF InMutex, Holding
<1>5. TypeOK
  <2>1. pc \in [Update \cup Save -> {"idle", "saving"} \cup InMutex \cup Ended]
    OBVIOUS
  <2>2. chain \in Seq({u \in Update : pc[u] \in InMutex})
    OBVIOUS
  <2>3. base \in [Update -> Root] /\ fresh \in [Update -> Root] /\ saved \in [Save -> Root]
    BY <1>1
  <2>4. before \in [Save -> SUBSET Update]
    OBVIOUS
  <2> QED
    BY <1>1, <2>1, <2>2, <2>3, <2>4 DEF TypeOK
<1>6. MutexInv
  BY <1>4, <1>2 DEF MutexInv, Holding
<1> QED
  BY <1>1, <1>2, <1>3, <1>5, <1>6
     DEF IndexInv, BaseIsRoot, FreshIsNext, BeforeIsDone, NoUpdateLost, RootsAgree, SaveIsFresh, Holding

LEMMA NextIndexInv == IndexInv /\ [Next]_vars => IndexInv'
<1> SUFFICES ASSUME IndexInv, [Next]_vars PROVE IndexInv'
  OBVIOUS
<1>1. ASSUME NEW u \in Update, CallUpdate(u) PROVE IndexInv'
  BY <1>1, CallUpdateKeeps
<1>2. ASSUME NEW u \in Update, Enter(u) PROVE IndexInv'
  BY <1>2, EnterKeeps
<1>3. ASSUME NEW u \in Update, FindUnchanged(u) PROVE IndexInv'
  BY <1>3, EndUnchangedKeeps DEF FindUnchanged
<1>4. ASSUME NEW u \in Update, Fail(u) PROVE IndexInv'
  BY <1>4, EndUnchangedKeeps DEF Fail
<1>5. ASSUME NEW u \in Update, Pack(u) PROVE IndexInv'
  BY <1>5, PackKeeps
<1>6. ASSUME NEW u \in Update, Switch(u) PROVE IndexInv'
  BY <1>6, SwitchKeeps
<1>7. ASSUME NEW s \in Save, CallSave(s) PROVE IndexInv'
  BY <1>7, CallSaveKeeps
<1>8. ASSUME NEW s \in Save, ReturnReference(s) PROVE IndexInv'
  BY <1>8, ReturnReferenceKeeps
<1>9. CASE Close
  BY <1>9 DEF Close, IndexInv, TypeOK, MutexInv, BaseIsRoot, FreshIsNext, BeforeIsDone,
              NoUpdateLost, RootsAgree, SaveIsFresh, Changes, Elements
<1>10. CASE UNCHANGED vars
  BY <1>10 DEF vars, IndexInv, TypeOK, MutexInv, BaseIsRoot, FreshIsNext, BeforeIsDone,
               NoUpdateLost, RootsAgree, SaveIsFresh, Changes, Elements
<1> QED
  BY <1>1, <1>2, <1>3, <1>4, <1>5, <1>6, <1>7, <1>8, <1>9, <1>10 DEF Next, Step

\* The invariant of the mutex and the two roots (index.ts:41-47, mutex.ts:5-17).
THEOREM IndexInvHolds == Spec => []IndexInv
BY InitIndexInv, NextIndexInv, PTL DEF Spec

\* The mutex only ever holds updates that are under way, whatever fails.
THEOREM TypeCorrect == Spec => []TypeOK
<1>1. IndexInv => TypeOK
  BY DEF IndexInv
<1> QED
  BY <1>1, IndexInvHolds, PTL

\* No update is lost, however updates and saves overlap (index.ts:41-47).
THEOREM UpdatesKept == Spec => []NoUpdateLost
<1>1. IndexInv => NoUpdateLost
  BY DEF IndexInv
<1> QED
  BY <1>1, IndexInvHolds, PTL

\* The root find() reads and the root save() writes are the same trie, except
\* in the turn between two assignments (swarm-pot.ts:62-66, index.ts:44-45).
THEOREM RootsKeptTogether == Spec => []RootsAgree
<1>1. IndexInv => RootsAgree
  BY DEF IndexInv
<1> QED
  BY <1>1, IndexInvHolds, PTL

\* A reference holds what was done before save() was called, without the mutex
\* (index.ts:68-74).
THEOREM SavesFresh == Spec => []SaveIsFresh
<1>1. IndexInv => SaveIsFresh
  BY DEF IndexInv
<1> QED
  BY <1>1, IndexInvHolds, PTL

\* A step that changes the root adds one update to those that made it.
THEOREM UpdatesAtomic == Spec => OneAtATime
<1> DEFINE Adds == root' # root => \E u \in Update : root'.log = Append(root.log, u) /\ u \notin Elements(root.log)
<1>1. IndexInv /\ [Next]_vars => [Adds]_vars
  <2> SUFFICES ASSUME IndexInv, Next, root' # root
               PROVE  \E u \in Update : root'.log = Append(root.log, u) /\ u \notin Elements(root.log)
    OBVIOUS
  <2>1. PICK u \in Update : Switch(u)
    BY DEF Next, Step, CallUpdate, Enter, FindUnchanged, Fail, Pack, CallSave, ReturnReference, Close
  <2>2. root'.log = Append(root.log, u)
    BY <2>1 DEF Switch, IndexInv, FreshIsNext
  <2>3. u \notin Elements(root.log)
    BY <2>1 DEF Switch, IndexInv, NoUpdateLost, Changes
  <2> QED
    BY <2>2, <2>3
<1> QED
  BY <1>1, IndexInvHolds, PTL DEF Spec, OneAtATime
=============================================================================
