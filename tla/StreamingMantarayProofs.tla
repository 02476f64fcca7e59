---------------------- MODULE StreamingMantarayProofs ----------------------
(***************************************************************************)
(* MantarayInv is an invariant of the streaming manifest whose callers are *)
(* not hasty, for any paths, entries, limits and failures.                 *)
(***************************************************************************)
EXTENDS StreamingMantaray, FiniteSetTheorems, SequenceTheorems, NaturalsInduction,
        WellFoundedInduction, TLAPS

-----------------------------------------------------------------------------
(* Paths.                                                                  *)

LEMMA Least ==
  ASSUME NEW S, S \subseteq Nat, S # {}
  PROVE  \E n \in S : \A m \in S : n <= m
<1> DEFINE R == OpToRel(<, Nat)
<1>1. IsWellFoundedOn(R, Nat)
  BY NatLessThanWellFounded
<1>2. \A x, y \in Nat : x < y => <<x, y>> \in R
  BY DEF OpToRel
<1> HIDE DEF R
<1>3. PICK n \in S : \A m \in S : ~ (<<m, n>> \in R)
  BY <1>1, WFMin
<1>4. \A m \in S : n <= m
  <2> TAKE m \in S
  <2>1. m \in Nat /\ n \in Nat /\ ~ (m < n)
    BY <1>2, <1>3
  <2> QED
    BY <2>1
<1> QED
  BY <1>4

Symbols == UNION {ToSet(p) : p \in Path}

LEMMA PathsAreSequences == \A p \in Path : p \in Seq(Symbols)
<1> TAKE p \in Path
<1>1. p \in Seq(ToSet(p)) /\ ToSet(p) \subseteq Symbols
  BY MantarayAssumption DEF Symbols
<1>2. \A i \in 1..Len(p) : p[i] \in Symbols
  BY <1>1, ElementOfSeq
<1>3. Len(p) \in Nat /\ p = [i \in 1..Len(p) |-> p[i]]
  BY <1>1, LenProperties
<1> QED
  BY <1>2, <1>3, SeqDef, SMT

\* A node is a sequence; above it are its initial parts.
LEMMA NodesAreSequences ==
  \A p \in Node : p \in Seq(Symbols) /\ Len(p) \in Nat /\ (\A l \in 0..Len(p) : SubSeq(p, 1, l) \in Node)
<1> TAKE p \in Node
<1>1. PICK P \in Path : \E n \in 0..Len(P) : p = SubSeq(P, 1, n)
  BY DEF Node, Prefixes
<1>0. PICK n \in 0..Len(P) : p = SubSeq(P, 1, n)
  BY <1>1
<1>2. P \in Seq(Symbols) /\ Len(P) \in Nat
  BY PathsAreSequences, LenProperties
<1>3. p \in Seq(Symbols) /\ Len(p) = n /\ \A i \in 1..n : p[i] = P[i]
  BY <1>0, <1>2, SubSeqProperties, SMT
<1>4. ASSUME NEW l \in 0..Len(p)
      PROVE  SubSeq(p, 1, l) = SubSeq(P, 1, l)
  <2>1. \A i \in 1..l : p[i] = P[i]
    BY <1>3, <1>2
  <2> QED
    BY <1>2, <1>3, <1>4, <2>1, SMT
<1>5. \A l \in 0..Len(p) : SubSeq(p, 1, l) \in Prefixes(P)
  BY <1>2, <1>3, <1>4 DEF Prefixes
<1> QED
  BY <1>2, <1>3, <1>5 DEF Node

LEMMA AboveIs ==
  \A p \in Node, q \in Node :
    q \in Above[p] <=> Len(q) <= Len(p) /\ \A i \in 1..Len(q) : q[i] = p[i]
<1> TAKE p \in Node, q \in Node
<1>1. p \in Seq(Symbols) /\ Len(p) \in Nat /\ q \in Seq(Symbols) /\ Len(q) \in Nat
  BY NodesAreSequences
<1>2. q \in Above[p] <=> Len(q) <= Len(p) /\ SubSeq(q, 1, Len(q)) = SubSeq(p, 1, Len(q))
  BY DEF Above, IsPrefix
<1>3. ASSUME Len(q) <= Len(p)
      PROVE  SubSeq(q, 1, Len(q)) = SubSeq(p, 1, Len(q)) <=> \A i \in 1..Len(q) : q[i] = p[i]
  <2>1. /\ Len(SubSeq(q, 1, Len(q))) = Len(q) /\ Len(SubSeq(p, 1, Len(q))) = Len(q)
        /\ \A i \in 1..Len(q) : SubSeq(q, 1, Len(q))[i] = q[i] /\ SubSeq(p, 1, Len(q))[i] = p[i]
    BY <1>1, <1>3, SMT
  <2>2. SubSeq(q, 1, Len(q)) \in Seq(Symbols) /\ SubSeq(p, 1, Len(q)) \in Seq(Symbols)
    BY <1>1, <1>3, SubSeqProperties, SMT
  <2>3. (\A i \in 1..Len(q) : q[i] = p[i]) => SubSeq(q, 1, Len(q)) = SubSeq(p, 1, Len(q))
    BY <2>1, <2>2, SeqEqual
  <2> QED
    BY <2>1, <2>3
<1> QED
  BY <1>2, <1>3

\* What is above a node is a chain from the root to it, ordered by length.
LEMMA Chain ==
  /\ <<>> \in Node /\ Path \subseteq Node
  /\ \A p \in Node : Above[p] \subseteq Node /\ <<>> \in Above[p] /\ p \in Above[p] /\ Len(p) \in Nat
  /\ \A p \in Node : \A q \in Above[p] : Above[q] \subseteq Above[p] /\ (q # p => Len(q) < Len(p))
  /\ \A p \in Node : \A q, r \in Above[p] : q \in Above[r] \/ r \in Above[q]
<1>1. \A p \in Node : p \in Seq(Symbols) /\ Len(p) \in Nat
  BY NodesAreSequences
<1>2. Path \subseteq Node
  <2> SUFFICES ASSUME NEW p \in Path PROVE p \in Node
    OBVIOUS
  <2>1. p \in Seq(Symbols) /\ Len(p) \in Nat
    BY PathsAreSequences, LenProperties
  <2>2. SubSeq(p, 1, Len(p)) = p
    BY <2>1, SMT
  <2>3. Len(p) \in 0..Len(p)
    BY <2>1
  <2>4. p \in Prefixes(p)
    BY <2>2, <2>3, Zenon DEF Prefixes
  <2> QED
    BY <2>4 DEF Node
<1>3. <<>> \in Node
  <2>1. PICK p \in Path : TRUE
    BY MantarayAssumption
  <2>2. p \in Node /\ Len(p) \in Nat
    BY <1>1, <1>2
  <2>3. SubSeq(p, 1, 0) \in Node /\ SubSeq(p, 1, 0) = <<>>
    BY <2>2, NodesAreSequences, SMT
  <2> QED
    BY <2>3
<1>4. ASSUME NEW p \in Node
      PROVE  Above[p] \subseteq Node /\ <<>> \in Above[p] /\ p \in Above[p] /\ Len(p) \in Nat
  <2>1. Len(<<>>) = 0
    OBVIOUS
  <2> QED
    BY <2>1, <1>1, <1>3, AboveIs DEF Above
<1>5. ASSUME NEW p \in Node, NEW q \in Above[p]
      PROVE  Above[q] \subseteq Above[p] /\ (q # p => Len(q) < Len(p))
  <2>1. q \in Node /\ Len(q) <= Len(p) /\ \A i \in 1..Len(q) : q[i] = p[i]
    BY <1>4, AboveIs
  <2>2. p \in Seq(Symbols) /\ Len(p) \in Nat /\ q \in Seq(Symbols) /\ Len(q) \in Nat
    BY <1>1, <2>1
  <2>3. Len(q) = Len(p) => q = p
    BY <2>1, <2>2, SeqEqual
  <2>4. ASSUME NEW r \in Above[q]
        PROVE  r \in Above[p]
    <3>1. r \in Node /\ Len(r) <= Len(q) /\ \A i \in 1..Len(r) : r[i] = q[i]
      BY <1>4, <2>1, AboveIs
    <3>2. Len(r) \in Nat
      BY <1>1, <3>1
    <3>3. Len(r) <= Len(p) /\ \A i \in 1..Len(r) : r[i] = p[i]
      BY <2>1, <2>2, <3>1, <3>2
    <3> QED
      BY <3>1, <3>3, AboveIs
  <2> QED
    BY <2>1, <2>2, <2>3, <2>4
<1>6. ASSUME NEW p \in Node, NEW q \in Above[p], NEW r \in Above[p]
      PROVE  q \in Above[r] \/ r \in Above[q]
  <2>1. q \in Node /\ Len(q) <= Len(p) /\ \A i \in 1..Len(q) : q[i] = p[i]
    BY <1>4, AboveIs
  <2>2. r \in Node /\ Len(r) <= Len(p) /\ \A i \in 1..Len(r) : r[i] = p[i]
    BY <1>4, AboveIs
  <2>3. Len(q) \in Nat /\ Len(r) \in Nat /\ Len(p) \in Nat
    BY <1>1, <2>1, <2>2
  <2>4. CASE Len(q) <= Len(r)
    <3>1. \A i \in 1..Len(q) : q[i] = r[i]
      BY <2>1, <2>2, <2>3, <2>4
    <3> QED
      BY <2>1, <2>2, <2>4, <3>1, AboveIs
  <2>5. CASE Len(r) <= Len(q)
    <3>1. \A i \in 1..Len(r) : r[i] = q[i]
      BY <2>1, <2>2, <2>3, <2>5
    <3> QED
      BY <2>1, <2>2, <2>5, <3>1, AboveIs
  <2> QED
    BY <2>3, <2>4, <2>5
<1> QED
  BY <1>2, <1>3, <1>4, <1>5, <1>6

LEMMA UnderIs ==
  \A S, p, q : /\ q \in Spine(S, p) <=> q \in S /\ q \in Above[p]
               /\ q \in Under(S, p) <=> q \in S /\ p \in Above[q]
               /\ q \in Children(S, p) <=>
                    q \in S /\ p \in Above[q] /\ q # p /\ Spine(S, q) = Spine(S, p) \cup {q}
               /\ q \in Parent(S, p) <=> q \in S /\ p \in Children(S, q)
BY Zenon DEF Spine, Under, Children, Parent

\* A set of nodes on the way to p, closed towards the root, has a last one.
LEMMA Top ==
  ASSUME NEW p \in Node, NEW C, C \subseteq Above[p], C # {}, \A q \in C : Above[q] \subseteq C
  PROVE  \E h \in C : C = Above[h]
<1> DEFINE D == {Len(p) - Len(q) : q \in C}
<1>1. Len(p) \in Nat /\ \A q \in C : q \in Node /\ Len(q) \in Nat /\ Len(q) <= Len(p)
  BY Chain
<1>2. D \subseteq Nat /\ D # {}
  BY <1>1
<1> HIDE DEF D
<1>3. PICK n \in D : \A m \in D : n <= m
  BY <1>2, Least
<1>4. PICK h \in C : n = Len(p) - Len(h)
  BY DEF D
<1>5. ASSUME NEW q \in C
      PROVE  q \in Above[h]
  <2>1. n <= Len(p) - Len(q)
    BY <1>3 DEF D
  <2>2. Len(q) <= Len(h)
    BY <1>1, <1>4, <2>1
  <2>3. h \in Above[q] /\ h # q => Len(h) < Len(q)
    BY <1>1, Chain
  <2>4. q \in Above[h] \/ h \in Above[q]
    BY Chain
  <2>5. h \in Above[h]
    BY <1>1, Chain
  <2> QED
    BY <1>1, <2>2, <2>3, <2>4, <2>5
<1> QED
  BY <1>5

\* Two paths part at a node.
LEMMA Meet == \A p, q \in Node : \E h \in Node : Above[h] = Above[p] \cap Above[q]
<1> TAKE p, q \in Node
<1> DEFINE C == Above[p] \cap Above[q]
<1>1. C \subseteq Above[p] /\ C # {}
  BY Chain
<1>2. \A r \in C : Above[r] \subseteq C
  BY Chain
<1>3. \E h \in C : C = Above[h]
  <2> HIDE DEF C
  <2> QED
    BY <1>1, <1>2, Top
<1> QED
  BY <1>3, Chain

LEMMA SameNode == \A p, q \in Node : Above[p] = Above[q] => p = q
<1> TAKE p, q \in Node
<1>1. p \in Above[p] /\ q \in Above[q] /\ Len(p) \in Nat /\ Len(q) \in Nat
  BY Chain
<1>2. p \in Above[q] /\ p # q => Len(p) < Len(q)
  BY Chain
<1>3. q \in Above[p] /\ p # q => Len(q) < Len(p)
  BY Chain
<1> QED
  BY <1>1, <1>2, <1>3

LEMMA AboveBoth == \A p, q \in Node : p \in Above[q] /\ q \in Above[p] => p = q
BY Chain, SameNode

\* Below a node the first one on the way is its child.
LEMMA ChildAbove ==
  ASSUME NEW S, S \subseteq Node, NEW p \in S, NEW q \in S, p \in Above[q], q # p
  PROVE  \E k \in Children(S, p) : k \in Above[q]
<1> DEFINE R == {r \in S : r \in Above[q] /\ p \in Above[r] /\ r # p}
           D == {Len(r) : r \in R}
<1>1. q \in R
  BY Chain
<1>2. \A r \in R : r \in Node /\ Len(r) \in Nat
  BY Chain
<1>3. D \subseteq Nat /\ D # {}
  BY <1>1, <1>2
<1> HIDE DEF D
<1>4. PICK n \in D : \A m \in D : n <= m
  BY <1>3, Least
<1>5. PICK k \in R : n = Len(k)
  BY DEF D
<1>6. \A r \in R : Len(k) <= Len(r)
  BY <1>4, <1>5 DEF D
<1>7. ASSUME NEW s \in Spine(S, k)
      PROVE  s \in Spine(S, p) \cup {k}
  <2>1. s \in S /\ s \in Above[k] /\ s \in Above[q]
    BY <1>2, Chain, UnderIs
  <2>2. CASE s \in Above[p]
    BY <2>1, <2>2, UnderIs
  <2>3. CASE s \notin Above[p]
    <3>1. p \in Above[s]
      BY <1>2, <2>1, <2>3, Chain
    <3>2. s # p
      BY <2>3, Chain
    <3>3. s \in R
      BY <2>1, <3>1, <3>2
    <3>4. Len(k) <= Len(s) /\ (s # k => Len(s) < Len(k))
      BY <1>2, <1>6, <2>1, <3>3, Chain
    <3> QED
      BY <1>2, <3>3, <3>4
  <2> QED
    BY <2>2, <2>3
<1>8. Spine(S, p) \cup {k} \subseteq Spine(S, k)
  BY <1>2, Chain, UnderIs
<1>9. Spine(S, k) = Spine(S, p) \cup {k}
  BY <1>7, <1>8
<1>10. k \in Children(S, p)
  BY <1>9, UnderIs
<1> QED
  BY <1>10

\* Every node but the root is the child of one other.
LEMMA ParentIs ==
  ASSUME NEW S, S \subseteq Node, <<>> \in S, NEW q \in S, q # <<>>
  PROVE  \E r \in S : Parent(S, q) = {r}
<1> DEFINE C == {x \in Above[q] : \E s \in S : s \in Above[q] /\ s # q /\ x \in Above[s]}
<1>1. C \subseteq Above[q]
  OBVIOUS
<1>2. <<>> \in C
  BY Chain
<1>3. \A x \in C : Above[x] \subseteq C
  BY Chain
<1>4. PICK h \in C : C = Above[h]
  <2> HIDE DEF C
  <2> QED
    BY <1>1, <1>2, <1>3, Top
<1>5. PICK s \in S : s \in Above[q] /\ s # q /\ h \in Above[s]
  BY <1>4
<1>6. s = h
  <2>1. s \in Above[h]
    BY <1>4, <1>5, Chain
  <2>2. h \in Node
    BY <1>1, Chain
  <2> QED
    BY <1>5, <2>1, <2>2, AboveBoth
<1>7. Spine(S, q) = Spine(S, h) \cup {q}
  <2>1. ASSUME NEW x \in Spine(S, q), x # q
        PROVE  x \in Above[h]
    <3>1. x \in S /\ x \in Above[q] /\ x \in Above[x]
      BY UnderIs, Chain
    <3>2. x \in C
      BY <2>1, <3>1
    <3> QED
      BY <1>4, <3>2
  <2>2. Above[h] \subseteq Above[q] /\ q \in Above[q]
    BY <1>4, Chain
  <2> QED
    BY <2>1, <2>2, UnderIs
<1>8. q \in Children(S, h)
  BY <1>5, <1>6, <1>7, UnderIs
<1>9. ASSUME NEW r \in S, q \in Children(S, r)
      PROVE  r = h
  <2>1. r \in Above[q] /\ q # r /\ Spine(S, q) = Spine(S, r) \cup {q}
    BY <1>9, UnderIs
  <2>2. r \in Spine(S, h)
    <3>1. r \in Spine(S, q)
      BY <2>1, UnderIs
    <3> QED
      BY <1>7, <2>1, <3>1
  <2>3. h \in Spine(S, r)
    <3>1. h \in Spine(S, q) /\ h # q
      BY <1>5, <1>6, UnderIs
    <3> QED
      BY <2>1, <3>1
  <2> QED
    BY <2>2, <2>3, AboveBoth, UnderIs
<1> QED
  BY <1>5, <1>6, <1>8, <1>9, UnderIs

LEMMA AboveIsFinite == \A p \in Node : IsFiniteSet(Above[p])
<1> TAKE p \in Node
<1> DEFINE f == [l \in 0..Len(p) |-> SubSeq(p, 1, l)]
           T == {f[l] : l \in 0..Len(p)}
<1>1. p \in Seq(Symbols) /\ Len(p) \in Nat
  BY NodesAreSequences
<1>2. IsFiniteSet(0..Len(p))
  BY <1>1, FS_Interval
<1>3. IsFiniteSet(T)
  <2>1. f \in Surjection(0..Len(p), T)
    BY Zenon DEF Surjection
  <2> QED
    BY <1>2, <2>1, FS_Surjection
<1>4. ASSUME NEW q \in Above[p]
      PROVE  q \in T
  <2>1. q \in Node /\ Len(q) \in Nat /\ Len(q) <= Len(p) /\ \A i \in 1..Len(q) : q[i] = p[i]
    BY Chain, AboveIs
  <2>2. q \in Seq(Symbols)
    BY <2>1, NodesAreSequences
  <2>3. Len(SubSeq(p, 1, Len(q))) = Len(q) /\ \A i \in 1..Len(q) : SubSeq(p, 1, Len(q))[i] = q[i]
    BY <1>1, <2>1, SMT
  <2>4. SubSeq(p, 1, Len(q)) \in Seq(Symbols)
    BY <1>1, <2>1, SubSeqProperties, SMT
  <2>5. q = SubSeq(p, 1, Len(q))
    BY <2>2, <2>3, <2>4, SeqEqual
  <2>6. Len(q) \in 0..Len(p)
    BY <1>1, <2>1
  <2>7. q = f[Len(q)]
    BY <2>5, <2>6
  <2> QED
    BY <2>6, <2>7
<1> HIDE DEF T
<1> QED
  BY <1>3, <1>4, FS_Subset

-----------------------------------------------------------------------------
(* Trees and the manifests that they show.                                 *)

Good(t, f) == Trie(t) /\ Manifest(f) /\ Shows(t, f)

Entry == Value \cup {NoEntry}

LEMMA AddressIs ==
  /\ \A S \in SUBSET Node : \A c \in [S -> Entry] : c \in Address
  /\ \A c \in Address : c \in [DOMAIN c -> Entry] /\ DOMAIN c \subseteq Node
  /\ Nothing \in Address /\ DOMAIN Nothing = {}
<1>1. Nothing \in [{} -> Entry] /\ {} \in SUBSET Node
  BY DEF Nothing
<1>2. \A S \in SUBSET Node : \A c \in [S -> Entry] : c \in Address
  BY DEF Address, Entry
<1>3. ASSUME NEW c \in Address
      PROVE  c \in [DOMAIN c -> Entry] /\ DOMAIN c \subseteq Node
  <2>1. PICK S \in SUBSET Node : c \in [S -> Entry]
    BY <1>3 DEF Address, Entry
  <2> QED
    BY <2>1
<1>4. Nothing \in Address
  BY <1>1, <1>2
<1> QED
  BY <1>1, <1>2, <1>3, <1>4

LEMMA PartIs ==
  ASSUME NEW f, Manifest(f), NEW p \in DOMAIN f
  PROVE  /\ Part(f, p) \in Address /\ Part(f, p) # Nothing
         /\ DOMAIN Part(f, p) = Under(DOMAIN f, p) /\ p \in DOMAIN Part(f, p)
         /\ \A q \in Under(DOMAIN f, p) : q \in DOMAIN f /\ Part(f, p)[q] = f[q]
<1> DEFINE S == Under(DOMAIN f, p)
<1>1. f \in [DOMAIN f -> Entry] /\ DOMAIN f \subseteq Node
  BY AddressIs DEF Manifest
<1>2. S \subseteq DOMAIN f /\ S \in SUBSET Node
  BY <1>1, UnderIs
<1>3. p \in S
  BY <1>1, UnderIs, Chain
<1>4. Part(f, p) = [q \in S |-> f[q]]
  BY DEF Part, Restricted
<1> HIDE DEF S
<1>5. Part(f, p) \in [S -> Entry]
  BY <1>1, <1>2, <1>4
<1>6. Part(f, p) \in Address
  BY <1>2, <1>5, AddressIs
<1>7. DOMAIN Part(f, p) = S
  BY <1>4
<1>8. Part(f, p) # Nothing
  BY <1>3, <1>7, AddressIs
<1>9. \A q \in S : q \in DOMAIN f /\ Part(f, p)[q] = f[q]
  BY <1>2, <1>4
<1> QED
  BY <1>3, <1>6, <1>7, <1>8, <1>9 DEF S

LEMMA PartOfPart ==
  ASSUME NEW f, Manifest(f), NEW p \in DOMAIN f, NEW q \in DOMAIN Part(f, p)
  PROVE  Part(Part(f, p), q) = Part(f, q)
<1>1. DOMAIN f \subseteq Node
  BY AddressIs DEF Manifest
<1>2. DOMAIN Part(f, p) = Under(DOMAIN f, p)
  BY PartIs
<1>3. q \in DOMAIN f /\ p \in Above[q]
  BY <1>2, UnderIs
<1>4. Under(DOMAIN Part(f, p), q) = Under(DOMAIN f, q)
  <2>1. ASSUME NEW x \in DOMAIN f, q \in Above[x]
        PROVE  p \in Above[x]
    BY <1>1, <1>3, <2>1, Chain
  <2>2. \A x : x \in Under(Under(DOMAIN f, p), q) <=> x \in DOMAIN f /\ p \in Above[x] /\ q \in Above[x]
    BY UnderIs
  <2>3. \A x : x \in Under(DOMAIN f, q) <=> x \in DOMAIN f /\ q \in Above[x]
    BY UnderIs
  <2>4. Under(Under(DOMAIN f, p), q) = Under(DOMAIN f, q)
    BY <2>1, <2>2, <2>3
  <2> QED
    BY <1>2, <2>4
<1>5. \A x \in Under(DOMAIN f, q) : x \in Under(DOMAIN f, p)
  BY <1>2, <1>4, UnderIs
<1>6. \A x \in Under(DOMAIN f, q) : Part(f, p)[x] = f[x]
  BY <1>5, PartIs
<1> QED
  BY <1>4, <1>6 DEF Part, Restricted

\* What is known of a tree that shows f.
LEMMA GoodIs ==
  ASSUME NEW t, NEW f, Good(t, f)
  PROVE  /\ DOMAIN t \subseteq DOMAIN f /\ DOMAIN f \subseteq Node
         /\ IsFiniteSet(DOMAIN t)
         /\ \A p \in DOMAIN t : t[p] \in NodeState
         /\ \A p \in Stubs(t) : p \in DOMAIN t /\ t[p].addr = Part(f, p) /\ Under(DOMAIN t, p) = {p}
         /\ \A p \in DOMAIN t : p \notin Dirty(t) => t[p].addr = Part(f, p)
         /\ \A q \in DOMAIN f \ DOMAIN t : \E s \in Stubs(t) : s \in Above[q] /\ s # q
<1>1. DOMAIN t \subseteq DOMAIN f /\ DOMAIN f \subseteq Node /\ IsFiniteSet(DOMAIN f)
  BY AddressIs DEF Good, Shows, Manifest
<1>2. \A p \in DOMAIN t : t[p] \in NodeState
  <2>1. t \in [DOMAIN t -> NodeState]
    BY DEF Good, Trie
  <2> QED
    BY <2>1
<1>3. \A p \in DOMAIN t : p \notin Dirty(t) => t[p].addr = Part(f, p)
  BY DEF Good, Shows, Dirty
<1>4. \A p \in Stubs(t) : p \in DOMAIN t /\ t[p].addr = Part(f, p) /\ Under(DOMAIN t, p) = {p}
  BY DEF Good, Shows, Trie, Stubs
<1>5. ASSUME NEW q \in DOMAIN f \ DOMAIN t
      PROVE  \E s \in Stubs(t) : s \in Above[q] /\ s # q
  <2>1. Spine(Stubs(t), q) # {}
    BY DEF Good, Shows
  <2>2. PICK s : s \in Spine(Stubs(t), q)
    BY <2>1
  <2> QED
    BY <1>4, <2>2, UnderIs
<1>6. IsFiniteSet(DOMAIN t)
  BY <1>1, FS_Subset
<1> QED
  BY <1>1, <1>2, <1>3, <1>4, <1>5, <1>6

\* What is below a node that is no stub is below one of its children.
LEMMA BelowChild ==
  ASSUME NEW t, NEW f, Good(t, f), NEW p \in DOMAIN t, p \notin Stubs(t),
         NEW q \in DOMAIN f, p \in Above[q], q # p
  PROVE  \E k \in Children(DOMAIN t, p) : k \in Above[q]
<1>1. DOMAIN t \subseteq DOMAIN f /\ DOMAIN f \subseteq Node /\ q \in Node
  BY GoodIs
<1>2. CASE q \in DOMAIN t
  BY <1>1, <1>2, ChildAbove
<1>3. CASE q \notin DOMAIN t
  <2>1. PICK s \in Stubs(t) : s \in Above[q] /\ s # q
    BY <1>3, GoodIs
  <2>2. s \in DOMAIN t /\ Under(DOMAIN t, s) = {s} /\ s # p
    BY <2>1, GoodIs
  <2>3. p \in Above[s]
    <3>1. s \notin Above[p]
      BY <2>2, UnderIs
    <3> QED
      BY <1>1, <2>1, <3>1, Chain
  <2>4. PICK k \in Children(DOMAIN t, p) : k \in Above[s]
    BY <1>1, <2>2, <2>3, ChildAbove
  <2> QED
    BY <1>1, <2>1, <2>4, Chain
<1> QED
  BY <1>2, <1>3

LEMMA FullIs ==
  ASSUME NEW t, NEW f, Good(t, f)
  PROVE  Full(t) = f
<1> DEFINE D == DOMAIN t \cup UNION {DOMAIN t[p].addr : p \in Stubs(t)}
<1>1. \A p \in Stubs(t) : p \in DOMAIN f /\ t[p].addr = Part(f, p) /\ DOMAIN t[p].addr = Under(DOMAIN f, p)
  BY GoodIs, PartIs DEF Good
<1>2. D = DOMAIN f
  <2>1. D \subseteq DOMAIN f
    BY <1>1, GoodIs, UnderIs
  <2>2. \A q \in DOMAIN f \ DOMAIN t : q \in D
    BY <1>1, GoodIs, UnderIs
  <2> QED
    BY <2>1, <2>2
<1>3. ASSUME NEW q \in DOMAIN f
      PROVE  (IF \E p \in Stubs(t) : q \in DOMAIN t[p].addr
              THEN t[CHOOSE p \in Stubs(t) : q \in DOMAIN t[p].addr].addr[q]
              ELSE t[q].entry) = f[q]
  <2>1. CASE \E p \in Stubs(t) : q \in DOMAIN t[p].addr
    <3>1. PICK s : s = CHOOSE p \in Stubs(t) : q \in DOMAIN t[p].addr
      OBVIOUS
    <3>2. s \in Stubs(t) /\ q \in DOMAIN t[s].addr
      BY <2>1, <3>1
    <3>3. t[s].addr[q] = f[q]
      BY <1>1, <3>2, PartIs DEF Good
    <3> QED
      BY <2>1, <3>1, <3>3
  <2>2. CASE ~ \E p \in Stubs(t) : q \in DOMAIN t[p].addr
    <3>1. q \in DOMAIN t
      BY <2>2, <1>1, GoodIs, UnderIs
    <3>2. q \notin Stubs(t)
      BY <2>2, <1>1, PartIs DEF Good
    <3>3. t[q].entry = f[q]
      BY <3>1, <3>2 DEF Good, Shows
    <3> QED
      BY <2>2, <3>3
  <2> QED
    BY <2>1, <2>2
<1>4. f \in [DOMAIN f -> Entry]
  BY AddressIs DEF Good, Manifest
<1>5. Full(t) = [q \in D |->
     IF \E p \in Stubs(t) : q \in DOMAIN t[p].addr
     THEN t[CHOOSE p \in Stubs(t) : q \in DOMAIN t[p].addr].addr[q]
     ELSE t[q].entry]
  BY DEF Full
<1> HIDE DEF D
<1>6. Full(t) = [q \in DOMAIN f |-> f[q]]
  BY <1>2, <1>3, <1>5
<1> QED
  BY <1>4, <1>6

LEMMA SerializedIs ==
  ASSUME NEW t, NEW f, Good(t, f), NEW p \in DOMAIN t, p \notin Stubs(t),
         Under(DOMAIN t, p) \cap Dirty(t) \subseteq {p}
  PROVE  Serialized(t, p) = Part(f, p)
<1> DEFINE kids == Children(DOMAIN t, p)
           D == {p} \cup UNION {DOMAIN t[k].addr : k \in kids}
<1>1. \A k \in kids : k \in DOMAIN t /\ k \in DOMAIN f /\ k # p /\ p \in Above[k]
  BY GoodIs, UnderIs
<1>2. \A k \in kids : t[k].addr = Part(f, k)
  BY <1>1, GoodIs, UnderIs
<1>3. \A k \in kids : DOMAIN t[k].addr = Under(DOMAIN f, k) /\ \A q \in Under(DOMAIN f, k) : t[k].addr[q] = f[q]
  BY <1>1, <1>2, PartIs DEF Good
<1>4. D = Under(DOMAIN f, p)
  <2>1. ASSUME NEW q \in Under(DOMAIN f, p), q # p
        PROVE  q \in D
    <3>1. q \in DOMAIN f /\ p \in Above[q]
      BY UnderIs
    <3>2. PICK k \in kids : k \in Above[q]
      BY <2>1, <3>1, BelowChild
    <3> QED
      BY <1>3, <3>1, <3>2, UnderIs
  <2>2. ASSUME NEW k \in kids, NEW q \in Under(DOMAIN f, k)
        PROVE  q \in Under(DOMAIN f, p)
    BY <1>1, GoodIs, UnderIs, Chain
  <2>3. p \in Under(DOMAIN f, p)
    BY GoodIs, UnderIs, Chain
  <2> QED
    BY <1>3, <2>1, <2>2, <2>3
<1>5. ASSUME NEW q \in D
      PROVE  (IF q = p THEN t[p].entry
              ELSE LET k == CHOOSE k \in kids : q \in DOMAIN t[k].addr IN t[k].addr[q]) = f[q]
  <2>1. CASE q = p
    BY <2>1 DEF Good, Shows
  <2>2. CASE q # p
    <3>1. PICK k : k = CHOOSE x \in kids : q \in DOMAIN t[x].addr
      OBVIOUS
    <3>2. \E x \in kids : q \in DOMAIN t[x].addr
      BY <2>2
    <3>3. k \in kids /\ q \in DOMAIN t[k].addr
      BY <3>1, <3>2
    <3>4. t[k].addr[q] = f[q]
      BY <1>3, <3>3
    <3> QED
      BY <2>2, <3>1, <3>4
  <2> QED
    BY <2>1, <2>2
<1>6. Serialized(t, p) = [q \in D |->
         IF q = p THEN t[p].entry
         ELSE LET k == CHOOSE k \in kids : q \in DOMAIN t[k].addr IN t[k].addr[q]]
  BY DEF Serialized
<1>7. Serialized(t, p) = [q \in D |-> f[q]]
  <2> HIDE DEF D, kids
  <2> QED
    BY <1>5, <1>6
<1> QED
  BY <1>4, <1>7 DEF Part, Restricted

\* Addresses are true in a tree that shows a manifest.
LEMMA GoodAddresses ==
  ASSUME NEW t, NEW f, Good(t, f), NEW p \in DOMAIN t
  PROVE  /\ DOMAIN t[p].addr \subseteq Under(DOMAIN t[p].addr, p)
         /\ t[p].addr # Nothing /\ t[p].loaded => t[p].addr = Serialized(t, p)
<1>1. CASE t[p].addr = Nothing
  BY <1>1, AddressIs
<1>2. CASE t[p].addr # Nothing
  <2>1. p \notin Dirty(t) /\ p \in DOMAIN f
    BY <1>2, GoodIs DEF Dirty
  <2>2. t[p].addr = Part(f, p)
    BY <2>1, GoodIs
  <2>3. DOMAIN t[p].addr = Under(DOMAIN f, p)
    BY <2>1, <2>2, PartIs DEF Good
  <2>4. \A q \in Under(DOMAIN f, p) : q \in Under(Under(DOMAIN f, p), p)
    BY UnderIs
  <2>5. ASSUME t[p].loaded
        PROVE  t[p].addr = Serialized(t, p)
    <3>1. p \notin Stubs(t)
      BY <2>5 DEF Stubs
    <3>2. \A q \in Dirty(t) : p \notin Spine(DOMAIN t, q)
      BY <2>1 DEF Good, Shows
    <3>3. Under(DOMAIN t, p) \cap Dirty(t) \subseteq {p}
      BY <3>2, UnderIs
    <3> QED
      BY <2>2, <3>1, <3>3, SerializedIs
  <2> QED
    BY <2>3, <2>4, <2>5
<1> QED
  BY <1>1, <1>2

\* The node p gets the address c.
Stamp(t, p, c) == [t EXCEPT ![p].addr = c]

LEMMA StampIs ==
  ASSUME NEW t, NEW f, Good(t, f), NEW p \in Dirty(t), Under(DOMAIN t, p) \cap Dirty(t) = {p}
  PROVE  /\ Good(Stamp(t, p, Part(f, p)), f)
         /\ DOMAIN Stamp(t, p, Part(f, p)) = DOMAIN t
         /\ Dirty(Stamp(t, p, Part(f, p))) = Dirty(t) \ {p}
<1>1. t \in [DOMAIN t -> NodeState]
  BY DEF Good, Trie
<1>2. p \in DOMAIN t /\ p \in DOMAIN f /\ t[p].addr = Nothing
  BY GoodIs DEF Dirty
<1>3. Part(f, p) \in Address /\ Part(f, p) # Nothing
  BY <1>2, PartIs DEF Good
<1>4. PICK u : u = [t EXCEPT ![p].addr = Part(f, p)]
  OBVIOUS
<1>5. /\ DOMAIN u = DOMAIN t
      /\ \A q \in DOMAIN t : q # p => u[q] = t[q]
      /\ u[p] = [t[p] EXCEPT !.addr = Part(f, p)]
  BY <1>1, <1>2, <1>4
<1>6. u[p].entry = t[p].entry /\ u[p].addr = Part(f, p) /\ u[p].loaded = t[p].loaded /\ u[p] \in NodeState
  <2>1. t[p] \in NodeState
    BY <1>1, <1>2
  <2> QED
    BY <1>3, <1>5, <2>1 DEF NodeState
<1>7. u \in [DOMAIN u -> NodeState]
  BY <1>1, <1>2, <1>4, <1>5, <1>6
<1>8. Dirty(u) = Dirty(t) \ {p}
  BY <1>3, <1>5, <1>6 DEF Dirty
<1>9. Stubs(t) \subseteq Stubs(u) /\ Stubs(u) \subseteq Stubs(t) \cup {p}
  BY <1>2, <1>5, <1>6 DEF Stubs
<1>10. Trie(u)
  <2>1. <<>> \in DOMAIN u /\ DOMAIN u \subseteq Node /\ Closed(DOMAIN u)
    BY <1>5 DEF Good, Trie
  <2>2. \A q \in DOMAIN u : u[q].loaded = t[q].loaded
    BY <1>5, <1>6
  <2>3. \A q \in DOMAIN u : ~u[q].loaded => Under(DOMAIN u, q) = {q}
    BY <1>5, <2>2 DEF Good, Trie
  <2> QED
    BY <1>7, <2>1, <2>3 DEF Trie
<1>11. Shows(u, f)
  <2>1. DOMAIN u \subseteq DOMAIN f
    BY <1>5, GoodIs
  <2>2. \A q \in DOMAIN u : u[q].addr \in {Nothing, Part(f, q)}
    BY <1>5, <1>6 DEF Good, Shows
  <2>3. \A q \in DOMAIN u : q \notin Stubs(u) => u[q].entry = f[q]
    BY <1>5, <1>6, <1>9 DEF Good, Shows
  <2>4. \A q \in DOMAIN f \ DOMAIN u : Spine(Stubs(u), q) # {}
    <3> TAKE q \in DOMAIN f \ DOMAIN u
    <3>1. PICK s \in Stubs(t) : s \in Above[q]
      BY <1>5, GoodIs
    <3>2. s \in Spine(Stubs(u), q)
      BY <1>9, <3>1, UnderIs
    <3> QED
      BY <3>2
  <2>5. ASSUME NEW q \in Dirty(u)
        PROVE  Spine(DOMAIN u, q) \subseteq Dirty(u)
    <3>1. q \in Dirty(t) /\ q # p /\ q \in DOMAIN t
      BY <1>8 DEF Dirty
    <3>2. Spine(DOMAIN t, q) \subseteq Dirty(t)
      BY <3>1 DEF Good, Shows
    <3>3. p \notin Spine(DOMAIN t, q)
      BY <3>1, UnderIs
    <3> QED
      BY <1>5, <1>8, <3>2, <3>3
  <2> QED
    BY <2>1, <2>2, <2>3, <2>4, <2>5 DEF Shows
<1> QED
  BY <1>4, <1>5, <1>8, <1>10, <1>11 DEF Good, Stamp

LEMMA LoadIs ==
  ASSUME NEW t, NEW f, Good(t, f), NEW p \in Stubs(t)
  PROVE  Good(LoadAndStub(t, p, t[p].addr), f)
<1>1. /\ p \in DOMAIN t /\ p \in DOMAIN f /\ Under(DOMAIN t, p) = {p} /\ t[p].addr = Part(f, p)
      /\ DOMAIN t \subseteq DOMAIN f /\ DOMAIN f \subseteq Node
  BY GoodIs
<1>2. PICK c : c = Part(f, p)
  OBVIOUS
<1>3. /\ c \in Address /\ c # Nothing /\ DOMAIN c = Under(DOMAIN f, p) /\ p \in DOMAIN c
      /\ \A q \in Under(DOMAIN f, p) : c[q] = f[q]
  BY <1>1, <1>2, PartIs DEF Good
<1> DEFINE K == Children(DOMAIN c, p)
<1>4. ASSUME NEW k \in K
      PROVE  /\ k \in DOMAIN c /\ k \in DOMAIN f /\ k \in Node /\ p \in Above[k] /\ k # p /\ k \notin DOMAIN t
             /\ \A r \in DOMAIN f : p \in Above[r] /\ r \in Above[k] => r \in {p, k}
  <2>1. k \in DOMAIN c /\ p \in Above[k] /\ k # p /\ Spine(DOMAIN c, k) = Spine(DOMAIN c, p) \cup {k}
    BY UnderIs
  <2>2. k \in DOMAIN f /\ k \in Node
    BY <1>1, <1>3, <2>1, UnderIs
  <2>3. k \notin DOMAIN t
    BY <1>1, <2>1, UnderIs
  <2>4. ASSUME NEW r \in DOMAIN f, p \in Above[r], r \in Above[k], r # k
        PROVE  r = p
    <3>1. r \in Spine(DOMAIN c, k)
      BY <1>3, <2>4, UnderIs
    <3>2. r \in Above[p]
      BY <2>1, <2>4, <3>1, UnderIs
    <3> QED
      BY <1>1, <2>4, <3>2, AboveBoth
  <2> QED
    BY <2>1, <2>2, <2>3, <2>4
<1>5. PICK u : u = LoadAndStub(t, p, c)
  OBVIOUS
<1>6. /\ DOMAIN u = DOMAIN t \cup K
      /\ u[p] = [entry |-> c[p], addr |-> c, loaded |-> TRUE]
      /\ \A q \in DOMAIN t : q # p => u[q] = t[q]
      /\ \A k \in K : u[k] = [entry |-> NoEntry, addr |-> Part(f, k), loaded |-> FALSE]
  <2>1. u = [q \in DOMAIN t \cup K |->
              IF q = p THEN [entry |-> c[p], addr |-> c, loaded |-> TRUE]
              ELSE IF q \in DOMAIN t THEN t[q] ELSE Stub(c, q)]
    BY <1>5 DEF LoadAndStub
  <2>2. \A k \in K : Stub(c, k) = [entry |-> NoEntry, addr |-> Part(f, k), loaded |-> FALSE]
    <3> TAKE k \in K
    <3>1. Part(c, k) = Part(f, k)
      BY <1>1, <1>2, <1>4, PartOfPart DEF Good
    <3>2. Stub(c, k) = [entry |-> NoEntry, addr |-> Part(c, k), loaded |-> FALSE]
      BY DEF Stub, Part
    <3> QED
      BY <3>1, <3>2
  <2> HIDE DEF K
  <2>3. DOMAIN u = DOMAIN t \cup K
    BY <2>1
  <2>4. u[p] = [entry |-> c[p], addr |-> c, loaded |-> TRUE]
    BY <1>1, <2>1
  <2>5. \A q \in DOMAIN t : q # p => u[q] = t[q]
    BY <2>1
  <2>6. \A k \in K : u[k] = Stub(c, k)
    BY <1>4, <2>1
  <2> QED
    BY <2>2, <2>3, <2>4, <2>5, <2>6
<1> HIDE DEF K
<1>7. u[p].entry = f[p] /\ u[p].addr = c /\ u[p].loaded
  BY <1>1, <1>3, <1>6, UnderIs
<1>8. \A k \in K : u[k].entry = NoEntry /\ u[k].addr = Part(f, k) /\ Part(f, k) # Nothing /\ ~u[k].loaded
  <2>1. \A k \in K : Part(f, k) # Nothing
    BY <1>4, PartIs DEF Good
  <2> QED
    BY <1>6, <2>1
<1>9. u \in [DOMAIN u -> NodeState]
  <2>1. u[p] \in NodeState
    <3>1. c[p] \in Entry
      BY <1>3, AddressIs
    <3> QED
      BY <1>3, <1>6, <3>1 DEF NodeState, Entry
  <2>2. \A q \in DOMAIN t : q # p => u[q] \in NodeState
    BY <1>6, GoodIs
  <2>3. \A k \in K : u[k] \in NodeState
    <3> TAKE k \in K
    <3>1. Part(f, k) \in Address
      BY <1>4, PartIs DEF Good
    <3>2. PICK a : a = Part(f, k)
      OBVIOUS
    <3>3. u[k] = [entry |-> NoEntry, addr |-> a, loaded |-> FALSE]
      BY <1>6, <3>2
    <3> QED
      BY <3>1, <3>2, <3>3 DEF NodeState
  <2>4. u = [q \in DOMAIN u |-> u[q]]
    BY <1>5 DEF LoadAndStub
  <2> QED
    BY <1>6, <2>1, <2>2, <2>3, <2>4
<1>10. Dirty(u) = Dirty(t)
  <2>1. p \notin Dirty(u) /\ p \notin Dirty(t)
    BY <1>1, <1>2, <1>3, <1>7 DEF Dirty
  <2>2. \A k \in K : k \notin Dirty(u) /\ k \notin Dirty(t)
    BY <1>4, <1>8 DEF Dirty
  <2>3. \A q \in DOMAIN t : q # p => (q \in Dirty(u) <=> q \in Dirty(t))
    BY <1>6 DEF Dirty
  <2>4. Dirty(u) \subseteq DOMAIN t \cup K /\ Dirty(t) \subseteq DOMAIN t
    BY <1>6 DEF Dirty
  <2> QED
    BY <2>1, <2>2, <2>3, <2>4
<1>11. (Stubs(t) \ {p}) \cup K \subseteq Stubs(u)
  BY <1>6, <1>8 DEF Stubs
<1>12. Trie(u)
  <2>1. <<>> \in DOMAIN u /\ DOMAIN u \subseteq Node
    BY <1>1, <1>4, <1>6 DEF Good, Trie
  <2>2. ASSUME NEW x \in DOMAIN u, NEW y \in K
        PROVE  \E r \in DOMAIN u : Above[r] = Above[x] \cap Above[y]
    <3>1. x \in Node /\ x \in DOMAIN f /\ y \in Node /\ y \in DOMAIN f /\ p \in Above[y]
      BY <1>1, <1>4, <1>6, <2>1
    <3>2. CASE p \in Above[x] /\ x # p
      <4>1. x \in K
        BY <1>1, <1>6, <3>2, UnderIs
      <4>2. PICK h \in DOMAIN f : Above[h] = Above[x] \cap Above[y]
        BY <3>1 DEF Good, Manifest, Closed
      <4>3. p \in Above[h] /\ h \in Above[x]
        BY <1>1, <3>1, <3>2, <4>2, Chain
      <4>4. h \in {p, x}
        BY <1>4, <4>1, <4>3
      <4> QED
        BY <1>1, <1>6, <4>2, <4>4
    <3>3. CASE x = p
      <4>1. Above[p] = Above[x] \cap Above[y]
        BY <3>1, <3>3, Chain
      <4> QED
        BY <1>1, <1>6, <4>1
    <3>4. CASE p \notin Above[x]
      <4>1. x \in DOMAIN t
        BY <1>4, <1>6, <3>4
      <4>2. PICK r \in DOMAIN t : Above[r] = Above[x] \cap Above[p]
        BY <1>1, <4>1 DEF Good, Trie, Closed
      <4>3. ASSUME NEW z \in Above[x] \cap Above[y]
            PROVE  z \in Above[p]
        <5>1. p \in Above[z] => p \in Above[x]
          BY <3>1, Chain
        <5> QED
          BY <3>1, <3>4, <5>1, Chain
      <4>4. Above[p] \subseteq Above[y]
        BY <3>1, Chain
      <4> QED
        BY <1>6, <4>2, <4>3, <4>4
    <3> QED
      BY <3>2, <3>3, <3>4
  <2>3. Closed(DOMAIN u)
    <3>1. ASSUME NEW x \in DOMAIN u, NEW y \in DOMAIN u
          PROVE  \E r \in DOMAIN u : Above[r] = Above[x] \cap Above[y]
      <4>1. CASE x \in DOMAIN t /\ y \in DOMAIN t
        BY <1>6, <4>1 DEF Good, Trie, Closed
      <4>2. CASE y \in K
        BY <2>2, <4>2
      <4>3. CASE x \in K
        <5>1. \E r \in DOMAIN u : Above[r] = Above[y] \cap Above[x]
          BY <2>2, <4>3
        <5> QED
          BY <5>1
      <4> QED
        BY <1>6, <4>1, <4>2, <4>3
    <3> QED
      BY <3>1 DEF Closed
  <2>4. ASSUME NEW q \in DOMAIN u, ~u[q].loaded
        PROVE  Under(DOMAIN u, q) = {q}
    <3>1. q \in Under(DOMAIN u, q)
      BY <2>1, <2>4, UnderIs, Chain
    <3>2. ASSUME NEW x \in DOMAIN u, q \in Above[x]
          PROVE  x = q
      <4>1. q # p /\ x \in Node
        BY <1>7, <2>1, <2>4
      <4>2. CASE q \in DOMAIN t /\ x \in DOMAIN t
        <5>1. ~t[q].loaded
          BY <1>6, <2>4, <4>1, <4>2
        <5>2. Under(DOMAIN t, q) = {q}
          BY <4>2, <5>1 DEF Good, Trie
        <5> QED
          BY <3>2, <4>2, <5>2, UnderIs
      <4>3. CASE q \in DOMAIN t /\ x \in K
        <5>1. ~t[q].loaded
          BY <1>6, <2>4, <4>1, <4>3
        <5>2. Under(DOMAIN t, q) = {q}
          BY <4>3, <5>1 DEF Good, Trie
        <5>3. p \in Above[x]
          BY <1>4, <4>3
        <5>4. p \in Above[q] \/ q \in Above[p]
          BY <3>2, <4>1, <5>3, Chain
        <5> QED
          BY <1>1, <4>1, <4>3, <5>2, <5>4, UnderIs
      <4>4. CASE q \in K /\ x \in DOMAIN t
        <5>1. p \in Above[x]
          BY <1>4, <3>2, <4>1, <4>4, Chain
        <5>2. x = p
          BY <1>1, <4>4, <5>1, UnderIs
        <5> QED
          BY <1>1, <1>4, <3>2, <4>4, <5>2, AboveBoth
      <4>5. CASE q \in K /\ x \in K
        BY <1>4, <3>2, <4>1, <4>5
      <4> QED
        BY <1>6, <4>2, <4>3, <4>4, <4>5
    <3> QED
      BY <3>1, <3>2, UnderIs
  <2> QED
    BY <1>9, <2>1, <2>3, <2>4 DEF Trie
<1>13. Shows(u, f)
  <2>1. DOMAIN u \subseteq DOMAIN f
    BY <1>1, <1>4, <1>6
  <2>2. \A q \in DOMAIN u : u[q].addr \in {Nothing, Part(f, q)}
    <3>1. \A q \in DOMAIN t : t[q].addr \in {Nothing, Part(f, q)}
      BY DEF Good, Shows
    <3> QED
      BY <1>2, <1>6, <1>7, <1>8, <3>1
  <2>3. \A q \in DOMAIN u : q \notin Stubs(u) => u[q].entry = f[q]
    <3>1. \A q \in DOMAIN t : q \notin Stubs(t) => t[q].entry = f[q]
      BY DEF Good, Shows
    <3> QED
      BY <1>6, <1>7, <1>11, <3>1
  <2>4. \A q \in DOMAIN f \ DOMAIN u : Spine(Stubs(u), q) # {}
    <3> TAKE q \in DOMAIN f \ DOMAIN u
    <3>1. PICK s \in Stubs(t) : s \in Above[q] /\ s # q
      BY <1>6, GoodIs
    <3>2. CASE s # p
      <4>1. s \in Spine(Stubs(u), q)
        BY <1>11, <3>1, <3>2, UnderIs
      <4> QED
        BY <4>1
    <3>3. CASE s = p
      <4>1. q \in DOMAIN c /\ DOMAIN c \subseteq Node
        BY <1>1, <1>3, <3>1, <3>3, UnderIs
      <4>2. PICK k \in K : k \in Above[q]
        BY <1>3, <3>1, <3>3, <4>1, ChildAbove DEF K
      <4>3. k \in Spine(Stubs(u), q)
        BY <1>11, <4>2, UnderIs
      <4> QED
        BY <4>3
    <3> QED
      BY <3>2, <3>3
  <2>5. ASSUME NEW q \in Dirty(u), NEW x \in Spine(DOMAIN u, q)
        PROVE  x \in Dirty(u)
    <3>1. q \in Dirty(t) /\ q \in DOMAIN t /\ q \in Node /\ x \in DOMAIN u /\ x \in Above[q]
      BY <1>1, <1>10, <2>5, UnderIs DEF Dirty
    <3>2. q # p
      BY <1>1, <1>2, <1>3, <3>1 DEF Dirty
    <3>3. x \notin K
      <4>1. x \in K => p \in Above[q]
        BY <1>4, <3>1, Chain
      <4>2. p \notin Above[q]
        BY <1>1, <3>1, <3>2, UnderIs
      <4> QED
        BY <4>1, <4>2
    <3>4. x \in Spine(DOMAIN t, q)
      BY <1>6, <3>1, <3>3, UnderIs
    <3> QED
      BY <1>10, <3>1, <3>4 DEF Good, Shows
  <2> QED
    BY <2>1, <2>2, <2>3, <2>4, <2>5 DEF Shows
<1> QED
  BY <1>1, <1>2, <1>5, <1>12, <1>13 DEF Good

-----------------------------------------------------------------------------
(* addFork().                                                              *)

Common(S, path) == UNION {Above[path] \cap Above[p] : p \in S}

LEMMA CommonIs ==
  ASSUME NEW path \in Node, NEW S, S \subseteq Node, S # {}
  PROVE  \E h \in Node : Common(S, path) = Above[h] /\ h \in Above[path]
<1> DEFINE C == Common(S, path)
<1>1. C \subseteq Above[path]
  BY DEF Common
<1>2. <<>> \in C
  BY Chain DEF Common
<1>3. \A q \in C : Above[q] \subseteq C
  BY Chain DEF Common
<1> HIDE DEF C
<1>4. PICK h \in C : C = Above[h]
  BY <1>1, <1>2, <1>3, Top
<1> QED
  BY <1>1, <1>4, Chain DEF C

\* With path, and with the node where it leaves the others, a set stays closed.
LEMMA ClosedWith ==
  ASSUME NEW path \in Node, NEW S, S \subseteq Node, Closed(S),
         NEW h \in Node, Common(S, path) = Above[h], h \in Above[path]
  PROVE  Closed(S \cup {h, path})
<1>1. \A p \in S : Above[path] \cap Above[p] \subseteq Above[h]
  BY DEF Common
<1>2. PICK b \in S : h \in Above[b]
  BY Chain DEF Common
<1>3. ASSUME NEW p \in S
      PROVE  \E r \in S \cup {h} : Above[r] = Above[path] \cap Above[p]
  <2>1. PICK m \in Node : Above[m] = Above[path] \cap Above[p]
    BY Meet
  <2>2. m \in Above[path] /\ m \in Above[p] /\ m \in Above[h] /\ m \in Above[b]
    BY <1>1, <1>2, <2>1, Chain
  <2>3. PICK r \in S : Above[r] = Above[b] \cap Above[p]
    BY DEF Closed
  <2>4. r \in Above[b] /\ r \in Above[p] /\ m \in Above[r]
    BY <2>2, <2>3, Chain
  <2>5. CASE h \in Above[r]
    <3>1. h \in Above[m]
      BY <1>2, <2>1, <2>4, <2>5, Chain
    <3>2. h = m
      BY <2>2, <3>1, AboveBoth
    <3> QED
      BY <2>1, <3>2
  <2>6. CASE r \in Above[h]
    <3>1. r \in Above[m]
      BY <2>1, <2>4, <2>6, Chain
    <3>2. r = m
      BY <2>1, <2>4, <3>1, AboveBoth
    <3> QED
      BY <2>1, <3>2
  <2> QED
    BY <1>2, <2>4, <2>5, <2>6, Chain
<1>4. ASSUME NEW p \in S
      PROVE  Above[h] \cap Above[p] = Above[path] \cap Above[p]
  BY <1>1, Chain
<1>5. Above[h] \cap Above[path] = Above[h]
  BY Chain
<1> DEFINE T == S \cup {h, path}
<1>6. ASSUME NEW p \in T, NEW q \in T
      PROVE  \E r \in T : Above[r] = Above[p] \cap Above[q]
  <2>1. CASE p \in S /\ q \in S
    BY <2>1 DEF Closed
  <2>2. CASE p \in S /\ q \in {h, path}
    <3>1. Above[p] \cap Above[q] = Above[path] \cap Above[p]
      BY <1>4, <2>2
    <3> QED
      BY <1>3, <2>2, <3>1
  <2>3. CASE q \in S /\ p \in {h, path}
    <3>1. Above[p] \cap Above[q] = Above[path] \cap Above[q]
      BY <1>4, <2>3
    <3> QED
      BY <1>3, <2>3, <3>1
  <2>4. CASE p \in {h, path} /\ q \in {h, path}
    BY <1>5, <2>4
  <2> QED
    BY <2>1, <2>2, <2>3, <2>4
<1> QED
  BY <1>6 DEF Closed

\* What addFork() does to the manifest that the tree shows.
With(f, shared, path, v) ==
  [p \in DOMAIN f \cup {shared, path} |->
     IF p = path THEN v ELSE IF p \in DOMAIN f THEN f[p] ELSE NoEntry]

\* What it does to the entries.
Added(e, path, v) == [p \in DOMAIN e \cup {path} |-> IF p = path THEN v ELSE e[p]]

LEMMA WithIs ==
  ASSUME NEW f, Manifest(f), NEW path \in Node, NEW v \in Value, NEW h \in Node,
         Common(DOMAIN f, path) = Above[h], h \in Above[path]
  PROVE  /\ Manifest(With(f, h, path, v))
         /\ Entries(With(f, h, path, v)) = Added(Entries(f), path, v)
<1>1. f \in [DOMAIN f -> Entry] /\ DOMAIN f \subseteq Node /\ IsFiniteSet(DOMAIN f) /\ <<>> \in DOMAIN f
  BY AddressIs DEF Manifest
<1>2. PICK g : g = With(f, h, path, v)
  OBVIOUS
<1>3. /\ DOMAIN g = DOMAIN f \cup {h, path} /\ g[path] = v
      /\ \A p \in DOMAIN f : p # path => g[p] = f[p]
      /\ h # path /\ h \notin DOMAIN f => g[h] = NoEntry
  BY <1>2 DEF With
<1>4. v \in Entry /\ v # NoEntry /\ NoEntry \in Entry
  BY ValueAssumption DEF Entry
<1>5. g \in [DOMAIN f \cup {h, path} -> Entry]
  BY <1>1, <1>2, <1>4 DEF With
<1>6. Manifest(g)
  <2>1. DOMAIN g \in SUBSET Node
    BY <1>1, <1>3
  <2>2. g \in Address
    BY <1>3, <1>5, <2>1, AddressIs
  <2>3. Closed(DOMAIN g)
    BY <1>1, <1>3, ClosedWith DEF Manifest
  <2>4. IsFiniteSet(DOMAIN g)
    <3>1. IsFiniteSet(DOMAIN f \cup {h})
      BY <1>1, FS_AddElement
    <3>2. IsFiniteSet((DOMAIN f \cup {h}) \cup {path})
      BY <3>1, FS_AddElement
    <3>3. (DOMAIN f \cup {h}) \cup {path} = DOMAIN g
      BY <1>3
    <3> QED
      BY <3>2, <3>3
  <2> QED
    BY <1>1, <1>3, <2>2, <2>3, <2>4 DEF Manifest
<1>7. Entries(g) = Added(Entries(f), path, v)
  <2> DEFINE E == {p \in DOMAIN f : f[p] # NoEntry}
             G == {p \in DOMAIN g : g[p] # NoEntry}
  <2>1. Entries(f) = [p \in E |-> f[p]] /\ DOMAIN Entries(f) = E
    BY DEF Entries, Restricted
  <2>2. Entries(g) = [p \in G |-> g[p]]
    BY DEF Entries, Restricted
  <2>3. G = E \cup {path}
    <3>1. path \in G
      BY <1>3, <1>4
    <3>2. \A p \in DOMAIN f : p # path => (p \in G <=> p \in E)
      BY <1>3
    <3>3. \A p \in G : p \in DOMAIN f \/ p = path
      BY <1>3
    <3> QED
      BY <3>1, <3>2, <3>3
  <2>4. \A p \in G : g[p] = IF p = path THEN v ELSE Entries(f)[p]
    <3> TAKE p \in G
    <3>1. CASE p = path
      BY <1>3, <3>1
    <3>2. CASE p # path
      <4>1. p \in E /\ p \in DOMAIN f
        BY <2>3, <3>2
      <4> HIDE DEF E, G
      <4> QED
        BY <1>3, <2>1, <3>2, <4>1
    <3> QED
      BY <3>1, <3>2
  <2> HIDE DEF E, G
  <2> QED
    BY <2>1, <2>2, <2>3, <2>4 DEF Added
<1> QED
  BY <1>2, <1>6, <1>7

LEMMA AddIs ==
  ASSUME NEW t, NEW f, Good(t, f), NEW path \in Node, NEW v \in Value,
         ToLoad(t, path) = {}
  PROVE  \E g : /\ Good(AddFork(t, path, v), g)
                /\ Entries(g) = Added(Entries(f), path, v)
<1>1. DOMAIN t \subseteq DOMAIN f /\ DOMAIN f \subseteq Node /\ <<>> \in DOMAIN t /\ Closed(DOMAIN t)
  BY GoodIs DEF Good, Trie
<1>2. \A s \in Stubs(t) : s \in DOMAIN t /\ s \notin Above[path]
  BY UnderIs DEF ToLoad, Stubs
<1>3. Common(DOMAIN f, path) = Common(DOMAIN t, path)
  <2>1. ASSUME NEW q \in DOMAIN f \ DOMAIN t, NEW x \in Above[path] \cap Above[q]
        PROVE  x \in Common(DOMAIN t, path)
    <3>1. PICK s \in Stubs(t) : s \in Above[q] /\ s # q
      BY GoodIs
    <3>2. s \notin Above[x]
      BY <1>2, Chain
    <3>3. x \in Above[s]
      BY <1>1, <3>1, <3>2, Chain
    <3> QED
      BY <1>2, <3>3 DEF Common
  <2>2. Common(DOMAIN t, path) \subseteq Common(DOMAIN f, path)
    BY <1>1 DEF Common
  <2>3. ASSUME NEW x \in Common(DOMAIN f, path)
        PROVE  x \in Common(DOMAIN t, path)
    <3>1. PICK q \in DOMAIN f : x \in Above[path] \cap Above[q]
      BY DEF Common
    <3>2. CASE q \in DOMAIN t
      BY <3>1, <3>2 DEF Common
    <3>3. CASE q \notin DOMAIN t
      BY <2>1, <3>1, <3>3
    <3> QED
      BY <3>2, <3>3
  <2> QED
    BY <2>2, <2>3
<1>4. PICK h : h = CHOOSE x \in Common(DOMAIN t, path) : Common(DOMAIN t, path) = Above[x]
  OBVIOUS
<1>5. h \in Node /\ Common(DOMAIN t, path) = Above[h] /\ h \in Above[path]
  <2>1. PICK x \in Node : Common(DOMAIN t, path) = Above[x] /\ x \in Above[path]
    BY <1>1, CommonIs
  <2>2. x \in Common(DOMAIN t, path)
    BY <2>1, Chain
  <2>3. h \in Common(DOMAIN t, path) /\ Common(DOMAIN t, path) = Above[h]
    BY <1>4, <2>1, <2>2
  <2>4. h \in Node /\ h \in Above[path]
    BY <2>1, <2>3, Chain
  <2> QED
    BY <2>3, <2>4
<1> DEFINE N == DOMAIN t \cup {h, path}
<1>6. PICK u : u = AddFork(t, path, v)
  OBVIOUS
<1>7. /\ DOMAIN u = N
      /\ u = [p \in N |->
               IF p \in DOMAIN t /\ p \notin Above[path] THEN t[p]
               ELSE [entry  |-> IF p = path THEN v ELSE IF p \in DOMAIN t THEN t[p].entry ELSE NoEntry,
                     addr   |-> Nothing,
                     loaded |-> (p \in DOMAIN t /\ t[p].loaded) \/ Children(N, p) # {}]]
  <2>1. u = [p \in N |->
               IF p \in DOMAIN t /\ p \notin Above[path] THEN t[p]
               ELSE [entry  |-> IF p = path THEN v ELSE IF p \in DOMAIN t THEN t[p].entry ELSE NoEntry,
                     addr   |-> Nothing,
                     loaded |-> (p \in DOMAIN t /\ t[p].loaded) \/ Children(N, p) # {}]]
    BY <1>4, <1>6 DEF AddFork, Common
  <2> HIDE DEF N
  <2> QED
    BY <2>1
<1>8. N \subseteq Node /\ Above[path] \subseteq Node /\ h \in Above[path] /\ path \in Above[path]
  BY <1>1, <1>5, Chain
<1>9. \A p \in N : p \notin Above[path] => p \in DOMAIN t /\ u[p] = t[p]
  <2>1. \A p \in N : p \notin Above[path] => p \in DOMAIN t
    BY <1>8
  <2> HIDE DEF N
  <2> QED
    BY <1>7, <2>1
<1>10. \A p \in N : p \in Above[path] =>
         /\ u[p].entry = IF p = path THEN v ELSE IF p \in DOMAIN t THEN t[p].entry ELSE NoEntry
         /\ u[p].addr = Nothing
         /\ u[p].loaded = ((p \in DOMAIN t /\ t[p].loaded) \/ Children(N, p) # {})
         /\ u[p] \in NodeState
  <2> HIDE DEF N
  <2> TAKE p \in N
  <2> HAVE p \in Above[path]
  <2>1. PICK e, l : /\ e = IF p = path THEN v ELSE IF p \in DOMAIN t THEN t[p].entry ELSE NoEntry
                    /\ l = ((p \in DOMAIN t /\ t[p].loaded) \/ Children(N, p) # {})
    OBVIOUS
  <2>2. u[p] = [entry |-> e, addr |-> Nothing, loaded |-> l]
    BY <1>7, <2>1, Zenon
  <2>3. e \in Entry /\ l \in BOOLEAN
    <3>1. p \in DOMAIN t => t[p] \in NodeState
      BY GoodIs
    <3>2. p \in DOMAIN t => t[p].entry \in Entry
      BY <3>1 DEF NodeState, Entry
    <3>3. e \in Entry
      BY <2>1, <3>2 DEF Entry
    <3>4. l \in BOOLEAN
      BY <2>1
    <3> QED
      BY <3>3, <3>4
  <2>4. u[p] \in NodeState
    BY <2>2, <2>3, AddressIs DEF NodeState, Entry
  <2> QED
    BY <2>1, <2>2, <2>4
<1>11. \A q \in N : q \notin Above[path] => \A p \in N : q \in Above[p] => p \notin Above[path]
  BY <1>8, Chain
<1> DEFINE g == With(f, h, path, v)
<1>12. /\ Manifest(g) /\ DOMAIN g = DOMAIN f \cup {h, path}
       /\ Entries(g) = Added(Entries(f), path, v)
  BY <1>3, <1>5, WithIs DEF Good, With
<1>13. /\ \A p \in DOMAIN f : p # path => g[p] = f[p]
       /\ g[path] = v /\ (h # path /\ h \notin DOMAIN f => g[h] = NoEntry)
  BY DEF With
<1> HIDE DEF g
<1>14. h \in DOMAIN f => h \in DOMAIN t
  <2>1. ASSUME h \in DOMAIN f \ DOMAIN t
        PROVE  FALSE
    <3>1. PICK s \in Stubs(t) : s \in Above[h]
      BY <2>1, GoodIs
    <3> QED
      BY <1>2, <1>5, <3>1, Chain
  <2> QED
    BY <2>1
<1>15. Trie(u)
  <2>1. u \in [DOMAIN u -> NodeState]
    <3>1. \A p \in N : u[p] \in NodeState
      BY <1>9, <1>10, GoodIs
    <3> HIDE DEF N
    <3> QED
      BY <1>7, <3>1
  <2>2. <<>> \in DOMAIN u /\ DOMAIN u \subseteq Node
    BY <1>1, <1>7, <1>8
  <2>3. Closed(DOMAIN u)
    BY <1>1, <1>5, <1>7, ClosedWith
  <2>4. ASSUME NEW q \in DOMAIN u, ~u[q].loaded
        PROVE  Under(DOMAIN u, q) = {q}
    <3>1. q \in N /\ q \in Node
      BY <1>7, <1>8, <2>4
    <3>2. ASSUME NEW x \in N, q \in Above[x], x # q
          PROVE  FALSE
      <4>1. CASE q \in Above[path]
        <5>1. Children(N, q) = {}
          BY <1>10, <2>4, <3>1, <4>1
        <5> HIDE DEF N
        <5> QED
          BY <1>8, <3>1, <3>2, <5>1, ChildAbove
      <4>2. CASE q \notin Above[path]
        <5>1. q \in DOMAIN t /\ ~t[q].loaded /\ x \in DOMAIN t
          BY <1>9, <1>11, <2>4, <3>1, <3>2, <4>2
        <5>2. Under(DOMAIN t, q) = {q}
          BY <5>1 DEF Good, Trie
        <5> QED
          BY <3>2, <5>1, <5>2, UnderIs
      <4> QED
        BY <4>1, <4>2
    <3>3. q \in Above[q]
      BY <3>1, Chain
    <3> QED
      BY <1>7, <3>1, <3>2, <3>3, UnderIs
  <2> QED
    BY <2>1, <2>2, <2>3, <2>4 DEF Trie
<1>16. Shows(u, g)
  <2>1. DOMAIN u \subseteq DOMAIN g
    BY <1>1, <1>7, <1>12
  <2>2. ASSUME NEW p \in N, p \notin Above[path]
        PROVE  p \in DOMAIN f /\ Part(g, p) = Part(f, p)
    <3>1. p \in DOMAIN f
      BY <1>1, <1>9, <2>2
    <3>2. p \notin Above[h]
      BY <1>5, <2>2, Chain
    <3>3. Under(DOMAIN g, p) = Under(DOMAIN f, p)
      <4>1. \A x \in DOMAIN g : p \in Above[x] => x \in DOMAIN f
        BY <1>12, <2>2, <3>2
      <4>2. \A x \in DOMAIN f : x \in DOMAIN g
        BY <1>12
      <4> QED
        BY <4>1, <4>2 DEF Under
    <3>4. \A q \in Under(DOMAIN f, p) : g[q] = f[q]
      BY <1>13, <2>2, UnderIs
    <3> QED
      BY <3>1, <3>3, <3>4 DEF Part, Restricted
  <2>3. \A p \in DOMAIN u : u[p].addr \in {Nothing, Part(g, p)}
    <3>1. \A p \in DOMAIN t : t[p].addr \in {Nothing, Part(f, p)}
      BY DEF Good, Shows
    <3> HIDE DEF N
    <3> QED
      BY <1>7, <1>9, <1>10, <2>2, <3>1
  <2>4. Stubs(t) \subseteq Stubs(u) /\ \A p \in Stubs(u) : p \in Stubs(t)
    <3>1. \A p \in Stubs(t) : p \in N /\ u[p] = t[p]
      BY <1>2, <1>9
    <3>2. \A p \in Stubs(u) : p \in N /\ p \notin Above[path]
      <4> HIDE DEF N
      <4> QED
        BY <1>7, <1>10 DEF Stubs
    <3>3. \A p \in Stubs(u) : p \in DOMAIN t /\ u[p] = t[p]
      BY <1>9, <3>2
    <3> QED
      BY <1>7, <3>1, <3>3 DEF Stubs
  <2>5. ASSUME NEW p \in DOMAIN u, p \notin Stubs(u)
        PROVE  u[p].entry = g[p]
    <3>1. p \in N /\ p \notin Stubs(t)
      BY <1>7, <2>4, <2>5
    <3>2. p \in DOMAIN t => t[p].entry = f[p] /\ p \in DOMAIN f
      BY <1>1, <3>1 DEF Good, Shows
    <3>3. CASE p \notin Above[path]
      <4>1. p \in DOMAIN t /\ u[p] = t[p] /\ p # path
        BY <1>8, <1>9, <3>1, <3>3
      <4> QED
        BY <1>13, <3>2, <4>1
    <3>4. CASE p \in Above[path]
      <4>1. u[p].entry = IF p = path THEN v ELSE IF p \in DOMAIN t THEN t[p].entry ELSE NoEntry
        BY <1>10, <3>1, <3>4
      <4>2. p \notin DOMAIN t /\ p # path => p = h /\ p \notin DOMAIN f
        BY <1>14, <3>1
      <4> QED
        BY <1>13, <3>2, <4>1, <4>2
    <3> QED
      BY <3>3, <3>4
  <2>6. \A q \in DOMAIN g \ DOMAIN u : Spine(Stubs(u), q) # {}
    <3> TAKE q \in DOMAIN g \ DOMAIN u
    <3>1. q \in DOMAIN f \ DOMAIN t
      BY <1>7, <1>12
    <3>2. PICK s \in Stubs(t) : s \in Above[q]
      BY <3>1, GoodIs
    <3>3. s \in Spine(Stubs(u), q)
      BY <2>4, <3>2, UnderIs
    <3> QED
      BY <3>3
  <2>7. ASSUME NEW q \in Dirty(u), NEW x \in Spine(DOMAIN u, q)
        PROVE  x \in Dirty(u)
    <3>1. q \in N /\ u[q].addr = Nothing /\ x \in N /\ x \in Above[q]
      BY <1>7, <2>7, UnderIs DEF Dirty
    <3>2. CASE x \in Above[path]
      BY <1>7, <1>10, <3>1, <3>2 DEF Dirty
    <3>3. CASE x \notin Above[path]
      <4>1. q \notin Above[path] /\ x \in DOMAIN t /\ u[x] = t[x] /\ q \in DOMAIN t /\ u[q] = t[q]
        BY <1>9, <1>11, <3>1, <3>3
      <4>2. q \in Dirty(t) /\ x \in Spine(DOMAIN t, q)
        BY <3>1, <4>1, UnderIs DEF Dirty
      <4>3. x \in Dirty(t)
        BY <4>1, <4>2 DEF Good, Shows
      <4> QED
        BY <1>7, <3>1, <4>1, <4>3 DEF Dirty
    <3> QED
      BY <3>2, <3>3
  <2> QED
    BY <2>1, <2>3, <2>5, <2>6, <2>7 DEF Shows
<1> QED
  BY <1>6, <1>12, <1>15, <1>16 DEF Good

-----------------------------------------------------------------------------
(* Eviction.                                                               *)

\* Nodes on the way, counted.
LEMMA DepthIs ==
  ASSUME NEW S, S \subseteq Node, <<>> \in S
  PROVE  /\ \A p \in S : IsFiniteSet(Spine(S, p)) /\ Cardinality(Spine(S, p)) \in Nat
         /\ \A p \in S : \A q \in Spine(S, p) :
              q # p => Cardinality(Spine(S, q)) < Cardinality(Spine(S, p))
         /\ \A p \in S : \A k \in Children(S, p) :
              Cardinality(Spine(S, k)) = Cardinality(Spine(S, p)) + 1
         /\ Cardinality(Spine(S, <<>>)) = 1
<1>1. ASSUME NEW p \in S
      PROVE  IsFiniteSet(Spine(S, p)) /\ Cardinality(Spine(S, p)) \in Nat
  <2>1. Spine(S, p) \subseteq Above[p] /\ IsFiniteSet(Above[p])
    BY AboveIsFinite DEF Spine
  <2>2. IsFiniteSet(Spine(S, p))
    BY <2>1, FS_Subset
  <2> QED
    BY <2>2, FS_CardinalityType
<1>2. ASSUME NEW p \in S, NEW q \in Spine(S, p), q # p
      PROVE  Cardinality(Spine(S, q)) < Cardinality(Spine(S, p))
  <2>1. q \in S /\ q \in Above[p] /\ p \in Above[p]
    BY <1>2, UnderIs, Chain
  <2>2. Spine(S, q) \subseteq Spine(S, p)
    BY <2>1, UnderIs, Chain
  <2>3. p \in Spine(S, p) /\ p \notin Spine(S, q)
    BY <1>2, <2>1, UnderIs, AboveBoth
  <2>4. /\ Cardinality(Spine(S, q)) <= Cardinality(Spine(S, p))
        /\ Cardinality(Spine(S, q)) # Cardinality(Spine(S, p))
    BY <1>1, <2>2, <2>3, FS_Subset
  <2>5. Cardinality(Spine(S, q)) \in Nat /\ Cardinality(Spine(S, p)) \in Nat
    BY <1>1, <2>1
  <2> QED
    BY <2>4, <2>5
<1>3. ASSUME NEW p \in S, NEW k \in Children(S, p)
      PROVE  Cardinality(Spine(S, k)) = Cardinality(Spine(S, p)) + 1
  <2>1. k \in S /\ p \in Above[k] /\ k # p /\ Spine(S, k) = Spine(S, p) \cup {k}
    BY UnderIs
  <2>2. k \notin Spine(S, p)
    BY <2>1, UnderIs, AboveBoth
  <2> QED
    BY <1>1, <2>1, <2>2, FS_AddElement
<1>4. Cardinality(Spine(S, <<>>)) = 1
  <2>1. ASSUME NEW x \in Above[<<>>]
        PROVE  x = <<>>
    BY Chain, AboveBoth
  <2>2. Spine(S, <<>>) = {<<>>}
    BY <2>1, UnderIs, Chain
  <2> QED
    BY <2>2, FS_Singleton
<1> QED
  BY <1>1, <1>2, <1>3, <1>4

\* On the way to a node that is n deep, or deeper, there is one that is n deep.
LEMMA AtDepth ==
  ASSUME NEW S, S \subseteq Node, <<>> \in S, NEW p \in S, NEW n \in Nat \ {0},
         n <= Cardinality(Spine(S, p))
  PROVE  \E q \in Spine(S, p) : Cardinality(Spine(S, q)) = n
<1> DEFINE D == {Cardinality(Spine(S, q)) : q \in {x \in Spine(S, p) : n <= Cardinality(Spine(S, x))}}
<1>1. p \in Spine(S, p) /\ \A q \in Spine(S, p) : q \in S
  BY UnderIs, Chain
<1>2. D \subseteq Nat /\ D # {}
  BY <1>1, DepthIs
<1> HIDE DEF D
<1>3. PICK m \in D : \A x \in D : m <= x
  BY <1>2, Least
<1>4. PICK q \in Spine(S, p) : n <= Cardinality(Spine(S, q)) /\ m = Cardinality(Spine(S, q))
  BY DEF D
<1>5. ASSUME m # n
      PROVE  FALSE
  <2>1. q # <<>>
    BY <1>4, <1>5, DepthIs
  <2>2. PICK r \in S : Parent(S, q) = {r}
    BY <1>1, <2>1, ParentIs
  <2>3. q \in Children(S, r) /\ r \in Above[q]
    BY <2>2, UnderIs
  <2>4. m = Cardinality(Spine(S, r)) + 1 /\ Cardinality(Spine(S, r)) \in Nat
    BY <1>4, <2>3, DepthIs
  <2>5. r \in Spine(S, p)
    BY <1>4, <2>3, UnderIs, Chain
  <2>6. Cardinality(Spine(S, r)) \in D
    BY <1>4, <1>5, <2>4, <2>5 DEF D
  <2> QED
    BY <1>3, <2>4, <2>6
<1> QED
  BY <1>4, <1>5

LEMMA EvictIs ==
  ASSUME NEW t, NEW f, Good(t, f), Dirty(t) = {}
  PROVE  Good(Evicted(t), f) /\ Dirty(Evicted(t)) = {}
<1> DEFINE depth(p) == Cardinality(Spine(DOMAIN t, p)) - 1
           N == {p \in DOMAIN t : depth(p) <= EvictDepth + 1}
<1>1. DOMAIN t \subseteq DOMAIN f /\ DOMAIN t \subseteq Node /\ <<>> \in DOMAIN t /\ EvictDepth \in Nat
  BY GoodIs, MantarayAssumption DEF Good, Trie
<1>2. PICK u : u = Evicted(t)
  OBVIOUS
<1>3. u = [p \in N |-> IF depth(p) = EvictDepth + 1 THEN [t[p] EXCEPT !.loaded = FALSE] ELSE t[p]]
  BY <1>2 DEF Evicted
<1>4. \A p \in DOMAIN t : depth(p) \in Int /\ \A q \in Spine(DOMAIN t, p) : q \in DOMAIN t /\ (q # p => depth(q) < depth(p))
  <2> TAKE p \in DOMAIN t
  <2>1. \A q \in Spine(DOMAIN t, p) : q \in DOMAIN t
    BY UnderIs
  <2>2. \A q \in DOMAIN t : Cardinality(Spine(DOMAIN t, q)) \in Nat
    BY <1>1, DepthIs
  <2>3. \A q \in Spine(DOMAIN t, p) : q # p => Cardinality(Spine(DOMAIN t, q)) < Cardinality(Spine(DOMAIN t, p))
    BY <1>1, DepthIs
  <2> QED
    BY <2>1, <2>2, <2>3
<1>5. depth(<<>>) = 0
  BY <1>1, DepthIs
<1>6. \A p \in DOMAIN t : depth(p) >= EvictDepth + 1 => \E q \in Spine(DOMAIN t, p) : depth(q) = EvictDepth + 1
  <2> TAKE p \in DOMAIN t
  <2> HAVE depth(p) >= EvictDepth + 1
  <2>1. Cardinality(Spine(DOMAIN t, p)) \in Nat
    BY <1>1, DepthIs
  <2>4. PICK n : n = EvictDepth + 2
    OBVIOUS
  <2>5. n \in Nat \ {0} /\ n <= Cardinality(Spine(DOMAIN t, p))
    BY <1>1, <2>1, <2>4
  <2>6. PICK q \in Spine(DOMAIN t, p) : Cardinality(Spine(DOMAIN t, q)) = n
    BY <1>1, <2>5, AtDepth
  <2>2. Cardinality(Spine(DOMAIN t, q)) = EvictDepth + 2
    BY <2>4, <2>6
  <2>3. depth(q) = EvictDepth + 1
    BY <1>1, <2>2
  <2> QED
    BY <2>3
<1>7. \A p \in DOMAIN t : p \in N <=> depth(p) <= EvictDepth + 1
  OBVIOUS
<1> HIDE DEF depth
<1>8. DOMAIN u = N /\ N \subseteq DOMAIN t
  BY <1>3
<1>9. \A p \in N : depth(p) # EvictDepth + 1 => u[p] = t[p]
  BY <1>3
<1>10. \A p \in N : depth(p) = EvictDepth + 1 => u[p] = [t[p] EXCEPT !.loaded = FALSE]
  BY <1>3
<1> HIDE DEF N
<1>11. \A p \in N : /\ u[p] \in NodeState /\ u[p].entry = t[p].entry /\ u[p].addr = t[p].addr
                    /\ u[p].addr = Part(f, p) /\ u[p].addr # Nothing
                    /\ depth(p) = EvictDepth + 1 => ~u[p].loaded
                    /\ u[p].loaded => t[p].loaded
  <2> TAKE p \in N
  <2>1. PICK x : x = t[p]
    OBVIOUS
  <2>2. x \in NodeState
    BY <1>8, <2>1, GoodIs
  <2>3. x.addr = Part(f, p) /\ x.addr # Nothing
    BY <1>8, <2>1, GoodIs DEF Dirty
  <2>4. CASE depth(p) # EvictDepth + 1
    BY <1>9, <2>1, <2>2, <2>3, <2>4
  <2>5. CASE depth(p) = EvictDepth + 1
    <3>1. u[p] = [x EXCEPT !.loaded = FALSE]
      BY <1>10, <2>1, <2>5
    <3>2. /\ u[p] \in NodeState /\ u[p].entry = x.entry /\ u[p].addr = x.addr /\ ~u[p].loaded
      BY <2>2, <3>1 DEF NodeState
    <3> QED
      BY <2>1, <2>3, <2>5, <3>2
  <2> QED
    BY <2>4, <2>5
<1>12. Dirty(u) = {}
  BY <1>8, <1>11 DEF Dirty
<1>13. \A s \in Stubs(t) : s \in N => s \in Stubs(u)
  BY <1>8, <1>11 DEF Stubs
<1>14. \A p \in N : depth(p) = EvictDepth + 1 => p \in Stubs(u)
  BY <1>8, <1>11 DEF Stubs
<1>15. Trie(u)
  <2>1. u \in [DOMAIN u -> NodeState]
    BY <1>3, <1>8, <1>11
  <2>2. <<>> \in DOMAIN u /\ DOMAIN u \subseteq Node
    BY <1>1, <1>5, <1>7, <1>8
  <2>3. Closed(DOMAIN u)
    <3>1. ASSUME NEW p \in N, NEW q \in N
          PROVE  \E r \in N : Above[r] = Above[p] \cap Above[q]
      <4>1. PICK r \in DOMAIN t : Above[r] = Above[p] \cap Above[q]
        BY <1>8 DEF Good, Trie, Closed
      <4>2. r \in Spine(DOMAIN t, p)
        BY <1>1, <4>1, UnderIs, Chain
      <4>3. depth(r) <= depth(p) /\ depth(p) <= EvictDepth + 1 /\ depth(p) \in Int /\ depth(r) \in Int
        BY <1>4, <1>7, <1>8, <4>2
      <4>4. r \in N
        BY <1>1, <1>7, <4>3
      <4> QED
        BY <4>1, <4>4
    <3> QED
      BY <1>8, <3>1 DEF Closed
  <2>4. ASSUME NEW q \in DOMAIN u, ~u[q].loaded
        PROVE  Under(DOMAIN u, q) = {q}
    <3>1. q \in N /\ q \in DOMAIN t /\ q \in Above[q]
      BY <1>1, <1>8, Chain
    <3>2. ASSUME NEW x \in N, q \in Above[x], x # q
          PROVE  FALSE
      <4>1. CASE depth(q) = EvictDepth + 1
        <5>1. q \in Spine(DOMAIN t, x) /\ x \in DOMAIN t
          BY <1>8, <3>1, <3>2, UnderIs
        <5>2. depth(q) < depth(x) /\ depth(x) <= EvictDepth + 1
          BY <1>4, <1>7, <3>2, <5>1
        <5>3. depth(x) \in Int /\ depth(q) \in Int
          BY <1>4, <3>1, <5>1
        <5> QED
          BY <1>1, <4>1, <5>2, <5>3
      <4>2. CASE depth(q) # EvictDepth + 1
        <5>1. ~t[q].loaded
          BY <1>9, <2>4, <3>1, <4>2
        <5>2. Under(DOMAIN t, q) = {q}
          BY <3>1, <5>1 DEF Good, Trie
        <5> QED
          BY <1>8, <3>2, <5>2, UnderIs
      <4> QED
        BY <4>1, <4>2
    <3> QED
      BY <1>8, <3>1, <3>2, UnderIs
  <2> QED
    BY <2>1, <2>2, <2>3, <2>4 DEF Trie
<1>16. Shows(u, f)
  <2>1. DOMAIN u \subseteq DOMAIN f
    BY <1>1, <1>8
  <2>2. \A p \in DOMAIN u : u[p].addr \in {Nothing, Part(f, p)}
    BY <1>8, <1>11
  <2>3. ASSUME NEW p \in DOMAIN u, p \notin Stubs(u)
        PROVE  u[p].entry = f[p]
    <3>1. p \in N /\ p \in DOMAIN t /\ p \notin Stubs(t)
      BY <1>8, <1>13, <2>3
    <3> QED
      BY <1>11, <3>1 DEF Good, Shows
  <2>4. ASSUME NEW q \in DOMAIN f \ DOMAIN u
        PROVE  Spine(Stubs(u), q) # {}
    <3>1. PICK s \in DOMAIN t : s \in Above[q] /\ (s \in Stubs(t) \/ s \notin N)
      <4>1. CASE q \in DOMAIN t
        BY <1>1, <1>8, <2>4, <4>1, Chain
      <4>2. CASE q \notin DOMAIN t
        <5>1. PICK s \in Stubs(t) : s \in Above[q]
          BY <4>2, GoodIs
        <5> QED
          BY <5>1, GoodIs
      <4> QED
        BY <4>1, <4>2
    <3>2. CASE s \in N
      <4>1. s \in Spine(Stubs(u), q)
        BY <1>13, <3>1, <3>2, UnderIs
      <4> QED
        BY <4>1
    <3>3. CASE s \notin N
      <4>1. depth(s) >= EvictDepth + 1
        BY <1>1, <1>4, <1>7, <3>3
      <4>2. PICK x \in Spine(DOMAIN t, s) : depth(x) = EvictDepth + 1
        BY <1>6, <4>1
      <4>3. x \in DOMAIN t /\ x \in Above[s]
        BY <4>2, UnderIs
      <4>4. x \in N
        BY <1>1, <1>7, <4>2, <4>3
      <4>5. x \in Stubs(u)
        BY <1>14, <4>2, <4>4
      <4>6. q \in Node
        BY GoodIs
      <4>7. x \in Above[q]
        BY <3>1, <4>3, <4>6, Chain
      <4>8. x \in Spine(Stubs(u), q)
        BY <4>5, <4>7, UnderIs
      <4> QED
        BY <4>8
    <3> QED
      BY <3>2, <3>3
  <2> QED
    BY <1>12, <2>1, <2>2, <2>3, <2>4 DEF Shows
<1> QED
  BY <1>2, <1>12, <1>15, <1>16 DEF Good

-----------------------------------------------------------------------------
(* The invariant, for a manifest f that the tree shows.                    *)

UploadState == [node : Node, content : Address, live : BOOLEAN]

TreeHolds(f) == Good(tree, f) /\ Entries(f) = kv
SavedHolds   == Entries(saved.ref) = saved.kv /\ (saved.ref # Nothing => Manifest(saved.ref))
QueueHolds   == queue \in Seq(Calls) /\ Len(queue) <= MaxQueue

\* The uploads us go with the tree t, which shows f.
Fit(us, t, f) ==
  /\ us \subseteq UploadState /\ IsFiniteSet(us)
  /\ \A u \in us :
       /\ u.node \in Dirty(t) /\ u.content = Part(f, u.node)
       /\ Under(DOMAIN t, u.node) \cap Dirty(t) = {u.node}
       /\ \A w \in us : w.node = u.node => w = u

\* What a save that runs knows of t.
Counts(remaining, t) ==
  /\ Dirty(t) \subseteq DOMAIN remaining
  /\ \A p \in Dirty(t) : remaining[p] = Cardinality(Children(DOMAIN t, p) \cap Dirty(t))
ReadyOf(remaining, t, us) == {p \in Dirty(t) : remaining[p] = 0} \ {u.node : u \in us}

UploadsHold(f) ==
  /\ Fit(uploads, tree, f)
  /\ Cardinality(uploads \ Stale) <= Concurrency
  /\ Stale # {} => uploads = Stale /\ queue = <<>>
  /\ save.running <=> uploads # Stale
  /\ save.running => /\ Running("save")
                     /\ Counts(save.remaining, tree)
                     /\ save.ready = ReadyOf(save.remaining, tree, uploads)

Kept(f) == TreeHolds(f) /\ SavedHolds /\ QueueHolds /\ UploadsHold(f)

LEMMA CallIs ==
  \A c \in Calls : /\ c.op \in {"add", "get", "save"}
                   /\ c.op = "add" => c.path \in Node /\ c.entry \in Value
                   /\ c.op = "get" => c.path \in Node
BY Chain DEF Calls, Add, Get, SaveCall

LEMMA ReadIs ==
  ASSUME NEW t, NEW f, Good(t, f), NEW path \in Node, ToLoad(t, path) = {}
  PROVE  GetFork(t, path) = IF path \in DOMAIN Entries(f) THEN Entries(f)[path] ELSE NoEntry
<1> DEFINE E == {p \in DOMAIN f : f[p] # NoEntry}
<1>1. DOMAIN Entries(f) = E /\ \A p \in E : Entries(f)[p] = f[p]
  BY DEF Entries, Restricted
<1>2. CASE path \in DOMAIN t
  <2>1. path \in DOMAIN f /\ path \in Above[path]
    BY <1>2, GoodIs, Chain
  <2>2. path \notin Stubs(t)
    BY <2>1, UnderIs DEF ToLoad, Stubs
  <2>3. t[path].entry = f[path]
    BY <1>2, <2>2 DEF Good, Shows
  <2>4. GetFork(t, path) = f[path]
    BY <1>2, <2>3 DEF GetFork
  <2> QED
    BY <1>1, <2>1, <2>4
<1>3. CASE path \notin DOMAIN t
  <2>1. path \notin DOMAIN f
    <3>1. ASSUME path \in DOMAIN f
          PROVE  FALSE
      <4>1. PICK s \in Stubs(t) : s \in Above[path]
        BY <1>3, <3>1, GoodIs
      <4> QED
        BY <4>1, UnderIs DEF ToLoad, Stubs
    <3> QED
      BY <3>1
  <2>2. GetFork(t, path) = NoEntry
    BY <1>3 DEF GetFork
  <2> QED
    BY <1>1, <2>1, <2>2
<1> QED
  BY <1>2, <1>3

LEMMA KeptGives == (\E f : Kept(f)) => MantarayInv
<1> SUFFICES ASSUME NEW f, Kept(f) PROVE MantarayInv
  OBVIOUS
<1>1. Good(tree, f) /\ Full(tree) = f /\ Entries(f) = kv
  BY FullIs DEF Kept, TreeHolds
<1>2. TypeOK
  <2>1. Trie(tree) /\ queue \in Seq(Calls) /\ Len(queue) <= MaxQueue
    BY <1>1 DEF Good, Kept, QueueHolds
  <2>2. \A p \in DOMAIN tree : DOMAIN tree[p].addr \subseteq Under(DOMAIN tree[p].addr, p)
    BY <1>1, GoodAddresses
  <2>3. /\ uploads \subseteq [node : Node, content : Address, live : BOOLEAN]
        /\ Cardinality(uploads \ Stale) <= Concurrency
        /\ save.running <=> uploads # Stale
        /\ save.running => Running("save")
    BY DEF Kept, UploadsHold, Fit, UploadState
  <2> QED
    BY <2>1, <2>2, <2>3 DEF TypeOK
<1>3. AddressesTrue
  BY <1>1, GoodAddresses DEF AddressesTrue
<1>4. SaveComplete
  BY DEF Kept, SavedHolds, SaveComplete
<1>5. ReadsSeeWrites
  <2>1. ASSUME Running("get"), ToLoad(tree, Head(queue).path) = {}
        PROVE  GetFork(tree, Head(queue).path) =
                 IF Head(queue).path \in DOMAIN kv THEN kv[Head(queue).path] ELSE NoEntry
    <3>1. Head(queue) \in Calls
      BY <1>2, <2>1, HeadTailProperties DEF TypeOK, Running
    <3>2. Head(queue).path \in Node
      BY <2>1, <3>1, CallIs DEF Running
    <3> QED
      BY <1>1, <2>1, <3>2, ReadIs
  <2> QED
    BY <2>1 DEF ReadsSeeWrites
<1>6. ManifestKept
  BY <1>1 DEF Good, Kept, SavedHolds, ManifestKept
<1>7. UploadsKept
  BY <1>1 DEF Kept, UploadsHold, Fit, UploadsKept
<1>8. SaveKept
  BY <1>1 DEF Kept, UploadsHold, Counts, ReadyOf, SaveKept
<1> QED
  BY <1>2, <1>3, <1>4, <1>5, <1>6, <1>7, <1>8 DEF MantarayInv, TreeSound

LEMMA KeptFrom == MantarayInv => Kept(Full(tree))
<1> SUFFICES ASSUME MantarayInv PROVE Kept(Full(tree))
  OBVIOUS
<1>1. TypeOK /\ SaveComplete /\ ManifestKept /\ UploadsKept /\ SaveKept
  BY DEF MantarayInv, TreeSound
<1>2. TreeHolds(Full(tree))
  BY <1>1 DEF TypeOK, ManifestKept, TreeHolds, Good
<1>3. SavedHolds /\ QueueHolds
  BY <1>1 DEF TypeOK, SaveComplete, ManifestKept, SavedHolds, QueueHolds
<1>4. UploadsHold(Full(tree))
  BY <1>1 DEF TypeOK, UploadsKept, SaveKept, UploadsHold, Fit, Counts, ReadyOf, UploadState
<1> QED
  BY <1>2, <1>3, <1>4 DEF Kept

LEMMA KeptGivesNext == (\E f : Kept(f))' => MantarayInv'
BY KeptGives, PTL

-----------------------------------------------------------------------------
(* The walk of a save.                                                     *)

\* saveTree() may upload a node when none of its children wants to be: nothing
\* else below it does.
LEMMA NothingBelow ==
  ASSUME NEW t, NEW f, Good(t, f), NEW p \in Dirty(t), Children(DOMAIN t, p) \cap Dirty(t) = {}
  PROVE  Under(DOMAIN t, p) \cap Dirty(t) = {p} /\ Serialized(t, p) = Part(f, p)
<1>1. DOMAIN t \subseteq Node /\ p \in DOMAIN t /\ p \in Node /\ Dirty(t) \subseteq DOMAIN t
  BY DEF Good, Trie, Dirty
<1>2. ASSUME NEW q \in Under(DOMAIN t, p), q \in Dirty(t), q # p
      PROVE  FALSE
  <2>1. q \in DOMAIN t /\ p \in Above[q]
    BY UnderIs
  <2>2. PICK k \in Children(DOMAIN t, p) : k \in Above[q]
    BY <1>1, <1>2, <2>1, ChildAbove
  <2>3. k \in DOMAIN t
    BY <2>2, UnderIs
  <2>4. Spine(DOMAIN t, q) \subseteq Dirty(t)
    BY <1>2 DEF Good, Shows
  <2>5. k \in Dirty(t)
    BY <2>2, <2>3, <2>4, UnderIs
  <2> QED
    BY <2>2, <2>5
<1>3. p \in Under(DOMAIN t, p)
  BY <1>1, UnderIs, Chain
<1>4. Under(DOMAIN t, p) \cap Dirty(t) = {p}
  BY <1>2, <1>3
<1>5. p \notin Stubs(t)
  BY DEF Stubs, Dirty
<1> QED
  BY <1>1, <1>4, <1>5, SerializedIs

\* A manifest that is not saved has a node that can be uploaded at once.
LEMMA SomeReady ==
  ASSUME NEW t, NEW f, Good(t, f), Dirty(t) # {}
  PROVE  \E p \in Dirty(t) : Children(DOMAIN t, p) \cap Dirty(t) = {}
<1>1. DOMAIN t \subseteq Node /\ IsFiniteSet(Dirty(t)) /\ Dirty(t) \subseteq Node /\ Dirty(t) \subseteq DOMAIN t
  <2>1. IsFiniteSet(DOMAIN t) /\ DOMAIN t \subseteq Node
    BY GoodIs
  <2>2. Dirty(t) \in SUBSET DOMAIN t
    BY DEF Dirty
  <2> QED
    BY <2>1, <2>2, FS_Subset
<1> DEFINE D(p) == Under(Dirty(t), p)
           N == {Cardinality(D(p)) : p \in Dirty(t)}
<1>2. \A p \in Dirty(t) : IsFiniteSet(D(p)) /\ Cardinality(D(p)) \in Nat
  <2> TAKE p \in Dirty(t)
  <2>1. D(p) \in SUBSET Dirty(t)
    BY UnderIs
  <2> HIDE DEF D
  <2>2. IsFiniteSet(D(p))
    BY <1>1, <2>1, FS_Subset
  <2> QED
    BY <2>2, FS_CardinalityType
<1>3. N \subseteq Nat /\ N # {}
  BY <1>2
<1> HIDE DEF N
<1>4. PICK n \in N : \A m \in N : n <= m
  BY <1>3, Least
<1>5. PICK p \in Dirty(t) : n = Cardinality(D(p))
  BY <1>4 DEF N
<1>6. ASSUME NEW k \in Children(DOMAIN t, p) \cap Dirty(t)
      PROVE  FALSE
  <2>1. k \in Dirty(t) /\ p \in Above[k] /\ k # p
    BY UnderIs
  <2>2. D(k) \in SUBSET D(p)
    <3>1. ASSUME NEW q \in D(k)
          PROVE  q \in D(p)
      <4>1. q \in Dirty(t) /\ k \in Above[q]
        BY UnderIs
      <4>2. p \in Above[q]
        BY <1>1, <2>1, <4>1, Chain
      <4> QED
        BY <4>1, <4>2, UnderIs
    <3> QED
      BY <3>1
  <2>3. p \in D(p)
    BY <1>1, <1>5, UnderIs, Chain
  <2>4. p \notin D(k)
    <3>1. ASSUME p \in D(k)
          PROVE  FALSE
      <4>1. k \in Above[p]
        BY <3>1, UnderIs
      <4> QED
        BY <1>1, <2>1, <4>1, AboveBoth
    <3> QED
      BY <3>1
  <2> HIDE DEF D
  <2>5. Cardinality(D(k)) <= Cardinality(D(p)) /\ Cardinality(D(k)) # Cardinality(D(p))
    BY <1>2, <1>5, <2>2, <2>3, <2>4, FS_Subset
  <2>6. Cardinality(D(k)) \in N
    BY <2>1 DEF N
  <2> QED
    BY <1>2, <1>4, <1>5, <2>1, <2>5, <2>6
<1> QED
  BY <1>6

\* The address of the root is the whole manifest.
LEMMA WholePart ==
  ASSUME NEW f, Manifest(f)
  PROVE  Part(f, <<>>) = f
<1>1. f \in [DOMAIN f -> Entry] /\ DOMAIN f \subseteq Node
  BY AddressIs DEF Manifest
<1>2. Under(DOMAIN f, <<>>) = DOMAIN f
  BY <1>1, UnderIs, Chain
<1> QED
  BY <1>1, <1>2 DEF Part, Restricted

LEMMA TailIs ==
  ASSUME QueueHolds, queue # <<>>
  PROVE  /\ Tail(queue) \in Seq(Calls) /\ Len(Tail(queue)) = Len(queue) - 1 /\ Len(Tail(queue)) <= MaxQueue
         /\ Head(queue) \in Calls /\ Len(queue) \in Nat
<1>1. /\ Tail(queue) \in Seq(Calls) /\ Len(Tail(queue)) = Len(queue) - 1
      /\ Head(queue) \in Calls /\ Len(queue) \in Nat
  BY HeadTailProperties, LenProperties DEF QueueHolds
<1> QED
  BY <1>1, MantarayAssumption DEF QueueHolds

\* No upload is under way.
LEMMA NoUploads ==
  ASSUME NEW t, NEW f, NEW us, us = {}
  PROVE  /\ Fit(us, t, f) /\ IsFiniteSet(us) /\ Cardinality(us) = 0
         /\ \A S : Cardinality(us \ S) <= Concurrency
<1>1. Fit(us, t, f)
  BY FS_EmptySet DEF Fit
<1>2. \A S : us \ S = {}
  OBVIOUS
<1> QED
  BY <1>1, <1>2, FS_EmptySet, MantarayAssumption

LEMMA NoneLive == \A us : Cardinality(us \ us) <= Concurrency
<1> TAKE us
<1>1. PICK none : none = us \ us
  OBVIOUS
<1>2. none = {} /\ Cardinality(none) = Cardinality(us \ us)
  BY <1>1
<1>3. Cardinality(none) = 0
  BY <1>2, FS_EmptySet
<1> QED
  BY <1>2, <1>3, MantarayAssumption

\* What a step may do to what was saved last.
SavedStep == UNCHANGED saved \/ (saved'.ref # Nothing /\ saved'.kv = kv)

\* save() returns the reference of the manifest.
LEMMA SaveEnds ==
  ASSUME NEW t, NEW f, Good(t, f), Dirty(t) = {}, Entries(f) = kv, Stale = {}, QueueHolds,
         Running("save"), EndSave(t), kv' = kv
  PROVE  Kept(f)' /\ SavedStep
<1>1. TreeHolds(f)'
  <2>1. tree' = Evicted(t)
    BY DEF EndSave
  <2> QED
    BY <2>1, EvictIs DEF TreeHolds
<1>2. SavedHolds' /\ SavedStep
  <2>1. t[<<>>].addr = f
    <3>1. <<>> \in DOMAIN t
      BY DEF Good, Trie
    <3>2. t[<<>>].addr = Part(f, <<>>)
      BY <3>1, GoodIs
    <3> QED
      BY <3>2, WholePart DEF Good
  <2>2. saved'.ref = f /\ saved'.kv = kv
    BY <2>1 DEF EndSave
  <2>3. f # Nothing
    BY AddressIs DEF Good, Manifest
  <2> QED
    BY <2>2, <2>3 DEF SavedHolds, SavedStep, Good
<1>3. QueueHolds'
  <2>1. queue' = Tail(queue) /\ queue # <<>>
    BY DEF EndSave, Running
  <2> QED
    BY <2>1, TailIs DEF QueueHolds
<1>4. UploadsHold(f)'
  <2>1. uploads' = {} /\ save'.running = FALSE
    BY DEF EndSave, NotSaving
  <2>2. Stale' = {}
    BY <2>1 DEF Stale
  <2>3. Fit(uploads', tree', f) /\ Cardinality(uploads' \ Stale') <= Concurrency
    BY <2>1, NoUploads
  <2> QED
    BY <2>1, <2>2, <2>3 DEF UploadsHold
<1> QED
  BY <1>1, <1>2, <1>3, <1>4 DEF Kept

\* startNext() starts uploads of ready nodes, never more than there is room for.
LEMMA UploadsStart ==
  ASSUME NEW t, NEW f, NEW remaining, NEW ready, NEW us,
         Good(t, f), Entries(f) = kv, kv' = kv, SavedHolds, QueueHolds, Running("save"),
         Fit(us, t, f), \A u \in us : u.live, Cardinality(us) <= Concurrency,
         Counts(remaining, t), ready = ReadyOf(remaining, t, us), ready # {} \/ us # {},
         StartNext(t, remaining, ready, us)
  PROVE  Kept(f)' /\ SavedStep
<1> DEFINE New(S) == {Upload(t, p) : p \in S}
<1>1. {u \in us : u.live} = us
  OBVIOUS
<1>2. PICK S \in SUBSET ready :
        /\ Cardinality(S) <= Concurrency - Cardinality(us)
        /\ S = ready \/ Cardinality(S) = Concurrency - Cardinality(us)
        /\ tree' = t
        /\ uploads' = us \cup New(S)
        /\ save' = [running |-> TRUE, remaining |-> remaining, ready |-> ready \ S]
        /\ queue' = queue /\ saved' = saved
  BY <1>1 DEF StartNext
<1>3. ready \subseteq Dirty(t) /\ IsFiniteSet(ready) /\ IsFiniteSet(S) /\ Cardinality(S) \in Nat
  <2>1. ready \in SUBSET DOMAIN t /\ ready \subseteq Dirty(t) /\ S \in SUBSET DOMAIN t
    BY <1>2 DEF ReadyOf, Dirty
  <2>2. IsFiniteSet(DOMAIN t)
    BY GoodIs
  <2> QED
    BY <2>1, <2>2, FS_Subset, FS_CardinalityType
<1>4. ASSUME NEW p \in S
      PROVE  /\ p \in Dirty(t) /\ p \in Node
             /\ Under(DOMAIN t, p) \cap Dirty(t) = {p} /\ Serialized(t, p) = Part(f, p)
             /\ Part(f, p) \in Address
             /\ \A u \in us : u.node # p
  <2>1. p \in Dirty(t) /\ remaining[p] = 0 /\ \A u \in us : u.node # p
    BY <1>2 DEF ReadyOf
  <2>2. p \in DOMAIN t /\ p \in DOMAIN f /\ p \in Node
    BY <2>1, GoodIs DEF Dirty
  <2>3. Cardinality(Children(DOMAIN t, p) \cap Dirty(t)) = 0
    BY <2>1 DEF Counts
  <2>4. Children(DOMAIN t, p) \cap Dirty(t) = {}
    <3>1. IsFiniteSet(DOMAIN t) /\ Children(DOMAIN t, p) \cap Dirty(t) \in SUBSET DOMAIN t
      BY GoodIs DEF Dirty
    <3>2. IsFiniteSet(Children(DOMAIN t, p) \cap Dirty(t))
      BY <3>1, FS_Subset
    <3> QED
      BY <2>3, <3>2, FS_EmptySet
  <2> QED
    BY <2>1, <2>2, <2>4, NothingBelow, PartIs DEF Good
<1>5. ASSUME NEW p \in S
      PROVE  /\ Upload(t, p).node = p /\ Upload(t, p).content = Part(f, p) /\ Upload(t, p).live
             /\ Upload(t, p) \in UploadState
  BY <1>4 DEF Upload, UploadState
<1>6. IsFiniteSet(New(S)) /\ Cardinality(New(S)) <= Cardinality(S) /\ Cardinality(New(S)) \in Nat
  <2> DEFINE g == [p \in S |-> Upload(t, p)]
  <2>1. g \in Surjection(S, New(S))
    BY DEF Surjection
  <2> HIDE DEF g, New
  <2> QED
    BY <1>3, <2>1, FS_Surjection, FS_CardinalityType
<1> DEFINE ups == us \cup New(S)
<1>7. \A u \in New(S) : \E p \in S : u = Upload(t, p)
  OBVIOUS
<1>8. \A p \in S : Upload(t, p) \in New(S)
  OBVIOUS
<1> HIDE DEF New
<1>9. IsFiniteSet(us) /\ Cardinality(us) \in Nat
  BY FS_CardinalityType DEF Fit
<1>10. IsFiniteSet(ups) /\ Cardinality(ups) <= Concurrency /\ Cardinality(ups) \in Nat
  <2>1. IsFiniteSet(us \cap New(S))
    BY <1>9, FS_Intersection
  <2>2. Cardinality(us \cap New(S)) \in Nat
    BY <2>1, FS_CardinalityType
  <2>3. IsFiniteSet(ups) /\ Cardinality(ups) = Cardinality(us) + Cardinality(New(S)) - Cardinality(us \cap New(S))
    BY <1>6, <1>9, FS_Union
  <2>4. Cardinality(ups) \in Nat
    BY <2>3, FS_CardinalityType
  <2> QED
    BY <1>2, <1>3, <1>6, <1>9, <2>2, <2>3, <2>4, MantarayAssumption
<1>11. Fit(ups, t, f)
  <2>1. ups \subseteq UploadState
    BY <1>5, <1>7 DEF Fit
  <2>2. ASSUME NEW u \in ups
        PROVE  /\ u.node \in Dirty(t) /\ u.content = Part(f, u.node)
               /\ Under(DOMAIN t, u.node) \cap Dirty(t) = {u.node}
    <3>1. CASE u \in us
      BY <3>1 DEF Fit
    <3>2. CASE u \in New(S)
      <4>1. PICK p \in S : u = Upload(t, p)
        BY <1>7, <3>2
      <4> QED
        BY <1>4, <1>5, <4>1
    <3> QED
      BY <3>1, <3>2
  <2>3. ASSUME NEW u \in ups, NEW w \in ups, w.node = u.node
        PROVE  w = u
    <3>1. CASE u \in us /\ w \in us
      BY <2>3, <3>1 DEF Fit
    <3>2. CASE u \in New(S) /\ w \in New(S)
      BY <1>5, <1>7, <2>3, <3>2
    <3>3. CASE u \in us /\ w \in New(S)
      BY <1>4, <1>5, <1>7, <2>3, <3>3
    <3>4. CASE u \in New(S) /\ w \in us
      BY <1>4, <1>5, <1>7, <2>3, <3>4
    <3> QED
      BY <3>1, <3>2, <3>3, <3>4
  <2> QED
    BY <1>10, <2>1, <2>2, <2>3 DEF Fit
<1>12. \A u \in ups : u.live
  BY <1>5, <1>7
<1>13. ups # {}
  <2>1. CASE us # {}
    BY <2>1
  <2>2. CASE us = {}
    <3>1. Cardinality(us) = 0 /\ ready # {}
      BY <2>2, FS_EmptySet
    <3>2. S = ready \/ Cardinality(S) = Concurrency - Cardinality(us)
      BY <1>2
    <3>3. Cardinality(S) = Concurrency => S # {}
      BY FS_EmptySet, MantarayAssumption
    <3>4. S # {}
      BY <3>1, <3>2, <3>3, MantarayAssumption
    <3> QED
      BY <1>8, <3>4
  <2> QED
    BY <2>1, <2>2
<1>14. ready \ S = ReadyOf(remaining, t, ups)
  <2>1. {u.node : u \in ups} = {u.node : u \in us} \cup S
    BY <1>5, <1>7, <1>8
  <2> QED
    BY <2>1 DEF ReadyOf
<1>15. uploads' = ups
  BY <1>2
<1> HIDE DEF ups
<1>16. Stale' = {}
  BY <1>12, <1>15 DEF Stale
<1>17. UploadsHold(f)'
  <2>1. uploads' \ Stale' = ups /\ tree' = t
    BY <1>2, <1>15, <1>16
  <2>2. Running("save")'
    BY <1>2 DEF Running
  <2>3. save'.running /\ save'.remaining = remaining /\ save'.ready = ready \ S
    BY <1>2
  <2> QED
    BY <1>10, <1>11, <1>13, <1>14, <1>15, <1>16, <2>1, <2>2, <2>3 DEF UploadsHold
<1>18. TreeHolds(f)'
  BY <1>2 DEF TreeHolds
<1>19. SavedHolds' /\ QueueHolds'
  BY <1>2 DEF SavedHolds, QueueHolds
<1>20. SavedStep
  BY <1>2 DEF SavedStep
<1> QED
  BY <1>17, <1>18, <1>19, <1>20 DEF Kept

-----------------------------------------------------------------------------
(* The actions, one by one.                                                *)

LEMMA Quiet == uploads = {} /\ ~save.running => \A g : UploadsHold(g)
<1>1. uploads = {} => Stale = {}
  BY DEF Stale
<1> QED
  BY <1>1, NoUploads DEF UploadsHold

LEMMA QuietNext == (uploads = {} /\ ~save.running)' => (\A g : UploadsHold(g))'
BY Quiet, PTL

\* Outside of a save uploads are under way only while no call is.
LEMMA QuietCalls ==
  ASSUME NEW f, Kept(f), queue # <<>>, ~save.running
  PROVE  uploads = {}
BY DEF Kept, UploadsHold

LEMMA QuietReads ==
  ASSUME NEW f, Kept(f), Running("add") \/ Running("get")
  PROVE  /\ uploads = {} /\ ~save.running /\ queue # <<>>
         /\ Head(queue) \in Calls /\ Head(queue).path \in Node
<1>1. queue # <<>> /\ Head(queue).op # "save"
  BY DEF Running
<1>2. ~save.running
  BY <1>1 DEF Kept, UploadsHold, Running
<1>3. Head(queue) \in Calls
  BY <1>1, TailIs DEF Kept
<1>4. Head(queue).path \in Node
  BY <1>3, CallIs DEF Running
<1> QED
  BY <1>1, <1>2, <1>3, <1>4, QuietCalls

LEMMA StutterKeeps ==
  ASSUME NEW f, Kept(f), UNCHANGED vars
  PROVE  Kept(f)'
BY DEF vars, Kept, TreeHolds, SavedHolds, QueueHolds, UploadsHold, Running, Stale

LEMMA CallKeeps ==
  ASSUME NEW f, Kept(f), ~Hasty, Call
  PROVE  Kept(f)'
<1>1. PICK c \in Calls : queue' = Append(queue, c)
  BY DEF Call
<1>2. /\ tree' = tree /\ save' = save /\ uploads' = uploads /\ kv' = kv /\ saved' = saved
      /\ Len(queue) < MaxQueue /\ Stale = {}
  BY DEF Call
<1>3. queue \in Seq(Calls) /\ Len(queue) \in Nat
  BY LenProperties DEF Kept, QueueHolds
<1>4. queue' \in Seq(Calls) /\ Len(queue') = Len(queue) + 1 /\ queue' # <<>>
  BY <1>1, <1>3, AppendProperties
<1>5. queue # <<>> => Head(queue') = Head(queue)
  <2> SUFFICES ASSUME queue # <<>> PROVE Head(queue') = Head(queue)
    OBVIOUS
  <2>1. Head(queue) = queue[1] /\ Head(queue') = queue'[1]
    BY <1>3, <1>4
  <2>2. 1 \in 1..Len(queue)
    BY <1>3, EmptySeq
  <2> QED
    BY <1>1, <1>3, <2>1, <2>2, AppendProperties
<1>6. QueueHolds'
  BY <1>2, <1>3, <1>4, MantarayAssumption DEF QueueHolds
<1>7. Running("save") => Running("save")'
  BY <1>4, <1>5 DEF Running
<1>8. Stale' = {}
  BY <1>2 DEF Stale
<1>9. UploadsHold(f)'
  BY <1>2, <1>7, <1>8 DEF Kept, UploadsHold
<1>10. TreeHolds(f)' /\ SavedHolds'
  BY <1>2 DEF Kept, TreeHolds, SavedHolds
<1> QED
  BY <1>6, <1>9, <1>10 DEF Kept

LEMMA HydrateKeeps ==
  ASSUME NEW f, Kept(f), Hydrate
  PROVE  Kept(f)'
<1>1. Running("add") \/ Running("get")
  BY DEF Hydrate
<1>2. PICK p \in ToLoad(tree, Head(queue).path) : tree' = LoadAndStub(tree, p, tree[p].addr)
  BY DEF Hydrate
<1>3. queue' = queue /\ save' = save /\ uploads' = uploads /\ kv' = kv /\ saved' = saved
  BY DEF Hydrate
<1>4. p \in Stubs(tree)
  BY UnderIs DEF ToLoad, Stubs
<1>5. Good(tree, f)
  BY DEF Kept, TreeHolds
<1>6. TreeHolds(f)'
  <2>1. Good(LoadAndStub(tree, p, tree[p].addr), f)
    BY <1>4, <1>5, LoadIs
  <2> QED
    BY <1>2, <1>3, <2>1 DEF Kept, TreeHolds
<1>7. UploadsHold(f)'
  BY <1>1, <1>3, QuietReads, QuietNext
<1>8. SavedHolds' /\ QueueHolds'
  BY <1>3 DEF Kept, SavedHolds, QueueHolds
<1> QED
  BY <1>6, <1>7, <1>8 DEF Kept

\* A call that does nothing to the tree.
LEMMA ReadKeeps ==
  ASSUME NEW f, Kept(f), HydrateFails \/ ApplyGet
  PROVE  Kept(f)'
<1>1. /\ Running("add") \/ Running("get")
      /\ queue' = Tail(queue)
      /\ tree' = tree /\ save' = save /\ uploads' = uploads /\ kv' = kv /\ saved' = saved
  BY DEF HydrateFails, ApplyGet
<1>2. UploadsHold(f)'
  BY <1>1, QuietReads, QuietNext
<1>3. QueueHolds'
  BY <1>1, QuietReads, TailIs DEF Kept, QueueHolds
<1>4. TreeHolds(f)' /\ SavedHolds'
  BY <1>1 DEF Kept, TreeHolds, SavedHolds
<1> QED
  BY <1>2, <1>3, <1>4 DEF Kept

LEMMA AddKeeps ==
  ASSUME NEW f, Kept(f), ApplyAdd
  PROVE  \E g : Kept(g)'
<1> PICK path, v, d : path = Head(queue).path /\ v = Head(queue).entry /\ d = tree
  OBVIOUS
<1>1. /\ Running("add") /\ ToLoad(d, path) = {}
      /\ tree' = AddFork(d, path, v)
      /\ kv' = Added(kv, path, v)
      /\ queue' = Tail(queue) /\ save' = save /\ uploads' = uploads /\ saved' = saved
  BY DEF ApplyAdd, Added
<1>2. uploads = {} /\ ~save.running /\ queue # <<>> /\ path \in Node /\ v \in Value
  BY <1>1, QuietReads, CallIs DEF Running
<1>3. Good(d, f) /\ Entries(f) = kv
  BY DEF Kept, TreeHolds
<1>4. PICK g : /\ Good(AddFork(d, path, v), g)
               /\ Entries(g) = Added(Entries(f), path, v)
  BY <1>1, <1>2, <1>3, AddIs
<1>5. TreeHolds(g)'
  BY <1>1, <1>3, <1>4 DEF TreeHolds
<1>6. UploadsHold(g)'
  BY <1>1, <1>2, QuietNext
<1>7. QueueHolds' /\ SavedHolds'
  BY <1>1, <1>2, TailIs DEF Kept, QueueHolds, SavedHolds
<1> QED
  BY <1>5, <1>6, <1>7 DEF Kept

LEMMA StartSaveKeeps ==
  ASSUME NEW f, Kept(f), StartSave
  PROVE  Kept(f)' /\ SavedStep
<1> DEFINE D == Dirty(tree)
           remaining == [p \in D |-> Cardinality(Children(DOMAIN tree, p) \cap D)]
           ready == {p \in D : remaining[p] = 0}
<1>1. Running("save") /\ ~save.running /\ kv' = kv
  BY DEF StartSave
<1>2. uploads = {} /\ Stale = {}
  BY <1>1, QuietCalls DEF Running, Stale
<1>3. Good(tree, f) /\ Entries(f) = kv /\ QueueHolds /\ SavedHolds
  BY DEF Kept, TreeHolds
<1>4. Walked(tree) = D
  BY <1>3 DEF Walked, Good, Shows
<1>5. CASE D = {}
  <2>1. EndSave(tree)
    BY <1>4, <1>5 DEF StartSave
  <2> QED
    BY <1>1, <1>2, <1>3, <1>5, <2>1, SaveEnds
<1>6. CASE D # {}
  <2>1. StartNext(tree, remaining, ready, uploads)
    BY <1>4, <1>6 DEF StartSave
  <2>2. Counts(remaining, tree)
    BY DEF Counts
  <2>3. ready # {}
    <3>1. PICK p \in D : Children(DOMAIN tree, p) \cap D = {}
      BY <1>3, <1>6, SomeReady
    <3>2. remaining[p] = 0
      BY <3>1, FS_EmptySet
    <3> QED
      BY <3>2
  <2>4. ready = ReadyOf(remaining, tree, uploads)
    BY <1>2 DEF ReadyOf
  <2>5. /\ Fit(uploads, tree, f) /\ Cardinality(uploads) <= Concurrency
        /\ \A u \in uploads : u.live
    BY <1>2, FS_EmptySet, NoUploads, MantarayAssumption
  <2> HIDE DEF remaining, ready
  <2> QED
    BY <1>1, <1>3, <2>1, <2>2, <2>3, <2>4, <2>5, UploadsStart
<1> QED
  BY <1>5, <1>6

\* The upload of a node ends and stamps its address on it.
LEMMA StampFits ==
  ASSUME NEW t, NEW f, Good(t, f), NEW us, Fit(us, t, f), NEW u \in us,
         NEW s, s = Stamp(t, u.node, u.content)
  PROVE  /\ Good(s, f) /\ DOMAIN s = DOMAIN t /\ Dirty(s) = Dirty(t) \ {u.node}
         /\ Fit(us \ {u}, s, f)
<1>1. /\ u.node \in Dirty(t) /\ u.content = Part(f, u.node)
      /\ Under(DOMAIN t, u.node) \cap Dirty(t) = {u.node}
  BY DEF Fit
<1>2. Good(s, f) /\ DOMAIN s = DOMAIN t /\ Dirty(s) = Dirty(t) \ {u.node}
  <2>1. s = Stamp(t, u.node, Part(f, u.node))
    BY <1>1
  <2> QED
    BY <1>1, <2>1, StampIs
<1>3. us \ {u} \subseteq UploadState /\ IsFiniteSet(us \ {u})
  BY FS_RemoveElement DEF Fit
<1>4. ASSUME NEW w \in us \ {u}
      PROVE  /\ w.node \in Dirty(s) /\ w.content = Part(f, w.node)
             /\ Under(DOMAIN s, w.node) \cap Dirty(s) = {w.node}
             /\ \A x \in us \ {u} : x.node = w.node => x = w
  <2>1. /\ w.node \in Dirty(t) /\ w.content = Part(f, w.node)
        /\ Under(DOMAIN t, w.node) \cap Dirty(t) = {w.node}
        /\ \A x \in us : x.node = w.node => x = w
    BY DEF Fit
  <2>2. w.node # u.node
    BY <2>1
  <2>3. Under(DOMAIN s, w.node) = Under(DOMAIN t, w.node)
    BY <1>2
  <2> QED
    BY <1>2, <2>1, <2>2, <2>3
<1> QED
  BY <1>2, <1>3, <1>4 DEF Fit

\* The counters, one less for parent.
Counted(remaining, parent) ==
  [p \in DOMAIN remaining |-> remaining[p] - (IF p \in parent THEN 1 ELSE 0)]

\* The counters of the nodes above, and the node that becomes ready.
LEMMA CountsGo ==
  ASSUME NEW t, NEW f, Good(t, f), NEW us, Fit(us, t, f), NEW u \in us,
         NEW s, s = Stamp(t, u.node, u.content),
         NEW remaining, Counts(remaining, t),
         NEW parent, parent = Parent(DOMAIN t, u.node),
         NEW now, now = Counted(remaining, parent)
  PROVE  /\ Counts(now, s)
         /\ ReadyOf(now, s, us \ {u}) =
              ReadyOf(remaining, t, us) \cup {p \in parent : NowReady(now, p)}
<1> DEFINE K(p) == Children(DOMAIN t, p) \cap Dirty(t)
           n == u.node
<1>1. /\ DOMAIN s = DOMAIN t /\ Dirty(s) = Dirty(t) \ {n} /\ n \in Dirty(t)
      /\ Under(DOMAIN t, n) \cap Dirty(t) = {n}
  <2>1. DOMAIN s = DOMAIN t /\ Dirty(s) = Dirty(t) \ {n}
    BY StampFits
  <2>2. n \in Dirty(t) /\ Under(DOMAIN t, n) \cap Dirty(t) = {n}
    BY DEF Fit
  <2> QED
    BY <2>1, <2>2
<1>2. DOMAIN t \subseteq Node /\ IsFiniteSet(DOMAIN t) /\ Dirty(t) \subseteq DOMAIN t /\ n \in DOMAIN t
  BY <1>1, GoodIs DEF Dirty
<1>3. \A p : p \in parent <=> p \in DOMAIN t /\ n \in Children(DOMAIN t, p)
  BY UnderIs
<1>4. \A p \in DOMAIN t : IsFiniteSet(K(p)) /\ Cardinality(K(p)) \in Nat
  <2> TAKE p \in DOMAIN t
  <2>1. K(p) \in SUBSET DOMAIN t
    BY <1>2
  <2> HIDE DEF K
  <2>2. IsFiniteSet(K(p))
    BY <1>2, <2>1, FS_Subset
  <2> QED
    BY <2>2, FS_CardinalityType
<1>5. \A p \in Dirty(t) : p \in DOMAIN remaining /\ remaining[p] = Cardinality(K(p))
  BY DEF Counts
<1>6. \A p \in Dirty(t) : Children(DOMAIN s, p) \cap Dirty(s) = K(p) \ {n}
  BY <1>1
<1>7. \A p \in Dirty(t) : n \in K(p) <=> p \in parent
  BY <1>1, <1>2, <1>3
<1> HIDE DEF K
<1>8. ASSUME NEW p \in Dirty(t)
      PROVE  now[p] = Cardinality(K(p) \ {n}) /\ p \in DOMAIN now
  <2>1. now[p] = Cardinality(K(p)) - (IF p \in parent THEN 1 ELSE 0) /\ p \in DOMAIN now
    BY <1>5 DEF Counted
  <2>2. Cardinality(K(p) \ {n}) = IF n \in K(p) THEN Cardinality(K(p)) - 1 ELSE Cardinality(K(p))
    BY <1>2, <1>4, FS_RemoveElement
  <2> QED
    BY <1>2, <1>4, <1>7, <2>1, <2>2
<1>9. Counts(now, s)
  BY <1>1, <1>6, <1>8 DEF Counts
<1> DEFINE old == ReadyOf(remaining, t, us)
           new == ReadyOf(now, s, us \ {u})
<1>10. \A p : p \in old <=> p \in Dirty(t) /\ remaining[p] = 0 /\ \A w \in us : w.node # p
  BY DEF ReadyOf
<1>11. \A p : p \in new <=> p \in Dirty(t) /\ p # n /\ now[p] = 0 /\ \A w \in us \ {u} : w.node # p
  BY <1>1 DEF ReadyOf
<1> HIDE DEF old, new
<1>12. ASSUME NEW p \in old
       PROVE  p \in new
  <2>1. p \in Dirty(t) /\ Cardinality(K(p)) = 0 /\ \A w \in us : w.node # p
    BY <1>5, <1>10
  <2>2. K(p) = {} /\ K(p) \ {n} = {}
    BY <1>2, <1>4, <2>1, FS_EmptySet
  <2>3. now[p] = 0
    BY <1>8, <2>1, <2>2
  <2> QED
    BY <1>11, <2>1, <2>3
<1>13. ASSUME NEW p \in parent, NowReady(now, p)
       PROVE  p \in new
  <2>1. p \in DOMAIN t /\ p \in Above[n] /\ n # p
    BY <1>3, UnderIs
  <2>2. Spine(DOMAIN t, n) \subseteq Dirty(t)
    BY <1>1 DEF Good, Shows
  <2>3. p \in Dirty(t) /\ now[p] = 0
    BY <1>13, <2>1, <2>2, UnderIs DEF NowReady
  <2>4. n \in Under(DOMAIN t, p) \cap Dirty(t)
    BY <1>1, <1>2, <2>1, UnderIs
  <2>5. \A w \in us : Under(DOMAIN t, w.node) \cap Dirty(t) = {w.node}
    BY DEF Fit
  <2>6. \A w \in us : w.node # p
    BY <2>1, <2>4, <2>5
  <2> QED
    BY <1>11, <2>1, <2>3, <2>6
<1>14. ASSUME NEW p \in new, p \notin parent
       PROVE  p \in old
  <2>1. p \in Dirty(t) /\ p # n /\ now[p] = 0 /\ \A w \in us \ {u} : w.node # p
    BY <1>11
  <2>2. \A w \in us : w.node # p
    BY <2>1
  <2>3. remaining[p] = 0
    BY <1>4, <1>5, <1>2, <1>14, <2>1 DEF Counted
  <2> QED
    BY <1>10, <2>1, <2>2, <2>3
<1>15. \A p \in new : now[p] = 0
  BY <1>11
<1>16. new = old \cup {p \in parent : NowReady(now, p)}
  BY <1>12, <1>13, <1>14, <1>15 DEF NowReady
<1> QED
  BY <1>9, <1>16 DEF old, new

LEMMA UploadEndsKeeps ==
  ASSUME NEW f, Kept(f), NEW u \in uploads, UploadEnds(u)
  PROVE  Kept(f)' /\ SavedStep
<1>1. /\ Good(tree, f) /\ Entries(f) = kv /\ QueueHolds /\ SavedHolds
      /\ Fit(uploads, tree, f) /\ Cardinality(uploads \ Stale) <= Concurrency
  BY DEF Kept, TreeHolds, UploadsHold
<1>2. u.live /\ kv' = kv
  BY DEF UploadEnds
<1>3. save.running /\ Stale = {} /\ (\A w \in uploads : w.live)
  BY <1>2 DEF Kept, UploadsHold, Stale
<1>4. /\ Running("save") /\ Counts(save.remaining, tree)
      /\ save.ready = ReadyOf(save.remaining, tree, uploads)
  BY <1>3 DEF Kept, UploadsHold
<1>5. PICK s, us, parent, now, ready :
        /\ s = Stamp(tree, u.node, u.content)
        /\ us = uploads \ {u}
        /\ parent = Parent(DOMAIN tree, u.node)
        /\ now = Counted(save.remaining, parent)
        /\ ready = save.ready \cup {p \in parent : NowReady(now, p)}
  OBVIOUS
<1>6. IF ready = {} /\ us = {} THEN EndSave(s) ELSE StartNext(s, now, ready, us)
  BY <1>3, <1>5 DEF UploadEnds, Stamped, Stamp, Counted
<1>7. Good(s, f) /\ Fit(us, s, f)
  BY <1>1, <1>5, StampFits
<1>8. Counts(now, s) /\ ready = ReadyOf(now, s, us)
  BY <1>1, <1>4, <1>5, CountsGo
<1>9. (\A w \in us : w.live) /\ Cardinality(us) <= Concurrency
  <2>1. uploads \ Stale = uploads /\ IsFiniteSet(uploads)
    BY <1>1, <1>3 DEF Fit
  <2>2. us \in SUBSET uploads
    BY <1>5
  <2>3. Cardinality(us) <= Cardinality(uploads) /\ Cardinality(us) \in Nat /\ Cardinality(uploads) \in Nat
    BY <2>1, <2>2, FS_Subset, FS_CardinalityType
  <2> QED
    BY <1>1, <1>3, <2>1, <2>2, <2>3, MantarayAssumption
<1>10. CASE ready = {} /\ us = {}
  <2>1. Dirty(s) = {}
    <3>1. ASSUME Dirty(s) # {}
          PROVE  FALSE
      <4>1. PICK p \in Dirty(s) : Children(DOMAIN s, p) \cap Dirty(s) = {}
        BY <1>7, <3>1, SomeReady
      <4>2. now[p] = 0
        BY <1>8, <4>1, FS_EmptySet DEF Counts
      <4>3. p \in ready
        BY <1>8, <1>10, <4>1, <4>2 DEF ReadyOf
      <4> QED
        BY <1>10, <4>3
    <3> QED
      BY <3>1
  <2> QED
    BY <1>1, <1>2, <1>3, <1>4, <1>6, <1>7, <1>10, <2>1, SaveEnds
<1>11. CASE ~(ready = {} /\ us = {})
  <2>1. StartNext(s, now, ready, us)
    BY <1>6, <1>11
  <2> QED
    BY <1>1, <1>2, <1>4, <1>7, <1>8, <1>9, <1>11, <2>1, UploadsStart
<1> QED
  BY <1>10, <1>11

\* A save that fails leaves uploads behind; no call waits, and none is made
\* until they have ended.
LEMMA UploadFailsKeeps ==
  ASSUME NEW f, Kept(f), ~Hasty, NEW u \in uploads, UploadFails(u)
  PROVE  Kept(f)'
<1>1. /\ Good(tree, f) /\ QueueHolds /\ Fit(uploads, tree, f) /\ Running("save")
  BY DEF Kept, TreeHolds, UploadsHold, UploadFails, Stale
<1> DEFINE Left(w) == [w EXCEPT !.live = FALSE]
           us == {Left(w) : w \in uploads \ {u}}
<1>2. /\ queue' = Tail(queue) /\ uploads' = us /\ save' = NotSaving
      /\ tree' = tree /\ kv' = kv /\ saved' = saved /\ Len(queue) <= 1
  BY MantarayAssumption, TailIs, <1>1 DEF UploadFails, Running
<1>3. queue' = <<>> /\ QueueHolds'
  <2>1. /\ Tail(queue) \in Seq(Calls) /\ Len(Tail(queue)) = Len(queue) - 1 /\ Len(queue) \in Nat
        /\ Len(Tail(queue)) <= MaxQueue
    BY <1>1, TailIs DEF Running
  <2>2. Tail(queue) = <<>>
    BY <1>2, <2>1, EmptySeq
  <2> QED
    BY <1>2, <2>1, <2>2 DEF QueueHolds
<1>4. ASSUME NEW w \in uploads
      PROVE  /\ Left(w) \in UploadState /\ ~Left(w).live
             /\ Left(w).node = w.node /\ Left(w).content = w.content
  BY <1>1 DEF Fit, UploadState
<1>5. IsFiniteSet(us)
  <2> DEFINE g == [w \in uploads \ {u} |-> Left(w)]
  <2>1. g \in Surjection(uploads \ {u}, us)
    BY DEF Surjection
  <2>2. IsFiniteSet(uploads \ {u})
    BY <1>1, FS_RemoveElement DEF Fit
  <2> HIDE DEF g, us
  <2> QED
    BY <2>1, <2>2, FS_Surjection
<1>6. \A x \in us : \E w \in uploads : x = Left(w)
  OBVIOUS
<1> HIDE DEF us, Left
<1>7. Fit(us, tree, f)
  <2>1. us \subseteq UploadState
    BY <1>4, <1>6
  <2>2. ASSUME NEW x \in us
        PROVE  /\ x.node \in Dirty(tree) /\ x.content = Part(f, x.node)
               /\ Under(DOMAIN tree, x.node) \cap Dirty(tree) = {x.node}
               /\ \A y \in us : y.node = x.node => y = x
    <3>1. PICK w \in uploads : x = Left(w)
      BY <1>6
    <3>2. x.node = w.node /\ x.content = w.content
      BY <1>4, <3>1
    <3>3. /\ w.node \in Dirty(tree) /\ w.content = Part(f, w.node)
          /\ Under(DOMAIN tree, w.node) \cap Dirty(tree) = {w.node}
          /\ \A y \in uploads : y.node = w.node => y = w
      BY <1>1 DEF Fit
    <3>4. ASSUME NEW y \in us, y.node = x.node
          PROVE  y = x
      <4>1. PICK v \in uploads : y = Left(v)
        BY <1>6
      <4> QED
        BY <1>4, <3>1, <3>2, <3>3, <3>4, <4>1
    <3> QED
      BY <3>2, <3>3, <3>4
  <2> QED
    BY <1>5, <2>1, <2>2 DEF Fit
<1>8. UploadsHold(f)'
  <2>1. Stale' = us
    <3>1. \A x \in us : ~x.live
      BY <1>4, <1>6
    <3>2. Stale' = {x \in us : ~x.live}
      BY <1>2 DEF Stale
    <3> QED
      BY <3>1, <3>2
  <2>2. Cardinality(uploads' \ Stale') <= Concurrency
    BY <1>2, <2>1, NoneLive
  <2>3. ~save'.running
    BY <1>2 DEF NotSaving
  <2> QED
    BY <1>2, <1>3, <1>7, <2>1, <2>2, <2>3 DEF UploadsHold
<1>9. TreeHolds(f)' /\ SavedHolds'
  BY <1>2 DEF Kept, TreeHolds, SavedHolds
<1> QED
  BY <1>3, <1>8, <1>9 DEF Kept

\* An upload that was left behind ends, well or not.
LEMMA StaleKeeps ==
  ASSUME NEW f, Kept(f), NEW u \in uploads, StaleEnds(u) \/ StaleFails(u)
  PROVE  Kept(f)'
<1>1. /\ Good(tree, f) /\ Fit(uploads, tree, f) /\ ~u.live
      /\ uploads = Stale /\ queue = <<>> /\ ~save.running
  BY DEF Kept, TreeHolds, UploadsHold, StaleEnds, StaleFails, Stale
<1>2. /\ uploads' = uploads \ {u} /\ queue' = queue /\ save' = save /\ kv' = kv /\ saved' = saved
      /\ tree' = tree \/ tree' = Stamp(tree, u.node, u.content)
  BY DEF StaleEnds, StaleFails, Stamped, Stamp
<1>3. Good(tree', f) /\ Fit(uploads', tree', f)
  <2>1. PICK s : s = Stamp(tree, u.node, u.content)
    OBVIOUS
  <2>2. Good(s, f) /\ Fit(uploads \ {u}, s, f)
    BY <1>1, <2>1, StampFits
  <2>3. Fit(uploads \ {u}, tree, f)
    BY <1>1, FS_RemoveElement DEF Fit
  <2> QED
    BY <1>1, <1>2, <2>1, <2>2, <2>3
<1>4. UploadsHold(f)'
  <2>1. Stale' = uploads'
    BY <1>1, <1>2 DEF Stale
  <2>2. Cardinality(uploads' \ Stale') <= Concurrency
    BY <2>1, NoneLive
  <2> QED
    BY <1>1, <1>2, <1>3, <2>1, <2>2 DEF UploadsHold
<1>5. TreeHolds(f)' /\ SavedHolds' /\ QueueHolds'
  BY <1>2, <1>3 DEF Kept, TreeHolds, SavedHolds, QueueHolds
<1> QED
  BY <1>4, <1>5 DEF Kept

\* Another process opens the manifest that was saved last.
LEMMA ReopenKeeps ==
  ASSUME NEW f, Kept(f), Reopen
  PROVE  Kept(saved.ref)'
<1>1. PICK c : c = saved.ref
  OBVIOUS
<1>2. Manifest(c) /\ Entries(c) = saved.kv
  BY <1>1 DEF Kept, SavedHolds, Reopen
<1>3. PICK t : t = [p \in {<<>>} |-> Stub(c, p)]
  OBVIOUS
<1>4. c \in Address /\ <<>> \in DOMAIN c /\ c # Nothing /\ DOMAIN c \subseteq Node /\ Part(c, <<>>) = c
  BY <1>2, WholePart, AddressIs DEF Manifest
<1>5. DOMAIN t = {<<>>} /\ t[<<>>] = [entry |-> NoEntry, addr |-> c, loaded |-> FALSE]
  BY <1>3, <1>4 DEF Stub, Part
<1>6. Stubs(t) = {<<>>} /\ Dirty(t) = {} /\ t[<<>>].addr = c
  BY <1>4, <1>5 DEF Stubs, Dirty
<1>7. Good(t, c)
  <2>1. t \in [DOMAIN t -> NodeState]
    <3>1. t[<<>>] \in NodeState
      BY <1>4, <1>5 DEF NodeState
    <3>2. t = [p \in DOMAIN t |-> t[p]]
      BY <1>3
    <3> QED
      BY <1>5, <3>1, <3>2
  <2>2. Closed(DOMAIN t)
    BY <1>5 DEF Closed
  <2>3. \A p \in DOMAIN t : Under(DOMAIN t, p) = {p}
    BY <1>5, UnderIs, Chain
  <2>4. Trie(t)
    BY <1>4, <1>5, <2>1, <2>2, <2>3, Chain DEF Trie
  <2>5. \A q \in DOMAIN c : <<>> \in Spine(Stubs(t), q)
    BY <1>4, <1>6, UnderIs, Chain
  <2>6. Shows(t, c)
    BY <1>4, <1>5, <1>6, <2>5 DEF Shows
  <2> QED
    BY <1>2, <2>4, <2>6 DEF Good
<1>8. Good(LoadAndStub(t, <<>>, c), c)
  BY <1>6, <1>7, LoadIs
<1>9. /\ tree' = LoadAndStub(t, <<>>, c) /\ kv' = saved.kv /\ saved' = saved
      /\ queue' = <<>> /\ save' = NotSaving /\ uploads' = {}
  BY <1>1, <1>3 DEF Reopen
<1>10. TreeHolds(c)'
  BY <1>2, <1>8, <1>9 DEF TreeHolds
<1>11. UploadsHold(c)'
  BY <1>9, QuietNext DEF NotSaving
<1>12. QueueHolds' /\ SavedHolds'
  <2>1. <<>> \in Seq(Calls) /\ Len(<<>>) <= MaxQueue
    BY EmptySeq, MantarayAssumption
  <2> QED
    BY <1>9, <2>1 DEF Kept, QueueHolds, SavedHolds
<1>13. saved'.ref = c
  BY <1>1, <1>9
<1> QED
  BY <1>10, <1>11, <1>12, <1>13 DEF Kept

LEMMA InitKept == Init => \E f : Kept(f)
<1> SUFFICES ASSUME Init PROVE \E f : Kept(f)
  OBVIOUS
<1>1. PICK f, t : f = [p \in {<<>>} |-> NoEntry] /\ t = tree
  OBVIOUS
<1>2. DOMAIN f = {<<>>} /\ f[<<>>] = NoEntry
  BY <1>1
<1>3. DOMAIN t = {<<>>} /\ t[<<>>] = [entry |-> NoEntry, addr |-> Nothing, loaded |-> FALSE]
  BY <1>1 DEF Init
<1>4. <<>> \in Node /\ Above[<<>>] = {<<>>}
  <2>1. \A x \in Above[<<>>] : x = <<>>
    BY Chain, AboveBoth
  <2> QED
    BY <2>1, Chain
<1>5. Stubs(t) = {} /\ Dirty(t) = {<<>>} /\ Closed({<<>>})
  BY <1>3 DEF Stubs, Dirty, Closed
<1>6. Manifest(f)
  <2>1. {<<>>} \in SUBSET Node /\ NoEntry \in Entry
    BY <1>4 DEF Entry
  <2>2. f \in [{<<>>} -> Entry]
    BY <1>1, <2>1
  <2>3. f \in Address
    BY <2>1, <2>2, AddressIs
  <2> QED
    BY <1>2, <1>5, <2>3, FS_Singleton DEF Manifest
<1>7. Good(t, f)
  <2>1. t \in [DOMAIN t -> NodeState]
    <3>1. t[<<>>] \in NodeState
      BY <1>3, AddressIs DEF NodeState
    <3>2. t = [p \in DOMAIN t |-> t[p]]
      BY <1>1 DEF Init
    <3> QED
      BY <1>3, <3>1, <3>2
  <2>2. \A p \in DOMAIN t : Under(DOMAIN t, p) = {p}
    BY <1>3, <1>4, UnderIs
  <2>3. Trie(t)
    BY <1>3, <1>4, <1>5, <2>1, <2>2 DEF Trie
  <2>4. \A p \in DOMAIN t : Spine(DOMAIN t, p) \subseteq Dirty(t)
    BY <1>3, <1>5, UnderIs
  <2>5. Shows(t, f)
    BY <1>2, <1>3, <1>5, <2>4 DEF Shows
  <2> QED
    BY <1>6, <2>3, <2>5 DEF Good
<1>8. Entries(f) = Nothing /\ Entries(Nothing) = Nothing
  <2>1. {p \in DOMAIN f : f[p] # NoEntry} = {} /\ {p \in DOMAIN Nothing : Nothing[p] # NoEntry} = {}
    BY <1>2 DEF Nothing
  <2> QED
    BY <2>1 DEF Entries, Restricted, Nothing
<1>9. UploadsHold(f)
  <2>1. uploads = {} /\ ~save.running
    BY DEF Init, NotSaving
  <2> QED
    BY <2>1, Quiet
<1>10. TreeHolds(f)
  BY <1>1, <1>7, <1>8 DEF Init, TreeHolds
<1>11. QueueHolds
  BY EmptySeq, MantarayAssumption DEF Init, QueueHolds
<1>12. SavedHolds
  BY <1>8 DEF Init, SavedHolds
<1> QED
  BY <1>9, <1>10, <1>11, <1>12 DEF Kept

-----------------------------------------------------------------------------
\* Whatever happens, the tree goes on to show a manifest; only an addition and
\* another process make it another one.
LEMMA NextKeeps ==
  ASSUME NEW f, Kept(f), ~Hasty, [Next]_vars
  PROVE  /\ \E g : Kept(g)'
         /\ ~ApplyAdd /\ ~Reopen => Kept(f)'
<1>1. CASE UNCHANGED vars
  BY <1>1, StutterKeeps
<1>2. CASE Call
  BY <1>2, CallKeeps
<1>3. CASE Hydrate
  BY <1>3, HydrateKeeps
<1>4. CASE HydrateFails \/ ApplyGet
  BY <1>4, ReadKeeps
<1>5. CASE ApplyAdd
  BY <1>5, AddKeeps
<1>6. CASE StartSave
  BY <1>6, StartSaveKeeps
<1>7. ASSUME NEW u \in uploads, UploadEnds(u)
      PROVE  Kept(f)'
  BY <1>7, UploadEndsKeeps
<1>8. ASSUME NEW u \in uploads, UploadFails(u)
      PROVE  Kept(f)'
  BY <1>8, UploadFailsKeeps
<1>9. ASSUME NEW u \in uploads, StaleEnds(u) \/ StaleFails(u)
      PROVE  Kept(f)'
  BY <1>9, StaleKeeps
<1>10. CASE Reopen
  BY <1>10, ReopenKeeps
<1> QED
  BY <1>1, <1>2, <1>3, <1>4, <1>5, <1>6, <1>7, <1>8, <1>9, <1>10 DEF Next, Steps, Answers

LEMMA NextMantarayInv ==
  ASSUME ~Hasty, MantarayInv, [Next]_vars
  PROVE  MantarayInv'
<1>1. PICK f : Kept(f)
  BY KeptFrom
<1>2. \E g : Kept(g)'
  BY <1>1, NextKeeps
<1> QED
  BY <1>2, KeptGivesNext

\* The inductive invariant of the tree, the uploads and the save, for callers
\* that do not go on while uploads of a failed save are under way: the nodes in
\* memory, the stubs among them and the addresses are those of one manifest,
\* which holds what was added (index.ts:109-160, spine.ts, save.ts, evict.ts).
THEOREM MantarayInvariant == ~Hasty => (Spec => []MantarayInv)
<1> SUFFICES ASSUME ~Hasty PROVE Spec => []MantarayInv
  OBVIOUS
<1>1. Init => MantarayInv
  BY InitKept, KeptGives
<1>2. MantarayInv /\ [Next]_vars => MantarayInv'
  BY NextMantarayInv
<1> QED
  BY <1>1, <1>2, PTL DEF Spec

\* The tree is well formed, never more than Concurrency uploads of one save are
\* under way, and a node that has an address has the right one: the walk of a
\* save may skip it (save.ts:36-51).
THEOREM TreeIsSound == ~Hasty => (Spec => []TreeSound)
<1>1. MantarayInv => TreeSound
  BY DEF MantarayInv
<1> QED
  BY <1>1, MantarayInvariant, PTL

\* However uploads overlap and fail, and whatever was never loaded or was
\* evicted, a reference that save() returns is of a manifest that holds exactly
\* what was added until then (index.ts:139-149, save.ts:84-110).
THEOREM SavesAreComplete == ~Hasty => (Spec => []SaveComplete)
<1>1. MantarayInv => SaveComplete
  BY DEF MantarayInv
<1> QED
  BY <1>1, MantarayInvariant, PTL

\* getForkAtPath() finds what was added, on nodes that come and go
\* (index.ts:120-125, spine.ts:55-84).
THEOREM ReadsSeeTheirWrites == ~Hasty => (Spec => []ReadsSeeWrites)
<1>1. MantarayInv => ReadsSeeWrites
  BY DEF MantarayInv
<1> QED
  BY <1>1, MantarayInvariant, PTL

\* Loading, saving, evicting and failing never change the manifest that the tree
\* is a part of: only addFork() does, and opening what was saved before.
THEOREM OnlyAddsChange ==
  ~Hasty => (Spec => [][ApplyAdd \/ Reopen \/ Full(tree') = Full(tree)]_vars)
<1> SUFFICES ASSUME ~Hasty
             PROVE  Spec => [][ApplyAdd \/ Reopen \/ Full(tree') = Full(tree)]_vars
  OBVIOUS
<1>1. ASSUME MantarayInv, [Next]_vars
      PROVE  [ApplyAdd \/ Reopen \/ Full(tree') = Full(tree)]_vars
  <2> SUFFICES ASSUME ~ApplyAdd, ~Reopen
               PROVE  Full(tree') = Full(tree)
    OBVIOUS
  <2>1. PICK f : Kept(f)
    BY <1>1, KeptFrom
  <2>2. Kept(f)'
    BY <1>1, <2>1, NextKeeps
  <2>3. Good(tree, f) /\ Good(tree', f)
    BY <2>1, <2>2 DEF Kept, TreeHolds
  <2> QED
    BY <2>3, FullIs
<1> QED
  BY <1>1, MantarayInvariant, PTL DEF Spec

-----------------------------------------------------------------------------
(* The manifest implements the map of ManifestMap.                         *)

\* What every step does to the entries and to what is saved.
LEMMA StepIs ==
  ASSUME NEW f, Kept(f), [Next]_vars
  PROVE  \/ \E p \in Path, v \in Value : kv' = Added(kv, p, v) /\ saved' = saved
         \/ kv' = kv /\ SavedStep
         \/ saved.ref # Nothing /\ kv' = saved.kv /\ saved' = saved
<1>1. CASE UNCHANGED vars \/ Call \/ Hydrate \/ HydrateFails \/ ApplyGet
  BY <1>1 DEF vars, Call, Hydrate, HydrateFails, ApplyGet, SavedStep
<1>2. CASE ApplyAdd
  <2>1. PICK c : c = Head(queue)
    OBVIOUS
  <2>2. c \in Calls /\ c.op = "add"
    BY <1>2, <2>1, QuietReads DEF ApplyAdd, Running
  <2>3. c.path \in Path /\ c.entry \in Value
    BY <2>2 DEF Calls, Add, Get, SaveCall
  <2>4. kv' = Added(kv, c.path, c.entry) /\ saved' = saved
    BY <1>2, <2>1 DEF ApplyAdd, Added
  <2> QED
    BY <2>3, <2>4
<1>3. CASE StartSave
  BY <1>3, StartSaveKeeps DEF StartSave
<1>4. ASSUME NEW u \in uploads, UploadEnds(u)
      PROVE  kv' = kv /\ SavedStep
  BY <1>4, UploadEndsKeeps DEF UploadEnds
<1>5. ASSUME NEW u \in uploads, UploadFails(u) \/ StaleEnds(u) \/ StaleFails(u)
      PROVE  kv' = kv /\ SavedStep
  BY <1>5 DEF UploadFails, StaleEnds, StaleFails, SavedStep
<1>6. CASE Reopen
  BY <1>6 DEF Reopen
<1> QED
  BY <1>1, <1>2, <1>3, <1>4, <1>5, <1>6 DEF Next, Steps, Answers

\* Each of them is a step of the map, or changes nothing of it.
LEMMA StepImplementsMap ==
  ASSUME MantarayInv, MantarayInv', [Next]_vars
  PROVE  [Promised!Next]_(Promised!vars)
<1> DEFINE Refs(s) == {s.ref} \ {Nothing}
           Maps(s) == {Entries(c) : c \in Refs(s)}
<1>1. Entries(Full(tree)) = kv /\ Entries(Full(tree'))  = kv'
  BY DEF MantarayInv, ManifestKept
<1>2. Entries(saved.ref) = saved.kv /\ Entries(saved'.ref) = saved'.kv
  BY DEF MantarayInv, SaveComplete
<1>3. PICK f : Kept(f)
  BY KeptFrom
<1>4. CASE \E p \in Path, v \in Value : kv' = Added(kv, p, v) /\ saved' = saved
  <2>1. PICK p \in Path, v \in Value : kv' = Added(kv, p, v) /\ saved' = saved
    BY <1>4
  <2>2. Promised!Add(p, v)
    BY <1>1, <2>1 DEF Promised!Add, Added
  <2> QED
    BY <2>2 DEF Promised!Next
<1>5. CASE kv' = kv /\ UNCHANGED saved
  BY <1>1, <1>5 DEF Promised!vars
<1>6. CASE kv' = kv /\ saved'.ref # Nothing /\ saved'.kv = kv
  <2>1. Maps(saved') = {kv}
    BY <1>2, <1>6
  <2>2. Promised!Save
    BY <1>1, <1>6, <2>1 DEF Promised!Save
  <2> QED
    BY <2>2 DEF Promised!Next
<1>7. CASE saved.ref # Nothing /\ kv' = saved.kv /\ saved' = saved
  <2>1. kv' \in Maps(saved)
    BY <1>2, <1>7
  <2>2. Promised!Reopen
    BY <1>1, <1>7, <2>1 DEF Promised!Reopen
  <2> QED
    BY <2>2 DEF Promised!Next
<1> QED
  BY <1>3, <1>4, <1>5, <1>6, <1>7, StepIs DEF SavedStep

LEMMA InitImplementsMap == Init => Promised!Init
<1> SUFFICES ASSUME Init PROVE Promised!Init
  OBVIOUS
<1>1. MantarayInv
  BY InitKept, KeptGives
<1>2. Entries(Full(tree)) = [p \in {} |-> {}]
  <2>1. Entries(Full(tree)) = Nothing
    BY <1>1 DEF MantarayInv, ManifestKept, Init
  <2> QED
    BY <2>1 DEF Nothing
<1>3. {Entries(c) : c \in {saved.ref} \ {Nothing}} = {}
  BY DEF Init
<1> QED
  BY <1>2, <1>3 DEF Promised!Init

\* While callers are not hasty a manifest of which only some nodes are in memory
\* is, to its callers, a map that is saved at once or not at all
\* (index.ts:109-160).
THEOREM MantarayImplementsMap == ~Hasty => (Spec => MapSpec)
<1> SUFFICES ASSUME ~Hasty PROVE Spec => MapSpec
  OBVIOUS
<1>1. MantarayInv /\ MantarayInv' /\ [Next]_vars => [Promised!Next]_(Promised!vars)
  BY StepImplementsMap
<1> QED
  BY <1>1, InitImplementsMap, MantarayInvariant, PTL DEF Spec, MapSpec, Promised!Spec

=============================================================================
