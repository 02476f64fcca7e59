------------------------ MODULE SqliteIndexerProofs ------------------------
(***************************************************************************)
(* IndexerInv is an invariant of the commands that index eras in a SQLite  *)
(* database, for any number of eras, of blocks in one, of accounts, of     *)
(* workers and of commands, and for any fanout of the tree of pages.       *)
(***************************************************************************)
EXTENDS SqliteIndexer, FiniteSetTheorems, SequenceTheorems, WellFoundedInduction, TLAPS

LEMMA Params ==
  /\ Eras \in Nat /\ Eras > 0 /\ PerEra \in Nat /\ PerEra > 0 /\ Concurrency \in Nat /\ Concurrency > 0
  /\ Fanout \in Nat /\ Fanout >= 2 /\ MaxRuns \in Nat /\ IsFiniteSet(Account)
BY SqliteIndexerAssumption

-----------------------------------------------------------------------------
(* Induction, as a statement about sets, and the extremes of a set.        *)

LEMMA MinIs ==
  ASSUME NEW S, S \subseteq Nat, S # {}
  PROVE  Min(S) \in S /\ \A x \in S : Min(S) <= x
<1> DEFINE R == OpToRel(<, Nat)
<1>1. IsWellFoundedOn(R, Nat)
  BY NatLessThanWellFounded
<1>2. \A x, y \in Nat : x < y => <<x, y>> \in R
  BY DEF OpToRel
<1> HIDE DEF R
<1>3. PICK n \in S : \A m \in S : ~ (<<m, n>> \in R)
  BY <1>1, WFMin
<1>4. \A m \in S : n <= m
  <2> TAKE m \in S
  <2>1. m \in Nat /\ n \in Nat /\ ~ (m < n)
    BY <1>2, <1>3
  <2> QED
    BY <2>1
<1> QED
  BY <1>4, Zenon DEF Min

LEMMA MaxIs ==
  ASSUME NEW N \in Nat, NEW S, S \subseteq 0..N, S # {}
  PROVE  Max(S) \in S /\ \A x \in S : Max(S) >= x
<1> DEFINE T == {N - x : x \in S}
<1>1. T \subseteq Nat /\ T # {}
  <2>1. ASSUME NEW x \in S PROVE N - x \in Nat
    <3>1. x \in 0..N
      OBVIOUS
    <3> QED
      BY <3>1
  <2> QED
    BY <2>1
<1> HIDE DEF T
<1>2. Min(T) \in T /\ \A m \in T : Min(T) <= m
  BY <1>1, MinIs
<1>3. PICK x \in S : Min(T) = N - x
  BY <1>2 DEF T
<1>4. \A y \in S : x >= y
  <2> TAKE y \in S
  <2>1. N - y \in T
    BY DEF T
  <2>2. x \in 0..N /\ y \in 0..N
    OBVIOUS
  <2>3. N - x <= N - y
    BY <2>1, <1>2, <1>3
  <2> QED
    BY <2>2, <2>3
<1> QED
  BY <1>4, Zenon DEF Max

LEMMA AllNats ==
  ASSUME NEW S, 0 \in S, \A n \in Nat : n \in S => n + 1 \in S
  PROVE  Nat \subseteq S
<1> SUFFICES ASSUME Nat \ S # {} PROVE FALSE
  OBVIOUS
<1>1. PICK n \in Nat \ S : \A m \in Nat \ S : n <= m
  BY MinIs
<1>2. n # 0 /\ n - 1 \in Nat
  BY <1>1
<1>3. n - 1 \in S
  BY <1>1, <1>2
<1> QED
  BY <1>1, <1>2, <1>3

-----------------------------------------------------------------------------
(* What references span.                                                   *)

\* The sums of the first n references.
SumsTo(g, kids, n) == g = [k \in 0..n |-> IF k = 0 THEN 0 ELSE g[k - 1] + kids[k].span]

LEMMA SumsExist == ASSUME NEW kids PROVE \A n \in Nat : \E g : SumsTo(g, kids, n)
<1> DEFINE S == {n \in Nat : \E g : SumsTo(g, kids, n)}
<1>1. 0 \in S
  <2> DEFINE g == [k \in 0..0 |-> 0]
  <2>1. SumsTo(g, kids, 0)
    BY DEF SumsTo
  <2> QED
    BY <2>1
<1>2. ASSUME NEW n \in Nat, n \in S PROVE n + 1 \in S
  <2>1. PICK g : SumsTo(g, kids, n)
    BY <1>2
  <2> DEFINE h == [k \in 0..(n + 1) |-> IF k = n + 1 THEN g[n] + kids[n + 1].span ELSE g[k]]
  <2>2. \A k \in 0..n : g[k] = IF k = 0 THEN 0 ELSE g[k - 1] + kids[k].span
    BY <2>1 DEF SumsTo
  <2>3. \A k \in 0..(n + 1) : h[k] = IF k = 0 THEN 0 ELSE h[k - 1] + kids[k].span
    <3> TAKE k \in 0..(n + 1)
    <3>1. CASE k = n + 1
      <4>1. h[k] = g[n] + kids[k].span /\ k - 1 = n /\ h[k - 1] = g[n] /\ k # 0
        BY <3>1
      <4> QED
        BY <4>1
    <3>2. CASE k = 0
      <4>1. h[k] = g[k] /\ g[k] = 0
        BY <2>2, <3>2
      <4> QED
        BY <3>2, <4>1
    <3>3. CASE k \in 1..n
      <4>1. h[k] = g[k] /\ h[k - 1] = g[k - 1] /\ k # 0
        BY <3>3
      <4>2. g[k] = g[k - 1] + kids[k].span
        BY <2>2, <3>3
      <4> HIDE DEF h
      <4> QED
        BY <4>1, <4>2
    <3> QED
      BY <3>1, <3>2, <3>3
  <2>4. SumsTo(h, kids, n + 1)
    BY <2>3 DEF SumsTo
  <2> QED
    BY <2>4
<1> HIDE DEF S
<1>3. Nat \subseteq S
  BY <1>1, <1>2, AllNats
<1> QED
  BY <1>3 DEF S

LEMMA SpansAre ==
  ASSUME NEW kids, Len(kids) \in Nat
  PROVE  /\ Spans(kids)[0] = 0
         /\ \A k \in 1..Len(kids) : Spans(kids)[k] = Spans(kids)[k - 1] + kids[k].span
<1>1. \E g : g = [k \in 0..Len(kids) |-> IF k = 0 THEN 0 ELSE g[k - 1] + kids[k].span]
  BY SumsExist DEF SumsTo
<1>2. Spans(kids) = [k \in 0..Len(kids) |-> IF k = 0 THEN 0 ELSE Spans(kids)[k - 1] + kids[k].span]
  BY <1>1, Zenon DEF Spans
<1> DEFINE H == [k \in 0..Len(kids) |-> IF k = 0 THEN 0 ELSE Spans(kids)[k - 1] + kids[k].span]
<1>3. \A k \in 0..Len(kids) : H[k] = IF k = 0 THEN 0 ELSE Spans(kids)[k - 1] + kids[k].span
  OBVIOUS
<1>4. \A k \in 0..Len(kids) : Spans(kids)[k] = IF k = 0 THEN 0 ELSE Spans(kids)[k - 1] + kids[k].span
  BY <1>2, <1>3
<1> QED
  BY <1>4

\* References that each span something.
Spanning(kids) == Len(kids) \in Nat /\ \A k \in 1..Len(kids) : kids[k].span \in Nat \ {0}

LEMMA SpansRise ==
  ASSUME NEW kids, Spanning(kids)
  PROVE  /\ \A k \in 0..Len(kids) : Spans(kids)[k] \in Nat
         /\ \A j, k \in 0..Len(kids) : j <= k => Spans(kids)[j] <= Spans(kids)[k]
<1> DEFINE s == Spans(kids)
           S == {k \in Nat : k <= Len(kids) => \A j \in 0..k : s[j] \in Nat /\ s[j] <= s[k]}
<1>0. s[0] = 0 /\ \A k \in 1..Len(kids) : s[k] = s[k - 1] + kids[k].span
  BY SpansAre DEF Spanning
<1> HIDE DEF s
<1>1. 0 \in S
  BY <1>0
<1>2. ASSUME NEW k \in Nat, k \in S PROVE k + 1 \in S
  <2> SUFFICES ASSUME k + 1 <= Len(kids) PROVE \A j \in 0..(k + 1) : s[j] \in Nat /\ s[j] <= s[k + 1]
    OBVIOUS
  <2>1. Len(kids) \in Nat /\ k + 1 \in 1..Len(kids) /\ (k + 1) - 1 = k
    BY DEF Spanning
  <2>2. s[k + 1] = s[k] + kids[k + 1].span /\ kids[k + 1].span \in Nat
    BY <1>0, <2>1 DEF Spanning
  <2>3. s[k] \in Nat /\ \A j \in 0..k : s[j] \in Nat /\ s[j] <= s[k]
    BY <1>2, <2>1
  <2> QED
    BY <2>2, <2>3
<1> HIDE DEF S
<1>3. Nat \subseteq S
  BY <1>1, <1>2, AllNats
<1> QED
  BY <1>3 DEF S, s, Spanning

\* References in the same places span the same.
LEMMA SpansAgree ==
  ASSUME NEW kids, NEW others, Len(kids) \in Nat, Len(others) \in Nat,
         NEW n \in Nat, n <= Len(kids), n <= Len(others), \A k \in 1..n : kids[k] = others[k]
  PROVE  \A k \in 0..n : Spans(kids)[k] = Spans(others)[k]
<1> DEFINE s == Spans(kids)
           t == Spans(others)
           S == {k \in Nat : k <= n => s[k] = t[k]}
<1>0. /\ s[0] = 0 /\ \A k \in 1..Len(kids) : s[k] = s[k - 1] + kids[k].span
      /\ t[0] = 0 /\ \A k \in 1..Len(others) : t[k] = t[k - 1] + others[k].span
  BY SpansAre
<1> HIDE DEF s, t
<1>1. 0 \in S
  BY <1>0
<1>2. ASSUME NEW k \in Nat, k \in S PROVE k + 1 \in S
  <2> SUFFICES ASSUME k + 1 <= n PROVE s[k + 1] = t[k + 1]
    OBVIOUS
  <2>1. k + 1 \in 1..Len(kids) /\ k + 1 \in 1..Len(others) /\ k + 1 \in 1..n /\ (k + 1) - 1 = k
    OBVIOUS
  <2>2. s[k + 1] = s[k] + kids[k + 1].span /\ t[k + 1] = t[k] + others[k + 1].span
    BY <1>0, <2>1
  <2>3. s[k] = t[k] /\ kids[k + 1] = others[k + 1]
    BY <1>2, <2>1
  <2> QED
    BY <2>2, <2>3
<1> HIDE DEF S
<1>3. Nat \subseteq S
  BY <1>1, <1>2, AllNats
<1> QED
  BY <1>3 DEF S, s, t

\* One reference more.
LEMMA AppendSpans ==
  ASSUME NEW C, NEW kids \in Seq(C), NEW c \in C
  PROVE  /\ \A k \in 0..Len(kids) : Spans(Append(kids, c))[k] = Spans(kids)[k]
         /\ Spans(Append(kids, c))[Len(kids) + 1] = Spans(kids)[Len(kids)] + c.span
<1> DEFINE more == Append(kids, c)
           n == Len(kids)
<1>1. n \in Nat /\ Len(more) = n + 1 /\ more[n + 1] = c /\ \A k \in 1..n : more[k] = kids[k]
  OBVIOUS
<1> HIDE DEF more, n
<1>2. \A k \in 0..n : Spans(more)[k] = Spans(kids)[k]
  BY <1>1, SpansAgree DEF n
<1>3. Len(more) \in Nat /\ n + 1 \in 1..Len(more) /\ (n + 1) - 1 = n
  BY <1>1
<1>4. Spans(more)[n + 1] = Spans(more)[(n + 1) - 1] + more[n + 1].span
  BY <1>3, SpansAre, Zenon
<1>5. Spans(more)[n] = Spans(kids)[n]
  BY <1>1, <1>2
<1>6. Spans(more)[n + 1] = Spans(kids)[n] + c.span
  BY <1>1, <1>3, <1>4, <1>5
<1> QED
  BY <1>2, <1>6 DEF more, n

\* Some references of a sequence.
LEMMA PartSpans ==
  ASSUME NEW C, NEW all \in Seq(C), Spanning(all), NEW a \in Nat, NEW b \in Nat, a < b, b <= Len(all)
  PROVE  LET part == SubSeq(all, a + 1, b)
         IN  /\ part \in Seq(C) /\ Len(part) = b - a /\ Spanning(part)
             /\ \A k \in 1..(b - a) : part[k] = all[a + k]
             /\ \A k \in 0..(b - a) : Spans(part)[k] = Spans(all)[a + k] - Spans(all)[a]
<1> DEFINE part == SubSeq(all, a + 1, b)
           n == b - a
           s == Spans(all)
           t == Spans(part)
           S == {k \in Nat : k <= n => t[k] = s[a + k] - s[a]}
<1>1. part \in Seq(C) /\ Len(part) = n /\ n \in Nat /\ \A k \in 1..n : part[k] = all[a + k]
  OBVIOUS
<1>2. Len(all) \in Nat
  OBVIOUS
<1> HIDE DEF part
<1>3. Spanning(part)
  BY <1>1, <1>2 DEF Spanning
<1>4. /\ \A k \in 0..Len(all) : s[k] \in Nat
      /\ \A k \in 1..Len(all) : s[k] = s[k - 1] + all[k].span
      /\ t[0] = 0 /\ \A k \in 1..n : t[k] = t[k - 1] + part[k].span
  BY <1>1, <1>2, SpansAre, SpansRise
<1> HIDE DEF s, t
<1>5. 0 \in S
  BY <1>2, <1>4
<1>6. ASSUME NEW k \in Nat, k \in S PROVE k + 1 \in S
  <2> SUFFICES ASSUME k + 1 <= n PROVE t[k + 1] = s[a + (k + 1)] - s[a]
    OBVIOUS
  <2>1. k + 1 \in 1..n /\ (k + 1) - 1 = k /\ a + (k + 1) \in 1..Len(all) /\ (a + (k + 1)) - 1 = a + k
        /\ a + k \in 0..Len(all) /\ a \in 0..Len(all)
    BY <1>1, <1>2
  <2>2. t[k + 1] = t[k] + part[k + 1].span /\ s[a + (k + 1)] = s[a + k] + all[a + (k + 1)].span
    BY <1>4, <2>1
  <2>3. part[k + 1] = all[a + (k + 1)] /\ all[a + (k + 1)].span \in Nat
    BY <1>1, <2>1 DEF Spanning
  <2>4. t[k] = s[a + k] - s[a]
    BY <1>6, <2>1
  <2>5. s[a + k] \in Nat /\ s[a] \in Nat
    BY <1>4, <2>1
  <2> QED
    BY <2>2, <2>3, <2>4, <2>5
<1> HIDE DEF S
<1>7. Nat \subseteq S
  BY <1>5, <1>6, AllNats
<1>8. \A k \in 0..n : t[k] = s[a + k] - s[a]
  BY <1>1, <1>7 DEF S
<1> QED
  BY <1>1, <1>3, <1>8 DEF part, s, t, n

\* Every offset is in the span of one reference.
LEMMA OffsetIn ==
  ASSUME NEW kids, Spanning(kids), NEW o \in Nat, o < Spans(kids)[Len(kids)]
  PROVE  \E k \in 1..Len(kids) :
           {j \in 1..Len(kids) : Spans(kids)[j - 1] <= o /\ o < Spans(kids)[j]} = {k}
<1> DEFINE s == Spans(kids)
           n == Len(kids)
           S == {k \in 0..n : o < s[k]}
<1>1. n \in Nat /\ s[0] = 0 /\ \A k \in 0..n : s[k] \in Nat
  BY SpansAre, SpansRise DEF Spanning
<1>2. \A j, k \in 0..n : j <= k => s[j] <= s[k]
  BY SpansRise
<1> HIDE DEF s
<1>3. S \subseteq Nat /\ S # {}
  BY <1>1 DEF s
<1>4. PICK k \in S : \A m \in S : k <= m
  BY <1>3, MinIs
<1>5. k \in 1..n /\ k - 1 \in 0..n /\ s[k - 1] <= o /\ o < s[k]
  <2>1. k # 0
    BY <1>1, <1>4
  <2>2. k \in 1..n /\ k - 1 \in 0..n /\ k - 1 \notin S
    BY <1>1, <1>4, <2>1
  <2> QED
    BY <1>1, <1>4, <2>2
<1>6. ASSUME NEW j \in 1..n, s[j - 1] <= o, o < s[j] PROVE j = k
  <2>1. j - 1 \in 0..n /\ j \in 0..n /\ k \in 0..n
    BY <1>1, <1>5
  <2>2. k <= j
    BY <1>4, <1>6, <2>1
  <2>3. CASE k <= j - 1
    <3>1. s[k] <= s[j - 1]
      BY <1>2, <2>1, <2>3
    <3>2. s[k] \in Nat /\ s[j - 1] \in Nat
      BY <1>1, <2>1
    <3> QED
      BY <1>5, <1>6, <3>1, <3>2
  <2> QED
    BY <1>5, <2>1, <2>2, <2>3
<1>7. {j \in 1..n : s[j - 1] <= o /\ o < s[j]} = {k}
  BY <1>5, <1>6
<1> QED
  BY <1>5, <1>7 DEF s

-----------------------------------------------------------------------------
(* What a reader finds.                                                    *)

\* The first n steps of a reader; the last of them ends on a page, and all of
\* them are over chunks in S.
IsReach(g, c, o, n) ==
  g = [k \in 0..n |-> IF k = 0 THEN {[chunk |-> c, offset |-> o]} ELSE UNION {Further(x) : x \in g[k - 1]}]

Reads(S, c, o, n, p) ==
  \E g : /\ IsReach(g, c, o, n)
         /\ \A k \in 0..n : \A x \in g[k] : x.chunk \in S
         /\ g[n] = {[chunk |-> Leaf(p), offset |-> 0]}

LEMMA ReadsMore ==
  ASSUME NEW S, NEW T, S \subseteq T, NEW c, NEW o, NEW n, NEW p, Reads(S, c, o, n, p)
  PROVE  Reads(T, c, o, n, p)
BY DEF Reads

LEMMA ReadsLeaf ==
  ASSUME NEW S, NEW p, Leaf(p) \in S
  PROVE  Reads(S, Leaf(p), 0, 0, p)
<1> DEFINE g == [k \in 0..0 |-> {[chunk |-> Leaf(p), offset |-> 0]}]
<1>1. IsReach(g, Leaf(p), 0, 0)
  BY DEF IsReach
<1>2. \A k \in 0..0 : \A x \in g[k] : x.chunk \in S
  OBVIOUS
<1> QED
  BY <1>1, <1>2 DEF Reads

\* What holds of every step.
AllFurther(X) == UNION {Further(x) : x \in X}

LEMMA ReachIs ==
  ASSUME NEW g, NEW c, NEW o, NEW n \in Nat, IsReach(g, c, o, n)
  PROVE  g[0] = {[chunk |-> c, offset |-> o]} /\ \A k \in 1..n : g[k] = AllFurther(g[k - 1])
<1> DEFINE G == [k \in 0..n |-> IF k = 0 THEN {[chunk |-> c, offset |-> o]} ELSE AllFurther(g[k - 1])]
<1>1. g = G
  BY Zenon DEF IsReach, AllFurther
<1>2. G[0] = {[chunk |-> c, offset |-> o]} /\ \A k \in 1..n : G[k] = AllFurther(g[k - 1])
  OBVIOUS
<1> HIDE DEF G
<1> QED
  BY <1>1, <1>2

LEMMA IsReachIf ==
  ASSUME NEW g, NEW c, NEW o, NEW n \in Nat, g = [k \in 0..n |-> g[k]],
         g[0] = {[chunk |-> c, offset |-> o]}, \A k \in 1..n : g[k] = AllFurther(g[k - 1])
  PROVE  IsReach(g, c, o, n)
<1> DEFINE G == [k \in 0..n |-> IF k = 0 THEN {[chunk |-> c, offset |-> o]} ELSE AllFurther(g[k - 1])]
<1>1. G = [k \in 0..n |-> G[k]]
  OBVIOUS
<1>2. G[0] = {[chunk |-> c, offset |-> o]} /\ \A k \in 1..n : G[k] = AllFurther(g[k - 1])
  OBVIOUS
<1> HIDE DEF G
<1>3. \A k \in 0..n : g[k] = G[k]
  <2> TAKE k \in 0..n
  <2>1. k = 0 \/ k \in 1..n
    OBVIOUS
  <2> QED
    BY <1>2, <2>1
<1>4. g = G
  BY <1>1, <1>3
<1> QED
  BY <1>4, Zenon DEF IsReach, AllFurther, G

\* A step in front of those of a reader.
LEMMA ReachBefore ==
  ASSUME NEW g, NEW c, NEW o, NEW n \in Nat, IsReach(g, c, o, n), NEW d, NEW u,
         Further([chunk |-> d, offset |-> u]) = {[chunk |-> c, offset |-> o]},
         NEW h, h = [k \in 0..(n + 1) |-> IF k = 0 THEN {[chunk |-> d, offset |-> u]} ELSE g[k - 1]]
  PROVE  IsReach(h, d, u, n + 1)
<1>1. g[0] = {[chunk |-> c, offset |-> o]} /\ \A k \in 1..n : g[k] = AllFurther(g[k - 1])
  BY ReachIs
<1>2. h[0] = {[chunk |-> d, offset |-> u]} /\ (\A k \in 1..(n + 1) : h[k] = g[k - 1]) /\ h = [k \in 0..(n + 1) |-> h[k]]
  OBVIOUS
<1>3. AllFurther(h[0]) = g[0]
  <2>1. AllFurther({[chunk |-> d, offset |-> u]}) = Further([chunk |-> d, offset |-> u])
    BY DEF AllFurther
  <2> QED
    BY <1>1, <1>2, <2>1
<1>4. \A k \in 1..(n + 1) : h[k] = AllFurther(h[k - 1])
  <2> TAKE k \in 1..(n + 1)
  <2>1. CASE k = 1
    <3>1. h[k] = g[0] /\ k - 1 = 0
      BY <1>2, <2>1
    <3> QED
      BY <1>3, <3>1
  <2>2. CASE k # 1
    <3>1. k - 1 \in 1..n /\ (k - 1) \in 1..(n + 1)
      BY <2>2
    <3> QED
      BY <1>1, <1>2, <3>1
  <2> QED
    BY <2>1, <2>2
<1>5. n + 1 \in Nat
  OBVIOUS
<1> QED
  BY <1>2, <1>4, <1>5, IsReachIf, Zenon

LEMMA ReadsThrough ==
  ASSUME NEW S, NEW c, NEW o, NEW n \in Nat, NEW p, Reads(S, c, o, n, p), NEW d \in S, NEW u,
         Further([chunk |-> d, offset |-> u]) = {[chunk |-> c, offset |-> o]}
  PROVE  Reads(S, d, u, n + 1, p)
<1>1. PICK g : /\ IsReach(g, c, o, n)
               /\ \A k \in 0..n : \A x \in g[k] : x.chunk \in S
               /\ g[n] = {[chunk |-> Leaf(p), offset |-> 0]}
  BY DEF Reads
<1> DEFINE h == [k \in 0..(n + 1) |-> IF k = 0 THEN {[chunk |-> d, offset |-> u]} ELSE g[k - 1]]
<1>2. IsReach(h, d, u, n + 1)
  BY <1>1, ReachBefore
<1>3. ASSUME NEW k \in 0..(n + 1), NEW x \in h[k] PROVE x.chunk \in S
  <2>1. CASE k = 0
    BY <1>3, <2>1
  <2>2. CASE k # 0
    <3>1. k - 1 \in 0..n /\ h[k] = g[k - 1]
      BY <2>2
    <3> HIDE DEF h
    <3> QED
      BY <1>1, <1>3, <3>1
  <2> QED
    BY <2>1, <2>2
<1>4. h[n + 1] = {[chunk |-> Leaf(p), offset |-> 0]}
  <2>1. h[n + 1] = g[n]
    OBVIOUS
  <2> QED
    BY <1>1, <2>1
<1> HIDE DEF h
<1> QED
  BY <1>2, <1>3, <1>4 DEF Reads

\* A reader that is in a page stays there.
LEMMA ReadsOn ==
  ASSUME NEW S, NEW c, NEW o, NEW n \in Nat, NEW p, Reads(S, c, o, n, p)
  PROVE  Reads(S, c, o, n + 1, p)
<1> DEFINE here == {[chunk |-> Leaf(p), offset |-> 0]}
<1>1. PICK g : /\ IsReach(g, c, o, n)
               /\ \A k \in 0..n : \A x \in g[k] : x.chunk \in S
               /\ g[n] = here
  BY DEF Reads
<1>2. g[0] = {[chunk |-> c, offset |-> o]} /\ \A k \in 1..n : g[k] = AllFurther(g[k - 1])
  BY <1>1, ReachIs
<1>3. AllFurther(here) = here
  <2>1. Further([chunk |-> Leaf(p), offset |-> 0]) = here
    BY DEF Further, Leaf
  <2> QED
    BY <2>1 DEF AllFurther
<1> DEFINE h == [k \in 0..(n + 1) |-> IF k = n + 1 THEN here ELSE g[k]]
<1>4. h[n + 1] = here /\ (\A k \in 0..n : h[k] = g[k]) /\ h = [k \in 0..(n + 1) |-> h[k]]
  OBVIOUS
<1> HIDE DEF h, here
<1>5. \A k \in 1..(n + 1) : h[k] = AllFurther(h[k - 1])
  <2> TAKE k \in 1..(n + 1)
  <2>1. CASE k = n + 1
    <3>1. k - 1 = n /\ n \in 0..n
      BY <2>1
    <3> QED
      BY <1>1, <1>3, <1>4, <2>1, <3>1
  <2>2. CASE k # n + 1
    <3>1. k \in 1..n /\ k \in 0..n /\ k - 1 \in 0..n
      BY <2>2
    <3> QED
      BY <1>2, <1>4, <3>1
  <2> QED
    BY <2>1, <2>2
<1>6. h[0] = {[chunk |-> c, offset |-> o]} /\ n + 1 \in Nat
  <2>1. 0 \in 0..n /\ n + 1 \in Nat
    OBVIOUS
  <2>2. h[0] = g[0]
    BY <1>4, <2>1
  <2> QED
    BY <1>2, <2>1, <2>2
<1>7. IsReach(h, c, o, n + 1)
  BY <1>4, <1>5, <1>6, IsReachIf, Zenon
<1>8. ASSUME NEW k \in 0..(n + 1), NEW x \in h[k] PROVE x.chunk \in S
  <2>1. n \in 0..n /\ (k = n + 1 \/ k \in 0..n)
    OBVIOUS
  <2>2. h[k] = g[n] \/ (k \in 0..n /\ h[k] = g[k])
    BY <1>1, <1>4, <2>1
  <2> QED
    BY <1>1, <1>8, <2>1, <2>2
<1> QED
  BY <1>4, <1>7, <1>8 DEF Reads, here

LEMMA ReadsOnTo ==
  ASSUME NEW S, NEW c, NEW o, NEW n \in Nat, NEW p, Reads(S, c, o, n, p), NEW depth \in Nat, n <= depth
  PROVE  Reads(S, c, o, depth, p)
<1> DEFINE N == {k \in Nat : Reads(S, c, o, n + k, p)}
<1>1. 0 \in N
  OBVIOUS
<1>2. ASSUME NEW k \in Nat, k \in N PROVE k + 1 \in N
  <2>1. Reads(S, c, o, n + k, p) /\ n + k \in Nat /\ (n + k) + 1 = n + (k + 1)
    BY <1>2
  <2>2. Reads(S, c, o, (n + k) + 1, p)
    BY <2>1, ReadsOn
  <2> QED
    BY <2>1, <2>2
<1> HIDE DEF N
<1>3. Nat \subseteq N
  BY <1>1, <1>2, AllNats
<1>4. depth - n \in Nat /\ n + (depth - n) = depth
  OBVIOUS
<1>5. Reads(S, c, o, n + (depth - n), p)
  BY <1>3, <1>4 DEF N
<1> QED
  BY <1>4, <1>5

LEMMA ReachIsOne ==
  ASSUME NEW c, NEW o, NEW n \in Nat, NEW g, IsReach(g, c, o, n), NEW h, IsReach(h, c, o, n)
  PROVE  \A k \in 0..n : g[k] = h[k]
<1> DEFINE N == {k \in Nat : k <= n => g[k] = h[k]}
<1>1. /\ g[0] = {[chunk |-> c, offset |-> o]} /\ \A k \in 1..n : g[k] = AllFurther(g[k - 1])
      /\ h[0] = {[chunk |-> c, offset |-> o]} /\ \A k \in 1..n : h[k] = AllFurther(h[k - 1])
  BY ReachIs
<1>2. 0 \in N
  BY <1>1
<1>3. ASSUME NEW k \in Nat, k \in N PROVE k + 1 \in N
  <2> SUFFICES ASSUME k + 1 <= n PROVE g[k + 1] = h[k + 1]
    OBVIOUS
  <2>1. k + 1 \in 1..n /\ (k + 1) - 1 = k /\ g[k] = h[k]
    BY <1>3
  <2> QED
    BY <1>1, <2>1
<1> HIDE DEF N
<1>4. Nat \subseteq N
  BY <1>2, <1>3, AllNats
<1> QED
  BY <1>4 DEF N

\* A reader that can go all the way finds the page.
LEMMA FoundIs ==
  ASSUME NEW c, NEW o, NEW n \in Nat, NEW p, Reads(pushed, c, o, n, p), NEW depth \in Nat, n <= depth
  PROVE  Found(c, o, depth) = {[chunk |-> Leaf(p), offset |-> 0]}
<1>1. Reads(pushed, c, o, depth, p)
  BY ReadsOnTo
<1>2. PICK g : /\ IsReach(g, c, o, depth)
               /\ \A k \in 0..depth : \A x \in g[k] : x.chunk \in pushed
               /\ g[depth] = {[chunk |-> Leaf(p), offset |-> 0]}
  BY <1>1 DEF Reads
<1>3. Reach(c, o, depth) = CHOOSE h : IsReach(h, c, o, depth)
  BY DEF Reach, IsReach
<1>4. IsReach(Reach(c, o, depth), c, o, depth)
  BY <1>2, <1>3
<1>5. \A k \in 0..depth : Reach(c, o, depth)[k] = g[k]
  BY <1>2, <1>4, ReachIsOne
<1>6. depth \in 0..depth
  OBVIOUS
<1> QED
  BY <1>2, <1>5, <1>6 DEF Found

-----------------------------------------------------------------------------
(* A level of the tree: from each of its chunks, n above the pages, every  *)
(* offset that it spans leads to the page there, over chunks in S.         *)

Level(S, s, n) ==
  /\ s \in Seq(S) /\ Spanning(s)
  /\ \A k \in 1..Len(s), o \in Nat : o < s[k].span => Reads(S, s[k], o, n, Spans(s)[k - 1] + o + 1)

LEMMA LevelMore ==
  ASSUME NEW S, NEW T, S \subseteq T, NEW s, NEW n, Level(S, s, n)
  PROVE  Level(T, s, n)
<1>1. s \in Seq(T)
  BY DEF Level
<1> QED
  BY <1>1, ReadsMore DEF Level

LEMMA LevelNone ==
  ASSUME NEW S, NEW n
  PROVE  Level(S, <<>>, n) /\ Spans(<<>>)[0] = 0
<1>1. Len(<<>>) = 0 /\ <<>> \in Seq(S)
  OBVIOUS
<1> QED
  BY <1>1, SpansAre DEF Level, Spanning

\* The pages of an image.
LEMMA LevelLeaves ==
  ASSUME NEW m \in Nat, NEW s, s = [p \in 1..m |-> Leaf(p)], NEW S, \A p \in 1..m : Leaf(p) \in S
  PROVE  Level(S, s, 0) /\ Len(s) = m /\ Spans(s)[m] = m
<1>1. s \in Seq(S) /\ Len(s) = m /\ \A k \in 1..m : s[k] = Leaf(k)
  BY IsASeq
<1>2. \A k \in 1..m : s[k].span = 1
  BY <1>1 DEF Leaf
<1> DEFINE t == Spans(s)
           N == {k \in Nat : k <= m => t[k] = k}
<1>3. t[0] = 0 /\ \A k \in 1..m : t[k] = t[k - 1] + s[k].span
  BY <1>1, SpansAre
<1> HIDE DEF t
<1>4. 0 \in N
  BY <1>3
<1>5. ASSUME NEW k \in Nat, k \in N PROVE k + 1 \in N
  <2> SUFFICES ASSUME k + 1 <= m PROVE t[k + 1] = k + 1
    OBVIOUS
  <2>1. k + 1 \in 1..m /\ (k + 1) - 1 = k /\ t[k] = k
    BY <1>5
  <2>2. t[k + 1] = t[k] + s[k + 1].span /\ s[k + 1].span = 1
    BY <1>2, <1>3, <2>1
  <2> QED
    BY <2>1, <2>2
<1> HIDE DEF N
<1>6. Nat \subseteq N
  BY <1>4, <1>5, AllNats
<1>7. \A k \in 0..m : t[k] = k
  BY <1>6 DEF N
<1>8. ASSUME NEW k \in 1..m, NEW o \in Nat, o < s[k].span PROVE Reads(S, s[k], o, 0, t[k - 1] + o + 1)
  <2>1. o = 0 /\ s[k] = Leaf(k)
    BY <1>1, <1>2, <1>8
  <2>2. k - 1 \in 0..m /\ (k - 1) + 0 + 1 = k
    OBVIOUS
  <2>3. t[k - 1] + o + 1 = k
    BY <1>7, <2>1, <2>2
  <2>4. Reads(S, Leaf(k), 0, 0, k)
    BY ReadsLeaf
  <2> QED
    BY <2>1, <2>3, <2>4
<1>9. Spanning(s)
  BY <1>1, <1>2 DEF Spanning
<1> QED
  BY <1>1, <1>7, <1>8, <1>9 DEF Level, t

\* A reader in a chunk goes on to one of its references.
LEMMA NodeFurther ==
  ASSUME NEW C, NEW kids \in Seq(C), Spanning(kids), NEW o \in Nat, o < Spans(kids)[Len(kids)]
  PROVE  \E k \in 1..Len(kids) :
           /\ Spans(kids)[k - 1] <= o /\ o < Spans(kids)[k]
           /\ Further([chunk |-> Node(kids), offset |-> o]) =
                {[chunk |-> kids[k], offset |-> o - Spans(kids)[k - 1]]}
<1>1. PICK k \in 1..Len(kids) :
             {j \in 1..Len(kids) : Spans(kids)[j - 1] <= o /\ o < Spans(kids)[j]} = {k}
  BY OffsetIn
<1>2. kids # <<>> /\ DOMAIN kids = 1..Len(kids)
  OBVIOUS
<1>3. Node(kids).kids = kids
  BY DEF Node
<1> DEFINE x == [chunk |-> Node(kids), offset |-> o]
<1>4. x.chunk.kids = kids /\ x.offset = o
  BY <1>3
<1>5. Further(x) =
        {[chunk |-> kids[i], offset |-> o - Spans(kids)[i - 1]] :
           i \in {j \in DOMAIN kids : Spans(kids)[j - 1] <= o /\ o < Spans(kids)[j]}}
  <2> HIDE DEF x
  <2> QED
    BY <1>2, <1>4, Zenon DEF Further
<1>6. Further(x) = {[chunk |-> kids[i], offset |-> o - Spans(kids)[i - 1]] : i \in {k}}
  BY <1>1, <1>2, <1>5, Zenon
<1>7. Further(x) = {[chunk |-> kids[k], offset |-> o - Spans(kids)[k - 1]]}
  BY <1>6
<1>8. k \in {j \in 1..Len(kids) : Spans(kids)[j - 1] <= o /\ o < Spans(kids)[j]}
  BY <1>1
<1> QED
  BY <1>7, <1>8

\* A chunk for some references of a level.
Batch(S, s, t, n, a, b, c, u) ==
  /\ n \in Nat /\ Level(S, s, n) /\ Level(S, t, n + 1)
  /\ a \in Nat /\ b \in Nat /\ a < b /\ b <= Len(s) /\ Spans(t)[Len(t)] = Spans(s)[a]
  /\ c = Node(SubSeq(s, a + 1, b)) /\ u = Append(t, c)

Batched(S, s, t, n, a, b, c, u) ==
  Level(S \cup {c}, u, n + 1) /\ Len(u) = Len(t) + 1 /\ Spans(u)[Len(u)] = Spans(s)[b]

LEMMA LevelNode ==
  ASSUME NEW S, NEW s, NEW t, NEW n, NEW a, NEW b, NEW c, NEW u, Batch(S, s, t, n, a, b, c, u)
  PROVE  Batched(S, s, t, n, a, b, c, u)
<1> DEFINE kids == SubSeq(s, a + 1, b)
           T == S \cup {c}
           m == b - a
<1>0. /\ n \in Nat /\ Level(S, s, n) /\ Level(S, t, n + 1)
      /\ a \in Nat /\ b \in Nat /\ a < b /\ b <= Len(s) /\ Spans(t)[Len(t)] = Spans(s)[a]
      /\ c = Node(SubSeq(s, a + 1, b)) /\ u = Append(t, c)
  BY DEF Batch
<1> USE <1>0
<1>1. s \in Seq(S) /\ t \in Seq(S) /\ Spanning(s) /\ Spanning(t) /\ Len(s) \in Nat /\ Len(t) \in Nat
  BY DEF Level, Spanning
<1>2. /\ kids \in Seq(S) /\ Len(kids) = m /\ Spanning(kids) /\ m \in Nat
      /\ \A k \in 1..m : kids[k] = s[a + k]
      /\ \A k \in 0..m : Spans(kids)[k] = Spans(s)[a + k] - Spans(s)[a]
  BY <1>1, PartSpans
<1>3. \A k \in 0..Len(s) : Spans(s)[k] \in Nat
  BY <1>1, SpansRise
<1>4. c.span = Spans(kids)[m] /\ c = Node(kids)
  BY <1>2 DEF Node
<1>5. c.span = Spans(s)[b] - Spans(s)[a] /\ Spans(s)[b] \in Nat /\ Spans(s)[a] \in Nat /\ c.span \in Nat \ {0}
  <2>1. m \in 0..m /\ a + m = b /\ b \in 0..Len(s) /\ a \in 0..Len(s)
    BY <1>1, <1>2
  <2>2. c.span = Spans(s)[b] - Spans(s)[a] /\ Spans(s)[b] \in Nat /\ Spans(s)[a] \in Nat
    BY <1>2, <1>3, <1>4, <2>1
  <2>3. 1 \in 1..m /\ 0 \in 0..m /\ 1 \in 0..m
    BY <1>2
  <2>4. Spans(kids)[1] = Spans(kids)[0] + kids[1].span /\ Spans(kids)[0] = 0 /\ kids[1].span \in Nat \ {0}
    <3>1. Spans(kids)[1] = Spans(kids)[1 - 1] + kids[1].span /\ Spans(kids)[0] = 0
      BY <1>2, <2>3, SpansAre
    <3>2. 1 - 1 = 0
      OBVIOUS
    <3> QED
      BY <1>2, <2>3, <3>1, <3>2 DEF Spanning
  <2>5. Spans(kids)[1] <= Spans(kids)[m] /\ Spans(kids)[m] \in Nat
    <3> HIDE DEF kids, m
    <3>1. 1 <= m /\ m \in 0..Len(kids) /\ 1 \in 0..Len(kids)
      BY <1>2, <2>1, <2>3
    <3> QED
      BY <1>2, <3>1, SpansRise
  <2> QED
    BY <1>4, <2>2, <2>4, <2>5
<1>6. /\ u \in Seq(T) /\ Len(u) = Len(t) + 1 /\ u[Len(t) + 1] = c /\ \A k \in 1..Len(t) : u[k] = t[k]
      /\ t \in Seq(T) /\ c \in T
  <2>1. t \in Seq(T) /\ c \in T
    BY <1>1
  <2> QED
    BY <2>1
<1>7. /\ \A k \in 0..Len(t) : Spans(u)[k] = Spans(t)[k]
      /\ Spans(u)[Len(t) + 1] = Spans(t)[Len(t)] + c.span
  BY <1>6, AppendSpans
<1> HIDE DEF kids, m
<1>8. Spans(u)[Len(t) + 1] = Spans(s)[b]
  BY <1>5, <1>7
<1>9. Spanning(u)
  <2>1. Len(u) \in Nat
    BY <1>1, <1>6
  <2> SUFFICES ASSUME NEW k \in 1..Len(u) PROVE u[k].span \in Nat \ {0}
    BY <2>1 DEF Spanning
  <2>2. k = Len(t) + 1 \/ k \in 1..Len(t)
    BY <1>1, <1>6
  <2> QED
    BY <1>1, <1>5, <1>6, <2>2 DEF Spanning
<1>10. ASSUME NEW k \in 1..Len(u), NEW o \in Nat, o < u[k].span
       PROVE  Reads(T, u[k], o, n + 1, Spans(u)[k - 1] + o + 1)
  <2>1. CASE k \in 1..Len(t)
    <3>1. u[k] = t[k] /\ k - 1 \in 0..Len(t)
      BY <1>1, <1>6, <2>1
    <3>2. Reads(S, t[k], o, n + 1, Spans(t)[k - 1] + o + 1)
      BY <1>10, <2>1, <3>1 DEF Level
    <3>3. Spans(u)[k - 1] = Spans(t)[k - 1]
      BY <1>7, <3>1
    <3> QED
      BY <3>1, <3>2, <3>3, ReadsMore
  <2>2. CASE k \notin 1..Len(t)
    <3>1. k = Len(t) + 1 /\ k - 1 = Len(t) /\ u[k] = c /\ Len(t) \in 0..Len(t)
      BY <1>1, <1>6, <2>2
    <3>2. Spans(u)[k - 1] = Spans(s)[a]
      BY <1>7, <3>1
    <3>3. o < Spans(kids)[Len(kids)]
      BY <1>2, <1>4, <1>10, <3>1
    <3>4. PICK i \in 1..Len(kids) :
               /\ Spans(kids)[i - 1] <= o /\ o < Spans(kids)[i]
               /\ Further([chunk |-> c, offset |-> o]) = {[chunk |-> kids[i], offset |-> o - Spans(kids)[i - 1]]}
      <4>1. o < Spans(kids)[Len(kids)] /\ kids \in Seq(S) /\ Spanning(kids)
        BY <1>2, <3>3
      <4>2. \E i \in 1..Len(kids) :
              /\ Spans(kids)[i - 1] <= o /\ o < Spans(kids)[i]
              /\ Further([chunk |-> Node(kids), offset |-> o]) =
                   {[chunk |-> kids[i], offset |-> o - Spans(kids)[i - 1]]}
        BY <4>1, NodeFurther, Zenon
      <4> QED
        BY <1>4, <4>2, Zenon
    <3>5. /\ i \in 1..m /\ i \in 0..m /\ i - 1 \in 0..m /\ kids[i] = s[a + i] /\ a + i \in 1..Len(s)
          /\ (a + i) - 1 = a + (i - 1) /\ a + (i - 1) \in 0..Len(s) /\ a + i \in 0..Len(s)
      BY <1>1, <1>2, <3>4 DEF m
    <3> DEFINE v == o - Spans(kids)[i - 1]
    <3>6. /\ Spans(kids)[i - 1] = Spans(s)[a + (i - 1)] - Spans(s)[a]
          /\ Spans(kids)[i] = Spans(s)[a + i] - Spans(s)[a]
          /\ Spans(s)[a + i] = Spans(s)[a + (i - 1)] + s[a + i].span
          /\ {Spans(s)[a], Spans(s)[a + i], Spans(s)[a + (i - 1)], s[a + i].span} \subseteq Nat
      <4>1. Spans(s)[a + i] = Spans(s)[(a + i) - 1] + s[a + i].span /\ s[a + i].span \in Nat
        BY <1>1, <3>5, SpansAre DEF Spanning
      <4> QED
        BY <1>2, <1>3, <1>5, <3>5, <4>1
    <3>7. v \in Nat /\ v < s[a + i].span /\ Spans(s)[a + (i - 1)] + v + 1 = Spans(s)[a] + o + 1
      <4> DEFINE p == Spans(kids)[i - 1]
                 q == Spans(kids)[i]
                 w == Spans(s)[a + (i - 1)]
                 x == Spans(s)[a + i]
                 y == Spans(s)[a]
                 z == s[a + i].span
      <4>1. p <= o /\ o < q /\ p = w - y /\ q = x - y /\ x = w + z /\ {y, x, w, z} \subseteq Nat
        BY <3>4, <3>6
      <4> HIDE DEF p, q, w, x, y, z
      <4>2. y \in Nat /\ x \in Nat /\ w \in Nat /\ z \in Nat
        BY <4>1
      <4>3. o - p \in Nat /\ o - p < z /\ w + (o - p) + 1 = y + o + 1
        BY <4>1, <4>2
      <4> QED
        BY <4>3 DEF p, w, y, z
    <3> HIDE DEF v
    <3>8. Reads(S, s[a + i], v, n, Spans(s)[(a + i) - 1] + v + 1)
      BY <3>5, <3>7 DEF Level
    <3>9. Reads(T, s[a + i], v, n, Spans(s)[a] + o + 1)
      BY <3>5, <3>7, <3>8, ReadsMore
    <3>10. Further([chunk |-> c, offset |-> o]) = {[chunk |-> s[a + i], offset |-> v]}
      BY <3>4, <3>5 DEF v
    <3>11. Reads(T, c, o, n + 1, Spans(s)[a] + o + 1)
      BY <1>6, <3>9, <3>10, ReadsThrough
    <3> QED
      BY <3>1, <3>2, <3>11
  <2> QED
    BY <2>1, <2>2
<1>11. Level(T, u, n + 1)
  BY <1>6, <1>9, <1>10 DEF Level
<1> QED
  BY <1>6, <1>8, <1>11 DEF Batched

-----------------------------------------------------------------------------
(* The invariant.                                                          *)

\* Blocks of the files from era `first` to era e, of which i lines were read.
Passed(first, e, i) == BlocksOf(first..(e - 1)) \cup {BlockOf(e, j) : j \in 1..i}

\* Of the blocks that were seen, those that the command asks for are there.
Has(a, seen, there) ==
  /\ a.mode = "block" => (a.block \in seen => a.block \in there)
  /\ a.mode = "positions" => {b \in seen : a.from < b /\ b <= a.to} \subseteq there
  /\ a.mode = "bulk" => seen \subseteq there

Shape ==
  /\ pc \in {"idle", "blocks", "answer", "accounts", "balances", "meta", "sync", "leaves", "tree", "announce"}
  /\ args \in Commands
  /\ db \in Db /\ image \in Db
  /\ bee \in [blocks : SUBSET Block, records : SUBSET (Account \X SUBSET Block), balance : SUBSET Block]
  /\ existing \subseteq Block
  /\ era \in 1..Eras /\ line \in 0..PerEra /\ position \in 0..(Eras * PerEra)
  /\ runs \in 0..MaxRuns

\* While files are read: what they held is there as far as it was asked for.
ReadKept ==
  /\ pc \in {"blocks", "answer"} =>
       /\ era \in ErasOf(args.range)
       /\ position <= (era - 1) * PerEra + line
       /\ args.mode = "positions" => position = (era - 1) * PerEra + line
       /\ existing \subseteq db.blocks
       /\ Has(args, Passed(args.range[1], era, line), db.blocks)
  /\ pc = "answer" => line < PerEra /\ Current \in bee.blocks

\* While records are uploaded: what is in `refs` is at Bee, the rest to come.
RecordsKept ==
  /\ IsFiniteSet(busy) /\ Cardinality(busy) <= Concurrency
  /\ pc \notin {"accounts", "balances"} => todo = {} /\ busy = {} /\ refs = {}
  /\ pc = "accounts" =>
       todo \cup busy \cup refs = Account /\ \A a \in refs : <<a, History>> \in bee.records
  /\ pc = "balances" =>
       /\ todo \cup busy \cup refs = History /\ refs \subseteq bee.balance
       /\ \A a \in Account : <<a, History>> \in bee.records

\* After the files: what the command has done.
DoneKept ==
  /\ pc \in {"accounts", "balances", "meta", "sync"} =>
       Has(args, BlocksOf(ErasOf(args.range)), db.blocks)
  /\ pc \in {"accounts", "balances", "meta"} => args.mode = "bulk"
  /\ pc = "meta" /\ args.events # {} => db.accounts = Every(History) /\ History \subseteq db.balance
  /\ pc = "sync" => Complete(db, args)
  /\ pc \in {"leaves", "tree", "announce"} => Complete(image, args)

\* The end of the references that are in chunks of the next level.
GroupedEnd == IF Grouped <= Len(level) THEN Grouped ELSE Len(level)

LeavesKept(n) ==
  /\ n < Pages(image)
  /\ level = [p \in 1..Pages(image) |-> Leaf(p)] /\ above = <<>>
  /\ pushed = {Leaf(p) : p \in 1..n} /\ IsFiniteSet(pushed) /\ Cardinality(pushed) = n

LevelsKept(n) ==
  /\ Level(pushed, level, n) /\ Level(pushed, above, n + 1)
  /\ Len(level) >= 1 /\ n + Len(level) <= Pages(image)
  /\ Spans(level)[Len(level)] = Pages(image)
  /\ Spans(above)[Len(above)] = Spans(level)[GroupedEnd]
  /\ Grouped < Len(level) + Fanout

TreeKept ==
  /\ pc \notin {"leaves", "tree", "announce"} => level = <<>> /\ above = <<>> /\ pushed = {}
  /\ pc = "leaves" => \E n \in Nat : LeavesKept(n)
  /\ pc \in {"tree", "announce"} => \E n \in Nat : LevelsKept(n)
  /\ pc = "announce" => IsRoot

IndexerInv ==
  Shape /\ RowsSound /\ ReadKept /\ RecordsKept /\ DoneKept /\ TreeKept /\ AnnouncedComplete

-----------------------------------------------------------------------------
(* Blocks and their places in the files.                                   *)

LEMMA Times ==
  ASSUME NEW m \in Nat, NEW x \in Nat, NEW y \in Nat, x <= y
  PROVE  x * m \in Nat /\ y * m \in Nat /\ x * m <= y * m /\ (x + 1) * m = x * m + m
<1>1. x * m \in Nat /\ (y - x) * m \in Nat /\ y - x \in Nat
  OBVIOUS
<1>2. y * m = x * m + (y - x) * m
  OBVIOUS
<1>3. (x + 1) * m = x * m + m
  OBVIOUS
<1> QED
  BY <1>1, <1>2, <1>3

LEMMA PlaceIn ==
  ASSUME NEW e \in 1..Eras, NEW i \in 0..PerEra
  PROVE  /\ (e - 1) * PerEra \in Nat /\ e * PerEra = (e - 1) * PerEra + PerEra
         /\ (e - 1) * PerEra + i \in 0..(Eras * PerEra)
         /\ BlockOf(e, i) = (e - 1) * PerEra + i
         /\ i # 0 => BlockOf(e, i) \in Block
<1>1. e - 1 \in Nat /\ e \in Nat /\ Eras \in Nat /\ PerEra \in Nat /\ e - 1 <= e /\ e <= Eras /\ (e - 1) + 1 = e
  BY Params
<1>2. (e - 1) * PerEra \in Nat /\ e * PerEra \in Nat /\ ((e - 1) + 1) * PerEra = (e - 1) * PerEra + PerEra
  BY <1>1, Times
<1>3. e * PerEra <= Eras * PerEra /\ Eras * PerEra \in Nat
  BY <1>1, Times
<1> DEFINE x == (e - 1) * PerEra
           y == e * PerEra
           z == Eras * PerEra
<1>4. x \in Nat /\ y = x + PerEra /\ y <= z /\ z \in Nat /\ i \in 0..PerEra
  BY <1>1, <1>2, <1>3
<1>5. BlockOf(e, i) = x + i
  BY DEF BlockOf
<1> HIDE DEF x, y, z
<1>6. x + i \in 0..z /\ (i # 0 => x + i \in 1..z)
  BY <1>1, <1>4
<1> QED
  BY <1>4, <1>5, <1>6 DEF x, y, z, Block

\* Blocks of later files come later.
LEMMA PlaceOrder ==
  ASSUME NEW e \in 1..Eras, NEW f \in 1..Eras, e < f, NEW i \in 0..PerEra, NEW j \in 1..PerEra
  PROVE  (e - 1) * PerEra + i < BlockOf(f, j)
<1>1. (e - 1) * PerEra \in Nat /\ e * PerEra = (e - 1) * PerEra + PerEra /\ BlockOf(f, j) = (f - 1) * PerEra + j
  BY PlaceIn, Params
<1>2. e \in Nat /\ f - 1 \in Nat /\ e <= f - 1 /\ PerEra \in Nat
  BY Params
<1>3. e * PerEra <= (f - 1) * PerEra /\ (f - 1) * PerEra \in Nat /\ e * PerEra \in Nat
  BY <1>2, Times
<1> DEFINE x == (e - 1) * PerEra
           y == e * PerEra
           z == (f - 1) * PerEra
<1>4. x \in Nat /\ y = x + PerEra /\ y <= z /\ z \in Nat /\ i <= PerEra /\ 1 <= j
  BY <1>1, <1>2, <1>3
<1>5. BlockOf(f, j) = z + j
  BY <1>1
<1> HIDE DEF x, y, z
<1>6. x + i < z + j
  BY <1>2, <1>4
<1> QED
  BY <1>5, <1>6 DEF x, z

LEMMA BlocksIn ==
  ASSUME NEW es \in SUBSET (1..Eras)
  PROVE  BlocksOf(es) \subseteq Block
<1>1. ASSUME NEW e \in es, NEW i \in 1..PerEra PROVE BlockOf(e, i) \in Block
  <2>1. e \in 1..Eras /\ i \in 0..PerEra /\ i # 0
    BY Params
  <2> QED
    BY <2>1, PlaceIn
<1> QED
  BY <1>1 DEF BlocksOf

LEMMA BlocksMore ==
  ASSUME NEW S, NEW T, S \subseteq T
  PROVE  BlocksOf(S) \subseteq BlocksOf(T)
BY DEF BlocksOf

LEMMA BlocksFinite ==
  ASSUME NEW S, S \subseteq Block
  PROVE  /\ S \subseteq Nat /\ IsFiniteSet(S) /\ Cardinality(S) \in Nat
         /\ S # {} => /\ Min(S) \in S /\ Max(S) \in S /\ Cardinality(S) > 0
         /\ S = {} => Cardinality(S) = 0
<1>1. Eras * PerEra \in Nat
  BY Params
<1> DEFINE N == Eras * PerEra
<1>2. N \in Nat /\ Block = 1..N
  BY <1>1 DEF Block
<1> HIDE DEF N
<1>3. IsFiniteSet(Block)
  BY <1>2, FS_Interval
<1>4. IsFiniteSet(S) /\ Cardinality(S) \in Nat
  BY <1>3, FS_Subset, FS_CardinalityType
<1>5. S \subseteq Nat /\ S \subseteq 0..N
  BY <1>2
<1>6. Cardinality(S) = 0 <=> S = {}
  BY <1>4, FS_EmptySet
<1>7. S # {} => Min(S) \in S /\ Max(S) \in S
  BY <1>2, <1>5, MinIs, MaxIs
<1>8. S # {} => Cardinality(S) > 0
  <2> DEFINE c == Cardinality(S)
  <2>1. c \in Nat /\ (c = 0 <=> S = {})
    BY <1>4, <1>6
  <2> HIDE DEF c
  <2>2. S # {} => c > 0
    BY <2>1
  <2> QED
    BY <2>2 DEF c
<1> QED
  BY <1>4, <1>5, <1>6, <1>7, <1>8, Zenon

-----------------------------------------------------------------------------
(* The commands.                                                           *)

LEMMA RangeIs ==
  ASSUME NEW r \in EraRange
  PROVE  r[1] \in 1..Eras /\ r[2] \in 1..Eras /\ r[1] <= r[2] /\ ErasOf(r) = r[1]..r[2] /\ ErasOf(r) \subseteq 1..Eras
         /\ r[1] \in ErasOf(r) /\ r[2] \in ErasOf(r)
BY Params DEF EraRange, ErasOf

LEMMA Command ==
  ASSUME NEW a \in Commands
  PROVE  /\ a.mode \in {"bulk", "block", "positions"}
         /\ a.range \in EraRange /\ a.events \subseteq ErasOf(a.range)
         /\ a.mode = "block" => a.block \in Block
         /\ a.mode = "positions" => a.range = <<1, Eras>> /\ a.from \in Nat /\ a.to \in Nat
<1>1. CASE \E r \in EraRange : \E es \in SUBSET ErasOf(r) : a = Bulk(r, es)
  <2>1. PICK r \in EraRange : \E es \in SUBSET ErasOf(r) : a = Bulk(r, es)
    BY <1>1
  <2>2. PICK es \in SUBSET ErasOf(r) : a = Bulk(r, es)
    BY <2>1
  <2> QED
    BY <2>2 DEF Bulk
<1>2. CASE \E r \in EraRange, b \in Block : a = Single(r, b)
  <2>1. PICK r \in EraRange, b \in Block : a = Single(r, b)
    BY <1>2
  <2> QED
    BY <2>1 DEF Single
<1>3. CASE \E s, t \in 0..(Eras * PerEra) : a = PerBlock(<<1, Eras>>, s, t)
  <2>1. PICK s \in 0..(Eras * PerEra), t \in 0..(Eras * PerEra) : a = PerBlock(<<1, Eras>>, s, t)
    BY <1>3
  <2>2. Eras * PerEra \in Nat /\ Eras \in Nat /\ Eras > 0
    BY Params
  <2>3. <<1, Eras>> \in EraRange
    BY <2>2 DEF EraRange
  <2>4. s \in Nat /\ t \in Nat
    BY <2>2
  <2> QED
    BY <2>1, <2>3, <2>4 DEF PerBlock
<1> QED
  BY <1>1, <1>2, <1>3 DEF Commands

LEMMA NoCommand == NoArgs \in Commands
<1>1. <<1, 1>> \in EraRange
  BY Params DEF EraRange
<1>2. NoArgs \in Commands
  <2>1. {} \in SUBSET ErasOf(<<1, 1>>)
    OBVIOUS
  <2>2. NoArgs \in {Bulk(<<1, 1>>, es) : es \in SUBSET ErasOf(<<1, 1>>)}
    BY <2>1, Zenon DEF NoArgs
  <2>3. NoArgs \in UNION {{Bulk(r, es) : es \in SUBSET ErasOf(r)} : r \in EraRange}
    BY <1>1, <2>2, Zenon
  <2> QED
    BY <2>3 DEF Commands
<1> QED
  BY <1>2

\* A line more, and a file more.
LEMMA PassedNext ==
  ASSUME NEW first, NEW e, NEW i \in Nat
  PROVE  Passed(first, e, i + 1) = Passed(first, e, i) \cup {BlockOf(e, i + 1)}
<1>1. 1..(i + 1) = 1..i \cup {i + 1}
  OBVIOUS
<1> QED
  BY <1>1 DEF Passed

LEMMA PassedStart ==
  ASSUME NEW first \in Nat
  PROVE  Passed(first, first, 0) = {}
<1>1. first..(first - 1) = {} /\ 1..0 = {}
  OBVIOUS
<1> QED
  BY <1>1 DEF Passed, BlocksOf

LEMMA PassedFile ==
  ASSUME NEW first \in Nat, NEW e \in Nat, first <= e
  PROVE  /\ Passed(first, e, PerEra) = BlocksOf(first..e)
         /\ Passed(first, e + 1, 0) = BlocksOf(first..e)
<1>1. first..e = first..(e - 1) \cup {e} /\ first..((e + 1) - 1) = first..e /\ 1..0 = {}
  OBVIOUS
<1>2. BlocksOf(first..e) = BlocksOf(first..(e - 1)) \cup {BlockOf(e, j) : j \in 1..PerEra}
  BY <1>1 DEF BlocksOf
<1> QED
  BY <1>1, <1>2 DEF Passed

LEMMA HasMore ==
  ASSUME NEW a, NEW seen, NEW S, NEW T, S \subseteq T, Has(a, seen, S)
  PROVE  Has(a, seen, T)
BY DEF Has

-----------------------------------------------------------------------------
(* The invariant holds at first, and every step keeps it.                  *)

LEMMA ShapeIs ==
  ASSUME Shape
  PROVE  /\ args.mode \in {"bulk", "block", "positions"}
         /\ args.range[1] \in 1..Eras /\ args.range[2] \in 1..Eras /\ args.range[1] <= args.range[2]
         /\ ErasOf(args.range) = args.range[1]..args.range[2] /\ ErasOf(args.range) \subseteq 1..Eras
         /\ args.range \in EraRange /\ args.events \subseteq ErasOf(args.range)
         /\ History \subseteq BlocksOf(ErasOf(args.range)) /\ BlocksOf(ErasOf(args.range)) \subseteq Block
         /\ History \subseteq Block
         /\ args.mode = "block" => args.block \in Block
         /\ args.mode = "positions" => args.range = <<1, Eras>> /\ args.from \in Nat /\ args.to \in Nat
         /\ era \in Nat /\ line \in Nat /\ position \in Nat /\ PerEra \in Nat
<1>1. args \in Commands
  BY DEF Shape
<1>2. /\ args.mode \in {"bulk", "block", "positions"} /\ args.range \in EraRange /\ args.events \subseteq ErasOf(args.range)
      /\ args.mode = "block" => args.block \in Block
      /\ args.mode = "positions" => args.range = <<1, Eras>> /\ args.from \in Nat /\ args.to \in Nat
  BY <1>1, Command, Zenon
<1>3. /\ args.range[1] \in 1..Eras /\ args.range[2] \in 1..Eras /\ args.range[1] <= args.range[2]
      /\ ErasOf(args.range) = args.range[1]..args.range[2] /\ ErasOf(args.range) \subseteq 1..Eras
  BY <1>2, RangeIs
<1>4. History \subseteq BlocksOf(ErasOf(args.range)) /\ BlocksOf(ErasOf(args.range)) \subseteq Block
  BY <1>2, <1>3, BlocksMore, BlocksIn DEF History
<1>5. era \in Nat /\ line \in Nat /\ position \in Nat /\ PerEra \in Nat
  BY Params DEF Shape
<1> QED
  BY <1>2, <1>3, <1>4, <1>5

\* Nothing that Bee holds is lost.
LEMMA RowsStay ==
  ASSUME RowsSound, db' = db, bee.blocks \subseteq bee'.blocks, bee.balance \subseteq bee'.balance,
         bee.records \subseteq bee'.records
  PROVE  RowsSound'
BY DEF RowsSound

LEMMA NoBusy == IsFiniteSet({}) /\ Cardinality({}) <= Concurrency /\ 0 \in 0..(Eras * PerEra) /\ 1 \in 1..Eras /\ 0 \in 0..PerEra
<1>1. Cardinality({}) = 0 /\ IsFiniteSet({})
  BY FS_EmptySet
<1>2. Eras * PerEra \in Nat
  BY Params
<1> QED
  BY <1>1, <1>2, Params

LEMMA EmptyIn == Schema \in Db
BY DEF Schema, Db, Every

LEMMA IndexerInit == Init => IndexerInv
<1> SUFFICES ASSUME Init PROVE IndexerInv
  OBVIOUS
<1>1. Shape
  <2>1. 0 \in 0..MaxRuns
    BY Params
  <2>2. bee \in [blocks : SUBSET Block, records : SUBSET (Account \X SUBSET Block), balance : SUBSET Block]
    BY DEF Init
  <2> QED
    BY <2>1, <2>2, NoBusy, EmptyIn, NoCommand, Zenon DEF Init, Shape
<1>2. RowsSound
  BY DEF Init, RowsSound, Schema, Every, None
<1>3. ReadKept /\ RecordsKept /\ DoneKept /\ TreeKept
  BY NoBusy DEF Init, ReadKept, RecordsKept, DoneKept, TreeKept
<1>4. AnnouncedComplete
  BY DEF Init, AnnouncedComplete
<1> QED
  BY <1>1, <1>2, <1>3, <1>4 DEF IndexerInv

LEMMA StartKeeps ==
  ASSUME IndexerInv, NEW a \in Commands, Start(a)
  PROVE  IndexerInv'
<1> USE DEF records, syncing
<1>1. Shape /\ RowsSound /\ RecordsKept /\ TreeKept /\ AnnouncedComplete
  BY DEF IndexerInv
<1>2. a.range[1] \in 1..Eras /\ a.range[1] \in ErasOf(a.range) /\ a.range[1] \in Nat
      /\ (a.mode = "positions" => a.range[1] = 1)
  <2>1. a.range \in EraRange /\ (a.mode = "positions" => a.range = <<1, Eras>>)
    BY Command
  <2> QED
    BY <2>1, RangeIs, Params
<1>3. Shape'
  <2>1. db.blocks \subseteq Block
    BY <1>1 DEF Shape, Db
  <2>2. runs + 1 \in 0..MaxRuns
    BY <1>1, Params DEF Shape, Start
  <2> QED
    BY <1>1, <1>2, <2>1, <2>2, NoBusy DEF Shape, Start
<1>4. RowsSound'
  BY <1>1, RowsStay DEF Start
<1>5. ReadKept'
  <2>1. era' \in ErasOf(args'.range) /\ existing' \subseteq db'.blocks /\ pc' = "blocks"
    BY <1>2 DEF Start
  <2>2. (era' - 1) * PerEra \in Nat
    <3>1. era' - 1 \in Nat
      BY <1>2 DEF Start
    <3> QED
      BY <3>1, Params
  <2>3. position' <= (era' - 1) * PerEra + line'
    <3> DEFINE x == (era' - 1) * PerEra
    <3>1. x \in Nat /\ position' = 0 /\ line' = 0
      BY <2>2 DEF Start
    <3> HIDE DEF x
    <3>2. position' <= x + line'
      BY <3>1
    <3> QED
      BY <3>2 DEF x
  <2>4. args'.mode = "positions" => position' = (era' - 1) * PerEra + line'
    <3> SUFFICES ASSUME args'.mode = "positions" PROVE position' = (era' - 1) * PerEra + line'
      OBVIOUS
    <3>1. era' = 1 /\ line' = 0 /\ position' = 0
      BY <1>2 DEF Start
    <3>2. (1 - 1) * PerEra = 0
      BY Params
    <3> QED
      BY <3>1, <3>2
  <2>5. Has(args', Passed(args'.range[1], era', line'), db'.blocks)
    <3>1. Passed(args'.range[1], era', line') = {}
      BY <1>2, PassedStart DEF Start
    <3> QED
      BY <3>1 DEF Has
  <2> QED
    BY <2>1, <2>3, <2>4, <2>5 DEF ReadKept
<1>6. RecordsKept' /\ DoneKept' /\ TreeKept'
  BY <1>1 DEF Start, RecordsKept, DoneKept, TreeKept
<1>7. AnnouncedComplete'
  BY <1>1 DEF Start, AnnouncedComplete
<1> QED
  BY <1>3, <1>4, <1>5, <1>6, <1>7 DEF IndexerInv

LEMMA ForgetKeeps ==
  ASSUME Shape, RowsSound, ForgetAll, UNCHANGED <<db, bee, runs>>, AnnouncedComplete'
  PROVE  IndexerInv'
<1>1. Shape'
  BY NoBusy, EmptyIn, NoCommand DEF Shape, ForgetAll
<1>2. RowsSound'
  BY RowsStay
<1>3. ReadKept' /\ DoneKept'
  BY DEF ForgetAll, ReadKept, DoneKept
<1>4. RecordsKept' /\ TreeKept'
  BY NoBusy DEF ForgetAll, RecordsKept, TreeKept
<1> QED
  BY <1>1, <1>2, <1>3, <1>4 DEF IndexerInv

LEMMA CrashKeeps ==
  ASSUME IndexerInv, Crash
  PROVE  IndexerInv'
<1>1. AnnouncedComplete'
  BY DEF IndexerInv, Crash, AnnouncedComplete
<1> QED
  BY <1>1, ForgetKeeps DEF IndexerInv, Crash

LEMMA AnnounceKeeps ==
  ASSUME IndexerInv, Announce
  PROVE  IndexerInv'
<1>1. Complete(image, args)
  BY DEF IndexerInv, DoneKept, Announce
<1>2. announced'.db = image /\ announced'.args = args
  BY DEF Announce
<1>3. AnnouncedComplete'
  BY <1>1, <1>2 DEF AnnouncedComplete
<1> QED
  BY <1>3, ForgetKeeps DEF IndexerInv, Announce

\* A line is done with: what it held is there, if it is asked for.
LEMMA LineKeeps ==
  ASSUME Shape, ReadKept, pc \in {"blocks", "answer"}, line < PerEra, NextLine, pc' = "blocks",
         UNCHANGED <<args, era, existing>>, db.blocks \subseteq db'.blocks, Has(args, {Current}, db'.blocks)
  PROVE  ReadKept' /\ line' \in 0..PerEra /\ position' \in 0..(Eras * PerEra)
<1> DEFINE x == (era - 1) * PerEra
           first == args.range[1]
<1>1. line \in 0..PerEra /\ line \in Nat /\ position \in Nat /\ PerEra \in Nat /\ era \in 1..Eras
  BY ShapeIs DEF Shape
<1>2. /\ era \in ErasOf(args.range) /\ position <= x + line /\ (args.mode = "positions" => position = x + line)
      /\ existing \subseteq db.blocks /\ Has(args, Passed(first, era, line), db.blocks)
  BY DEF ReadKept
<1>3. x \in Nat
  BY <1>1, PlaceIn
<1>4. line' = (IF args.mode = "block" /\ Current = args.block THEN PerEra ELSE line + 1) /\ position' = position + 1
  BY DEF NextLine
<1> HIDE DEF x
<1>5. line' \in 0..PerEra /\ line + 1 <= line' /\ line' \in Nat /\ (args.mode = "positions" => line' = line + 1)
  BY <1>1, <1>4
<1>6. position' <= x + line' /\ (args.mode = "positions" => position' = x + line')
  BY <1>1, <1>2, <1>3, <1>4, <1>5
<1>7. position' \in 0..(Eras * PerEra)
  <2>1. x + line' \in 0..(Eras * PerEra)
    BY <1>1, <1>5, PlaceIn DEF x
  <2>2. Eras * PerEra \in Nat /\ position' \in Nat
    BY <1>1, <1>4, Params
  <2> DEFINE z == Eras * PerEra
  <2>3. z \in Nat /\ x + line' \in 0..z
    BY <2>1, <2>2
  <2> HIDE DEF z
  <2> DEFINE v == line'
             w == position'
  <2>4. x + v \in 0..z /\ w <= x + v /\ w \in Nat /\ z \in Nat
    BY <1>6, <2>2, <2>3
  <2>5. v \in Nat /\ x \in Nat
    BY <1>3, <1>5
  <2> HIDE DEF v, w
  <2>6. x + v <= z
    BY <2>4, <2>5
  <2>7. w \in 0..z
    BY <2>4, <2>5, <2>6
  <2> QED
    BY <2>7 DEF z, w
<1>8. Has(args, Passed(first, era, line), db'.blocks)
  BY <1>2, HasMore
<1>9. Has(args, Passed(first, era, line'), db'.blocks)
  <2>1. CASE line' = line + 1
    <3>1. Passed(first, era, line') = Passed(first, era, line) \cup {Current}
      BY <1>1, <2>1, PassedNext DEF Current
    <3> QED
      BY <1>8, <3>1 DEF Has
  <2>2. CASE line' # line + 1
    <3>1. args.mode = "block" /\ args.block = Current
      BY <1>4, <2>2
    <3> QED
      BY <3>1 DEF Has
  <2> QED
    BY <2>1, <2>2
<1>10. existing' \subseteq db'.blocks
  BY <1>2
<1> QED
  BY <1>2, <1>5, <1>6, <1>7, <1>9, <1>10 DEF ReadKept, x

LEMMA CurrentIs ==
  ASSUME Shape, line < PerEra
  PROVE  /\ Current \in Block /\ Current \in Nat /\ Current = (era - 1) * PerEra + line + 1
         /\ (era - 1) * PerEra \in Nat
<1>1. era \in 1..Eras /\ line + 1 \in 0..PerEra /\ line + 1 # 0 /\ line \in Nat
  BY ShapeIs, Params DEF Shape
<1>2. /\ (era - 1) * PerEra \in Nat /\ BlockOf(era, line + 1) = (era - 1) * PerEra + (line + 1)
      /\ BlockOf(era, line + 1) \in Block
  BY <1>1, PlaceIn
<1> DEFINE x == (era - 1) * PerEra
<1>3. x \in Nat /\ Current = x + (line + 1) /\ Current \in Block
  BY <1>2 DEF Current
<1> HIDE DEF x
<1>4. Current \in Nat /\ Current = x + line + 1
  BY <1>1, <1>3
<1> QED
  BY <1>3, <1>4 DEF x

LEMMA SkipBlockKeeps ==
  ASSUME IndexerInv, SkipBlock
  PROVE  IndexerInv'
<1> USE DEF records, syncing
<1>1. Shape /\ RowsSound /\ ReadKept /\ RecordsKept /\ TreeKept /\ AnnouncedComplete
  BY DEF IndexerInv
<1>2. pc = "blocks" /\ line < PerEra /\ ~Wanted(Current)
  BY DEF SkipBlock, HasLine
<1>3. Has(args, {Current}, db.blocks)
  <2>1. existing \subseteq db.blocks /\ (args.mode = "positions" => position = (era - 1) * PerEra + line)
    BY <1>1, <1>2 DEF ReadKept
  <2>2. args.mode = "block" => (args.block \in {Current} => args.block \in db.blocks)
    BY <1>2, <2>1 DEF Wanted
  <2>3. args.mode = "bulk" => {Current} \subseteq db.blocks
    BY <1>2, <2>1 DEF Wanted
  <2>4. ASSUME args.mode = "positions", args.from < Current PROVE Current \in db.blocks
    <3> DEFINE x == (era - 1) * PerEra
    <3>1. x \in Nat /\ Current = x + line + 1 /\ position = x + line /\ line \in Nat /\ args.from \in Nat
      BY <1>1, <1>2, <2>1, <2>4, CurrentIs, ShapeIs
    <3> HIDE DEF x
    <3>2. args.from <= position
      BY <2>4, <3>1
    <3> QED
      BY <1>2, <2>4, <3>2 DEF Wanted
  <2> QED
    BY <2>2, <2>3, <2>4 DEF Has
<1>4. ReadKept' /\ line' \in 0..PerEra /\ position' \in 0..(Eras * PerEra)
  BY <1>1, <1>2, <1>3, LineKeeps DEF SkipBlock
<1>5. Shape'
  BY <1>1, <1>4 DEF Shape, SkipBlock
<1>6. RowsSound'
  BY <1>1, RowsStay DEF SkipBlock
<1>7. RecordsKept' /\ DoneKept' /\ TreeKept'
  BY <1>1, <1>2 DEF SkipBlock, RecordsKept, DoneKept, TreeKept
<1>8. AnnouncedComplete'
  BY <1>1 DEF SkipBlock, AnnouncedComplete
<1> QED
  BY <1>4, <1>5, <1>6, <1>7, <1>8 DEF IndexerInv

\* More is at Bee.
LEMMA BeeMore ==
  ASSUME Shape, NEW S \in SUBSET Block, NEW R \in SUBSET (Account \X SUBSET Block), NEW B \in SUBSET Block,
         bee' = [blocks |-> bee.blocks \cup S, records |-> bee.records \cup R, balance |-> bee.balance \cup B]
  PROVE  /\ bee' \in [blocks : SUBSET Block, records : SUBSET (Account \X SUBSET Block), balance : SUBSET Block]
         /\ bee'.blocks = bee.blocks \cup S /\ bee'.records = bee.records \cup R /\ bee'.balance = bee.balance \cup B
<1>1. bee.blocks \subseteq Block /\ bee.records \subseteq Account \X SUBSET Block /\ bee.balance \subseteq Block
  BY DEF Shape
<1> QED
  BY <1>1

LEMMA UploadBlockKeeps ==
  ASSUME IndexerInv, UploadBlock
  PROVE  IndexerInv'
<1> USE DEF records, syncing, reading
<1>1. Shape /\ RowsSound /\ ReadKept /\ RecordsKept /\ TreeKept /\ AnnouncedComplete
  BY DEF IndexerInv
<1>2. pc = "blocks" /\ line < PerEra /\ Current \in Block
  BY <1>1, CurrentIs DEF UploadBlock, HasLine
<1>3. bee' = [blocks |-> bee.blocks \cup {Current}, records |-> bee.records \cup {}, balance |-> bee.balance \cup {}]
  BY <1>1 DEF UploadBlock, Shape
<1>4. /\ bee' \in [blocks : SUBSET Block, records : SUBSET (Account \X SUBSET Block), balance : SUBSET Block]
      /\ bee'.blocks = bee.blocks \cup {Current} /\ bee'.records = bee.records /\ bee'.balance = bee.balance
  <2>1. {Current} \in SUBSET Block /\ {} \in SUBSET Block /\ {} \in SUBSET (Account \X SUBSET Block)
    BY <1>2
  <2>2. /\ bee' \in [blocks : SUBSET Block, records : SUBSET (Account \X SUBSET Block), balance : SUBSET Block]
        /\ bee'.blocks = bee.blocks \cup {Current} /\ bee'.records = bee.records \cup {} /\ bee'.balance = bee.balance \cup {}
    BY <1>1, <1>3, <2>1, BeeMore, Zenon
  <2> QED
    BY <2>2
<1>5. Shape'
  BY <1>1, <1>4 DEF Shape, UploadBlock
<1>6. RowsSound'
  BY <1>1, <1>4, RowsStay DEF UploadBlock
<1>7. ReadKept'
  <2>1. Current' = Current
    BY DEF Current, UploadBlock
  <2>2. UNCHANGED <<args, db, existing, era, line, position>> /\ pc' = "answer"
    BY DEF UploadBlock
  <2>3. Has(args', Passed(args'.range[1], era', line'), db'.blocks) = Has(args, Passed(args.range[1], era, line), db.blocks)
    BY <2>2
  <2> QED
    BY <1>1, <1>2, <1>4, <2>1, <2>2, <2>3 DEF ReadKept
<1>8. RecordsKept' /\ DoneKept' /\ TreeKept'
  BY <1>1, <1>2 DEF UploadBlock, RecordsKept, DoneKept, TreeKept
<1>9. AnnouncedComplete'
  BY <1>1 DEF UploadBlock, AnnouncedComplete
<1> QED
  BY <1>5, <1>6, <1>7, <1>8, <1>9 DEF IndexerInv

\* A block more: what describes the blocks that were there still does.
LEMMA InsertBlockKeeps ==
  ASSUME IndexerInv, InsertBlock
  PROVE  IndexerInv'
<1> USE DEF records, syncing
<1>1. Shape /\ RowsSound /\ ReadKept /\ RecordsKept /\ TreeKept /\ AnnouncedComplete
  BY DEF IndexerInv
<1>2. pc = "answer" /\ line < PerEra /\ Current \in bee.blocks /\ Current \in Block
  BY <1>1, CurrentIs DEF InsertBlock, ReadKept
<1>3. /\ db' \in Db /\ db'.blocks = db.blocks \cup {Current} /\ db'.accounts = db.accounts
      /\ db'.balance = db.balance /\ db'.meta = db.meta /\ db.blocks \subseteq Block /\ db'.blocks \subseteq Block
  BY <1>1, <1>2 DEF InsertBlock, Shape, Db
<1>4. Has(args, {Current}, db'.blocks)
  BY <1>3 DEF Has
<1>5. ReadKept' /\ line' \in 0..PerEra /\ position' \in 0..(Eras * PerEra)
  BY <1>1, <1>2, <1>3, <1>4, LineKeeps DEF InsertBlock
<1>6. Shape'
  BY <1>1, <1>3, <1>5 DEF Shape, InsertBlock
<1>7. RowsSound'
  <2>1. Cardinality(db.blocks) <= Cardinality(db'.blocks) /\ Cardinality(db.blocks) \in Nat /\ Cardinality(db'.blocks) \in Nat
    BY <1>3, BlocksFinite, FS_Subset
  <2>2. db.meta # None => db.meta.count \in Nat
    BY <1>1 DEF Shape, Db, Meta
  <2>3. bee' = bee
    BY DEF InsertBlock
  <2>4. db'.blocks \subseteq bee'.blocks /\ db'.balance \subseteq bee'.balance \cap db'.blocks
    BY <1>1, <1>2, <1>3, <2>3 DEF RowsSound
  <2>5. \A a \in Account :
          db'.accounts[a] # {} => <<a, db'.accounts[a]>> \in bee'.records /\ db'.accounts[a] \subseteq db'.blocks
    BY <1>1, <1>3, <2>3 DEF RowsSound
  <2>6. ASSUME db'.meta # None, db'.meta.count > 0
        PROVE  {db'.meta.first, db'.meta.last} \subseteq db'.blocks /\ db'.meta.count <= Cardinality(db'.blocks)
    <3>1. {db.meta.first, db.meta.last} \subseteq db.blocks /\ db.meta.count <= Cardinality(db.blocks) /\ db.meta.count \in Nat
      BY <1>1, <1>3, <2>2, <2>6 DEF RowsSound
    <3>2. db'.meta.count <= Cardinality(db'.blocks)
      <4> DEFINE c == Cardinality(db.blocks)
                 d == Cardinality(db'.blocks)
                 e == db.meta.count
      <4>1. c \in Nat /\ d \in Nat /\ e \in Nat /\ c <= d /\ e <= c
        BY <2>1, <3>1
      <4> HIDE DEF c, d, e
      <4>2. e <= d
        BY <4>1
      <4> QED
        BY <1>3, <4>2 DEF d, e
    <3> QED
      BY <1>3, <3>1, <3>2
  <2> QED
    BY <2>4, <2>5, <2>6 DEF RowsSound
<1>8. RecordsKept' /\ DoneKept' /\ TreeKept'
  BY <1>1, <1>2 DEF InsertBlock, RecordsKept, DoneKept, TreeKept
<1>9. AnnouncedComplete'
  BY <1>1 DEF InsertBlock, AnnouncedComplete
<1> QED
  BY <1>5, <1>6, <1>7, <1>8, <1>9 DEF IndexerInv

\* When --per-block has passed its last position, or the last file is read,
\* nothing that was asked for is still to come.
LEMMA AllRead ==
  ASSUME Shape, ReadKept, pc = "blocks", line = PerEra \/ PastEnd, ~(era < args.range[2] /\ ~PastEnd)
  PROVE  Has(args, BlocksOf(ErasOf(args.range)), db.blocks)
<1> DEFINE first == args.range[1]
<1>1. /\ first \in 1..Eras /\ args.range[2] \in 1..Eras /\ ErasOf(args.range) = first..args.range[2]
      /\ line \in 0..PerEra /\ era \in 1..Eras /\ PerEra \in Nat
  BY ShapeIs DEF Shape
<1>2. /\ era \in ErasOf(args.range) /\ (args.mode = "positions" => position = (era - 1) * PerEra + line)
      /\ Has(args, Passed(first, era, line), db.blocks)
  BY DEF ReadKept
<1>3. CASE PastEnd
  <2>1. args.mode = "positions" /\ position >= args.to /\ args.to \in Nat /\ args.from \in Nat /\ first = 1
    BY <1>3, ShapeIs, Params DEF PastEnd
  <2>2. ASSUME NEW b \in BlocksOf(ErasOf(args.range)), args.from < b, b <= args.to PROVE b \in db.blocks
    <3>1. PICK e \in ErasOf(args.range), i \in 1..PerEra : b = BlockOf(e, i)
      BY <2>2 DEF BlocksOf
    <3>2. e \in 1..Eras /\ i \in 0..PerEra /\ e >= 1
      <4>1. e \in 1..Eras
        BY <3>1, ShapeIs
      <4>2. i \in 0..PerEra
        BY <1>1, <3>1
      <4> QED
        BY <4>1, <4>2, Params
    <3>3. /\ b = (e - 1) * PerEra + i /\ (e - 1) * PerEra \in Nat /\ (era - 1) * PerEra \in Nat
          /\ (era - 1) * PerEra + line \in Nat
      BY <1>1, <3>1, <3>2, PlaceIn, SMTT(20)
    <3>4. b <= (era - 1) * PerEra + line
      <4> DEFINE x == (era - 1) * PerEra + line
      <4>1. position = x /\ x \in Nat /\ b \in Nat
        BY <1>2, <2>1, <3>2, <3>3
      <4> HIDE DEF x
      <4>2. b <= x
        BY <2>1, <2>2, <4>1
      <4> QED
        BY <4>2 DEF x
    <3>5. ~(era < e)
      <4> SUFFICES ASSUME era < e PROVE FALSE
        OBVIOUS
      <4>1. (era - 1) * PerEra + line < b
        BY <1>1, <3>1, <3>2, PlaceOrder
      <4> DEFINE x == (era - 1) * PerEra + line
      <4>2. x < b /\ b <= x /\ x \in Nat /\ b \in Nat
        BY <3>2, <3>3, <3>4, <4>1
      <4> HIDE DEF x
      <4> QED
        BY <4>2
    <3>6. b \in Passed(first, era, line)
      <4>1. CASE e = era
        <5> DEFINE x == (era - 1) * PerEra
        <5>1. x \in Nat /\ b = x + i /\ b <= x + line /\ i \in 1..PerEra /\ line \in Nat
          BY <1>1, <3>1, <3>3, <3>4, <4>1
        <5> HIDE DEF x
        <5>2. i \in 1..line
          BY <1>1, <5>1
        <5> QED
          BY <3>1, <4>1, <5>2 DEF Passed
      <4>2. CASE e # era
        <5>1. e \in first..(era - 1)
          BY <1>1, <2>1, <3>2, <3>5, <4>2
        <5> QED
          BY <3>1, <5>1 DEF Passed, BlocksOf
      <4> QED
        BY <4>1, <4>2
    <3> QED
      BY <1>2, <2>1, <2>2, <3>6 DEF Has
  <2> QED
    BY <2>1, <2>2 DEF Has
<1>4. CASE ~PastEnd
  <2>1. line = PerEra /\ era = args.range[2]
    BY <1>1, <1>2, <1>4
  <2>2. Passed(first, era, PerEra) = BlocksOf(first..era)
    BY <1>1, <1>2, PassedFile
  <2> QED
    BY <1>1, <1>2, <2>1, <2>2
<1> QED
  BY <1>3, <1>4

LEMMA DoneIs ==
  ASSUME NEW a \in Commands, a.mode # "bulk", NEW d, Has(a, BlocksOf(ErasOf(a.range)), d.blocks)
  PROVE  Complete(d, a)
<1>1. a.mode \in {"bulk", "block", "positions"}
  BY Command
<1> QED
  BY <1>1 DEF Complete, Has

LEMMA FileEndsKeeps ==
  ASSUME IndexerInv, FileEnds
  PROVE  IndexerInv'
<1> USE DEF syncing
<1>1. Shape /\ RowsSound /\ ReadKept /\ RecordsKept /\ TreeKept /\ AnnouncedComplete
  BY DEF IndexerInv
<1>2. pc = "blocks" /\ (line = PerEra \/ PastEnd) /\ line' = 0 /\ UNCHANGED <<args, db, bee, position, busy, refs, image, level, above, pushed, announced, runs>>
  BY DEF FileEnds
<1>3. RowsSound' /\ AnnouncedComplete'
  BY <1>1, <1>2, RowsStay DEF AnnouncedComplete
<1>4. db.blocks \subseteq Block
  BY <1>1 DEF Shape, Db
<1>5. CASE era < args.range[2] /\ ~PastEnd
  <2>1. line = PerEra /\ pc' = "blocks" /\ era' = era + 1 /\ existing' = db.blocks /\ todo' = todo
    BY <1>2, <1>5 DEF FileEnds
  <2>2. /\ era \in 1..Eras /\ era + 1 \in 1..Eras /\ era + 1 \in ErasOf(args.range) /\ args.range[1] \in Nat
        /\ args.range[1] <= era /\ PerEra \in Nat /\ era \in Nat /\ (era + 1) - 1 = era
    <3>1. era \in 1..Eras /\ PerEra \in Nat
      BY <1>1, ShapeIs DEF Shape
    <3>2. era \in ErasOf(args.range)
      BY <1>1, <1>2 DEF ReadKept
    <3> DEFINE r == args.range[1]
               q == args.range[2]
    <3>3. r \in 1..Eras /\ q \in 1..Eras /\ ErasOf(args.range) = r..q
      BY <1>1, ShapeIs
    <3>4. era < q
      BY <1>5
    <3> HIDE DEF r, q
    <3>5. era \in Nat /\ r \in Nat /\ r <= era /\ era + 1 \in 1..Eras /\ era + 1 \in r..q /\ (era + 1) - 1 = era
      BY <3>1, <3>2, <3>3, <3>4, Params
    <3> QED
      BY <3>1, <3>3, <3>5 DEF r
  <2>3. Shape'
    BY <1>1, <1>2, <1>4, <2>1, <2>2, NoBusy DEF Shape
  <2>4. ReadKept'
    <3> DEFINE x == (era - 1) * PerEra
               y == era * PerEra
    <3>1. x \in Nat /\ y = x + PerEra /\ position <= x + PerEra /\ (args.mode = "positions" => position = x + PerEra)
      <4>1. PerEra \in 0..PerEra
        BY <2>2
      <4>2. x \in Nat /\ y = x + PerEra
        BY <2>2, <4>1, PlaceIn
      <4> QED
        BY <1>1, <1>2, <2>1, <4>2 DEF ReadKept
    <3>2. (era' - 1) * PerEra + line' = y
      <4>1. era' - 1 = era /\ line' = 0 /\ y \in Nat
        BY <1>2, <2>1, <2>2, <3>1
      <4> QED
        BY <4>1
    <3> HIDE DEF x, y
    <3>3. position' <= y /\ (args.mode = "positions" => position' = y)
      BY <1>2, <3>1
    <3>4. Has(args, Passed(args.range[1], era, PerEra), db.blocks)
      BY <1>1, <1>2, <2>1 DEF ReadKept
    <3>5. Passed(args.range[1], era, PerEra) = Passed(args.range[1], era + 1, 0)
      BY <2>2, PassedFile
    <3>6. Has(args', Passed(args'.range[1], era', line'), db'.blocks)
      BY <1>2, <2>1, <3>4, <3>5
    <3>7. era' \in ErasOf(args'.range) /\ existing' \subseteq db'.blocks /\ args' = args /\ pc' # "answer"
      BY <1>2, <2>1, <2>2
    <3> QED
      BY <3>2, <3>3, <3>6, <3>7 DEF ReadKept
  <2>5. RecordsKept' /\ DoneKept' /\ TreeKept'
    BY <1>1, <1>2, <2>1 DEF RecordsKept, DoneKept, TreeKept
  <2> QED
    BY <1>3, <2>3, <2>4, <2>5 DEF IndexerInv
<1>6. CASE ~(era < args.range[2] /\ ~PastEnd)
  <2>1. /\ pc' = (IF args.mode # "bulk" THEN "sync" ELSE IF args.events # {} THEN "accounts" ELSE "meta")
        /\ era' = 1 /\ existing' = {} /\ todo' = IF pc' = "accounts" THEN Account ELSE {}
    BY <1>6 DEF FileEnds
  <2>2. Has(args, BlocksOf(ErasOf(args.range)), db.blocks)
    BY <1>1, <1>2, <1>6, AllRead
  <2>3. Shape'
    BY <1>1, <1>2, <2>1, NoBusy DEF Shape
  <2>4. ReadKept'
    BY <2>1 DEF ReadKept
  <2>5. RecordsKept'
    <3>1. busy' = {} /\ refs' = {} /\ todo' = (IF pc' = "accounts" THEN Account ELSE {}) /\ pc' # "balances"
      BY <1>1, <1>2, <2>1 DEF RecordsKept
    <3> QED
      BY <3>1, NoBusy DEF RecordsKept
  <2>6. DoneKept'
    <3>1. args.mode # "bulk" => Complete(db, args)
      BY <1>1, <2>2, DoneIs DEF Shape
    <3>2. Complete(db, args)' = Complete(db, args)
      BY <1>2
    <3>3. Has(args', BlocksOf(ErasOf(args'.range)), db'.blocks) = Has(args, BlocksOf(ErasOf(args.range)), db.blocks)
      BY <1>2
    <3> QED
      BY <1>2, <2>1, <2>2, <3>1, <3>2, <3>3 DEF DoneKept
  <2>7. TreeKept'
    BY <1>1, <1>2, <2>1 DEF TreeKept
  <2> QED
    BY <1>3, <2>3, <2>4, <2>5, <2>6, <2>7 DEF IndexerInv
<1> QED
  BY <1>5, <1>6

LEMMA ClaimKeeps ==
  ASSUME IndexerInv, NEW x \in todo, Claim(x)
  PROVE  IndexerInv'
<1> USE DEF reading, syncing
<1>1. Shape /\ RowsSound /\ RecordsKept /\ DoneKept /\ TreeKept /\ AnnouncedComplete
  BY DEF IndexerInv
<1>2. pc \in {"accounts", "balances"} /\ busy' = busy \cup {x} /\ todo' = todo \ {x} /\ Cardinality(busy) < Concurrency
      /\ UNCHANGED <<pc, args, db, bee, existing, era, line, position, refs, image, level, above, pushed, announced, runs>>
  BY DEF Claim
<1>3. Shape' /\ AnnouncedComplete'
  BY <1>1, <1>2 DEF Shape, AnnouncedComplete
<1>4. RowsSound'
  BY <1>1, <1>2, RowsStay
<1>5. ReadKept' /\ TreeKept'
  BY <1>1, <1>2 DEF ReadKept, TreeKept
<1>6. DoneKept'
  <2>1. Has(args', BlocksOf(ErasOf(args'.range)), db'.blocks) = Has(args, BlocksOf(ErasOf(args.range)), db.blocks)
    BY <1>2
  <2> QED
    BY <1>1, <1>2, <2>1 DEF DoneKept
<1>7. RecordsKept'
  <2>1. IsFiniteSet(busy') /\ Cardinality(busy') <= Concurrency
    <3>1. IsFiniteSet(busy) /\ Cardinality(busy) \in Nat
      BY <1>1, FS_CardinalityType DEF RecordsKept
    <3>2. IsFiniteSet(busy') /\ Cardinality(busy') \in {Cardinality(busy), Cardinality(busy) + 1}
      BY <1>2, <3>1, FS_AddElement
    <3> DEFINE c == Cardinality(busy)
               d == Cardinality(busy')
    <3>3. c \in Nat /\ d \in {c, c + 1} /\ c < Concurrency
      BY <1>2, <3>1, <3>2
    <3> HIDE DEF c, d
    <3>4. d <= Concurrency
      BY <3>3, Params
    <3> QED
      BY <3>2, <3>4 DEF d
  <2>2. todo' \cup busy' \cup refs' = todo \cup busy \cup refs
    BY <1>2
  <2>3. History' = History
    BY <1>2 DEF History
  <2> QED
    BY <1>1, <1>2, <2>1, <2>2, <2>3 DEF RecordsKept
<1> QED
  BY <1>3, <1>4, <1>5, <1>6, <1>7 DEF IndexerInv

LEMMA RecordUploadedKeeps ==
  ASSUME IndexerInv, NEW x \in busy, RecordUploaded(x)
  PROVE  IndexerInv'
<1> USE DEF reading, syncing
<1>1. Shape /\ RowsSound /\ RecordsKept /\ DoneKept /\ TreeKept /\ AnnouncedComplete
  BY DEF IndexerInv
<1>2. busy' = busy \ {x} /\ refs' = refs \cup {x}
      /\ UNCHANGED <<pc, args, db, existing, era, line, position, todo, image, level, above, pushed, announced, runs>>
  BY DEF RecordUploaded
<1>3. pc \in {"accounts", "balances"}
  BY <1>1 DEF RecordsKept
<1>4. /\ bee' \in [blocks : SUBSET Block, records : SUBSET (Account \X SUBSET Block), balance : SUBSET Block]
      /\ bee.blocks \subseteq bee'.blocks /\ bee.records \subseteq bee'.records /\ bee.balance \subseteq bee'.balance
      /\ pc = "accounts" => <<x, History>> \in bee'.records
      /\ pc = "balances" => x \in bee'.balance
  <2>1. History \subseteq Block
    BY <1>1, ShapeIs
  <2>2. CASE pc = "accounts"
    <3>1. x \in Account
      BY <1>1, <2>2 DEF RecordsKept
    <3>2. {<<x, History>>} \in SUBSET (Account \X SUBSET Block) /\ {} \in SUBSET Block
      BY <2>1, <3>1
    <3>3. bee' = [blocks |-> bee.blocks \cup {}, records |-> bee.records \cup {<<x, History>>}, balance |-> bee.balance \cup {}]
      BY <1>1, <2>2 DEF RecordUploaded, Shape
    <3>4. /\ bee' \in [blocks : SUBSET Block, records : SUBSET (Account \X SUBSET Block), balance : SUBSET Block]
          /\ bee'.blocks = bee.blocks \cup {} /\ bee'.records = bee.records \cup {<<x, History>>}
          /\ bee'.balance = bee.balance \cup {}
      BY <1>1, <3>2, <3>3, BeeMore, Zenon
    <3>5. pc # "balances"
      BY <2>2
    <3> QED
      BY <3>4, <3>5
  <2>3. CASE pc = "balances"
    <3>1. x \in Block
      BY <1>1, <2>1, <2>3 DEF RecordsKept
    <3>2. {x} \in SUBSET Block /\ {} \in SUBSET Block /\ {} \in SUBSET (Account \X SUBSET Block)
      BY <3>1
    <3>3. bee' = [blocks |-> bee.blocks \cup {}, records |-> bee.records \cup {}, balance |-> bee.balance \cup {x}]
      BY <1>1, <2>3 DEF RecordUploaded, Shape
    <3>4. /\ bee' \in [blocks : SUBSET Block, records : SUBSET (Account \X SUBSET Block), balance : SUBSET Block]
          /\ bee'.blocks = bee.blocks \cup {} /\ bee'.records = bee.records \cup {}
          /\ bee'.balance = bee.balance \cup {x}
      BY <1>1, <3>2, <3>3, BeeMore, Zenon
    <3>5. pc # "accounts"
      BY <2>3
    <3> QED
      BY <3>4, <3>5
  <2> QED
    BY <1>3, <2>2, <2>3
<1>5. Shape' /\ AnnouncedComplete'
  BY <1>1, <1>2, <1>4 DEF Shape, AnnouncedComplete
<1>6. RowsSound'
  BY <1>1, <1>2, <1>4, RowsStay
<1>7. ReadKept' /\ TreeKept'
  BY <1>1, <1>2, <1>3 DEF ReadKept, TreeKept
<1>8. DoneKept'
  <2>1. Has(args', BlocksOf(ErasOf(args'.range)), db'.blocks) = Has(args, BlocksOf(ErasOf(args.range)), db.blocks)
    BY <1>2
  <2> QED
    BY <1>1, <1>2, <1>3, <2>1 DEF DoneKept
<1>9. RecordsKept'
  <2>1. IsFiniteSet(busy') /\ Cardinality(busy') <= Concurrency
    <3>1. IsFiniteSet(busy) /\ Cardinality(busy) \in Nat /\ Cardinality(busy) <= Concurrency
      BY <1>1, FS_CardinalityType DEF RecordsKept
    <3>2. IsFiniteSet(busy') /\ Cardinality(busy') = Cardinality(busy) - 1
      BY <1>2, <3>1, FS_RemoveElement
    <3> DEFINE c == Cardinality(busy)
               d == Cardinality(busy')
    <3>3. c \in Nat /\ d = c - 1 /\ c <= Concurrency
      BY <3>1, <3>2
    <3> HIDE DEF c, d
    <3>4. d <= Concurrency
      BY <3>3, Params
    <3> QED
      BY <3>2, <3>4 DEF d
  <2>2. todo' \cup busy' \cup refs' = todo \cup busy \cup refs
    BY <1>2
  <2>3. History' = History
    BY <1>2 DEF History
  <2>4. pc' = pc
    BY <1>2
  <2>5. pc = "accounts" =>
          todo' \cup busy' \cup refs' = Account /\ \A a \in refs' : <<a, History'>> \in bee'.records
    BY <1>1, <1>2, <1>4, <2>2, <2>3 DEF RecordsKept
  <2>6. pc = "balances" =>
          /\ todo' \cup busy' \cup refs' = History' /\ refs' \subseteq bee'.balance
          /\ \A a \in Account : <<a, History'>> \in bee'.records
    BY <1>1, <1>2, <1>4, <2>2, <2>3 DEF RecordsKept
  <2> QED
    BY <1>3, <2>1, <2>4, <2>5, <2>6 DEF RecordsKept
<1> QED
  BY <1>5, <1>6, <1>7, <1>8, <1>9 DEF IndexerInv

LEMMA RecordsEndKeeps ==
  ASSUME IndexerInv, RecordsEnd
  PROVE  IndexerInv'
<1> USE DEF reading, syncing
<1>1. Shape /\ RowsSound /\ RecordsKept /\ DoneKept /\ TreeKept /\ AnnouncedComplete
  BY DEF IndexerInv
<1>2. pc \in {"accounts", "balances"} /\ todo = {} /\ busy = {} /\ refs' = {} /\ busy' = {}
      /\ UNCHANGED <<args, bee, existing, era, line, position, image, level, above, pushed, announced, runs>>
  BY DEF RecordsEnd
<1>3. /\ Has(args, BlocksOf(ErasOf(args.range)), db.blocks) /\ args.mode = "bulk"
      /\ BlocksOf(ErasOf(args.range)) \subseteq db.blocks
  BY <1>1, <1>2 DEF DoneKept, Has
<1>4. History \subseteq Block /\ History \subseteq db.blocks /\ History' = History
  BY <1>1, <1>2, <1>3, ShapeIs DEF History
<1>5. CASE pc = "accounts"
  <2>1. pc' = "balances" /\ todo' = History /\ db' = db
    BY <1>5 DEF RecordsEnd
  <2>2. Shape' /\ AnnouncedComplete'
    BY <1>1, <1>2, <2>1 DEF Shape, AnnouncedComplete
  <2>3. RowsSound'
    BY <1>1, <1>2, <2>1, RowsStay
  <2>4. ReadKept' /\ TreeKept'
    BY <1>1, <1>2, <2>1 DEF ReadKept, TreeKept
  <2>5. DoneKept'
    <3>1. Has(args', BlocksOf(ErasOf(args'.range)), db'.blocks) = Has(args, BlocksOf(ErasOf(args.range)), db.blocks)
      BY <1>2, <2>1
    <3> QED
      BY <1>2, <1>3, <2>1, <3>1 DEF DoneKept
  <2>6. RecordsKept'
    <3>1. \A a \in Account : <<a, History'>> \in bee'.records
      BY <1>1, <1>2, <1>4, <1>5 DEF RecordsKept
    <3>2. todo' \cup busy' \cup refs' = History'
      BY <1>2, <1>4, <2>1
    <3> QED
      BY <1>2, <2>1, <3>1, <3>2, NoBusy DEF RecordsKept
  <2> QED
    BY <2>2, <2>3, <2>4, <2>5, <2>6 DEF IndexerInv
<1>6. CASE pc # "accounts"
  <2>1. pc = "balances" /\ pc' = "meta" /\ todo' = {}
        /\ db' = [db EXCEPT !.accounts = Every(History), !.balance = @ \cup History]
    BY <1>2, <1>6 DEF RecordsEnd
  <2>2. History \subseteq bee.balance /\ \A a \in Account : <<a, History>> \in bee.records
    BY <1>1, <1>2, <2>1 DEF RecordsKept
  <2>3. /\ db' \in Db /\ db'.accounts = Every(History) /\ db'.balance = db.balance \cup History
        /\ db'.blocks = db.blocks /\ db'.meta = db.meta
    <3>1. Every(History) \in [Account -> SUBSET Block]
      BY <1>4 DEF Every
    <3>2. /\ db.blocks \in SUBSET Block /\ db.balance \cup History \in SUBSET Block /\ db.meta \in {None} \cup Meta
      BY <1>1, <1>4 DEF Shape, Db
    <3>3. db' = [blocks |-> db.blocks, accounts |-> Every(History), balance |-> db.balance \cup History, meta |-> db.meta]
      BY <1>1, <2>1 DEF Shape, Db
    <3> QED
      BY <3>1, <3>2, <3>3 DEF Db
  <2>4. Shape' /\ AnnouncedComplete'
    BY <1>1, <1>2, <2>1, <2>3 DEF Shape, AnnouncedComplete
  <2>5. RowsSound'
    <3>1. db'.blocks \subseteq bee'.blocks /\ db'.balance \subseteq bee'.balance \cap db'.blocks
      BY <1>1, <1>2, <1>4, <2>2, <2>3 DEF RowsSound
    <3>2. \A a \in Account :
            db'.accounts[a] # {} => <<a, db'.accounts[a]>> \in bee'.records /\ db'.accounts[a] \subseteq db'.blocks
      BY <1>2, <1>4, <2>2, <2>3 DEF Every
    <3>3. db'.meta # None /\ db'.meta.count > 0 =>
            {db'.meta.first, db'.meta.last} \subseteq db'.blocks /\ db'.meta.count <= Cardinality(db'.blocks)
      BY <1>1, <2>3 DEF RowsSound
    <3> QED
      BY <3>1, <3>2, <3>3 DEF RowsSound
  <2>6. ReadKept' /\ TreeKept'
    BY <1>1, <1>2, <2>1 DEF ReadKept, TreeKept
  <2>7. DoneKept'
    <3>1. Has(args', BlocksOf(ErasOf(args'.range)), db'.blocks) = Has(args, BlocksOf(ErasOf(args.range)), db.blocks)
      BY <1>2, <2>3
    <3>2. db'.accounts = Every(History') /\ History' \subseteq db'.balance
      BY <1>4, <2>3
    <3> QED
      BY <1>2, <1>3, <2>1, <3>1, <3>2 DEF DoneKept
  <2>8. RecordsKept'
    BY <1>2, <2>1, NoBusy DEF RecordsKept
  <2> QED
    BY <2>4, <2>5, <2>6, <2>7, <2>8 DEF IndexerInv
<1> QED
  BY <1>5, <1>6

\* What describes a database.
LEMMA MetaIs ==
  ASSUME Shape
  PROVE  /\ MetaOf(db) \in Meta /\ MetaOf(db) # None /\ MetaOf(db).count = Cardinality(db.blocks)
         /\ db.blocks # {} => MetaOf(db).first = Min(db.blocks) /\ MetaOf(db).last = Max(db.blocks)
         /\ MetaOf(db).count > 0 => {MetaOf(db).first, MetaOf(db).last} \subseteq db.blocks
<1>1. db.blocks \subseteq Block /\ db.meta \in {None} \cup Meta
  BY DEF Shape, Db
<1>2. /\ Cardinality(db.blocks) \in Nat
      /\ db.blocks = {} => Cardinality(db.blocks) = 0
      /\ db.blocks # {} => Min(db.blocks) \in db.blocks /\ Max(db.blocks) \in db.blocks
  BY <1>1, BlocksFinite
<1> DEFINE addresses == Cardinality({a \in Account : db.accounts[a] # {}})
           before == IF db.meta = None THEN 0 ELSE db.meta.events
           more == Cardinality(History) * Cardinality(Account)
           first == IF db.blocks = {} THEN 0 ELSE Min(db.blocks)
           last == IF db.blocks = {} THEN 0 ELSE Max(db.blocks)
           count == Cardinality(db.blocks)
<1>3. addresses \in Nat
  <2>1. IsFiniteSet({a \in Account : db.accounts[a] # {}})
    BY Params, FS_Subset
  <2> QED
    BY <2>1, FS_CardinalityType
<1>4. before + more \in Nat
  <2>1. Cardinality(History) \in Nat /\ Cardinality(Account) \in Nat
    BY ShapeIs, BlocksFinite, Params, FS_CardinalityType
  <2>2. before \in Nat
    BY <1>1 DEF Meta
  <2>3. more \in Nat
    BY <2>1
  <2> HIDE DEF before, more
  <2> QED
    BY <2>2, <2>3
<1>5. first \in {0} \cup Block /\ last \in {0} \cup Block /\ count \in Nat
  BY <1>1, <1>2
<1>6. MetaOf(db) = [is |-> "meta", first |-> first, last |-> last, count |-> count, addresses |-> addresses,
                    events |-> before + more]
  BY DEF MetaOf
<1> DEFINE events == before + more
<1>7. events \in Nat
  BY <1>4
<1> HIDE DEF first, last, count, addresses, before, more, events
<1>8. MetaOf(db) = [is |-> "meta", first |-> first, last |-> last, count |-> count, addresses |-> addresses,
                    events |-> events]
  BY <1>6 DEF events
<1>9. /\ MetaOf(db) \in Meta /\ MetaOf(db) # None /\ MetaOf(db).count = count
      /\ MetaOf(db).first = first /\ MetaOf(db).last = last
  <2> HIDE DEF MetaOf
  <2> QED
    BY <1>3, <1>5, <1>7, <1>8 DEF Meta, None
<1>10. count > 0 => {first, last} \subseteq db.blocks
  <2>1. CASE db.blocks = {}
    BY <1>2, <2>1 DEF count
  <2>2. CASE db.blocks # {}
    <3>1. first \in db.blocks /\ last \in db.blocks
      BY <1>2, <2>2 DEF first, last
    <3> QED
      BY <3>1
  <2> QED
    BY <2>1, <2>2
<1>11. db.blocks # {} => first = Min(db.blocks) /\ last = Max(db.blocks)
  BY DEF first, last
<1> HIDE DEF MetaOf
<1> QED
  BY <1>9, <1>10, <1>11 DEF count

LEMMA WriteMetaKeeps ==
  ASSUME IndexerInv, WriteMeta
  PROVE  IndexerInv'
<1> USE DEF reading, records, syncing
<1>1. Shape /\ RowsSound /\ RecordsKept /\ DoneKept /\ TreeKept /\ AnnouncedComplete
  BY DEF IndexerInv
<1>2. pc = "meta" /\ pc' = "sync" /\ db' = [db EXCEPT !.meta = MetaOf(db)]
      /\ UNCHANGED <<args, bee, existing, era, line, position, todo, busy, refs, image, level, above, pushed, announced, runs>>
  BY DEF WriteMeta
<1> DEFINE m == MetaOf(db)
<1>3. /\ m \in Meta /\ m # None /\ m.count = Cardinality(db.blocks)
      /\ db.blocks # {} => m.first = Min(db.blocks) /\ m.last = Max(db.blocks)
      /\ m.count > 0 => {m.first, m.last} \subseteq db.blocks
  BY <1>1, MetaIs
<1> HIDE DEF m
<1>4. /\ db' \in Db /\ db'.blocks = db.blocks /\ db'.accounts = db.accounts /\ db'.balance = db.balance /\ db'.meta = m
  <2>1. db' = [blocks |-> db.blocks, accounts |-> db.accounts, balance |-> db.balance, meta |-> m]
    BY <1>1, <1>2 DEF Shape, Db, m
  <2>2. db.blocks \in SUBSET Block /\ db.balance \in SUBSET Block /\ db.accounts \in [Account -> SUBSET Block]
    BY <1>1 DEF Shape, Db
  <2> QED
    BY <1>3, <2>1, <2>2 DEF Db
<1>5. Shape' /\ AnnouncedComplete'
  BY <1>1, <1>2, <1>4 DEF Shape, AnnouncedComplete
<1>6. RowsSound'
  <2>1. db'.meta.count <= Cardinality(db'.blocks)
    <3>1. Cardinality(db.blocks) \in Nat
      BY <1>1, BlocksFinite DEF Shape, Db
    <3>2. db'.meta.count = Cardinality(db.blocks) /\ db'.blocks = db.blocks
      BY <1>3, <1>4
    <3> QED
      BY <3>1, <3>2
  <2>2. db'.blocks \subseteq bee'.blocks /\ db'.balance \subseteq bee'.balance \cap db'.blocks
    BY <1>1, <1>2, <1>4 DEF RowsSound
  <2>3. \A a \in Account :
          db'.accounts[a] # {} => <<a, db'.accounts[a]>> \in bee'.records /\ db'.accounts[a] \subseteq db'.blocks
    BY <1>1, <1>2, <1>4 DEF RowsSound
  <2>4. db'.meta.count > 0 => {db'.meta.first, db'.meta.last} \subseteq db'.blocks
    BY <1>3, <1>4
  <2> QED
    BY <2>1, <2>2, <2>3, <2>4 DEF RowsSound
<1>7. ReadKept' /\ TreeKept' /\ RecordsKept'
  <2>1. ReadKept' /\ TreeKept'
    BY <1>1, <1>2 DEF ReadKept, TreeKept
  <2>2. todo = {} /\ busy = {} /\ refs = {}
    BY <1>1, <1>2 DEF RecordsKept
  <2> QED
    BY <1>2, <2>1, <2>2, NoBusy DEF RecordsKept
<1>8. DoneKept'
  <2>1. /\ args.mode = "bulk" /\ BlocksOf(ErasOf(args.range)) \subseteq db.blocks
        /\ Has(args, BlocksOf(ErasOf(args.range)), db.blocks)
        /\ args.events # {} => db.accounts = Every(History) /\ History \subseteq db.balance
    BY <1>1, <1>2 DEF DoneKept, Has
  <2>2. db.blocks # {}
    <3>1. args.range[1] \in ErasOf(args.range) /\ 1 \in 1..PerEra
      BY <1>1, ShapeIs, RangeIs, Params
    <3>2. BlockOf(args.range[1], 1) \in BlocksOf(ErasOf(args.range))
      BY <3>1 DEF BlocksOf
    <3> QED
      BY <2>1, <3>2
  <2>3. Complete(db', args)
    BY <1>3, <1>4, <2>1, <2>2 DEF Complete, History
  <2>4. Has(args', BlocksOf(ErasOf(args'.range)), db'.blocks)
    <3>1. args' = args /\ db'.blocks = db.blocks
      BY <1>2, <1>4
    <3> QED
      BY <2>1, <3>1
  <2>5. Complete(db, args)'
    <3>1. args' = args
      BY <1>2
    <3> QED
      BY <2>3, <3>1
  <2> QED
    BY <1>2, <2>4, <2>5 DEF DoneKept
<1> QED
  BY <1>5, <1>6, <1>7, <1>8 DEF IndexerInv

LEMMA PagesIs ==
  ASSUME NEW d \in Db
  PROVE  Pages(d) \in Nat /\ Pages(d) >= 1
<1>1. Cardinality(d.blocks) \in Nat
  BY BlocksFinite DEF Db
<1> QED
  BY <1>1 DEF Pages

LEMMA GroupedIs ==
  ASSUME NEW C, above \in Seq(C)
  PROVE  /\ Len(above) \in Nat /\ Grouped \in Nat /\ (Len(above) + 1) * Fanout = Grouped + Fanout
         /\ Len(above) = 0 => Grouped = 0
         /\ Len(above) >= 1 => 2 * (Len(above) - 1) <= Grouped - Fanout
<1>1. Len(above) \in Nat /\ Fanout \in Nat /\ Fanout >= 2
  BY Params
<1> DEFINE l == Len(above)
<1> HIDE DEF l
<1>2. l \in Nat /\ Fanout \in Nat /\ Fanout >= 2
  BY <1>1 DEF l
<1>3. l * Fanout \in Nat /\ (l + 1) * Fanout = l * Fanout + Fanout
  BY <1>2, Times
<1>4. l = 0 => l * Fanout = 0
  BY <1>2
<1>5. l >= 1 => 2 * (l - 1) <= l * Fanout - Fanout
  <2> SUFFICES ASSUME l >= 1 PROVE 2 * (l - 1) <= l * Fanout - Fanout
    OBVIOUS
  <2>1. l - 1 \in Nat /\ 2 \in Nat /\ 2 <= Fanout
    BY <1>2
  <2>2. 2 * (l - 1) <= Fanout * (l - 1)
    BY <1>2, <2>1, Times
  <2>3. Fanout * (l - 1) = l * Fanout - Fanout
    BY <1>2
  <2> QED
    BY <2>2, <2>3
<1> QED
  BY <1>2, <1>3, <1>4, <1>5 DEF l, Grouped

\* What the steps on the tree leave alone.
LEMMA TreeFrame ==
  ASSUME IndexerInv, pc \in {"sync", "leaves", "tree"}, pc' \in {"leaves", "tree", "announce"},
         UNCHANGED <<args, db, bee, reading, records, announced, runs>>,
         image' \in Db, Complete(image', args), TreeKept'
  PROVE  IndexerInv'
<1>1. Shape /\ RowsSound /\ RecordsKept /\ AnnouncedComplete
  BY DEF IndexerInv
<1>2. Shape' /\ AnnouncedComplete'
  BY <1>1 DEF Shape, AnnouncedComplete, reading
<1>3. RowsSound'
  BY <1>1, RowsStay
<1>4. todo = {} /\ busy = {} /\ refs = {}
  BY <1>1 DEF RecordsKept
<1>5. RecordsKept'
  BY <1>4, NoBusy DEF RecordsKept, records
<1>6. ReadKept'
  BY DEF ReadKept
<1>7. Complete(image, args)'
  BY Zenon
<1>8. DoneKept'
  BY <1>7 DEF DoneKept
<1> QED
  BY <1>2, <1>3, <1>5, <1>6, <1>8 DEF IndexerInv

LEMMA ReadFileKeeps ==
  ASSUME IndexerInv, ReadFile
  PROVE  IndexerInv'
<1>1. pc = "sync" /\ pc' = "leaves" /\ image' = db /\ level' = [p \in 1..Pages(db) |-> Leaf(p)]
      /\ UNCHANGED <<args, db, bee, reading, records, above, pushed, announced, runs>>
  BY DEF ReadFile
<1>2. db \in Db /\ Complete(db, args) /\ above = <<>> /\ pushed = {}
  BY <1>1 DEF IndexerInv, Shape, DoneKept, TreeKept
<1>3. LeavesKept(0)'
  <2>1. Pages(db) \in Nat /\ Pages(db) >= 1 /\ 0 < Pages(db)
    BY <1>2, PagesIs
  <2>2. {} = {Leaf(p) : p \in 1..0}
    OBVIOUS
  <2>3. pushed' = {} /\ IsFiniteSet(pushed') /\ Cardinality(pushed') = 0
    BY <1>1, <1>2, FS_EmptySet
  <2>4. above' = <<>>
    BY <1>1, <1>2
  <2> QED
    BY <1>1, <2>1, <2>2, <2>3, <2>4 DEF LeavesKept
<1>4. TreeKept'
  <2>1. 0 \in Nat
    OBVIOUS
  <2> QED
    BY <1>1, <1>3, <2>1 DEF TreeKept
<1>5. image' \in Db /\ Complete(image', args)
  BY <1>1, <1>2
<1> QED
  BY <1>1, <1>4, <1>5, TreeFrame

LEMMA LeavesApart == ASSUME NEW p, NEW q, Leaf(p) = Leaf(q) PROVE p = q
<1>1. Leaf(p).page = p /\ Leaf(q).page = q
  BY DEF Leaf
<1> QED
  BY <1>1

LEMMA UploadLeafKeeps ==
  ASSUME IndexerInv, UploadLeaf
  PROVE  IndexerInv'
<1> DEFINE m == Pages(image)
<1>1. /\ pc = "leaves" /\ pushed' = pushed \cup {level[Cardinality(pushed) + 1]}
      /\ pc' = (IF Cardinality(pushed') = Len(level) THEN "tree" ELSE "leaves")
      /\ UNCHANGED <<args, db, bee, reading, records, image, level, above, announced, runs>>
  BY DEF UploadLeaf
<1>2. image \in Db /\ Complete(image, args)
  BY <1>1 DEF IndexerInv, Shape, DoneKept
<1>3. PICK n \in Nat : LeavesKept(n)
  BY <1>1 DEF IndexerInv, TreeKept
<1>4. n < m /\ above = <<>> /\ pushed = {Leaf(p) : p \in 1..n} /\ IsFiniteSet(pushed) /\ Cardinality(pushed) = n
      /\ level = [p \in 1..m |-> Leaf(p)]
  BY <1>3 DEF LeavesKept
<1>5. m \in Nat /\ m >= 1
  BY <1>2, PagesIs
<1> HIDE DEF m
<1>6. Len(level) = m /\ n + 1 \in 1..m /\ level[n + 1] = Leaf(n + 1)
  BY <1>4, <1>5
<1>7. pushed' = {Leaf(p) : p \in 1..(n + 1)}
  <2>1. 1..(n + 1) = 1..n \cup {n + 1}
    OBVIOUS
  <2> QED
    BY <1>1, <1>4, <1>6, <2>1
<1>8. IsFiniteSet(pushed') /\ Cardinality(pushed') = n + 1
  <2>1. Leaf(n + 1) \notin pushed
    <3> SUFFICES ASSUME Leaf(n + 1) \in pushed PROVE FALSE
      OBVIOUS
    <3>1. PICK p \in 1..n : Leaf(n + 1) = Leaf(p)
      BY <1>4
    <3>2. n + 1 = p
      BY <3>1, LeavesApart
    <3> QED
      BY <3>2
  <2>2. pushed' = pushed \cup {Leaf(n + 1)}
    BY <1>1, <1>4, <1>6
  <2> QED
    BY <1>4, <2>1, <2>2, FS_AddElement
<1>9. TreeKept'
  <2>1. CASE n + 1 = m
    <3>1. pc' = "tree"
      BY <1>1, <1>6, <1>8, <2>1
    <3>2. \A p \in 1..m : Leaf(p) \in pushed'
      BY <1>7, <2>1
    <3>3. Level(pushed', level, 0) /\ Spans(level)[m] = m
      BY <1>4, <1>5, <3>2, LevelLeaves, Zenon
    <3>4. Level(pushed', above, 1) /\ Len(above) = 0 /\ Spans(above)[0] = 0
      BY <1>4, LevelNone
    <3>5. Spans(level)[0] = 0
      BY <1>5, <1>6, SpansAre
    <3>6. Len(above) * Fanout = 0 /\ Fanout \in Nat /\ Fanout >= 2
      <4>1. 0 * Fanout = 0 /\ Fanout \in Nat /\ Fanout >= 2
        BY Params
      <4> QED
        BY <3>4, <4>1
    <3>7. Grouped' = 0 /\ GroupedEnd' = 0
      <4>1. above' = above /\ level' = level
        BY <1>1
      <4>2. Grouped' = 0
        BY <3>6, <4>1 DEF Grouped
      <4>3. 0 <= Len(level')
        BY <1>5, <1>6, <4>1
      <4> QED
        BY <4>2, <4>3 DEF GroupedEnd
    <3>8. LevelsKept(0)'
      <4>1. above' = above /\ level' = level /\ Pages(image') = m
        BY <1>1 DEF m
      <4>2. Level(pushed', level', 0) /\ Level(pushed', above', 0 + 1)
        BY <3>3, <3>4, <4>1
      <4>3. Len(level') >= 1 /\ 0 + Len(level') <= Pages(image') /\ Spans(level')[Len(level')] = Pages(image')
        BY <1>5, <1>6, <3>3, <4>1
      <4>4. Spans(above')[Len(above')] = Spans(level')[GroupedEnd']
        BY <3>4, <3>5, <3>7, <4>1
      <4>5. Grouped' < Len(level') + Fanout
        BY <1>5, <1>6, <3>6, <3>7, <4>1
      <4> QED
        BY <4>2, <4>3, <4>4, <4>5 DEF LevelsKept
    <3> QED
      BY <3>1, <3>8 DEF TreeKept
  <2>2. CASE n + 1 # m
    <3>1. pc' = "leaves"
      BY <1>1, <1>6, <1>8, <2>2
    <3>2. n + 1 < m /\ n + 1 \in Nat
      BY <1>4, <1>5, <2>2
    <3>3. above' = above /\ level' = level /\ Pages(image') = m /\ Pages(image) = m
      BY <1>1 DEF m
    <3>4. LeavesKept(n + 1)'
      BY <1>4, <1>7, <1>8, <3>2, <3>3 DEF LeavesKept
    <3> QED
      BY <3>1, <3>2, <3>4 DEF TreeKept
  <2> QED
    BY <2>1, <2>2
<1>10. image' \in Db /\ Complete(image', args) /\ pc' \in {"leaves", "tree", "announce"}
  BY <1>1, <1>2
<1> QED
  BY <1>1, <1>9, <1>10, TreeFrame

\* What the levels are, in numbers.
LEMMA LevelsAre ==
  ASSUME NEW n \in Nat, LevelsKept(n)
  PROVE  /\ Level(pushed, level, n) /\ Level(pushed, above, n + 1)
         /\ Len(level) \in Nat /\ Len(level) >= 1 /\ n + Len(level) <= Pages(image)
         /\ Spans(level)[Len(level)] = Pages(image)
         /\ Spans(above)[Len(above)] = Spans(level)[GroupedEnd]
         /\ Grouped < Len(level) + Fanout
         /\ Len(above) \in Nat /\ Grouped \in Nat /\ (Len(above) + 1) * Fanout = Grouped + Fanout
         /\ Len(above) = 0 => Grouped = 0
         /\ Len(above) >= 1 => 2 * (Len(above) - 1) <= Grouped - Fanout
<1>1. above \in Seq(pushed) /\ Len(level) \in Nat
  BY DEF LevelsKept, Level, Spanning
<1>2. /\ Len(above) \in Nat /\ Grouped \in Nat /\ (Len(above) + 1) * Fanout = Grouped + Fanout
      /\ Len(above) = 0 => Grouped = 0
      /\ Len(above) >= 1 => 2 * (Len(above) - 1) <= Grouped - Fanout
  BY <1>1, GroupedIs
<1> QED
  BY <1>1, <1>2, Zenon DEF LevelsKept

LEMMA UploadNodeKeeps ==
  ASSUME IndexerInv, UploadNode
  PROVE  IndexerInv'
<1> DEFINE b == Min({Grouped + Fanout, Len(level)})
           c == Node(SubSeq(level, Grouped + 1, b))
<1>1. /\ pc = "tree" /\ pc' = "tree" /\ Grouped < Len(level) /\ above' = Append(above, c) /\ pushed' = pushed \cup {c}
      /\ UNCHANGED <<args, db, bee, reading, records, image, level, announced, runs>>
  BY DEF UploadNode
<1>2. image \in Db /\ Complete(image, args)
  BY <1>1 DEF IndexerInv, Shape, DoneKept
<1>3. PICK n \in Nat : LevelsKept(n)
  BY <1>1 DEF IndexerInv, TreeKept
<1>4. /\ Level(pushed, level, n) /\ Level(pushed, above, n + 1)
      /\ Len(level) \in Nat /\ Len(level) >= 1 /\ n + Len(level) <= Pages(image)
      /\ Spans(level)[Len(level)] = Pages(image)
      /\ Spans(above)[Len(above)] = Spans(level)[GroupedEnd]
      /\ Len(above) \in Nat /\ Grouped \in Nat /\ (Len(above) + 1) * Fanout = Grouped + Fanout
  BY <1>3, LevelsAre, Zenon
<1>5. b \in Nat /\ Grouped < b /\ b <= Len(level)
      /\ b = (IF Grouped + Fanout <= Len(level) THEN Grouped + Fanout ELSE Len(level))
  <2> DEFINE S == {Grouped + Fanout, Len(level)}
  <2>1. S \subseteq Nat /\ S # {} /\ Grouped + Fanout \in Nat /\ Fanout \in Nat /\ Fanout >= 2
    BY <1>4, Params
  <2>2. Min(S) \in S /\ \A x \in S : Min(S) <= x
    BY <2>1, MinIs
  <2>3. b \in {Grouped + Fanout, Len(level)} /\ b <= Grouped + Fanout /\ b <= Len(level)
    BY <2>2
  <2> HIDE DEF b, S
  <2> QED
    BY <1>1, <1>4, <2>1, <2>3
<1> HIDE DEF b, c
<1>6. GroupedEnd = Grouped
  BY <1>1, <1>4 DEF GroupedEnd
<1>7. Level(pushed \cup {c}, above', n + 1) /\ Len(above') = Len(above) + 1 /\ Spans(above')[Len(above')] = Spans(level)[b]
  <2>1. Spans(above)[Len(above)] = Spans(level)[Grouped]
    BY <1>4, <1>6
  <2>2. c = Node(SubSeq(level, Grouped + 1, b)) /\ above' = Append(above, c)
    BY <1>1 DEF c
  <2>3. Batch(pushed, level, above, n, Grouped, b, c, above')
    BY <1>4, <1>5, <2>1, <2>2, Zenon DEF Batch
  <2>4. Batched(pushed, level, above, n, Grouped, b, c, above')
    BY <2>3, LevelNode, Zenon
  <2> QED
    BY <2>4, Zenon DEF Batched
<1>8. Level(pushed', level, n)
  BY <1>1, <1>4, LevelMore
<1>9. Level(pushed', above', n + 1) /\ Len(above') = Len(above) + 1 /\ Spans(above')[Len(above')] = Spans(level)[b]
  BY <1>1, <1>7
<1>10. Grouped' = Grouped + Fanout /\ level' = level /\ Pages(image') = Pages(image)
  BY <1>1, <1>4, <1>9 DEF Grouped
<1>11. GroupedEnd' = b
  BY <1>5, <1>10 DEF GroupedEnd
<1>12. Grouped' < Len(level') + Fanout
  BY <1>1, <1>4, <1>10, Params
<1>13. LevelsKept(n)'
  BY <1>4, <1>8, <1>9, <1>10, <1>11, <1>12 DEF LevelsKept
<1>14. TreeKept'
  BY <1>1, <1>13 DEF TreeKept
<1>15. image' \in Db /\ Complete(image', args)
  BY <1>1, <1>2
<1> QED
  BY <1>1, <1>14, <1>15, TreeFrame

LEMMA LevelEndsKeeps ==
  ASSUME IndexerInv, LevelEnds
  PROVE  IndexerInv'
<1>1. /\ pc = "tree" /\ pc' = "tree" /\ ~IsRoot /\ Grouped >= Len(level) /\ level' = above /\ above' = <<>>
      /\ UNCHANGED <<args, db, bee, reading, records, image, pushed, announced, runs>>
  BY DEF LevelEnds
<1>2. image \in Db /\ Complete(image, args)
  BY <1>1 DEF IndexerInv, Shape, DoneKept
<1>3. PICK n \in Nat : LevelsKept(n)
  BY <1>1 DEF IndexerInv, TreeKept
<1>4. /\ Level(pushed, above, n + 1)
      /\ Len(level) \in Nat /\ Len(level) >= 1 /\ n + Len(level) <= Pages(image)
      /\ Spans(level)[Len(level)] = Pages(image)
      /\ Spans(above)[Len(above)] = Spans(level)[GroupedEnd]
      /\ Grouped < Len(level) + Fanout /\ Len(above) \in Nat /\ Grouped \in Nat
      /\ Len(above) = 0 => Grouped = 0
      /\ Len(above) >= 1 => 2 * (Len(above) - 1) <= Grouped - Fanout
  BY <1>3, LevelsAre, Zenon
<1>5. Pages(image) \in Nat /\ Fanout \in Nat /\ Fanout >= 2
  BY <1>2, PagesIs, Params
<1>6. Len(level) # 1
  BY <1>1 DEF IsRoot
<1>7. Len(above) >= 1 /\ Len(above) < Len(level) /\ (n + 1) + Len(above) <= Pages(image)
  <2> DEFINE l == Len(level)
             a == Len(above)
             m == Pages(image)
             g == Grouped
  <2>1. /\ l \in Nat /\ l >= 2 /\ n + l <= m /\ a \in Nat /\ g \in Nat /\ g >= l /\ g < l + Fanout
        /\ a = 0 => g = 0
        /\ a >= 1 => 2 * (a - 1) <= g - Fanout
        /\ m \in Nat
    <3>1. l \in Nat /\ l >= 2 /\ n + l <= m /\ m \in Nat
      <4>1. l \in Nat /\ l >= 1 /\ n + l <= m
        BY <1>4
      <4>2. l # 1 /\ m \in Nat
        BY <1>5, <1>6
      <4> HIDE DEF l, m
      <4>3. l >= 2
        BY <4>1, <4>2
      <4> QED
        BY <4>1, <4>2, <4>3
    <3>2. a \in Nat /\ g \in Nat /\ g >= l /\ g < l + Fanout
      BY <1>1, <1>4
    <3>3. (a = 0 => g = 0) /\ (a >= 1 => 2 * (a - 1) <= g - Fanout)
      BY <1>4
    <3> HIDE DEF l, a, m, g
    <3> QED
      BY <3>1, <3>2, <3>3
  <2> HIDE DEF l, a, m, g
  <2>2. a >= 1
    BY <2>1
  <2>3. 2 * (a - 1) < l
    BY <1>5, <2>1, <2>2
  <2>4. a < l
    BY <2>1, <2>2, <2>3
  <2>5. (n + 1) + a <= m
    BY <2>1, <2>2, <2>4
  <2> QED
    BY <2>2, <2>4, <2>5 DEF l, a, m
<1>8. Spans(above)[Len(above)] = Pages(image)
  <2>1. GroupedEnd = Len(level)
    BY <1>1, <1>4 DEF GroupedEnd
  <2> QED
    BY <1>4, <2>1
<1>9. Level(pushed, <<>>, (n + 1) + 1) /\ Spans(<<>>)[0] = 0 /\ Len(<<>>) = 0
  BY LevelNone
<1>10. Spans(above)[0] = 0
  BY <1>4, SpansAre
<1>11. Grouped' = 0 /\ GroupedEnd' = 0
  <2>1. 0 * Fanout = 0 /\ Len(above') = 0 /\ Len(level') = Len(above)
    BY <1>1, <1>5, <1>9
  <2>2. Grouped' = 0
    BY <2>1 DEF Grouped
  <2> QED
    BY <1>4, <2>1, <2>2 DEF GroupedEnd
<1>12. LevelsKept(n + 1)'
  <2>1. level' = above /\ above' = <<>> /\ pushed' = pushed /\ Pages(image') = Pages(image)
    BY <1>1
  <2>2. Level(pushed', level', n + 1) /\ Level(pushed', above', (n + 1) + 1)
    BY <1>4, <1>9, <2>1
  <2>3. Len(level') >= 1 /\ (n + 1) + Len(level') <= Pages(image')
    BY <1>7, <2>1
  <2>4. Spans(level')[Len(level')] = Pages(image') /\ Spans(above')[Len(above')] = Spans(level')[GroupedEnd']
    BY <1>8, <1>9, <1>10, <1>11, <2>1
  <2>5. Grouped' < Len(level') + Fanout
    BY <1>4, <1>5, <1>7, <1>11, <2>1
  <2> QED
    BY <2>2, <2>3, <2>4, <2>5 DEF LevelsKept
<1>13. TreeKept'
  <2>1. n + 1 \in Nat
    OBVIOUS
  <2> QED
    BY <1>1, <1>12, <2>1 DEF TreeKept
<1>14. image' \in Db /\ Complete(image', args)
  BY <1>1, <1>2
<1> QED
  BY <1>1, <1>13, <1>14, TreeFrame

LEMMA RootKnownKeeps ==
  ASSUME IndexerInv, RootKnown
  PROVE  IndexerInv'
<1>1. /\ pc = "tree" /\ pc' = "announce" /\ IsRoot
      /\ UNCHANGED <<args, db, bee, reading, records, image, level, above, pushed, announced, runs>>
  BY DEF RootKnown, syncing
<1>2. image \in Db /\ Complete(image, args)
  BY <1>1 DEF IndexerInv, Shape, DoneKept
<1>3. PICK n \in Nat : LevelsKept(n)
  BY <1>1 DEF IndexerInv, TreeKept
<1>4. Grouped' = Grouped /\ GroupedEnd' = GroupedEnd /\ IsRoot'
  BY <1>1 DEF Grouped, GroupedEnd, IsRoot
<1>5. LevelsKept(n)'
  BY <1>1, <1>3, <1>4 DEF LevelsKept
<1>6. TreeKept'
  BY <1>1, <1>4, <1>5 DEF TreeKept
<1>7. image' \in Db /\ Complete(image', args)
  BY <1>1, <1>2
<1> QED
  BY <1>1, <1>6, <1>7, TreeFrame

LEMMA IndexerStep == IndexerInv /\ [Next]_vars => IndexerInv'
<1> SUFFICES ASSUME IndexerInv, [Next]_vars PROVE IndexerInv'
  OBVIOUS
<1>1. ASSUME NEW a \in Commands, Start(a) PROVE IndexerInv'
  BY <1>1, StartKeeps
<1>2. CASE SkipBlock
  BY <1>2, SkipBlockKeeps
<1>3. CASE UploadBlock
  BY <1>3, UploadBlockKeeps
<1>4. CASE InsertBlock
  BY <1>4, InsertBlockKeeps
<1>5. CASE FileEnds
  BY <1>5, FileEndsKeeps
<1>6. ASSUME NEW x \in todo, Claim(x) PROVE IndexerInv'
  BY <1>6, ClaimKeeps
<1>7. ASSUME NEW x \in busy, RecordUploaded(x) PROVE IndexerInv'
  BY <1>7, RecordUploadedKeeps
<1>8. CASE RecordsEnd
  BY <1>8, RecordsEndKeeps
<1>9. CASE WriteMeta
  BY <1>9, WriteMetaKeeps
<1>10. CASE ReadFile
  BY <1>10, ReadFileKeeps
<1>11. CASE UploadLeaf
  BY <1>11, UploadLeafKeeps
<1>12. CASE UploadNode
  BY <1>12, UploadNodeKeeps
<1>13. CASE LevelEnds
  BY <1>13, LevelEndsKeeps
<1>14. CASE RootKnown
  BY <1>14, RootKnownKeeps
<1>15. CASE Announce
  BY <1>15, AnnounceKeeps
<1>16. CASE Crash
  BY <1>16, CrashKeeps
<1>17. CASE UNCHANGED vars
  <2>1. UNCHANGED <<pc, args, db, bee, existing, era, line, position, todo, busy, refs, image, level, above, pushed, announced, runs>>
    BY <1>17 DEF vars, reading, records, syncing
  <2>2. Shape /\ RowsSound /\ ReadKept /\ RecordsKept /\ DoneKept /\ TreeKept /\ AnnouncedComplete
    BY DEF IndexerInv
  <2>3. Shape' /\ RowsSound' /\ AnnouncedComplete'
    BY <2>1, <2>2 DEF Shape, RowsSound, AnnouncedComplete
  <2>4. ReadKept' /\ RecordsKept'
    BY <2>1, <2>2 DEF ReadKept, RecordsKept, Current, History
  <2>5. DoneKept'
    BY <2>1, <2>2 DEF DoneKept, Complete, History
  <2>6. TreeKept'
    BY <2>1, <2>2 DEF TreeKept, LeavesKept, LevelsKept, GroupedEnd, Grouped, IsRoot
  <2> QED
    BY <2>3, <2>4, <2>5, <2>6 DEF IndexerInv
<1> QED
  BY <1>1, <1>2, <1>3, <1>4, <1>5, <1>6, <1>7, <1>8, <1>9, <1>10, <1>11, <1>12, <1>13, <1>14, <1>15, <1>16, <1>17
  DEF Next, Step

-----------------------------------------------------------------------------
(* What it says of the database and of what is announced.                  *)

LEMMA IndexerTyped == IndexerInv => TypeOK
<1> SUFFICES ASSUME IndexerInv PROVE TypeOK
  OBVIOUS
<1>1. Shape /\ RecordsKept /\ TreeKept
  BY DEF IndexerInv
<1>2. args.range \in EraRange /\ args.events \subseteq ErasOf(args.range) /\ History \subseteq Block
  BY <1>1, ShapeIs
<1>3. bee.blocks \cup bee.balance \cup existing \subseteq Block
  BY <1>1 DEF Shape
<1>4. todo \cup busy \cup refs \subseteq Account \cup Block
  <2>1. CASE pc = "accounts"
    BY <1>1, <2>1 DEF RecordsKept
  <2>2. CASE pc = "balances"
    BY <1>1, <1>2, <2>2 DEF RecordsKept
  <2>3. CASE pc \notin {"accounts", "balances"}
    BY <1>1, <2>3 DEF RecordsKept
  <2> QED
    BY <2>1, <2>2, <2>3
<1>5. Len(above) * Fanout < Len(level) + Fanout
  <2>1. 0 * Fanout = 0 /\ Fanout \in Nat /\ Fanout >= 2
    BY Params
  <2>2. CASE pc \in {"tree", "announce"}
    BY <1>1, <2>2 DEF TreeKept, LevelsKept, Grouped
  <2>3. CASE pc = "leaves"
    <3>1. PICK n \in Nat : LeavesKept(n)
      BY <1>1, <2>3 DEF TreeKept
    <3>2. Len(above) = 0
      BY <3>1 DEF LeavesKept
    <3>3. Len(level) \in Nat
      <4>1. Pages(image) \in Nat
        BY <1>1, PagesIs DEF Shape
      <4> QED
        BY <3>1, <4>1 DEF LeavesKept
    <3> QED
      BY <2>1, <3>2, <3>3
  <2>4. CASE pc \notin {"leaves", "tree", "announce"}
    <3>1. Len(above) = 0 /\ Len(level) = 0
      BY <1>1, <2>4 DEF TreeKept
    <3> QED
      BY <2>1, <3>1
  <2> QED
    BY <2>2, <2>3, <2>4
<1> QED
  BY <1>1, <1>2, <1>3, <1>4, <1>5 DEF TypeOK, Shape, RecordsKept

LEMMA IndexerReads == IndexerInv => RangeReads
<1> SUFFICES ASSUME IndexerInv, pc = "announce", NEW p \in 1..Pages(image)
             PROVE  Found(level[1], p - 1, Pages(image)) = {[chunk |-> Leaf(p), offset |-> 0]}
  BY DEF RangeReads
<1>1. Shape /\ IsRoot /\ Len(level) = 1
  BY DEF IndexerInv, TreeKept, IsRoot
<1>2. PICK n \in Nat : LevelsKept(n)
  BY DEF IndexerInv, TreeKept
<1>3. Level(pushed, level, n) /\ n + 1 <= Pages(image) /\ Spans(level)[1] = Pages(image)
  BY <1>1, <1>2 DEF LevelsKept
<1>4. Pages(image) \in Nat
  BY <1>1, PagesIs DEF Shape
<1>5. level[1].span = Pages(image) /\ Spans(level)[0] = 0
  <2>1. Spans(level)[0] = 0 /\ Spans(level)[1] = Spans(level)[1 - 1] + level[1].span
    BY <1>1, SpansAre
  <2>2. level[1].span \in Nat /\ 1 - 1 = 0
    BY <1>1, <1>3 DEF Level, Spanning
  <2> QED
    BY <1>3, <2>1, <2>2
<1> DEFINE o == p - 1
<1>6. o \in Nat /\ o < level[1].span /\ 0 + o + 1 = p
  BY <1>4, <1>5
<1> HIDE DEF o
<1>7. 1 \in 1..Len(level) /\ 1 - 1 = 0
  BY <1>1
<1>8. Reads(pushed, level[1], o, n, Spans(level)[1 - 1] + o + 1)
  BY <1>3, <1>6, <1>7 DEF Level
<1>9. Reads(pushed, level[1], o, n, p)
  BY <1>5, <1>6, <1>7, <1>8
<1>10. n <= Pages(image)
  BY <1>3, <1>4
<1>11. Found(level[1], o, Pages(image)) = {[chunk |-> Leaf(p), offset |-> 0]}
  BY <1>4, <1>9, <1>10, FoundIs
<1> QED
  BY <1>11 DEF o

\* The invariant of the commands, in any order and cut off anywhere.
THEOREM IndexerInvariant == Spec => []IndexerInv
<1>1. Init => IndexerInv
  BY IndexerInit
<1>2. IndexerInv /\ [Next]_vars => IndexerInv'
  BY IndexerStep
<1> QED
  BY <1>1, <1>2, PTL DEF Spec

\* At whatever moment a command was killed, the next one finds a database whose
\* rows all refer to something Bee holds, and whose description fits its tables
\* (addBlocksFromNdjson, addBalanceEventsFromNdjson, writeMeta of
\* swarm-sqlite.ts).
THEOREM DatabaseIsSound == Spec => []DatabaseSound
<1>1. IndexerInv => DatabaseSound
  BY IndexerTyped DEF IndexerInv, DatabaseSound
<1> QED
  BY <1>1, IndexerInvariant, PTL

\* Resuming skips nothing that was asked for, and of an image with any number
\* of pages, in a tree of any fanout, every page is found by its offset before
\* the root is announced (buildMerkleTree and sync of swarm-sqlite.ts).
THEOREM AnnouncedIsSound == Spec => []AnnouncedSound
<1>1. IndexerInv => AnnouncedSound
  BY IndexerReads DEF IndexerInv, AnnouncedSound
<1> QED
  BY <1>1, IndexerInvariant, PTL
=============================================================================
