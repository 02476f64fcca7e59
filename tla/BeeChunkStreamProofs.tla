------------------------ MODULE BeeChunkStreamProofs ------------------------
(***************************************************************************)
(* StreamInv is an invariant of the chunk stream's client, for any number  *)
(* of calls and any limit of calls in flight.                              *)
(***************************************************************************)
EXTENDS BeeChunkStream, FiniteSetTheorems, SequenceTheorems, TLAPS

USE BeeChunkStreamAssumption

-----------------------------------------------------------------------------
(* Lists of calls.                                                         *)

LEMMA ListsParts ==
  ASSUME NEW s \in Seq(Call), NEW S
  PROVE  Lists(s, S) <=> /\ \A i \in 1..Len(s) : s[i] \in S
                         /\ \A c \in S : \E i \in 1..Len(s) : s[i] = c
                         /\ \A i, j \in 1..Len(s) : s[i] = s[j] => i = j
<1>1. DOMAIN s = 1..Len(s)
  OBVIOUS
<1> QED
  BY <1>1 DEF Lists, ToSet, IsInjective

LEMMA ListsNothing == Lists(<<>>, {})
BY DEF Lists, ToSet, IsInjective

\* Only the empty sequence lists no call.
LEMMA ListsEmpty ==
  ASSUME NEW s \in Seq(Call), NEW S, Lists(s, S)
  PROVE  s = <<>> <=> S = {}
<1>1. s = <<>> <=> Len(s) = 0
  OBVIOUS
<1> QED
  BY <1>1, ListsParts

LEMMA ListsAppend ==
  ASSUME NEW s \in Seq(Call), NEW S, Lists(s, S), NEW c \in Call, c \notin S
  PROVE  Append(s, c) \in Seq(Call) /\ Lists(Append(s, c), S \cup {c})
<1> DEFINE t == Append(s, c)
<1>1. /\ t \in Seq(Call) /\ Len(t) = Len(s) + 1 /\ Len(s) \in Nat
      /\ \A i \in 1..Len(s) : t[i] = s[i]
      /\ t[Len(s) + 1] = c
  BY AppendProperties
<1>2. /\ \A i \in 1..Len(s) : s[i] \in S
      /\ \A d \in S : \E i \in 1..Len(s) : s[i] = d
      /\ \A i, j \in 1..Len(s) : s[i] = s[j] => i = j
  BY ListsParts
<1>3. \A i \in 1..Len(t) : i \in 1..Len(s) \/ i = Len(s) + 1
  BY <1>1
<1>4. \A i \in 1..Len(s) : i \in 1..Len(t)
  BY <1>1
<1>5. Len(s) + 1 \in 1..Len(t)
  BY <1>1
<1> HIDE DEF t
<1>6. \A i \in 1..Len(t) : t[i] \in S \cup {c}
  BY <1>1, <1>2, <1>3
<1>7. \A d \in S \cup {c} : \E i \in 1..Len(t) : t[i] = d
  BY <1>1, <1>2, <1>4, <1>5
<1>8. \A i, j \in 1..Len(t) : t[i] = t[j] => i = j
  BY <1>1, <1>2, <1>3
<1>9. t \in Seq(Call) /\ Lists(t, S \cup {c})
  BY <1>1, <1>6, <1>7, <1>8, ListsParts
<1> QED
  BY <1>9 DEF t

LEMMA ListsTail ==
  ASSUME NEW s \in Seq(Call), NEW S, Lists(s, S), s # <<>>
  PROVE  /\ Head(s) \in S /\ Head(s) \in Call /\ Head(s) = s[1]
         /\ Tail(s) \in Seq(Call) /\ Lists(Tail(s), S \ {Head(s)})
         /\ Len(Tail(s)) = Len(s) - 1 /\ Len(s) \in Nat \ {0}
         /\ \A i \in 1..(Len(s) - 1) : Tail(s)[i] = s[i + 1]
<1> DEFINE t == Tail(s)
<1>1. /\ t \in Seq(Call) /\ Len(t) = Len(s) - 1 /\ Len(s) \in Nat \ {0}
      /\ Head(s) = s[1] /\ Head(s) \in Call
      /\ \A i \in 1..Len(t) : t[i] = s[i + 1]
  BY HeadTailProperties, EmptySeq
<1>2. /\ \A i \in 1..Len(s) : s[i] \in S
      /\ \A d \in S : \E i \in 1..Len(s) : s[i] = d
      /\ \A i, j \in 1..Len(s) : s[i] = s[j] => i = j
  BY ListsParts
<1>3. 1 \in 1..Len(s)
  BY <1>1
<1>4. \A i \in 1..Len(t) : i + 1 \in 1..Len(s) /\ i + 1 # 1
  BY <1>1
<1>5. \A i \in 1..Len(s) : i = 1 \/ (i - 1 \in 1..Len(t) /\ (i - 1) + 1 = i)
  BY <1>1
<1> HIDE DEF t
<1>6. \A i \in 1..Len(t) : t[i] \in S \ {Head(s)}
  BY <1>1, <1>2, <1>3, <1>4
<1>7. \A d \in S \ {Head(s)} : \E i \in 1..Len(t) : t[i] = d
  <2> TAKE d \in S \ {Head(s)}
  <2>1. PICK i \in 1..Len(s) : s[i] = d
    BY <1>2
  <2>2. i - 1 \in 1..Len(t) /\ t[i - 1] = d
    BY <2>1, <1>1, <1>5
  <2> QED
    BY <2>2
<1>8. \A i, j \in 1..Len(t) : t[i] = t[j] => i = j
  <2> TAKE i, j \in 1..Len(t)
  <2> HAVE t[i] = t[j]
  <2>1. i + 1 = j + 1
    BY <1>1, <1>2, <1>4
  <2> QED
    BY <2>1
<1>9. Lists(t, S \ {Head(s)})
  BY <1>1, <1>6, <1>7, <1>8, ListsParts
<1>10. Head(s) \in S
  BY <1>1, <1>2, <1>3
<1> QED
  BY <1>1, <1>9, <1>10 DEF t

LEMMA ListsConcat ==
  ASSUME NEW s \in Seq(Call), NEW S, Lists(s, S), NEW t \in Seq(Call), NEW T, Lists(t, T), S \cap T = {}
  PROVE  s \o t \in Seq(Call) /\ Lists(s \o t, S \cup T)
<1> DEFINE u == s \o t
<1>1. /\ u \in Seq(Call) /\ Len(u) = Len(s) + Len(t) /\ Len(s) \in Nat /\ Len(t) \in Nat
      /\ \A i \in 1..(Len(s) + Len(t)) : u[i] = IF i <= Len(s) THEN s[i] ELSE t[i - Len(s)]
  BY ConcatProperties
<1>2. /\ \A i \in 1..Len(s) : s[i] \in S
      /\ \A d \in S : \E i \in 1..Len(s) : s[i] = d
      /\ \A i, j \in 1..Len(s) : s[i] = s[j] => i = j
  BY ListsParts
<1>3. /\ \A i \in 1..Len(t) : t[i] \in T
      /\ \A d \in T : \E i \in 1..Len(t) : t[i] = d
      /\ \A i, j \in 1..Len(t) : t[i] = t[j] => i = j
  BY ListsParts
<1>4. \A i \in 1..Len(u) : \/ i \in 1..Len(s) /\ u[i] = s[i]
                           \/ i - Len(s) \in 1..Len(t) /\ u[i] = t[i - Len(s)]
  BY <1>1
<1>5. \A i \in 1..Len(s) : i \in 1..Len(u) /\ u[i] = s[i]
  BY <1>1
<1>6. \A i \in 1..Len(t) : i + Len(s) \in 1..Len(u) /\ u[i + Len(s)] = t[i]
  <2> TAKE i \in 1..Len(t)
  <2>1. i + Len(s) \in 1..(Len(s) + Len(t)) /\ ~(i + Len(s) <= Len(s)) /\ (i + Len(s)) - Len(s) = i
    BY <1>1
  <2> QED
    BY <1>1, <2>1
<1> HIDE DEF u
<1>7. \A i \in 1..Len(u) : u[i] \in S \cup T
  BY <1>2, <1>3, <1>4
<1>8. \A d \in S \cup T : \E i \in 1..Len(u) : u[i] = d
  <2> TAKE d \in S \cup T
  <2>1. CASE d \in S
    BY <2>1, <1>2, <1>5
  <2>2. CASE d \in T
    <3>1. PICK i \in 1..Len(t) : t[i] = d
      BY <2>2, <1>3
    <3> QED
      BY <3>1, <1>6
  <2> QED
    BY <2>1, <2>2
<1>9. \A i, j \in 1..Len(u) : u[i] = u[j] => i = j
  <2> TAKE i, j \in 1..Len(u)
  <2> HAVE u[i] = u[j]
  <2>1. CASE i \in 1..Len(s) /\ u[i] = s[i] /\ j \in 1..Len(s) /\ u[j] = s[j]
    BY <2>1, <1>2
  <2>2. CASE i - Len(s) \in 1..Len(t) /\ u[i] = t[i - Len(s)] /\ j - Len(s) \in 1..Len(t) /\ u[j] = t[j - Len(s)]
    <3>1. i - Len(s) = j - Len(s)
      BY <2>2, <1>3
    <3> QED
      BY <3>1, <1>1
  <2>3. ~(i \in 1..Len(s) /\ u[i] = s[i] /\ j - Len(s) \in 1..Len(t) /\ u[j] = t[j - Len(s)])
    BY <1>2, <1>3
  <2>4. ~(j \in 1..Len(s) /\ u[j] = s[j] /\ i - Len(s) \in 1..Len(t) /\ u[i] = t[i - Len(s)])
    BY <1>2, <1>3
  <2> QED
    BY <1>4, <2>1, <2>2, <2>3, <2>4
<1>10. u \in Seq(Call) /\ Lists(u, S \cup T)
  BY <1>1, <1>7, <1>8, <1>9, ListsParts
<1> QED
  BY <1>10 DEF u

\* Taking a call out of a list keeps what stands before it.
LEMMA ListsRemove ==
  ASSUME NEW s \in Seq(Call), NEW S, Lists(s, S), NEW c \in Call
  PROVE  /\ RemoveFirst(s, c) \in Seq(Call) /\ Lists(RemoveFirst(s, c), S \ {c})
         /\ \A n \in 0..Len(s) : (\A i \in 1..n : s[i] # c) =>
              n <= Len(RemoveFirst(s, c)) /\ \A i \in 1..n : RemoveFirst(s, c)[i] = s[i]
<1>1. /\ Len(s) \in Nat
      /\ \A i \in 1..Len(s) : s[i] \in S
      /\ \A d \in S : \E i \in 1..Len(s) : s[i] = d
      /\ \A i, j \in 1..Len(s) : s[i] = s[j] => i = j
  BY ListsParts
<1>2. CASE ~\E i \in 1..Len(s) : s[i] = c
  <2>1. RemoveFirst(s, c) = s
    BY <1>2 DEF RemoveFirst
  <2>2. S \ {c} = S
    BY <1>1, <1>2
  <2>3. Lists(s, S \ {c})
    BY <2>2
  <2> QED
    BY ONLY <2>1, <2>3, <1>1, s \in Seq(Call)
<1>3. CASE \E i \in 1..Len(s) : s[i] = c
  <2>1. PICK k \in 1..Len(s) : s[k] = c
    BY <1>3
  <2>2. Min({i \in 1..Len(s) : s[i] = c}) = k
    <3>1. {i \in 1..Len(s) : s[i] = c} = {k}
      BY <2>1, <1>1
    <3>2. Min({k}) = k
      BY DEF Min
    <3> QED
      BY <3>1, <3>2
  <2> DEFINE a == SubSeq(s, 1, k - 1)
             b == SubSeq(s, k + 1, Len(s))
             t == a \o b
  <2>3. RemoveFirst(s, c) = t
    <3>1. {i \in 1..Len(s) : s[i] = c} # {}
      BY <1>3
    <3> QED
      BY <1>3, <2>2, <3>1 DEF RemoveFirst, RemoveAt, SelectInSeq
  <2>4. a \in Seq(Call) /\ Len(a) = k - 1 /\ \A i \in 1..(k - 1) : a[i] = s[i]
    <3>1. \A i \in 1..(k - 1) : s[i] \in Call
      BY <1>1
    <3>2. 1 \in Int /\ k - 1 \in Int
      BY <1>1
    <3>3. /\ a \in Seq(Call)
          /\ Len(a) = IF 1 <= k - 1 THEN (k - 1) - 1 + 1 ELSE 0
          /\ \A i \in 1..((k - 1) - 1 + 1) : a[i] = s[1 + i - 1]
      BY ONLY <3>1, <3>2, SubSeqProperties
    <3> HIDE DEF a
    <3> QED
      BY <3>3, <1>1
  <2>5. b \in Seq(Call) /\ Len(b) = Len(s) - k /\ \A i \in 1..(Len(s) - k) : b[i] = s[k + i]
    <3>1. \A i \in (k + 1)..Len(s) : s[i] \in Call
      BY <1>1
    <3>2. k + 1 \in Int /\ Len(s) \in Int
      BY <1>1
    <3>3. /\ b \in Seq(Call)
          /\ Len(b) = IF k + 1 <= Len(s) THEN Len(s) - (k + 1) + 1 ELSE 0
          /\ \A i \in 1..(Len(s) - (k + 1) + 1) : b[i] = s[(k + 1) + i - 1]
      BY ONLY <3>1, <3>2, SubSeqProperties
    <3> HIDE DEF b
    <3> QED
      BY <3>3, <1>1
  <2> HIDE DEF a, b
  <2>6. /\ t \in Seq(Call) /\ Len(t) = Len(s) - 1
        /\ \A i \in 1..Len(t) : t[i] = IF i < k THEN s[i] ELSE s[i + 1]
    <3>1. /\ t \in Seq(Call) /\ Len(t) = Len(a) + Len(b)
          /\ \A i \in 1..(Len(a) + Len(b)) : t[i] = IF i <= Len(a) THEN a[i] ELSE b[i - Len(a)]
      BY <2>4, <2>5, ConcatProperties
    <3> HIDE DEF t
    <3>2. k \in 1..Len(s) /\ Len(t) = Len(s) - 1
      BY <3>1, <2>4, <2>5, <1>1
    <3>3. ASSUME NEW i \in 1..Len(t)
          PROVE  t[i] = IF i < k THEN s[i] ELSE s[i + 1]
      <4>1. CASE i < k
        BY <4>1, <3>1, <3>2, <2>4, <2>5, <1>1
      <4>2. CASE ~(i < k)
        <5>1. /\ i \in 1..(Len(a) + Len(b)) /\ ~(i <= Len(a))
              /\ i - Len(a) \in 1..(Len(s) - k) /\ k + (i - Len(a)) = i + 1
          BY <4>2, <3>2, <2>4, <2>5, <1>1
        <5> QED
          BY <5>1, <4>2, <3>1, <2>5
      <4> QED
        BY <4>1, <4>2
    <3> QED
      BY <3>1, <3>2, <3>3
  <2> HIDE DEF t
  <2>7. \A i \in 1..Len(t) : t[i] \in S \ {c}
    BY <2>1, <2>6, <1>1
  <2>8. \A d \in S \ {c} : \E i \in 1..Len(t) : t[i] = d
    <3> TAKE d \in S \ {c}
    <3>1. PICK i \in 1..Len(s) : s[i] = d
      BY <1>1
    <3>2. i # k
      BY <3>1, <2>1
    <3>3. CASE i < k
      BY <3>1, <3>3, <2>6, <1>1
    <3>4. CASE i > k
      <4>1. i - 1 \in 1..Len(t) /\ ~(i - 1 < k) /\ (i - 1) + 1 = i
        BY <3>4, <2>6, <1>1
      <4> QED
        BY <4>1, <3>1, <2>6
    <3> QED
      BY <3>2, <3>3, <3>4
  <2>9. \A i, j \in 1..Len(t) : t[i] = t[j] => i = j
    <3> TAKE i, j \in 1..Len(t)
    <3> HAVE t[i] = t[j]
    <3> DEFINE old(n) == IF n < k THEN n ELSE n + 1
    <3>1. old(i) \in 1..Len(s) /\ old(j) \in 1..Len(s) /\ t[i] = s[old(i)] /\ t[j] = s[old(j)]
      BY <2>6, <1>1
    <3>2. old(i) = old(j)
      BY <3>1, <1>1
    <3> QED
      BY <3>2
  <2>10. Lists(t, S \ {c})
    BY <2>6, <2>7, <2>8, <2>9, ListsParts
  <2>11. ASSUME NEW n \in 0..Len(s), \A i \in 1..n : s[i] # c
         PROVE  n <= Len(t) /\ \A i \in 1..n : t[i] = s[i]
    <3>1. n < k
      BY <2>1, <2>11
    <3> QED
      BY <3>1, <2>6, <1>1
  <2> QED
    BY <2>3, <2>6, <2>10, <2>11
<1> QED
  BY <1>2, <1>3

\* A listed call stands at one place, another at none.
LEMMA ListsCount ==
  ASSUME NEW s \in Seq(Call), NEW S, Lists(s, S), NEW c
  PROVE  Cardinality({i \in DOMAIN s : s[i] = c}) = IF c \in S THEN 1 ELSE 0
<1>1. DOMAIN s = 1..Len(s)
  OBVIOUS
<1>2. CASE c \in S
  <2>1. PICK i \in 1..Len(s) : s[i] = c
    BY <1>2, ListsParts
  <2>2. {j \in DOMAIN s : s[j] = c} = {i}
    BY <1>1, <2>1, ListsParts
  <2> QED
    BY <1>2, <2>2, FS_Singleton
<1>3. CASE c \notin S
  <2>1. {j \in DOMAIN s : s[j] = c} = {}
    BY <1>1, <1>3, ListsParts
  <2> QED
    BY <1>3, <2>1, FS_EmptySet
<1> QED
  BY <1>2, <1>3

-----------------------------------------------------------------------------
(* The steps.                                                              *)

LEMMA InitStreamInv == Init => StreamInv
<1> SUFFICES ASSUME Init PROVE StreamInv
  OBVIOUS
<1>1. Len(<<>>) = 0 /\ \A S : <<>> \in Seq(S)
  BY EmptySeq
<1>2. sent = <<>> /\ acks = 0 /\ stored \in SUBSET Call
  BY DEF Init, Server!Init
<1>3. In({"queued"}) = {} /\ In({"woken", "admitted"}) = {} /\ In({"sent"}) = {} /\ In({"resolved"}) = {}
  BY DEF Init, In
<1>4. TypeOK
  <2>1. pc \in [Call -> States]
    BY DEF Init, States
  <2>2. pending = <<>> /\ queued = <<>> /\ micro = <<>> /\ got = 0 /\ unsent = {} /\ socket = "open"
    BY DEF Init
  <2>3. closed \in BOOLEAN /\ error \in BOOLEAN /\ watchdog \in BOOLEAN /\ closing \in BOOLEAN
    BY DEF Init
  <2>4. pending \in Seq(Call) /\ queued \in Seq(Call) /\ micro \in Seq(Call) /\ sent \in Seq(Call)
    BY <1>1, <1>2, <2>2
  <2>5. acks \in Nat /\ got \in 0..acks /\ unsent \subseteq Call /\ stored \subseteq Call
    BY <1>2, <2>2
  <2> QED
    BY <2>1, <2>2, <2>3, <2>4, <2>5 DEF TypeOK
<1>5. ListsKept
  BY <1>3, ListsNothing DEF Init, ListsKept
<1>6. EndsKept /\ NoWaiterForgotten
  BY DEF Init, EndsKept, NoWaiterForgotten
<1>7. AcksKept
  BY <1>1, <1>2, <1>3 DEF Init, AcksKept, ToSet, IsInjective
<1> QED
  BY <1>4, <1>5, <1>6, <1>7 DEF StreamInv

\* Whatever it finds, fail() leaves nobody pending and nobody waiting.
LEMMA FailFacts ==
  ASSUME StreamInv, Fail
  PROVE  /\ error' = TRUE /\ watchdog' \in BOOLEAN
         /\ pending' = <<>> /\ queued' = <<>> /\ micro' = micro \o queued
         /\ pc' = [c \in Call |-> IF pc[c] = "sent" THEN "rejected"
                                  ELSE IF pc[c] = "queued" THEN "woken" ELSE pc[c]]
<1>1. /\ pc \in [Call -> States] /\ error \in BOOLEAN /\ watchdog \in BOOLEAN
      /\ pending \in Seq(Call) /\ queued \in Seq(Call) /\ micro \in Seq(Call)
  BY DEF StreamInv, TypeOK
<1>2. ToSet(pending) = In({"sent"}) /\ ToSet(queued) = In({"queued"})
  BY DEF StreamInv, ListsKept, Lists
<1>3. CASE error
  <2>1. pending = <<>> /\ queued = <<>>
    BY <1>3 DEF StreamInv, EndsKept, NoWaiterForgotten
  <2>2. \A c \in Call : pc[c] # "sent" /\ pc[c] # "queued"
    BY <1>1, <1>2, <2>1 DEF ToSet, In
  <2>3. micro \o queued = micro
    BY <1>1, <2>1, ConcatEmptySeq
  <2> QED
    BY <1>1, <1>3, <2>1, <2>2, <2>3 DEF Fail
<1>4. CASE ~error
  <2>1. /\ error' = TRUE /\ watchdog' = FALSE /\ pending' = <<>> /\ queued' = <<>>
        /\ micro' = micro \o queued
        /\ pc' = Woken(Settled(pc, ToSet(pending), "rejected"), ToSet(queued))
    BY <1>4 DEF Fail, ReleaseAllSlots
  <2>2. \A c \in Call : (c \in ToSet(pending) <=> pc[c] = "sent") /\ (c \in ToSet(queued) <=> pc[c] = "queued")
    BY <1>2 DEF In
  <2> QED
    BY <2>1, <2>2 DEF Woken, Settled
<1> QED
  BY <1>1, <1>3, <1>4

\* Every handler that calls fail().
LEMMA FailKeeps ==
  ASSUME StreamInv, Fail, UNCHANGED <<closing, unsent, serverVars>>, got' \in got..acks,
         (socket' = socket /\ closed' = closed) \/ (socket' = "closed" /\ closed' = TRUE)
  PROVE  StreamInv'
<1>1. /\ error' = TRUE /\ watchdog' \in BOOLEAN
      /\ pending' = <<>> /\ queued' = <<>> /\ micro' = micro \o queued
      /\ \A c \in Call : pc'[c] = IF pc[c] = "sent" THEN "rejected"
                                   ELSE IF pc[c] = "queued" THEN "woken" ELSE pc[c]
      /\ pc' \in [Call -> States]
  BY FailFacts DEF StreamInv, TypeOK, States
<1>2. /\ In({"queued"})' = {} /\ In({"sent"})' = {} /\ In({"resolved"})' = In({"resolved"})
      /\ In({"woken", "admitted"})' = In({"woken", "admitted"}) \cup In({"queued"})
      /\ In({"sent", "resolved", "rejected"})' = In({"sent", "resolved", "rejected"})
  BY <1>1 DEF In
<1>3. /\ micro' \in Seq(Call)
      /\ Lists(micro', In({"woken", "admitted"}) \cup In({"queued"}))
  <2>1. In({"woken", "admitted"}) \cap In({"queued"}) = {}
    BY DEF In
  <2> QED
    BY <1>1, <2>1, ListsConcat DEF StreamInv, TypeOK, ListsKept
<1>4. TypeOK'
  <2>1. pending' \in Seq(Call) /\ queued' \in Seq(Call)
    BY <1>1, EmptySeq
  <2>2. UNCHANGED <<closing, unsent, sent, acks, stored>>
    BY DEF serverVars
  <2>3. closed' \in BOOLEAN /\ socket' \in {"open", "closing", "closed"} /\ got' \in 0..acks
    <3>1. /\ closed \in BOOLEAN /\ socket \in {"open", "closing", "closed"}
          /\ acks \in Nat /\ got \in 0..acks /\ got' \in got..acks
      BY DEF StreamInv, TypeOK
    <3>2. got' \in 0..acks
      BY ONLY <3>1
    <3>3. CASE socket' = socket /\ closed' = closed
      BY <3>1, <3>2, <3>3
    <3>4. CASE socket' = "closed" /\ closed' = TRUE
      BY <3>2, <3>4
    <3> QED
      BY <3>3, <3>4
  <2>4. error' \in BOOLEAN /\ watchdog' \in BOOLEAN
    BY <1>1
  <2>5. closing \in BOOLEAN /\ unsent \subseteq Call /\ sent \in Seq(Call) /\ acks \in Nat /\ stored \subseteq Call
    BY DEF StreamInv, TypeOK
  <2>6. closing' \in BOOLEAN /\ unsent' \subseteq Call /\ sent' \in Seq(Call) /\ acks' \in Nat
        /\ stored' \subseteq Call /\ got' \in 0..acks'
    BY <2>2, <2>3, <2>5
  <2> QED
    BY <1>1, <1>3, <2>1, <2>3, <2>4, <2>6 DEF TypeOK
<1>5. ListsKept'
  BY <1>1, <1>2, <1>3, ListsNothing DEF ListsKept
<1>6. EndsKept' /\ NoWaiterForgotten'
  BY <1>1 DEF StreamInv, EndsKept, NoWaiterForgotten
<1>7. AcksKept'
  <2>1. UNCHANGED <<sent, acks, unsent>>
    BY DEF serverVars
  <2>2. \A c \in In({"resolved"})' : \E i \in 1..got' : sent'[i] = c
    BY <1>2, <2>1 DEF StreamInv, TypeOK, AcksKept
  <2> QED
    BY <1>1, <1>2, <2>1, <2>2 DEF StreamInv, AcksKept
<1> QED
  BY <1>4, <1>5, <1>6, <1>7 DEF StreamInv

\* A call goes to the end of the line, or on.
LEMMA SendChunkDataKeeps ==
  ASSUME StreamInv, NEW c \in Call, SendChunkData(c)
  PROVE  StreamInv'
<1>1. /\ pc \in [Call -> States] /\ pc[c] = "idle"
      /\ pending \in Seq(Call) /\ queued \in Seq(Call) /\ micro \in Seq(Call)
  BY DEF StreamInv, TypeOK, SendChunkData
<1>2. UNCHANGED <<pending, closed, error, watchdog, closing, socket, unsent, got, sent, acks, stored>>
  BY DEF SendChunkData, socketVars, serverVars
<1>3. c \notin In({"queued"}) /\ c \notin In({"woken", "admitted"})
  BY <1>1 DEF In
<1>4. CASE MustWait
  <2>1. pc' = [pc EXCEPT ![c] = "queued"] /\ queued' = Append(queued, c) /\ micro' = micro
    BY <1>4 DEF SendChunkData
  <2>2. /\ In({"queued"})' = In({"queued"}) \cup {c} /\ In({"sent"})' = In({"sent"})
        /\ In({"woken", "admitted"})' = In({"woken", "admitted"}) /\ In({"resolved"})' = In({"resolved"})
        /\ In({"sent", "resolved", "rejected"})' = In({"sent", "resolved", "rejected"})
    BY <1>1, <2>1 DEF In
  <2>3. queued' \in Seq(Call) /\ Lists(queued', In({"queued"}) \cup {c})
    BY <1>1, <1>3, <2>1, ListsAppend DEF StreamInv, ListsKept
  <2>4. pending # <<>> /\ ~error /\ ~closed
    BY <1>4, <1>1, EmptySeq DEF MustWait
  <2>5. TypeOK'
    BY <1>1, <1>2, <2>1, <2>3 DEF StreamInv, TypeOK, States
  <2>6. ListsKept'
    BY <1>2, <2>1, <2>2, <2>3 DEF StreamInv, ListsKept
  <2>7. EndsKept' /\ NoWaiterForgotten'
    BY <1>2, <2>1, <2>4 DEF StreamInv, EndsKept, NoWaiterForgotten
  <2>8. AcksKept'
    BY <1>2, <2>2 DEF StreamInv, AcksKept
  <2> QED
    BY <2>5, <2>6, <2>7, <2>8 DEF StreamInv
<1>5. CASE ~MustWait
  <2>1. pc' = [pc EXCEPT ![c] = "admitted"] /\ micro' = Append(micro, c) /\ queued' = queued
    BY <1>5 DEF SendChunkData
  <2>2. /\ In({"queued"})' = In({"queued"}) /\ In({"sent"})' = In({"sent"})
        /\ In({"woken", "admitted"})' = In({"woken", "admitted"}) \cup {c} /\ In({"resolved"})' = In({"resolved"})
        /\ In({"sent", "resolved", "rejected"})' = In({"sent", "resolved", "rejected"})
    BY <1>1, <2>1 DEF In
  <2>3. micro' \in Seq(Call) /\ micro' # <<>> /\ Lists(micro', In({"woken", "admitted"}) \cup {c})
    BY <1>1, <1>3, <2>1, ListsAppend, AppendProperties DEF StreamInv, ListsKept
  <2>5. TypeOK'
    BY <1>1, <1>2, <2>1, <2>3 DEF StreamInv, TypeOK, States
  <2>6. ListsKept'
    BY <1>2, <2>1, <2>2, <2>3 DEF StreamInv, ListsKept
  <2>7. EndsKept' /\ NoWaiterForgotten'
    BY <1>2, <2>1, <2>3 DEF StreamInv, EndsKept, NoWaiterForgotten
  <2>8. AcksKept'
    BY <1>2, <2>2 DEF StreamInv, AcksKept
  <2> QED
    BY <2>5, <2>6, <2>7, <2>8 DEF StreamInv
<1> QED
  BY <1>4, <1>5

LEMMA WaitForSlotKeeps ==
  ASSUME StreamInv, micro # <<>>, WaitForSlot(Head(micro))
  PROVE  StreamInv'
<1> DEFINE c == Head(micro)
           rest == Tail(micro)
<1>1. /\ pc \in [Call -> States] /\ pending \in Seq(Call) /\ queued \in Seq(Call) /\ micro \in Seq(Call)
  BY DEF StreamInv, TypeOK
<1>2. UNCHANGED <<pending, closed, error, watchdog, closing, socket, unsent, got, sent, acks, stored>>
  BY DEF WaitForSlot, socketVars, serverVars
<1>3. /\ c \in Call /\ rest \in Seq(Call) /\ Lists(rest, In({"woken", "admitted"}) \ {c})
  BY <1>1, ListsTail DEF StreamInv, ListsKept
<1>4. pc[c] = "woken" /\ c \notin In({"queued"})
  BY DEF WaitForSlot, In
<1>5. CASE MustWait
  <2>1. pc' = [pc EXCEPT ![c] = "queued"] /\ queued' = Append(queued, c) /\ micro' = rest
    BY <1>5 DEF WaitForSlot
  <2> HIDE DEF c, rest
  <2>2. /\ In({"queued"})' = In({"queued"}) \cup {c} /\ In({"sent"})' = In({"sent"})
        /\ In({"woken", "admitted"})' = In({"woken", "admitted"}) \ {c} /\ In({"resolved"})' = In({"resolved"})
        /\ In({"sent", "resolved", "rejected"})' = In({"sent", "resolved", "rejected"})
    BY <1>1, <1>3, <1>4, <2>1 DEF In
  <2>3. queued' \in Seq(Call) /\ Lists(queued', In({"queued"}) \cup {c})
    BY <1>1, <1>3, <1>4, <2>1, ListsAppend DEF StreamInv, ListsKept
  <2>4. pending # <<>> /\ ~error /\ ~closed
    BY <1>5, <1>1, EmptySeq DEF MustWait
  <2>5. TypeOK'
    BY <1>1, <1>2, <1>3, <2>1, <2>3 DEF StreamInv, TypeOK, States
  <2>6. ListsKept'
    BY <1>2, <1>3, <2>1, <2>2, <2>3 DEF StreamInv, ListsKept
  <2>7. EndsKept' /\ NoWaiterForgotten'
    BY <1>2, <2>1, <2>4 DEF StreamInv, EndsKept, NoWaiterForgotten
  <2>8. AcksKept'
    BY <1>2, <2>2 DEF StreamInv, AcksKept
  <2> QED
    BY <2>5, <2>6, <2>7, <2>8 DEF StreamInv
<1>6. CASE ~MustWait
  <2>1. pc' = [pc EXCEPT ![c] = "admitted"] /\ micro' = Append(rest, c) /\ queued' = queued
    BY <1>6 DEF WaitForSlot
  <2> HIDE DEF c, rest
  <2>2. /\ In({"queued"})' = In({"queued"}) /\ In({"sent"})' = In({"sent"})
        /\ In({"woken", "admitted"})' = (In({"woken", "admitted"}) \ {c}) \cup {c}
        /\ In({"resolved"})' = In({"resolved"})
        /\ In({"sent", "resolved", "rejected"})' = In({"sent", "resolved", "rejected"})
    BY <1>1, <1>3, <1>4, <2>1 DEF In
  <2>3. micro' \in Seq(Call) /\ micro' # <<>> /\ Lists(micro', (In({"woken", "admitted"}) \ {c}) \cup {c})
    BY <1>3, <2>1, ListsAppend, AppendProperties
  <2>5. TypeOK'
    BY <1>1, <1>2, <1>3, <2>1, <2>3 DEF StreamInv, TypeOK, States
  <2>6. ListsKept'
    BY <1>2, <2>1, <2>2, <2>3 DEF StreamInv, ListsKept
  <2>7. EndsKept' /\ NoWaiterForgotten'
    BY <1>2, <2>1, <2>3 DEF StreamInv, EndsKept, NoWaiterForgotten
  <2>8. AcksKept'
    BY <1>2, <2>2 DEF StreamInv, AcksKept
  <2> QED
    BY <2>5, <2>6, <2>7, <2>8 DEF StreamInv
<1> QED
  BY <1>5, <1>6

\* A frame goes out behind those that are pending.
LEMMA PushAndSendKeeps ==
  ASSUME StreamInv, micro # <<>>, PushAndSend(Head(micro))
  PROVE  StreamInv'
<1> DEFINE c == Head(micro)
           rest == Tail(micro)
<1>1. /\ pc \in [Call -> States] /\ pending \in Seq(Call) /\ queued \in Seq(Call) /\ micro \in Seq(Call)
      /\ sent \in Seq(Call) /\ acks \in Nat /\ got \in 0..acks /\ Len(sent) \in Nat
  BY DEF StreamInv, TypeOK
<1>2. UNCHANGED <<queued, closed, error, watchdog, closing, socket, got>> /\ micro' = rest
  BY DEF PushAndSend
<1>3. /\ c \in Call /\ rest \in Seq(Call) /\ Lists(rest, In({"woken", "admitted"}) \ {c})
  BY <1>1, ListsTail DEF StreamInv, ListsKept
<1>4. pc[c] = "admitted" /\ c \notin In({"sent"})
  BY DEF PushAndSend, In
<1>5. CASE error \/ closed
  <2>1. pc' = [pc EXCEPT ![c] = "rejected"] /\ UNCHANGED <<pending, unsent, sent, acks, stored>>
    BY <1>5 DEF PushAndSend, serverVars
  <2> HIDE DEF c, rest
  <2>2. /\ In({"queued"})' = In({"queued"}) /\ In({"sent"})' = In({"sent"})
        /\ In({"woken", "admitted"})' = In({"woken", "admitted"}) \ {c}
        /\ In({"resolved"})' = In({"resolved"})
        /\ In({"sent", "resolved", "rejected"})' = In({"sent", "resolved", "rejected"}) \cup {c}
    BY <1>1, <1>3, <1>4, <2>1 DEF In
  <2>3. TypeOK'
    BY <1>1, <1>2, <1>3, <2>1 DEF StreamInv, TypeOK, States
  <2>4. ListsKept'
    BY <1>2, <1>3, <2>1, <2>2 DEF StreamInv, ListsKept
  <2>5. EndsKept' /\ NoWaiterForgotten'
    BY <1>1, <1>2, <1>5, <2>1 DEF StreamInv, TypeOK, EndsKept, NoWaiterForgotten
  <2>6. AcksKept'
    BY <1>2, <2>1, <2>2 DEF StreamInv, AcksKept
  <2> QED
    BY <2>3, <2>4, <2>5, <2>6 DEF StreamInv
<1>6. CASE ~(error \/ closed)
  <2>1. /\ pc' = [pc EXCEPT ![c] = "sent"] /\ pending' = Append(pending, c)
        /\ IF socket = "open" THEN Server!Submit(c) /\ UNCHANGED unsent
           ELSE unsent' = unsent \cup {c} /\ UNCHANGED serverVars
    BY <1>6 DEF PushAndSend
  <2> HIDE DEF c, rest
  <2>2. /\ In({"queued"})' = In({"queued"}) /\ In({"sent"})' = In({"sent"}) \cup {c}
        /\ In({"woken", "admitted"})' = In({"woken", "admitted"}) \ {c}
        /\ In({"resolved"})' = In({"resolved"})
        /\ In({"sent", "resolved", "rejected"})' = In({"sent", "resolved", "rejected"}) \cup {c}
    BY <1>1, <1>3, <1>4, <2>1 DEF In
  <2>3. /\ pending' \in Seq(Call) /\ Lists(pending', In({"sent"}) \cup {c}) /\ pending' # <<>>
        /\ Len(pending') = Len(pending) + 1 /\ Len(pending) \in Nat
        /\ \A i \in 1..Len(pending) : pending'[i] = pending[i]
        /\ pending'[Len(pending) + 1] = c
    <3>1. Lists(pending, In({"sent"}))
      BY DEF StreamInv, ListsKept
    <3>2. pending' \in Seq(Call) /\ Lists(pending', In({"sent"}) \cup {c})
      BY <1>1, <1>3, <1>4, <2>1, <3>1, ListsAppend
    <3>3. /\ Len(pending') = Len(pending) + 1 /\ Len(pending) \in Nat
          /\ \A i \in 1..Len(pending) : pending'[i] = pending[i]
          /\ pending'[Len(pending) + 1] = c
      BY <1>1, <1>3, <2>1, AppendProperties
    <3>4. pending' # <<>>
      BY <1>1, <2>1
    <3> QED
      BY <3>2, <3>3, <3>4
  <2>4. c \notin ToSet(sent)
    BY <1>4 DEF StreamInv, AcksKept, In
  <2>5. ListsKept'
    BY <1>2, <1>3, <2>1, <2>2, <2>3 DEF StreamInv, ListsKept
  <2>6. CASE socket = "open"
    <3>1. /\ sent' = Append(sent, c) /\ acks' \in acks..Len(sent') /\ UNCHANGED <<stored, unsent>>
      BY <2>1, <2>6 DEF Server!Submit
    <3>2. /\ sent' \in Seq(Call) /\ Len(sent') = Len(sent) + 1
          /\ \A i \in 1..Len(sent) : sent'[i] = sent[i]
          /\ sent'[Len(sent) + 1] = c
      BY <1>1, <1>3, <3>1, AppendProperties
    <3>3. unsent = {}
      BY <2>6 DEF StreamInv, EndsKept
    <3>4. TypeOK'
      BY <1>1, <1>2, <1>3, <2>1, <2>3, <3>1, <3>2 DEF StreamInv, TypeOK, States
    <3>5. EndsKept' /\ NoWaiterForgotten'
      BY <1>2, <1>6, <2>3, <2>6, <3>1, <3>3 DEF StreamInv, EndsKept, NoWaiterForgotten
    <3>6. AcksKept'
      <4>1. ToSet(sent) \cup {c} = ToSet(sent') /\ IsInjective(sent')
        <5>1. DOMAIN sent = 1..Len(sent) /\ DOMAIN sent' = 1..(Len(sent) + 1)
          BY <1>1, <3>2
        <5>2. \A i \in 1..(Len(sent) + 1) : i \in 1..Len(sent) \/ i = Len(sent) + 1
          BY <1>1
        <5>3. \A i \in 1..Len(sent) : i \in 1..(Len(sent) + 1)
          BY <1>1
        <5>4. Len(sent) + 1 \in 1..(Len(sent) + 1)
          BY <1>1
        <5>5. ToSet(sent) \cup {c} = ToSet(sent')
          BY <5>1, <5>2, <5>3, <5>4, <3>2 DEF ToSet
        <5>6. \A i, j \in 1..Len(sent) : sent[i] = sent[j] => i = j
          BY <5>1 DEF StreamInv, AcksKept, IsInjective
        <5>7. \A i \in 1..Len(sent) : sent[i] # c
          BY <5>1, <2>4 DEF ToSet
        <5>8. \A i, j \in 1..(Len(sent) + 1) : sent'[i] = sent'[j] => i = j
          BY <5>2, <5>6, <5>7, <3>2
        <5> QED
          BY <5>1, <5>5, <5>8 DEF IsInjective
      <4>2. ToSet(sent') \subseteq In({"sent", "resolved", "rejected"})'
        BY <4>1, <2>2 DEF StreamInv, AcksKept
      <4>3. acks' <= Len(sent') /\ \A i \in 1..acks' : sent'[i] \notin unsent'
        BY <1>1, <3>1, <3>2, <3>3
      <4>4. \A d \in In({"resolved"})' : \E i \in 1..got' : sent'[i] = d
        <5> TAKE d \in In({"resolved"})'
        <5>1. PICK i \in 1..got : sent[i] = d
          BY <2>2 DEF StreamInv, AcksKept
        <5>2. i \in 1..Len(sent)
          BY <1>1 DEF StreamInv, AcksKept
        <5> QED
          BY <5>1, <5>2, <3>2, <1>2
      <4>5. Len(pending) = Len(sent) - got /\ \A i \in 1..Len(pending) : pending[i] = sent[got + i]
        BY <1>6, <2>6 DEF StreamInv, AcksKept
      <4>6. Len(pending') = Len(sent') - got'
        BY <1>1, <1>2, <2>3, <3>2, <4>5
      <4>7. ASSUME NEW i \in 1..Len(pending')
            PROVE  pending'[i] = sent'[got' + i]
        <5>1. CASE i \in 1..Len(pending)
          <6>1. got + i \in 1..Len(sent)
            BY <5>1, <1>1, <2>3, <4>5
          <6> QED
            BY <5>1, <6>1, <1>2, <2>3, <3>2, <4>5
        <5>2. CASE i = Len(pending) + 1
          <6>1. got + i = Len(sent) + 1
            BY <5>2, <1>1, <2>3, <4>5
          <6> QED
            BY <5>2, <6>1, <1>2, <2>3, <3>2
        <5> QED
          BY <5>1, <5>2, <2>3
      <4>8. \A i \in 1..(acks' - got') : i <= Len(pending') /\ pending'[i] = sent'[got' + i]
        <5>1. \A i \in 1..(acks' - got') : i \in 1..Len(pending')
          <6>1. acks' <= Len(sent') /\ acks' \in Nat /\ got' \in Nat /\ Len(sent') \in Nat
            BY <1>1, <1>2, <3>1, <3>2
          <6> DEFINE a == acks'
                     n == Len(sent')
                     g == got'
          <6>2. a <= n /\ a \in Nat /\ g \in Nat /\ n \in Nat /\ Len(pending') = n - g
            BY <6>1, <4>6
          <6> HIDE DEF a, n, g
          <6>3. \A i \in 1..(a - g) : i \in 1..Len(pending')
            BY <6>2
          <6> QED
            BY <6>3 DEF a, g
        <5> QED
          BY <5>1, <4>7, <2>3
      <4> QED
        BY <4>1, <4>2, <4>3, <4>4, <4>6, <4>7, <4>8 DEF AcksKept
    <3> QED
      BY <2>5, <3>4, <3>5, <3>6 DEF StreamInv
  <2>7. CASE socket # "open"
    <3>1. unsent' = unsent \cup {c} /\ UNCHANGED <<sent, acks, stored>>
      BY <2>1, <2>7 DEF serverVars
    <3>2. TypeOK'
      BY <1>1, <1>2, <1>3, <2>1, <2>3, <3>1 DEF StreamInv, TypeOK, States
    <3>3. EndsKept' /\ NoWaiterForgotten'
      BY <1>2, <1>6, <2>3, <2>7 DEF StreamInv, EndsKept, NoWaiterForgotten
    <3>4. \A i \in 1..acks : sent[i] \notin unsent'
      <4>1. \A i \in 1..acks : sent[i] \in ToSet(sent)
        BY <1>1 DEF StreamInv, AcksKept, ToSet
      <4> QED
        BY <4>1, <2>4, <3>1 DEF StreamInv, AcksKept
    <3>5. \A i \in 1..(acks - got) : socket # "closed" => i <= Len(pending') /\ pending'[i] = sent[got + i]
      BY <1>1, <1>6, <2>3 DEF StreamInv, AcksKept
    <3>6. AcksKept'
      BY <1>2, <2>2, <2>7, <3>1, <3>4, <3>5 DEF StreamInv, AcksKept
    <3> QED
      BY <2>5, <3>2, <3>3, <3>6 DEF StreamInv
  <2> QED
    BY <2>6, <2>7
<1> QED
  BY <1>5, <1>6

\* A call whose frame did not go out leaves the list: no ack to come is its own.
LEMMA SendFailsKeeps ==
  ASSUME StreamInv, NEW c \in Call, SendFails(c)
  PROVE  StreamInv'
<1>1. /\ pc \in [Call -> States] /\ pending \in Seq(Call) /\ queued \in Seq(Call)
      /\ acks \in Nat /\ got \in 0..acks /\ unsent \subseteq Call
  BY DEF StreamInv, TypeOK
<1>2. /\ UNCHANGED <<queued, micro, closed, error, watchdog, closing, socket, got, sent, acks, stored>>
      /\ c \in unsent /\ unsent' = unsent \ {c} /\ pending' = RemoveFirst(pending, c)
      /\ \A d \in Call : pc'[d] = IF d = c /\ pc[d] = "sent" THEN "rejected" ELSE pc[d]
      /\ pc' \in [Call -> States]
  BY <1>1 DEF SendFails, serverVars, Settled, States
<1>3. /\ In({"queued"})' = In({"queued"}) /\ In({"sent"})' = In({"sent"}) \ {c}
      /\ In({"woken", "admitted"})' = In({"woken", "admitted"}) /\ In({"resolved"})' = In({"resolved"})
      /\ In({"sent", "resolved", "rejected"})' = In({"sent", "resolved", "rejected"})
  BY <1>2 DEF In
<1>4. /\ pending' \in Seq(Call) /\ Lists(pending', In({"sent"}) \ {c})
      /\ \A n \in 0..Len(pending) : (\A i \in 1..n : pending[i] # c) =>
              n <= Len(pending') /\ \A i \in 1..n : pending'[i] = pending[i]
  BY <1>1, <1>2, ListsRemove DEF StreamInv, ListsKept
<1>5. pending = <<>> => pending' = <<>>
  <2>1. SUFFICES ASSUME pending = <<>> PROVE pending' = <<>>
    OBVIOUS
  <2>2. In({"sent"}) = {}
    BY <1>1, <2>1, ListsEmpty DEF StreamInv, ListsKept
  <2> QED
    BY <1>4, <2>2, ListsEmpty
<1>6. socket # "open"
  BY <1>2 DEF StreamInv, EndsKept
<1>7. TypeOK'
  BY <1>1, <1>2, <1>4 DEF StreamInv, TypeOK
<1>8. ListsKept'
  BY <1>2, <1>3, <1>4 DEF StreamInv, ListsKept
<1>9. EndsKept' /\ NoWaiterForgotten'
  BY <1>2, <1>5, <1>6 DEF StreamInv, TypeOK, EndsKept, NoWaiterForgotten
<1>10. ASSUME ~error, socket # "closed"
       PROVE  \A i \in 1..(acks - got) : i <= Len(pending') /\ pending'[i] = sent[got + i]
  <2>1. \A i \in 1..(acks - got) : i <= Len(pending) /\ pending[i] = sent[got + i]
    BY <1>10 DEF StreamInv, AcksKept
  <2>2. \A i \in 1..(acks - got) : got + i \in 1..acks
    BY <1>1
  <2>3. \A i \in 1..(acks - got) : pending[i] # c
    BY <1>2, <2>1, <2>2 DEF StreamInv, AcksKept
  <2>4. acks - got \in 0..Len(pending)
    BY <1>1, <2>1
  <2>5. acks - got <= Len(pending') /\ \A i \in 1..(acks - got) : pending'[i] = pending[i]
    BY <1>4, <2>3, <2>4
  <2>6. Len(pending') \in Nat
    BY <1>4
  <2> QED
    BY <1>1, <2>1, <2>5, <2>6
<1>11. AcksKept'
  BY <1>2, <1>3, <1>6, <1>10 DEF StreamInv, AcksKept
<1> QED
  BY <1>7, <1>8, <1>9, <1>11 DEF StreamInv

\* releaseSlot() moves the first waiter, if there is one.
LEMMA ReleaseSlotFacts ==
  ASSUME StreamInv, NEW p \in [Call -> States], ReleaseSlot(p),
         \A d \in Call : p[d] = "queued" <=> pc[d] = "queued",
         \A d \in Call : p[d] \in {"woken", "admitted"} <=> pc[d] \in {"woken", "admitted"}
  PROVE  /\ pc' \in [Call -> States] /\ queued' \in Seq(Call) /\ micro' \in Seq(Call)
         /\ \A d \in Call : pc'[d] = p[d] \/ (p[d] = "queued" /\ pc'[d] = "woken")
         /\ Lists(queued', In({"queued"})') /\ Lists(micro', In({"woken", "admitted"})')
         /\ queued = <<>> => queued' = <<>>
         /\ queued # <<>> => micro' # <<>>
<1>1. queued \in Seq(Call) /\ micro \in Seq(Call)
      /\ Lists(queued, In({"queued"})) /\ Lists(micro, In({"woken", "admitted"}))
  BY DEF StreamInv, TypeOK, ListsKept
<1>2. CASE queued = <<>>
  <2>1. pc' = p /\ queued' = queued /\ micro' = micro
    BY <1>2 DEF ReleaseSlot
  <2>2. In({"queued"})' = In({"queued"}) /\ In({"woken", "admitted"})' = In({"woken", "admitted"})
    BY <2>1 DEF In
  <2> QED
    BY <1>1, <1>2, <2>1, <2>2
<1>3. CASE queued # <<>>
  <2> DEFINE c == Head(queued)
  <2>1. pc' = Woken(p, {c}) /\ queued' = Tail(queued) /\ micro' = Append(micro, c)
    BY <1>3 DEF ReleaseSlot
  <2>2. /\ c \in In({"queued"}) /\ c \in Call /\ queued' \in Seq(Call)
        /\ Lists(queued', In({"queued"}) \ {c})
    BY <1>1, <1>3, <2>1, ListsTail
  <2> HIDE DEF c
  <2>3. pc[c] = "queued" /\ c \notin In({"woken", "admitted"})
    BY <2>2 DEF In
  <2>4. /\ pc' \in [Call -> States]
        /\ \A d \in Call : pc'[d] = IF d = c THEN "woken" ELSE p[d]
    BY <2>1 DEF Woken, States
  <2>5. /\ In({"queued"})' = In({"queued"}) \ {c}
        /\ In({"woken", "admitted"})' = In({"woken", "admitted"}) \cup {c}
    BY <2>2, <2>3, <2>4 DEF In
  <2>6. micro' \in Seq(Call) /\ micro' # <<>> /\ Lists(micro', In({"woken", "admitted"}) \cup {c})
    BY <1>1, <2>1, <2>2, <2>3, ListsAppend, AppendProperties
  <2> QED
    BY <1>3, <2>2, <2>3, <2>4, <2>5, <2>6
<1> QED
  BY <1>2, <1>3

\* The ack that arrives is that of the call at the head of the list.
LEMMA OnAckKeeps ==
  ASSUME StreamInv, OnAck
  PROVE  StreamInv'
<1>1. /\ pc \in [Call -> States] /\ pending \in Seq(Call)
      /\ acks \in Nat /\ got \in 0..acks /\ sent \in Seq(Call) /\ Len(sent) \in Nat
  BY DEF StreamInv, TypeOK
<1>2. /\ UNCHANGED <<closed, closing, socket, unsent, sent, acks, stored>>
      /\ socket # "closed" /\ got < acks /\ got' = got + 1
  BY DEF OnAck, serverVars
<1>3. CASE pending = <<>>
  <2>1. Fail /\ UNCHANGED <<closing, unsent, serverVars>> /\ got' \in got..acks
    BY <1>1, <1>2, <1>3 DEF OnAck
  <2> QED
    BY <1>2, <2>1, FailKeeps
<1>4. CASE pending # <<>>
  <2> DEFINE c == Head(pending)
             p == Settled(pc, {c}, "resolved")
  <2>1. pending' = Tail(pending) /\ ReleaseSlot(p) /\ UNCHANGED <<error, watchdog>>
    BY <1>4 DEF OnAck
  <2>2. /\ c \in In({"sent"}) /\ c \in Call /\ c = pending[1]
        /\ pending' \in Seq(Call) /\ Lists(pending', In({"sent"}) \ {c})
        /\ Len(pending') = Len(pending) - 1 /\ Len(pending) \in Nat \ {0}
        /\ \A i \in 1..(Len(pending) - 1) : pending'[i] = pending[i + 1]
    BY <1>1, <1>4, <2>1, ListsTail DEF StreamInv, ListsKept
  <2>3. /\ p \in [Call -> States] /\ pc[c] = "sent"
        /\ \A d \in Call : p[d] = IF d = c THEN "resolved" ELSE pc[d]
    BY <1>1, <2>2 DEF Settled, States, In
  <2> HIDE DEF c, p
  <2>4. /\ pc' \in [Call -> States] /\ queued' \in Seq(Call) /\ micro' \in Seq(Call)
        /\ \A d \in Call : pc'[d] = p[d] \/ (p[d] = "queued" /\ pc'[d] = "woken")
        /\ Lists(queued', In({"queued"})') /\ Lists(micro', In({"woken", "admitted"})')
        /\ queued = <<>> => queued' = <<>>
        /\ queued # <<>> => micro' # <<>>
    BY <2>1, <2>3, ReleaseSlotFacts
  <2>5. /\ In({"sent"})' = In({"sent"}) \ {c} /\ In({"resolved"})' = In({"resolved"}) \cup {c}
        /\ In({"sent", "resolved", "rejected"})' = In({"sent", "resolved", "rejected"})
    BY <2>2, <2>3, <2>4 DEF In
  <2>6. ~error
    BY <1>4 DEF StreamInv, TypeOK, EndsKept
  <2>7. c = sent[got + 1]
    BY <1>1, <1>2, <2>2, <2>6 DEF StreamInv, AcksKept
  <2>8. TypeOK'
    BY <1>1, <1>2, <2>1, <2>2, <2>4 DEF StreamInv, TypeOK
  <2>9. ListsKept'
    BY <2>2, <2>4, <2>5 DEF ListsKept
  <2>10. EndsKept' /\ NoWaiterForgotten'
    BY <1>2, <2>1, <2>4, <2>6 DEF StreamInv, EndsKept, NoWaiterForgotten
  <2>11. \A d \in In({"resolved"})' : \E i \in 1..got' : sent'[i] = d
    <3> TAKE d \in In({"resolved"})'
    <3>1. CASE d = c
      BY <3>1, <1>1, <1>2, <2>7
    <3>2. CASE d # c
      <4>1. PICK i \in 1..got : sent[i] = d
        BY <3>2, <2>5 DEF StreamInv, AcksKept
      <4> QED
        BY <4>1, <1>1, <1>2
    <3> QED
      BY <3>1, <3>2
  <2>12. \A i \in 1..(acks' - got') : i <= Len(pending') /\ pending'[i] = sent'[got' + i]
    <3>1. \A i \in 1..(acks - got) : i <= Len(pending) /\ pending[i] = sent[got + i]
      BY <1>2, <2>6 DEF StreamInv, AcksKept
    <3> TAKE i \in 1..(acks' - got')
    <3>2. i + 1 \in 1..(acks - got) /\ got + (i + 1) = got' + i /\ i \in Nat \ {0}
      BY <1>1, <1>2
    <3>3. i + 1 <= Len(pending) /\ pending[i + 1] = sent[got' + i]
      BY <3>1, <3>2
    <3> QED
      BY <1>2, <2>2, <3>2, <3>3
  <2>13. ASSUME socket = "open"
         PROVE  /\ Len(pending') = Len(sent') - got'
                /\ \A i \in 1..Len(pending') : pending'[i] = sent'[got' + i]
    <3>1. Len(pending) = Len(sent) - got /\ \A i \in 1..Len(pending) : pending[i] = sent[got + i]
      BY <2>6, <2>13 DEF StreamInv, AcksKept
    <3>2. ASSUME NEW i \in 1..Len(pending')
          PROVE  pending'[i] = sent'[got' + i]
      <4>1. i + 1 \in 1..Len(pending) /\ i \in 1..(Len(pending) - 1) /\ got + (i + 1) = got' + i
        BY <1>1, <1>2, <2>2
      <4> QED
        BY <4>1, <3>1, <2>2, <1>2
    <3> QED
      BY <1>1, <1>2, <2>2, <3>1, <3>2
  <2>14. AcksKept'
    BY <1>2, <2>1, <2>5, <2>11, <2>12, <2>13 DEF StreamInv, AcksKept
  <2> QED
    BY <2>8, <2>9, <2>10, <2>14 DEF StreamInv
<1> QED
  BY <1>3, <1>4

\* Nobody is left waiting for a slot of a socket that is closed.
LEMMA OnCloseKeeps ==
  ASSUME StreamInv, OnClose
  PROVE  StreamInv'
<1>1. /\ pc \in [Call -> States] /\ queued \in Seq(Call) /\ micro \in Seq(Call)
      /\ acks \in Nat /\ got \in 0..acks
  BY DEF StreamInv, TypeOK
<1>2. UNCHANGED <<closing, unsent, got, serverVars>> /\ socket' = "closed" /\ closed' = TRUE
  BY DEF OnClose
<1>3. CASE pending # <<>>
  <2>1. Fail /\ got' \in got..acks
    BY <1>1, <1>2, <1>3 DEF OnClose
  <2> QED
    BY <1>2, <2>1, FailKeeps
<1>4. CASE pending = <<>>
  <2>1. /\ UNCHANGED <<pending, error, watchdog>> /\ queued' = <<>> /\ micro' = micro \o queued
        /\ pc' = Woken(pc, ToSet(queued))
    BY <1>4 DEF OnClose, ReleaseAllSlots
  <2>2. ToSet(queued) = In({"queued"})
    BY DEF StreamInv, ListsKept, Lists
  <2>3. /\ pc' \in [Call -> States]
        /\ \A c \in Call : pc'[c] = IF pc[c] = "queued" THEN "woken" ELSE pc[c]
    BY <1>1, <2>1, <2>2 DEF Woken, In, States
  <2>4. /\ In({"queued"})' = {} /\ In({"sent"})' = In({"sent"}) /\ In({"resolved"})' = In({"resolved"})
        /\ In({"woken", "admitted"})' = In({"woken", "admitted"}) \cup In({"queued"})
        /\ In({"sent", "resolved", "rejected"})' = In({"sent", "resolved", "rejected"})
    BY <2>3 DEF In
  <2>5. micro' \in Seq(Call) /\ Lists(micro', In({"woken", "admitted"}) \cup In({"queued"}))
    <3>1. In({"woken", "admitted"}) \cap In({"queued"}) = {}
      BY DEF In
    <3> QED
      BY <1>1, <2>1, <3>1, ListsConcat DEF StreamInv, ListsKept
  <2>6. TypeOK'
    BY <1>2, <2>1, <2>3, <2>5, EmptySeq DEF StreamInv, TypeOK, serverVars
  <2>7. ListsKept'
    BY <2>1, <2>4, <2>5, ListsNothing DEF StreamInv, ListsKept
  <2>8. EndsKept' /\ NoWaiterForgotten'
    BY <1>2, <2>1 DEF StreamInv, EndsKept, NoWaiterForgotten
  <2>9. AcksKept'
    BY <1>2, <2>1, <2>4 DEF StreamInv, AcksKept, serverVars
  <2> QED
    BY <2>6, <2>7, <2>8, <2>9 DEF StreamInv
<1> QED
  BY <1>3, <1>4

\* Nothing that was acknowledged turns out not to have left the socket.
LEMMA SocketBreaksKeeps ==
  ASSUME StreamInv, SocketBreaks
  PROVE  StreamInv'
<1>1. /\ acks \in Nat /\ got \in 0..acks /\ sent \in Seq(Call) /\ Len(sent) \in Nat
      /\ acks <= Len(sent) /\ DOMAIN sent = 1..Len(sent)
  BY DEF StreamInv, TypeOK, AcksKept
<1>2. /\ UNCHANGED <<pc, pending, queued, micro, closed, error, watchdog, closing, got, sent, acks, stored>>
      /\ socket = "open" /\ socket' = "closing"
  BY DEF SocketBreaks, streamVars, serverVars
<1>3. PICK n \in acks..Len(sent) : unsent' = {sent[i] : i \in (n + 1)..Len(sent)}
  BY DEF SocketBreaks
<1>4. \A i \in (n + 1)..Len(sent) : i \in 1..Len(sent) /\ sent[i] \in Call
  BY <1>1
<1>5. TypeOK'
  BY <1>2, <1>3, <1>4 DEF StreamInv, TypeOK
<1>6. In({"queued"})' = In({"queued"}) /\ In({"sent"})' = In({"sent"}) /\ In({"resolved"})' = In({"resolved"})
      /\ In({"woken", "admitted"})' = In({"woken", "admitted"})
      /\ In({"sent", "resolved", "rejected"})' = In({"sent", "resolved", "rejected"})
  BY <1>2 DEF In
<1>7. ListsKept'
  BY <1>2, <1>6 DEF StreamInv, ListsKept
<1>8. EndsKept' /\ NoWaiterForgotten'
  BY <1>2 DEF StreamInv, EndsKept, NoWaiterForgotten
<1>9. \A i \in 1..acks : sent[i] \notin unsent'
  <2> TAKE i \in 1..acks
  <2>1. \A j \in (n + 1)..Len(sent) : i \in DOMAIN sent /\ j \in DOMAIN sent /\ i # j
    BY <1>1
  <2> QED
    BY <1>3, <2>1 DEF StreamInv, AcksKept, IsInjective
<1>10. AcksKept'
  BY <1>2, <1>6, <1>9 DEF StreamInv, AcksKept
<1> QED
  BY <1>5, <1>7, <1>8, <1>10 DEF StreamInv

\* close() and its poll touch no call.
LEMMA CloseKeeps ==
  ASSUME StreamInv, Close \/ CloseDrained
  PROVE  StreamInv'
<1>1. /\ UNCHANGED <<pc, pending, queued, micro, error, unsent, got, sent, acks, stored>>
      /\ closed' \in BOOLEAN /\ (closed => closed') /\ watchdog' \in BOOLEAN /\ closing' \in BOOLEAN
      /\ socket' \in {socket, "closing"} /\ (socket = "closed" => socket' = "closed")
      /\ closing' \/ socket' # "open"
      /\ socket' = "open" => socket = "open"
  <2>1. TypeOK
    BY DEF StreamInv
  <2>2. CASE Close /\ MustDrain
    BY <2>1, <2>2 DEF TypeOK, Close, MustDrain, serverVars
  <2>3. CASE (Close /\ ~MustDrain) \/ CloseDrained
    <3>1. /\ UNCHANGED <<pc, pending, queued, micro, error, unsent, got, sent, acks, stored>>
          /\ closed' \in {closed, TRUE} /\ closing' \in {closing, FALSE} /\ watchdog' = FALSE
          /\ socket' = IF socket = "open" THEN "closing" ELSE socket
      BY <2>3 DEF Close, CloseDrained, CloseSocket, serverVars
    <3>2. closed \in BOOLEAN /\ closing \in BOOLEAN /\ socket \in {"open", "closing", "closed"}
      BY <2>1 DEF TypeOK
    <3>3. closed' \in BOOLEAN /\ (closed => closed') /\ watchdog' \in BOOLEAN /\ closing' \in BOOLEAN
      BY <3>1, <3>2
    <3>4. /\ socket' \in {socket, "closing"} /\ (socket = "closed" => socket' = "closed")
          /\ socket' # "open"
      BY <3>1, <3>2
    <3> QED
      BY <3>1, <3>3, <3>4
  <2> QED
    BY <2>2, <2>3
<1>2. In({"queued"})' = In({"queued"}) /\ In({"sent"})' = In({"sent"}) /\ In({"resolved"})' = In({"resolved"})
      /\ In({"woken", "admitted"})' = In({"woken", "admitted"})
      /\ In({"sent", "resolved", "rejected"})' = In({"sent", "resolved", "rejected"})
  BY <1>1 DEF In
<1>3. TypeOK'
  BY <1>1 DEF StreamInv, TypeOK
<1>4. ListsKept'
  BY <1>1, <1>2 DEF StreamInv, ListsKept
<1>5. EndsKept' /\ NoWaiterForgotten'
  BY <1>1, <1>3 DEF StreamInv, TypeOK, EndsKept, NoWaiterForgotten
<1>6. AcksKept'
  BY <1>1, <1>2 DEF StreamInv, AcksKept
<1> QED
  BY <1>3, <1>4, <1>5, <1>6 DEF StreamInv

\* The server acknowledges no more than it was sent, and only while the socket
\* is open.
LEMMA ServerKeeps ==
  ASSUME StreamInv, ServerStores \/ ServerAcks \/ ServerSkips
  PROVE  StreamInv'
<1>1. /\ sent \in Seq(Call) /\ Len(sent) \in Nat /\ acks \in Nat /\ got \in 0..acks
      /\ acks <= Len(sent) /\ stored \subseteq Call
  BY DEF StreamInv, TypeOK, AcksKept
<1>2. /\ UNCHANGED <<pc, pending, queued, micro, closed, error, watchdog, closing, socket, unsent, got, sent>>
      /\ stored' \subseteq Call /\ acks' \in acks..Len(sent) /\ (acks' # acks => socket = "open")
  <2>1. CASE ServerStores
    <3>1. acks' = acks /\ sent' = sent /\ \E i \in DOMAIN sent : stored' = stored \cup {sent[i]}
      BY <2>1 DEF ServerStores, Server!Store
    <3>2. \A i \in DOMAIN sent : sent[i] \in Call
      BY <1>1
    <3> QED
      BY <1>1, <2>1, <3>1, <3>2 DEF ServerStores, streamVars, socketVars
  <2>2. CASE ServerAcks
    BY <1>1, <2>2 DEF ServerAcks, Server!Acknowledge, streamVars, socketVars
  <2>3. CASE ServerSkips
    <3> DEFINE S == {i \in DOMAIN sent : sent[i] \in stored}
    <3>1. S \subseteq 1..Len(sent) /\ IsFiniteSet(1..Len(sent)) /\ Cardinality(1..Len(sent)) = Len(sent)
      <4>1. S \subseteq 1..Len(sent)
        BY <1>1
      <4> DEFINE n == Len(sent)
      <4>2. n \in Nat
        BY <1>1
      <4> HIDE DEF n
      <4>3. IsFiniteSet(1..n) /\ Cardinality(1..n) = n
        BY <4>2, FS_Interval
      <4> QED
        BY <4>1, <4>3 DEF n
    <3>2. IsFiniteSet(S) /\ Cardinality(S) <= Len(sent)
      BY <3>1, FS_Subset
    <3>3. Cardinality(S) \in Nat
      BY <3>2, FS_CardinalityType
    <3>4. acks < Cardinality(S) /\ acks' = acks + 1
      BY <2>3 DEF ServerSkips
    <3> HIDE DEF S
    <3>5. acks' \in acks..Len(sent)
      BY <1>1, <3>2, <3>3, <3>4
    <3> QED
      BY <1>1, <2>3, <3>5 DEF ServerSkips, streamVars, socketVars
  <2> QED
    BY <2>1, <2>2, <2>3
<1>3. In({"queued"})' = In({"queued"}) /\ In({"sent"})' = In({"sent"}) /\ In({"resolved"})' = In({"resolved"})
      /\ In({"woken", "admitted"})' = In({"woken", "admitted"})
      /\ In({"sent", "resolved", "rejected"})' = In({"sent", "resolved", "rejected"})
  BY <1>2 DEF In
<1>4. TypeOK'
  BY <1>1, <1>2 DEF StreamInv, TypeOK
<1>5. ListsKept'
  BY <1>2, <1>3 DEF StreamInv, ListsKept
<1>6. EndsKept' /\ NoWaiterForgotten'
  BY <1>2 DEF StreamInv, EndsKept, NoWaiterForgotten
<1>7. CASE acks' = acks
  BY <1>2, <1>3, <1>4, <1>5, <1>6, <1>7 DEF StreamInv, AcksKept
<1>8. CASE acks' # acks
  <2>1. socket = "open" /\ unsent = {}
    BY <1>2, <1>8 DEF StreamInv, EndsKept
  <2>2. ~error => \A i \in 1..(acks' - got) : i <= Len(pending) /\ pending[i] = sent[got + i]
    <3> SUFFICES ASSUME ~error PROVE \A i \in 1..(acks' - got) : i <= Len(pending) /\ pending[i] = sent[got + i]
      OBVIOUS
    <3>1. Len(pending) = Len(sent) - got /\ \A i \in 1..Len(pending) : pending[i] = sent[got + i]
      BY <2>1 DEF StreamInv, AcksKept
    <3>2. \A i \in 1..(acks' - got) : i <= Len(pending) /\ i \in 1..Len(pending)
      <4>1. acks' \in Nat /\ acks' <= Len(sent) /\ got \in Nat /\ Len(pending) = Len(sent) - got
        BY <1>1, <1>2, <3>1
      <4> DEFINE a == acks'
                 n == Len(sent)
      <4>2. a \in Nat /\ a <= n /\ n \in Nat /\ Len(pending) = n - got
        BY <1>1, <4>1
      <4> HIDE DEF a, n
      <4>3. \A i \in 1..(a - got) : i <= Len(pending) /\ i \in 1..Len(pending)
        BY <4>1, <4>2
      <4> QED
        BY <4>3 DEF a
    <3> QED
      BY <3>1, <3>2
  <2>3. acks' <= Len(sent') /\ \A i \in 1..acks' : sent'[i] \notin unsent'
    BY <1>1, <1>2, <2>1
  <2>4. /\ IsInjective(sent') /\ ToSet(sent') \subseteq In({"sent", "resolved", "rejected"})'
        /\ \A c \in In({"resolved"})' : \E i \in 1..got' : sent'[i] = c
    BY <1>2, <1>3 DEF StreamInv, AcksKept
  <2>5. ~error' /\ socket' # "closed" =>
          \A i \in 1..(acks' - got') : i <= Len(pending') /\ pending'[i] = sent'[got' + i]
    BY <1>2, <2>2
  <2>6. ~error' /\ socket' = "open" =>
          /\ Len(pending') = Len(sent') - got'
          /\ \A i \in 1..Len(pending') : pending'[i] = sent'[got' + i]
    BY <1>2 DEF StreamInv, AcksKept
  <2>7. AcksKept'
    BY <2>3, <2>4, <2>5, <2>6 DEF AcksKept
  <2> QED
    BY <1>4, <1>5, <1>6, <2>7 DEF StreamInv
<1> QED
  BY <1>7, <1>8

LEMMA StutterKeeps == StreamInv /\ UNCHANGED vars => StreamInv'
BY DEF vars, streamVars, socketVars, serverVars, StreamInv, TypeOK, ListsKept, EndsKept, NoWaiterForgotten,
       AcksKept, In

LEMMA StreamInvKept == StreamInv /\ [Next]_vars => StreamInv'
<1> SUFFICES ASSUME StreamInv, [Next]_vars PROVE StreamInv'
  OBVIOUS
<1>1. ASSUME NEW c \in Call, SendChunkData(c) PROVE StreamInv'
  BY <1>1, SendChunkDataKeeps
<1>2. ASSUME NEW c \in Call, SendFails(c) PROVE StreamInv'
  BY <1>2, SendFailsKeeps
<1>3. CASE Continuation
  BY <1>3, WaitForSlotKeeps, PushAndSendKeeps DEF Continuation
<1>4. CASE OnAck
  BY <1>4, OnAckKeeps
<1>5. CASE OnErrorFrame \/ Watchdog \/ OnError
  <2>1. Fail /\ UNCHANGED <<closed, closing, socket, unsent, got, serverVars>> /\ got' \in got..acks
    BY <1>5 DEF OnErrorFrame, Watchdog, OnError, socketVars, StreamInv, TypeOK
  <2> QED
    BY <2>1, FailKeeps
<1>6. CASE SocketBreaks
  BY <1>6, SocketBreaksKeeps
<1>7. CASE OnClose
  BY <1>7, OnCloseKeeps
<1>8. CASE Close \/ CloseDrained
  BY <1>8, CloseKeeps
<1>9. CASE ServerStores \/ ServerAcks \/ ServerSkips
  BY <1>9, ServerKeeps
<1>10. CASE UNCHANGED vars
  BY <1>10, StutterKeeps
<1> QED
  BY <1>1, <1>2, <1>3, <1>4, <1>5, <1>6, <1>7, <1>8, <1>9, <1>10 DEF Next

-----------------------------------------------------------------------------
(* The theorems.                                                           *)

\* StreamInv holds throughout.
THEOREM StreamInvariant == Spec => []StreamInv
BY InitStreamInv, StreamInvKept, PTL DEF Spec

\* Between any two events, every call that is under way is in exactly one list,
\* and whoever waits for a slot will be woken by something: whatever the server
\* does, whichever sends fail and whenever close() is called (swarm-ws.ts:83-145).
THEOREM CallsAreTracked == Spec => []CallsTracked
<1>1. StreamInv => CallsTracked
  <2> SUFFICES ASSUME StreamInv PROVE CallsTracked
    OBVIOUS
  <2>1. /\ queued \in Seq(Call) /\ micro \in Seq(Call) /\ pending \in Seq(Call)
        /\ Lists(queued, In({"queued"})) /\ Lists(micro, In({"woken", "admitted"})) /\ Lists(pending, In({"sent"}))
    BY DEF StreamInv, TypeOK, ListsKept
  <2>2. ASSUME NEW c \in Call
        PROVE  /\ Cardinality({i \in DOMAIN queued : queued[i] = c}) = IF pc[c] = "queued" THEN 1 ELSE 0
               /\ Cardinality({i \in DOMAIN micro : micro[i] = c}) = IF pc[c] \in {"woken", "admitted"} THEN 1 ELSE 0
               /\ Cardinality({i \in DOMAIN pending : pending[i] = c}) = IF pc[c] = "sent" THEN 1 ELSE 0
    <3>1. /\ c \in In({"queued"}) <=> pc[c] = "queued"
          /\ c \in In({"woken", "admitted"}) <=> pc[c] \in {"woken", "admitted"}
          /\ c \in In({"sent"}) <=> pc[c] = "sent"
      BY DEF In
    <3> QED
      BY <2>1, <3>1, ListsCount
  <2>3. NoCallLost
    BY <2>2 DEF NoCallLost
  <2> QED
    BY <2>3 DEF StreamInv, CallsTracked
<1> QED
  BY <1>1, StreamInvariant, PTL

\* A caller that was told its chunk is uploaded finds it on the server, as long
\* as the n-th ack stands for the n-th chunk (swarm-ws.ts:7-8, 105-106).
THEOREM ResolvedAreStored == Spec => []ResolvedStored
<1>1. StreamInv => ResolvedStored
  <2> SUFFICES ASSUME StreamInv, \A i \in 1..acks : sent[i] \in stored,
                      NEW c \in Call, pc[c] = "resolved"
               PROVE  c \in stored
    BY DEF ResolvedStored
  <2>1. PICK i \in 1..got : sent[i] = c
    BY DEF StreamInv, AcksKept, In
  <2>2. i \in 1..acks
    BY DEF StreamInv, TypeOK
  <2> QED
    BY <2>1, <2>2
<1> QED
  BY <1>1, StreamInvariant, PTL
=============================================================================
