--------------------------- MODULE RpcServerProofs ---------------------------
(***************************************************************************)
(* DataInv is an invariant of the commands over the data directory, and    *)
(* RpcInv of the server beside them, for any number of eras, of blocks in  *)
(* an era and of commands, wherever an archive is cut short.               *)
(***************************************************************************)
EXTENDS RpcServer, FiniteSetTheorems, WellFoundedInduction, TLAPS

LEMMA Params ==
  /\ Eras \in Nat /\ Eras > 0 /\ PerEra \in Nat /\ PerEra > 0 /\ MaxRuns \in Nat
  /\ Cuts \subseteq 0..(Len(Records) - 1)
BY EraDataAssumption

-----------------------------------------------------------------------------
(* The least and the greatest number of a set.                             *)

LEMMA MinIs ==
  ASSUME NEW S, S \subseteq Nat, S # {}
  PROVE  Min(S) \in S /\ \A x \in S : Min(S) <= x
<1> DEFINE R == OpToRel(<, Nat)
<1>1. IsWellFoundedOn(R, Nat)
  BY NatLessThanWellFounded
<1>2. \A x, y \in Nat : x < y => <<x, y>> \in R
  BY DEF OpToRel
<1> HIDE DEF R
<1>3. PICK n \in S : \A m \in S : ~ (<<m, n>> \in R)
  BY <1>1, WFMin
<1>4. \A m \in S : n <= m
  <2> TAKE m \in S
  <2>1. m \in Nat /\ n \in Nat /\ ~ (m < n)
    BY <1>2, <1>3
  <2> QED
    BY <2>1
<1> QED
  BY <1>4, Zenon DEF Min

LEMMA MaxIs ==
  ASSUME NEW N \in Nat, NEW S, S \subseteq 0..N, S # {}
  PROVE  Max(S) \in S /\ \A x \in S : Max(S) >= x
<1> DEFINE T == {N - x : x \in S}
<1>1. T \subseteq Nat /\ T # {}
  <2>1. ASSUME NEW x \in S PROVE N - x \in Nat
    <3>1. x \in 0..N
      OBVIOUS
    <3> QED
      BY <3>1
  <2> QED
    BY <2>1
<1> HIDE DEF T
<1>2. Min(T) \in T /\ \A m \in T : Min(T) <= m
  BY <1>1, MinIs
<1>3. PICK x \in S : Min(T) = N - x
  BY <1>2 DEF T
<1>4. \A y \in S : x >= y
  <2> TAKE y \in S
  <2>1. N - y \in T
    BY DEF T
  <2>2. x \in 0..N /\ y \in 0..N
    OBVIOUS
  <2>3. N - x <= N - y
    BY <2>1, <1>2, <1>3
  <2> QED
    BY <2>2, <2>3
<1> QED
  BY <1>4, Zenon DEF Max

LEMMA MinOfInterval ==
  ASSUME NEW lo \in Int, NEW hi \in Int, lo <= hi
  PROVE  Min(lo..hi) = lo
<1>1. lo \in lo..hi /\ \A x \in lo..hi : lo <= x
  OBVIOUS
<1>2. Min(lo..hi) \in lo..hi /\ \A x \in lo..hi : Min(lo..hi) <= x
  BY <1>1, Zenon DEF Min
<1> QED
  BY <1>1, <1>2

LEMMA MaxOfInterval ==
  ASSUME NEW lo \in Int, NEW hi \in Int, lo <= hi
  PROVE  Max(lo..hi) = hi
<1>1. hi \in lo..hi /\ \A x \in lo..hi : hi >= x
  OBVIOUS
<1>2. Max(lo..hi) \in lo..hi /\ \A x \in lo..hi : Max(lo..hi) >= x
  BY <1>1, Zenon DEF Max
<1> QED
  BY <1>1, <1>2

LEMMA MinOfTwo ==
  ASSUME NEW m \in Int, NEW n \in Int
  PROVE  Min({m, n}) \in {m, n} /\ Min({m, n}) <= m /\ Min({m, n}) <= n
<1>1. \E x \in {m, n} : \A y \in {m, n} : x <= y
  <2>1. CASE m <= n
    BY <2>1
  <2>2. CASE n <= m
    BY <2>2
  <2> QED
    BY <2>1, <2>2
<1>2. Min({m, n}) \in {m, n} /\ \A y \in {m, n} : Min({m, n}) <= y
  BY <1>1, Zenon DEF Min
<1> QED
  BY <1>2

-----------------------------------------------------------------------------
(* Blocks, the states after them and their events.                         *)

LEMMA EraFacts ==
  ASSUME NEW e \in Era
  PROVE  /\ e \in Nat /\ e <= Eras - 1
         /\ e * PerEra \in Nat /\ e * PerEra + PerEra <= Eras * PerEra
         /\ (e + 1) * PerEra = e * PerEra + PerEra
         /\ e > 0 => e * PerEra >= PerEra /\ (e - 1) * PerEra + PerEra = e * PerEra
         /\ e = 0 => e * PerEra = 0
<1>1. e \in Nat /\ e <= Eras - 1
  BY Params DEF Era
<1>2. e * PerEra \in Nat /\ e * PerEra + PerEra <= Eras * PerEra
  BY <1>1, Params
<1>3. (e + 1) * PerEra = e * PerEra + PerEra
  BY <1>1, Params
<1>4. e > 0 => e * PerEra >= PerEra /\ (e - 1) * PerEra + PerEra = e * PerEra
  BY <1>1, Params
<1>5. e = 0 => e * PerEra = 0
  BY Params
<1> QED
  BY <1>1, <1>2, <1>3, <1>4, <1>5

LEMMA BlocksOfFacts ==
  ASSUME NEW e \in Era
  PROVE  /\ BlocksOf(e) \subseteq Block
         /\ Max(BlocksOf(e)) = e * PerEra + PerEra - 1
         /\ e * PerEra + PerEra - 1 \in Block
<1> DEFINE b == e * PerEra
           top == Eras * PerEra
<1>1. b \in Nat /\ b + PerEra <= top /\ PerEra \in Nat /\ PerEra > 0 /\ top \in Nat
  BY EraFacts, Params
<1>2. BlocksOf(e) = b..(b + PerEra - 1) /\ Block = 0..(top - 1)
  BY DEF BlocksOf, Block
<1> HIDE DEF b, top
<1>3. Max(b..(b + PerEra - 1)) = b + PerEra - 1
  BY <1>1, MaxOfInterval
<1>4. BlocksOf(e) \subseteq Block
  BY <1>1, <1>2
<1>5. b + PerEra - 1 \in Block
  BY <1>1, <1>2
<1> QED
  BY <1>2, <1>3, <1>4, <1>5 DEF b

LEMMA AfterFacts ==
  ASSUME NEW b \in Nat
  PROVE  /\ Len(After(b)) = b + 1 /\ After(b)[b + 1] = b
         /\ Append(After(b), b + 1) = After(b + 1)
         /\ b \in Block => After(b) \in Seq(Block)
<1>1. After(b) \in Seq(Nat) /\ Len(After(b)) = b + 1 /\ \A i \in 1..(b + 1) : After(b)[i] = i - 1
  BY DEF After
<1>2. After(b)[b + 1] = b
  BY <1>1
<1>3. Append(After(b), b + 1) = After(b + 1)
  <2>1. /\ After(b + 1) \in Seq(Nat) /\ Len(After(b + 1)) = b + 2
        /\ \A i \in 1..(b + 2) : After(b + 1)[i] = i - 1
    BY DEF After
  <2>2. /\ Append(After(b), b + 1) \in Seq(Nat) /\ Len(Append(After(b), b + 1)) = b + 2
        /\ \A i \in 1..(b + 2) : Append(After(b), b + 1)[i] = i - 1
    BY <1>1
  <2> QED
    BY <2>1, <2>2
<1>4. ASSUME b \in Block PROVE After(b) \in Seq(Block)
  <2> DEFINE top == Eras * PerEra
  <2>1. top \in Nat /\ Block = 0..(top - 1)
    BY Params DEF Block
  <2> HIDE DEF top
  <2>2. \A i \in 1..(b + 1) : i - 1 \in Block
    BY <1>4, <2>1
  <2> QED
    BY <2>2 DEF After
<1> QED
  BY <1>1, <1>2, <1>3, <1>4

LEMMA EventsOfFacts ==
  ASSUME NEW e \in Era
  PROVE  /\ EventsOf(e) \in Seq(Seq(Block)) /\ Len(EventsOf(e)) = PerEra
         /\ \A i \in 1..PerEra : EventsOf(e)[i] = After(e * PerEra + i - 1)
<1> DEFINE b == e * PerEra
           top == Eras * PerEra
<1>1. b \in Nat /\ b + PerEra <= top /\ PerEra \in Nat /\ top \in Nat /\ Block = 0..(top - 1)
  BY EraFacts, Params DEF Block
<1>2. EventsOf(e) = [i \in 1..PerEra |-> After(b + i - 1)]
  BY DEF EventsOf
<1> HIDE DEF b, top
<1>3. ASSUME NEW i \in 1..PerEra PROVE After(b + i - 1) \in Seq(Block)
  <2>1. b + i - 1 \in Nat /\ b + i - 1 \in Block
    BY <1>1
  <2> QED
    BY <2>1, AfterFacts
<1>4. EventsOf(e) \in Seq(Seq(Block)) /\ Len(EventsOf(e)) = PerEra
  BY <1>1, <1>2, <1>3
<1> QED
  BY <1>2, <1>4 DEF b

\* A file of events has the first of them.
LEMMA PrefixOfEvents ==
  ASSUME NEW e \in Era, NEW s \in Seq(Seq(Block))
  PROVE  IsPrefix(s, EventsOf(e)) <=>
           Len(s) <= PerEra /\ \A i \in 1..Len(s) : s[i] = After(e * PerEra + i - 1)
<1> DEFINE t == EventsOf(e)
<1>1. t \in Seq(Seq(Block)) /\ Len(t) = PerEra /\ \A i \in 1..PerEra : t[i] = After(e * PerEra + i - 1)
  BY EventsOfFacts
<1> HIDE DEF t
<1>2. PerEra \in Nat /\ Len(s) \in Nat
  BY Params
<1>3. SubSeq(s, 1, Len(s)) = s
  OBVIOUS
<1>4. CASE Len(s) <= PerEra
  <2>1. /\ SubSeq(t, 1, Len(s)) \in Seq(Seq(Block)) /\ Len(SubSeq(t, 1, Len(s))) = Len(s)
        /\ \A i \in 1..Len(s) : SubSeq(t, 1, Len(s))[i] = t[i]
    BY <1>1, <1>2, <1>4
  <2>2. \A i \in 1..Len(s) : i \in 1..PerEra
    BY <1>2, <1>4
  <2>3. (s = SubSeq(t, 1, Len(s))) <=> \A i \in 1..Len(s) : s[i] = t[i]
    BY <2>1
  <2> QED
    BY <1>1, <1>3, <1>4, <2>2, <2>3 DEF IsPrefix, t
<1>5. CASE ~ (Len(s) <= PerEra)
  BY <1>1, <1>5 DEF IsPrefix, t
<1> QED
  BY <1>4, <1>5

-----------------------------------------------------------------------------
(* Archives.                                                               *)

RecordType ==
  {"Version", "Header", "Body", "Receipts", "TotalDifficulty", "AccumulatorRoot", "BlockIndex"}

LEMMA CatFacts ==
  ASSUME NEW s \in Seq(RecordType), NEW t \in Seq(RecordType)
  PROVE  /\ s \o t \in Seq(RecordType) /\ Len(s \o t) = Len(s) + Len(t)
         /\ \A i \in 1..Len(s) : (s \o t)[i] = s[i]
         /\ \A i \in (Len(s) + 1)..(Len(s) + Len(t)) : (s \o t)[i] = t[i - Len(s)]
OBVIOUS

\* Records that are no index of blocks.
NoIndex(s) == s \in Seq(RecordType) /\ \A i \in 1..Len(s) : s[i] # "BlockIndex"

LEMMA NoIndexGroup ==
  ASSUME NEW type \in RecordType, type # "BlockIndex"
  PROVE  NoIndex([i \in 1..PerEra |-> type])
<1> DEFINE g == [i \in 1..PerEra |-> type]
<1>1. g \in Seq(RecordType) /\ Len(g) = PerEra
  BY Params
<1>2. \A i \in 1..PerEra : g[i] = type
  OBVIOUS
<1> HIDE DEF g
<1>3. \A i \in 1..Len(g) : g[i] # "BlockIndex"
  BY <1>1, <1>2
<1>4. NoIndex(g)
  BY <1>1, <1>3 DEF NoIndex
<1> QED
  BY <1>4 DEF g

LEMMA NoIndexCat ==
  ASSUME NEW s, NEW t, NoIndex(s), NoIndex(t)
  PROVE  NoIndex(s \o t)
<1>1. s \in Seq(RecordType) /\ t \in Seq(RecordType)
  BY DEF NoIndex
<1>2. s \o t \in Seq(RecordType) /\ Len(s \o t) = Len(s) + Len(t)
  BY <1>1, CatFacts
<1>3. ASSUME NEW i \in 1..Len(s \o t) PROVE (s \o t)[i] # "BlockIndex"
  <2>1. CASE i \in 1..Len(s)
    BY <1>1, <2>1, CatFacts DEF NoIndex
  <2>2. CASE i \notin 1..Len(s)
    <3>1. i \in (Len(s) + 1)..(Len(s) + Len(t)) /\ i - Len(s) \in 1..Len(t)
      BY <1>1, <1>2, <2>2
    <3> QED
      BY <1>1, <3>1, CatFacts DEF NoIndex
  <2> QED
    BY <2>1, <2>2
<1> QED
  BY <1>2, <1>3 DEF NoIndex

\* The index of blocks is the last record.
LEMMA RecordsFacts ==
  /\ Records \in Seq(RecordType)
  /\ \A i \in 1..Len(Records) : Records[i] = "BlockIndex" => i = Len(Records)
<1> DEFINE g(type) == [i \in 1..PerEra |-> type]
           v == <<"Version">>
           s == v \o g("Header") \o g("Body") \o g("Receipts") \o g("TotalDifficulty")
           end == <<"AccumulatorRoot", "BlockIndex">>
<1>1. Records = s \o end
  BY DEF Records
<1>2. NoIndex(v)
  <2>1. v \in Seq(RecordType)
    BY DEF RecordType
  <2>2. Len(v) = 1 /\ v[1] = "Version"
    OBVIOUS
  <2> HIDE DEF v
  <2> QED
    BY <2>1, <2>2 DEF NoIndex
<1>3. /\ NoIndex(g("Header")) /\ NoIndex(g("Body"))
      /\ NoIndex(g("Receipts")) /\ NoIndex(g("TotalDifficulty"))
  BY NoIndexGroup DEF RecordType
<1>4. end \in Seq(RecordType) /\ Len(end) = 2 /\ end[1] = "AccumulatorRoot"
  BY DEF RecordType
<1> HIDE DEF g, v, end
<1>5. NoIndex(s)
  BY <1>2, <1>3, NoIndexCat
<1> HIDE DEF s
<1>6. s \in Seq(RecordType) /\ Len(s) \in Nat
  BY <1>5 DEF NoIndex
<1>7. /\ s \o end \in Seq(RecordType) /\ Len(s \o end) = Len(s) + 2
      /\ \A i \in 1..Len(s) : (s \o end)[i] # "BlockIndex"
      /\ (s \o end)[Len(s) + 1] # "BlockIndex"
  <2>1. s \o end \in Seq(RecordType) /\ Len(s \o end) = Len(s) + 2
    <3>1. s \o end \in Seq(RecordType) /\ Len(s \o end) = Len(s) + Len(end)
      BY <1>4, <1>6, CatFacts
    <3> QED
      BY <1>4, <3>1
  <2>2. \A i \in 1..Len(s) : (s \o end)[i] # "BlockIndex"
    BY <1>4, <1>5, <1>6, CatFacts DEF NoIndex
  <2>3. Len(s) + 1 \in (Len(s) + 1)..(Len(s) + 2) /\ (Len(s) + 1) - Len(s) = 1
    BY <1>6
  <2>4. (s \o end)[Len(s) + 1] = end[1]
    BY <1>4, <1>6, <2>3, CatFacts
  <2> QED
    BY <1>4, <2>1, <2>2, <2>4
<1>8. ASSUME NEW i \in 1..Len(Records), Records[i] = "BlockIndex" PROVE i = Len(Records)
  BY <1>1, <1>6, <1>7, <1>8
<1> QED
  BY <1>1, <1>7, <1>8

LEMMA OneIsNotNone ==
  ASSUME NEW S, Cardinality(S) = 1
  PROVE  S # {}
<1> SUFFICES ASSUME S = {} PROVE FALSE
  OBVIOUS
<1> QED
  BY FS_EmptySet

\* What openEraeFile() accepts is an archive that is whole.
LEMMA OpensWhole ==
  ASSUME NEW a \in Archives, a # NoArchive, Opens(a)
  PROVE  a = WholeArchive
<1> DEFINE n == a.records
           found == SubSeq(Records, 1, n)
<1>1. n \in 0..Len(Records) /\ a = Archive(n, a.part) /\ a.part \in BOOLEAN
  BY DEF Archives, Archive
<1>2. ~a.part /\ Cardinality({i \in DOMAIN found : found[i] = "BlockIndex"}) = 1
  BY DEF Opens
<1>3. {i \in DOMAIN found : found[i] = "BlockIndex"} # {}
  BY <1>2, OneIsNotNone
<1>4. PICK i \in DOMAIN found : found[i] = "BlockIndex"
  BY <1>3
<1>5. Len(Records) \in Nat /\ Records \in Seq(RecordType)
  BY RecordsFacts
<1>6. i \in 1..n /\ found[i] = Records[i]
  BY <1>1, <1>4, <1>5
<1>7. i = Len(Records)
  BY <1>1, <1>4, <1>5, <1>6, RecordsFacts
<1>8. n = Len(Records)
  BY <1>1, <1>5, <1>6, <1>7
<1> QED
  BY <1>1, <1>2, <1>8 DEF WholeArchive, Archive

LEMMA ArchiveTypes ==
  /\ WholeArchive \in Archives /\ WholeArchive # NoArchive
  /\ \A n \in Cuts, part \in BOOLEAN : Archive(n, part) \in Archives /\ Archive(n, part) # NoArchive
<1>1. Len(Records) \in Nat
  BY RecordsFacts
<1> QED
  BY <1>1, Params DEF WholeArchive, NoArchive, Archives, Archive

-----------------------------------------------------------------------------
(* What the steps of the commands have in common.                          *)

LEMMA Targeted ==
  ASSUME DataTypeOK
  PROVE  /\ era \in Era /\ era \in Nat /\ era <= Eras - 1
         /\ last \in Int /\ last <= Eras - 1
         /\ command.lo \in Era /\ command.lo \in Nat /\ command.hi \in Nat
         /\ command.name \in {"download", "process", "both", "extract"}
         /\ command.hi \in Era
BY Params DEF DataTypeOK, Era, Commands

LEMMA NamesApart ==
  ASSUME NEW N, command' = command
  PROVE  Is(N)' <=> Is(N)
BY DEF Is

LEMMA Replaced ==
  ASSUME NEW S, NEW T, NEW f \in [S -> T], NEW x \in S, NEW v \in T
  PROVE  [f EXCEPT ![x] = v] \in [S -> T]
OBVIOUS

\* Nothing of a replay is lost.
LEMMA ReplayStays ==
  ASSUME ReplaySound, UNCHANGED <<events, checkpoint>>, trie \subseteq trie', chain \subseteq chain'
  PROVE  ReplaySound'
<1> SUFFICES ASSUME NEW e \in Era
             PROVE  /\ IsPrefix(events[e], EventsOf(e))
                    /\ checkpoint[e] # NoCheckpoint =>
                         LET b == Max(BlocksOf(e))
                         IN /\ checkpoint[e] = [last |-> b, root |-> After(b), total |-> b + 1]
                            /\ After(b) \in trie'
                            /\ 0..b \subseteq chain'
  BY DEF ReplaySound
<1> QED
  BY DEF ReplaySound

\* What was made of an era stays where none of its files changes.
LEMMA MadeStays ==
  ASSUME NEW e, Made(e), command' = command,
         archive'[e] = archive[e], blocks'[e] = blocks[e], index'[e] = index[e],
         summary'[e] = summary[e], events'[e] = events[e], checkpoint'[e] = checkpoint[e]
  PROVE  Made(e)'
BY DEF Made, Is

\* A command that is given up leaves what is on disk.
LEMMA Forgotten ==
  ASSUME DataInv, Forget, UNCHANGED <<files, replay, runs>>
  PROVE  DataInv'
<1>1. DataTypeOK'
  <2>1. NoCommand \in Commands /\ 0 \in Era /\ -1 \in -1..(Eras - 1)
    BY Params DEF NoCommand, Commands, Era
  <2>2. DataTypeOK
    BY DEF DataInv
  <2>3. state' \in Seq(Block) /\ emitted' \in Seq(Seq(Block)) /\ total' \in Nat
    BY DEF Forget
  <2> QED
    BY <2>1, <2>2, <2>3 DEF DataTypeOK, Forget, files, replay
<1>2. PlaceKept' /\ MadeKept' /\ MachineKept' /\ DoneWhole'
  <2>1. at' = "idle" /\ command'.name = "download" /\ total' = 0
    BY DEF Forget, NoCommand
  <2> QED
    BY <2>1 DEF PlaceKept, MadeKept, MachineKept, DoneWhole, Is
<1>3. ReplaySound'
  BY ReplayStays DEF DataInv, replay
<1> QED
  BY <1>1, <1>2, <1>3 DEF DataInv

\* The next era is taken up, or the command ends, when this one is made.
LEMMA NextEraKept ==
  ASSUME DataTypeOK, NextEra, UNCHANGED <<command, last>>,
         command.lo <= era, era <= last, \A e \in command.lo..era : Made(e)'
  PROVE  /\ era' \in Era /\ at' \in {"era", "done"}
         /\ PlaceKept' /\ MadeKept' /\ DoneWhole'
<1>1. /\ era \in Nat /\ last \in Int /\ last <= Eras - 1
      /\ command.lo \in Nat /\ era \in Era
  BY Targeted
<1>2. CASE era < last
  <2>1. at' = "era" /\ era' = era + 1
    BY <1>2 DEF NextEra
  <2>2. era' \in Era /\ command.lo <= era' /\ era' - 1 = era
    BY <1>1, <1>2, <2>1, Params DEF Era
  <2>3. PlaceKept'
    BY <2>1, <2>2 DEF PlaceKept
  <2>4. MadeKept'
    BY <2>1, <2>2 DEF MadeKept
  <2>5. DoneWhole'
    BY <2>1 DEF DoneWhole
  <2> QED
    BY <2>1, <2>2, <2>3, <2>4, <2>5
<1>3. CASE ~ (era < last)
  <2>1. at' = "done" /\ era' = era
    BY <1>3 DEF NextEra
  <2>2. era = last
    BY <1>1, <1>3
  <2>3. PlaceKept' /\ MadeKept'
    BY <2>1 DEF PlaceKept, MadeKept
  <2>4. DoneWhole'
    BY <2>1, <2>2 DEF DoneWhole
  <2> QED
    BY <1>1, <2>1, <2>3, <2>4
<1> QED
  BY <1>2, <1>3

-----------------------------------------------------------------------------
(* Targets.                                                                *)

LEMMA StartKept ==
  ASSUME DataInv, NEW c \in Commands, Start(c)
  PROVE  DataInv'
<1>1. DataTypeOK'
  <2>1. runs \in 0..MaxRuns /\ runs < MaxRuns => runs + 1 \in 0..MaxRuns
    BY Params
  <2> QED
    BY <2>1 DEF DataInv, DataTypeOK, Start, files, replay, machine
<1>2. PlaceKept' /\ MadeKept' /\ DoneWhole'
  BY DEF Start, PlaceKept, MadeKept, DoneWhole
<1>3. MachineKept'
  BY DEF DataInv, Start, MachineKept, ExtractKept, machine
<1>4. ReplaySound'
  BY ReplayStays DEF DataInv, Start, replay
<1> QED
  BY <1>1, <1>2, <1>3, <1>4 DEF DataInv

\* With the list on disk, or the text that was fetched, the eras are set.
LEMMA TargetsKept ==
  ASSUME DataTypeOK, MachineKept, at \in {"resolve", "list"}, NEW n \in 0..Eras, Targets(n),
         UNCHANGED <<command, machine>>
  PROVE  /\ era' \in Era /\ last' \in -1..(Eras - 1) /\ at' \in {"resume", "era"}
         /\ PlaceKept' /\ MadeKept' /\ DoneWhole'
         /\ at' = "resume" => MachineKept'
         /\ at' = "era" => ~Is({"extract"})'
<1>1. command.lo \in Era /\ command.lo \in Nat /\ command.hi \in Nat /\ command.hi <= Eras - 1
  <2>1. command.hi \in 0..(Eras - 1)
    BY Targeted DEF Era
  <2> QED
    BY Targeted, <2>1
<1>2. n - 1 \in -1..(Eras - 1) /\ n - 1 \in Int
  BY Params
<1>3. last' \in {command.hi, n - 1} /\ last' <= n - 1
  <2> DEFINE m == n - 1
  <2>1. m \in Int /\ command.hi \in Int /\ last' = Min({command.hi, m})
    BY <1>1, <1>2 DEF Targets
  <2> HIDE DEF m
  <2>2. last' \in {command.hi, m} /\ last' <= m
    BY <2>1, MinOfTwo
  <2> QED
    BY <2>2 DEF m
<1>4. last' \in -1..(Eras - 1)
  BY <1>1, <1>2, <1>3, Params
<1>5. era' = command.lo /\ command' = command /\ (Is({"extract"})' <=> Is({"extract"}))
  BY DEF Targets, Is
<1>6. CASE Is({"extract"})
  <2>1. at' = "resume"
    BY <1>6 DEF Targets
  <2>2. PlaceKept'
    BY <1>1, <1>5, <1>6, <2>1 DEF PlaceKept
  <2>3. MadeKept'
    <3>1. command.lo..(command.lo - 1) = {}
      BY <1>1
    <3> QED
      BY <1>5, <2>1, <3>1 DEF MadeKept
  <2>4. MachineKept'
    BY <2>1 DEF MachineKept, ExtractKept, machine
  <2> QED
    BY <1>1, <1>4, <1>5, <2>1, <2>2, <2>3, <2>4 DEF DoneWhole
<1>7. CASE ~Is({"extract"})
  <2>1. at' = "era"
    BY <1>7 DEF Targets
  <2>2. PlaceKept'
    BY <1>1, <1>5, <1>7, <2>1 DEF PlaceKept
  <2>3. MadeKept'
    <3>1. command.lo..(command.lo - 1) = {}
      BY <1>1
    <3> QED
      BY <1>5, <2>1, <3>1 DEF MadeKept
  <2> QED
    BY <1>1, <1>4, <1>5, <1>7, <2>1, <2>2, <2>3 DEF DoneWhole
<1> QED
  BY <1>6, <1>7

LEMMA ResolveLocalKept ==
  ASSUME DataInv, ResolveLocal
  PROVE  DataInv'
<1>1. listed \in 0..Eras /\ at = "resolve" /\ Targets(listed)
  BY Params DEF DataInv, DataTypeOK, ResolveLocal, NoList
<1>2. UNCHANGED <<files, replay, command, machine, runs>> /\ DataTypeOK /\ MachineKept
  BY DEF DataInv, ResolveLocal
<1>3. /\ era' \in Era /\ last' \in -1..(Eras - 1) /\ at' \in {"resume", "era"}
      /\ PlaceKept' /\ MadeKept' /\ DoneWhole'
      /\ at' = "resume" => MachineKept'
      /\ at' = "era" => ~Is({"extract"})'
  BY <1>1, <1>2, TargetsKept
<1>4. DataTypeOK'
  BY <1>2, <1>3 DEF DataTypeOK, files, replay, machine
<1>5. MachineKept'
  BY <1>3 DEF MachineKept
<1>6. ReplaySound'
  BY <1>2, ReplayStays DEF DataInv, replay
<1> QED
  BY <1>3, <1>4, <1>5, <1>6 DEF DataInv

LEMMA FetchListKept ==
  ASSUME DataInv, FetchList
  PROVE  DataInv'
<1>1. DataTypeOK'
  BY Params DEF DataInv, DataTypeOK, FetchList, NoList, replay, machine
<1>2. PlaceKept' /\ MadeKept' /\ DoneWhole'
  BY DEF FetchList, NoList, PlaceKept, MadeKept, DoneWhole
<1>3. MachineKept'
  BY DEF DataInv, FetchList, MachineKept, ExtractKept, machine
<1>4. ReplaySound'
  BY ReplayStays DEF DataInv, FetchList, replay
<1> QED
  BY <1>1, <1>2, <1>3, <1>4 DEF DataInv

LEMMA WriteListKept ==
  ASSUME DataInv, WriteList
  PROVE  DataInv'
<1>1. /\ at = "list" /\ listed \in 0..Eras /\ DataTypeOK /\ MachineKept
      /\ UNCHANGED <<archive, blocks, index, summary, replay, command, machine, runs>>
  BY Params DEF DataInv, DataTypeOK, PlaceKept, WriteList, NoList
<1>2. ReplaySound'
  BY <1>1, ReplayStays DEF DataInv, replay
<1>3. CASE listed < Eras
  <2>1. listed' = listed + 1 /\ UNCHANGED <<at, era, last>>
    BY <1>3 DEF WriteList
  <2>2. listed' \in NoList..Eras /\ listed' # NoList
    BY <1>1, <1>3, <2>1, Params DEF NoList
  <2>3. DataTypeOK'
    BY <1>1, <2>1, <2>2 DEF DataTypeOK, replay, machine
  <2>4. PlaceKept' /\ MadeKept' /\ DoneWhole'
    BY <1>1, <2>1, <2>2 DEF PlaceKept, MadeKept, DoneWhole
  <2>5. MachineKept'
    BY <1>1, <2>1 DEF MachineKept, ExtractKept, machine
  <2> QED
    BY <1>2, <2>3, <2>4, <2>5 DEF DataInv
<1>4. CASE ~ (listed < Eras)
  <2>1. listed' = listed /\ Targets(Eras) /\ Eras \in 0..Eras
    BY <1>4, Params DEF WriteList
  <2>2. /\ era' \in Era /\ last' \in -1..(Eras - 1) /\ at' \in {"resume", "era"}
        /\ PlaceKept' /\ MadeKept' /\ DoneWhole'
        /\ at' = "resume" => MachineKept'
        /\ at' = "era" => ~Is({"extract"})'
    BY <1>1, <2>1, TargetsKept
  <2>3. DataTypeOK'
    BY <1>1, <2>1, <2>2 DEF DataTypeOK, replay, machine
  <2>4. MachineKept'
    BY <2>2 DEF MachineKept
  <2> QED
    BY <1>2, <2>2, <2>3, <2>4 DEF DataInv
<1> QED
  BY <1>3, <1>4

LEMMA NoTargetKept ==
  ASSUME DataInv, NoTarget
  PROVE  DataInv'
<1>1. /\ at = "era" /\ era > last /\ at' = "done"
      /\ UNCHANGED <<files, replay, command, era, last, machine, runs>>
      /\ DataTypeOK /\ MadeKept
  BY DEF DataInv, NoTarget
<1>2. DataTypeOK'
  BY <1>1 DEF DataTypeOK, files, replay, machine
<1>3. PlaceKept' /\ MadeKept'
  BY <1>1 DEF PlaceKept, MadeKept
<1>4. MachineKept'
  BY <1>1 DEF MachineKept, ExtractKept
<1>5. DoneWhole'
  <2> SUFFICES ASSUME NEW e \in command.lo..last PROVE Made(e)'
    BY <1>1 DEF DoneWhole
  <2>1. e \in command.lo..(era - 1)
    BY <1>1, Targeted
  <2>2. Made(e)
    BY <1>1, <2>1 DEF MadeKept
  <2> QED
    BY <1>1, <2>2, MadeStays DEF files, replay
<1>6. ReplaySound'
  BY <1>1, ReplayStays DEF DataInv, replay
<1> QED
  BY <1>2, <1>3, <1>4, <1>5, <1>6 DEF DataInv

-----------------------------------------------------------------------------
(* An era's archive and files.                                             *)

\* While an era is being made, those before it stay.
LEMMA EarlierStay ==
  ASSUME DataTypeOK, MadeKept, at \notin {"idle", "resolve", "list", "done"}, command' = command,
         \A e \in Era : e # era =>
           /\ archive'[e] = archive[e] /\ blocks'[e] = blocks[e] /\ index'[e] = index[e]
           /\ summary'[e] = summary[e] /\ events'[e] = events[e] /\ checkpoint'[e] = checkpoint[e]
  PROVE  \A e \in command.lo..(era - 1) : Made(e)'
<1> SUFFICES ASSUME NEW e \in command.lo..(era - 1) PROVE Made(e)'
  OBVIOUS
<1>1. e \in Era /\ e # era
  BY Targeted, Params DEF Era
<1>2. Made(e)
  BY DEF MadeKept
<1> QED
  BY <1>1, <1>2, MadeStays

LEMMA UseCachedKept ==
  ASSUME DataInv, UseCached
  PROVE  DataInv'
<1>1. /\ at = "cache" /\ archive[era] # NoArchive /\ Downloaded
      /\ UNCHANGED <<files, replay, command, last, machine, runs>>
      /\ DataTypeOK /\ PlaceKept /\ MadeKept /\ MachineKept
  BY DEF DataInv, UseCached
<1>2. ReplaySound'
  BY <1>1, ReplayStays DEF DataInv, replay
<1>3. \A e \in command.lo..(era - 1) : Made(e)'
  BY <1>1, EarlierStay DEF files, replay
<1>4. command.lo <= era /\ era <= last
  BY <1>1 DEF PlaceKept
<1>5. CASE Is({"download"})
  <2>1. NextEra /\ command.name = "download"
    BY <1>1, <1>5 DEF Downloaded, Is
  <2>2. \A e \in command.lo..era : Made(e)'
    <3> TAKE e \in command.lo..era
    <3>1. CASE e = era
      BY <1>1, <2>1, <3>1 DEF Made, Is, files
    <3>2. CASE e # era
      <4>1. e \in command.lo..(era - 1)
        BY <1>1, <3>2, Targeted
      <4> QED
        BY <1>3, <4>1
    <3> QED
      BY <3>1, <3>2
  <2>3. era' \in Era /\ at' \in {"era", "done"} /\ PlaceKept' /\ MadeKept' /\ DoneWhole'
    BY <1>1, <1>4, <2>1, <2>2, NextEraKept
  <2>4. DataTypeOK'
    BY <1>1, <2>3 DEF DataTypeOK, files, replay, machine
  <2>5. MachineKept'
    BY <1>1, <2>1, <2>3 DEF MachineKept, Is
  <2> QED
    BY <1>2, <2>3, <2>4, <2>5 DEF DataInv
<1>6. CASE ~Is({"download"})
  <2>1. at' = "archive" /\ era' = era
    BY <1>1, <1>6 DEF Downloaded
  <2>2. DataTypeOK'
    BY <1>1, <2>1 DEF DataTypeOK, files, replay, machine
  <2>3. PlaceKept' /\ DoneWhole'
    BY <1>1, <1>4, <2>1 DEF PlaceKept, DoneWhole
  <2>4. MadeKept'
    BY <1>1, <1>3, <2>1 DEF MadeKept
  <2>5. MachineKept'
    BY <1>1, <2>1 DEF MachineKept, ExtractKept, MachineAt, Is, machine, replay
  <2> QED
    BY <1>2, <2>2, <2>3, <2>4, <2>5 DEF DataInv
<1> QED
  BY <1>5, <1>6

LEMMA FetchArchiveKept ==
  ASSUME DataInv, FetchArchive
  PROVE  DataInv'
<1>1. /\ at = "cache" /\ at' = "fetch"
      /\ UNCHANGED <<listed, blocks, index, summary, replay, command, era, last, machine, runs>>
      /\ DataTypeOK /\ PlaceKept /\ MadeKept /\ MachineKept /\ era \in Era
  BY Targeted DEF DataInv, FetchArchive
<1>2. PICK n \in Cuts, part \in BOOLEAN : archive' = [archive EXCEPT ![era] = Archive(n, part)]
  BY DEF FetchArchive
<1>3. archive' \in [Era -> Archives]
  BY <1>1, <1>2, ArchiveTypes, Replaced DEF DataTypeOK
<1>4. DataTypeOK'
  BY <1>1, <1>3 DEF DataTypeOK, replay, machine
<1>5. PlaceKept' /\ DoneWhole'
  BY <1>1 DEF PlaceKept, DoneWhole, Is
<1>6. MadeKept'
  <2>1. \A e \in Era : e # era => archive'[e] = archive[e]
    BY <1>1, <1>2 DEF DataTypeOK
  <2>2. \A e \in command.lo..(era - 1) : Made(e)'
    BY <1>1, <2>1, EarlierStay DEF replay
  <2> QED
    BY <1>1, <2>2 DEF MadeKept
<1>7. MachineKept'
  BY <1>1 DEF MachineKept, ExtractKept, MachineAt, Is, machine, replay
<1>8. ReplaySound'
  BY <1>1, ReplayStays DEF DataInv, replay
<1> QED
  BY <1>4, <1>5, <1>6, <1>7, <1>8 DEF DataInv

LEMMA ArchiveWrittenKept ==
  ASSUME DataInv, ArchiveWritten
  PROVE  DataInv'
<1>1. /\ at = "fetch" /\ archive' = [archive EXCEPT ![era] = WholeArchive] /\ Downloaded
      /\ UNCHANGED <<listed, blocks, index, summary, replay, command, last, machine, runs>>
      /\ DataTypeOK /\ PlaceKept /\ MadeKept /\ MachineKept /\ era \in Era
  BY Targeted DEF DataInv, ArchiveWritten
<1>2. archive' \in [Era -> Archives] /\ archive'[era] # NoArchive
  BY <1>1, ArchiveTypes, Replaced DEF DataTypeOK
<1>3. ReplaySound'
  BY <1>1, ReplayStays DEF DataInv, replay
<1>4. \A e \in command.lo..(era - 1) : Made(e)'
  <2>1. \A e \in Era : e # era => archive'[e] = archive[e]
    BY <1>1 DEF DataTypeOK
  <2> QED
    BY <1>1, <2>1, EarlierStay DEF replay
<1>5. command.lo <= era /\ era <= last
  BY <1>1 DEF PlaceKept
<1>6. CASE Is({"download"})
  <2>1. NextEra /\ command.name = "download"
    BY <1>1, <1>6 DEF Downloaded, Is
  <2>2. \A e \in command.lo..era : Made(e)'
    <3> TAKE e \in command.lo..era
    <3>1. CASE e = era
      BY <1>1, <1>2, <2>1, <3>1 DEF Made, Is
    <3>2. CASE e # era
      <4>1. e \in command.lo..(era - 1)
        BY <1>1, <3>2, Targeted
      <4> QED
        BY <1>4, <4>1
    <3> QED
      BY <3>1, <3>2
  <2>3. era' \in Era /\ at' \in {"era", "done"} /\ PlaceKept' /\ MadeKept' /\ DoneWhole'
    BY <1>1, <1>5, <2>1, <2>2, NextEraKept
  <2>4. DataTypeOK'
    BY <1>1, <1>2, <2>3 DEF DataTypeOK, replay, machine
  <2>5. MachineKept'
    BY <1>1, <2>1, <2>3 DEF MachineKept, Is
  <2> QED
    BY <1>3, <2>3, <2>4, <2>5 DEF DataInv
<1>7. CASE ~Is({"download"})
  <2>1. at' = "archive" /\ era' = era
    BY <1>1, <1>7 DEF Downloaded
  <2>2. DataTypeOK'
    BY <1>1, <1>2, <2>1 DEF DataTypeOK, replay, machine
  <2>3. PlaceKept' /\ DoneWhole'
    BY <1>1, <1>5, <2>1 DEF PlaceKept, DoneWhole
  <2>4. MadeKept'
    BY <1>1, <1>4, <2>1 DEF MadeKept
  <2>5. MachineKept'
    BY <1>1, <2>1 DEF MachineKept, ExtractKept, MachineAt, Is, machine, replay
  <2> QED
    BY <1>3, <2>2, <2>3, <2>4, <2>5 DEF DataInv
<1> QED
  BY <1>6, <1>7

LEMMA OpenArchiveKept ==
  ASSUME DataInv, OpenArchive
  PROVE  DataInv'
<1>1. /\ at = "archive" /\ Readable
      /\ UNCHANGED <<listed, archive, summary, replay, command, era, last, machine, runs>>
      /\ DataTypeOK /\ PlaceKept /\ MadeKept /\ MachineKept /\ era \in Era
  BY Targeted DEF DataInv, OpenArchive
<1>2. archive[era] = WholeArchive
  BY <1>1, OpensWhole DEF Readable, DataTypeOK
<1>3. ReplaySound'
  BY <1>1, ReplayStays DEF DataInv, replay
<1>4. CASE Is({"extract"})
  <2>1. at' = "blocks" /\ UNCHANGED <<blocks, index>>
    BY <1>4 DEF OpenArchive
  <2>2. DataTypeOK'
    BY <1>1, <2>1 DEF DataTypeOK, replay, machine
  <2>3. PlaceKept' /\ DoneWhole'
    BY <1>1, <1>4, <2>1 DEF PlaceKept, DoneWhole, Is
  <2>4. MadeKept'
    <3>1. \A e \in command.lo..(era - 1) : Made(e)'
      BY <1>1, <2>1, EarlierStay DEF replay
    <3> QED
      BY <1>1, <1>2, <2>1, <3>1 DEF MadeKept
  <2>5. MachineKept'
    BY <1>1, <2>1 DEF MachineKept, ExtractKept, MachineAt, Is, machine, replay
  <2> QED
    BY <1>3, <2>2, <2>3, <2>4, <2>5 DEF DataInv
<1>5. CASE ~Is({"extract"})
  <2>1. /\ at' = "lines"
        /\ blocks' = [blocks EXCEPT ![era] = File(0, FALSE)]
        /\ index' = [index EXCEPT ![era] = File(0, FALSE)]
    BY <1>5 DEF OpenArchive
  <2>2. DataTypeOK'
    <3>1. File(0, FALSE) \in Files
      BY Params DEF File, Files
    <3>2. blocks' \in [Era -> Files] /\ index' \in [Era -> Files]
      BY <1>1, <2>1, <3>1, Replaced DEF DataTypeOK
    <3> QED
      BY <1>1, <2>1, <3>2 DEF DataTypeOK, replay, machine
  <2>3. PlaceKept' /\ DoneWhole'
    BY <1>1, <1>5, <2>1 DEF PlaceKept, DoneWhole, Is
  <2>4. MadeKept'
    <3>1. \A e \in Era : e # era => blocks'[e] = blocks[e] /\ index'[e] = index[e]
      BY <1>1, <2>1 DEF DataTypeOK
    <3>2. \A e \in command.lo..(era - 1) : Made(e)'
      BY <1>1, <3>1, EarlierStay DEF replay
    <3> QED
      BY <1>1, <1>2, <2>1, <3>2 DEF MadeKept
  <2>5. MachineKept'
    BY <1>1, <1>5, <2>1 DEF MachineKept, Is
  <2> QED
    BY <1>3, <2>2, <2>3, <2>4, <2>5 DEF DataInv
<1> QED
  BY <1>4, <1>5

\* A file that grows is no more than whole.
LEMMA GrownFile ==
  ASSUME NEW f \in Files, f # Whole
  PROVE  Grown(f) \in Files
<1>1. /\ f.lines \in 0..PerEra /\ f.part \in BOOLEAN /\ (f.part => f.lines < PerEra)
      /\ f = [lines |-> f.lines, part |-> f.part]
  BY DEF Files
<1>2. f.lines # PerEra
  BY <1>1 DEF Whole, File
<1>3. CASE f.part
  BY <1>1, <1>3, Params DEF Grown, File, Files
<1>4. CASE ~f.part
  BY <1>1, <1>2, <1>4, Params DEF Grown, File, Files
<1> QED
  BY <1>3, <1>4

LEMMA WriteBlocksKept ==
  ASSUME DataInv, WriteBlocks
  PROVE  DataInv'
<1>1. /\ at = "lines" /\ blocks[era] # Whole
      /\ blocks' = [blocks EXCEPT ![era] = Grown(blocks[era])]
      /\ UNCHANGED <<listed, archive, index, summary, replay, process, machine, runs>>
      /\ DataTypeOK /\ PlaceKept /\ MadeKept /\ MachineKept /\ era \in Era
  BY Targeted DEF DataInv, WriteBlocks
<1>2. DataTypeOK'
  <2>1. blocks' \in [Era -> Files]
    BY <1>1, GrownFile, Replaced DEF DataTypeOK
  <2> QED
    BY <1>1, <2>1 DEF DataTypeOK, replay, process, machine
<1>3. PlaceKept' /\ DoneWhole'
  BY <1>1 DEF PlaceKept, DoneWhole, Is, process
<1>4. MadeKept'
  <2>1. \A e \in Era : e # era => blocks'[e] = blocks[e]
    BY <1>1 DEF DataTypeOK
  <2>2. \A e \in command.lo..(era - 1) : Made(e)'
    BY <1>1, <2>1, EarlierStay DEF replay, process
  <2> QED
    BY <1>1, <2>2 DEF MadeKept, process
<1>5. MachineKept'
  BY <1>1 DEF MachineKept, Is, PlaceKept, process
<1>6. ReplaySound'
  BY <1>1, ReplayStays DEF DataInv, replay
<1> QED
  BY <1>2, <1>3, <1>4, <1>5, <1>6 DEF DataInv

LEMMA WriteIndexKept ==
  ASSUME DataInv, WriteIndex
  PROVE  DataInv'
<1>1. /\ at = "lines" /\ index[era] # Whole
      /\ index' = [index EXCEPT ![era] = Grown(index[era])]
      /\ UNCHANGED <<listed, archive, blocks, summary, replay, process, machine, runs>>
      /\ DataTypeOK /\ PlaceKept /\ MadeKept /\ MachineKept /\ era \in Era
  BY Targeted DEF DataInv, WriteIndex
<1>2. DataTypeOK'
  <2>1. index' \in [Era -> Files]
    BY <1>1, GrownFile, Replaced DEF DataTypeOK
  <2> QED
    BY <1>1, <2>1 DEF DataTypeOK, replay, process, machine
<1>3. PlaceKept' /\ DoneWhole'
  BY <1>1 DEF PlaceKept, DoneWhole, Is, process
<1>4. MadeKept'
  <2>1. \A e \in Era : e # era => index'[e] = index[e]
    BY <1>1 DEF DataTypeOK
  <2>2. \A e \in command.lo..(era - 1) : Made(e)'
    BY <1>1, <2>1, EarlierStay DEF replay, process
  <2> QED
    BY <1>1, <2>2 DEF MadeKept, process
<1>5. MachineKept'
  BY <1>1 DEF MachineKept, Is, PlaceKept, process
<1>6. ReplaySound'
  BY <1>1, ReplayStays DEF DataInv, replay
<1> QED
  BY <1>2, <1>3, <1>4, <1>5, <1>6 DEF DataInv

LEMMA CloseStreamsKept ==
  ASSUME DataInv, CloseStreams
  PROVE  DataInv'
<1>1. /\ at = "lines" /\ blocks[era] = Whole /\ index[era] = Whole /\ at' = "summary"
      /\ summary' = [summary EXCEPT ![era] = "part"]
      /\ UNCHANGED <<listed, archive, blocks, index, replay, command, era, last, machine, runs>>
      /\ DataTypeOK /\ PlaceKept /\ MadeKept /\ MachineKept /\ era \in Era
  BY Targeted DEF DataInv, CloseStreams
<1>2. DataTypeOK'
  <2>1. summary' \in [Era -> {"absent", "part", "whole"}]
    BY <1>1, Replaced DEF DataTypeOK
  <2> QED
    BY <1>1, <2>1 DEF DataTypeOK, replay, machine
<1>3. PlaceKept' /\ DoneWhole'
  BY <1>1 DEF PlaceKept, DoneWhole, Is
<1>4. MadeKept'
  <2>1. \A e \in Era : e # era => summary'[e] = summary[e]
    BY <1>1 DEF DataTypeOK
  <2>2. \A e \in command.lo..(era - 1) : Made(e)'
    BY <1>1, <2>1, EarlierStay DEF replay
  <2> QED
    BY <1>1, <2>2 DEF MadeKept
<1>5. MachineKept'
  BY <1>1 DEF MachineKept, Is, PlaceKept
<1>6. ReplaySound'
  BY <1>1, ReplayStays DEF DataInv, replay
<1> QED
  BY <1>2, <1>3, <1>4, <1>5, <1>6 DEF DataInv

LEMMA WriteSummaryKept ==
  ASSUME DataInv, WriteSummary
  PROVE  DataInv'
<1>1. /\ at = "summary" /\ NextEra
      /\ summary' = [summary EXCEPT ![era] = "whole"]
      /\ UNCHANGED <<listed, archive, blocks, index, replay, command, last, machine, runs>>
      /\ DataTypeOK /\ PlaceKept /\ MadeKept /\ MachineKept /\ era \in Era
  BY Targeted DEF DataInv, WriteSummary
<1>2. summary' \in [Era -> {"absent", "part", "whole"}] /\ summary'[era] = "whole"
  BY <1>1, Replaced DEF DataTypeOK
<1>3. ~Is({"extract"}) /\ command.lo <= era /\ era <= last
  BY <1>1 DEF PlaceKept
<1>4. \A e \in command.lo..(era - 1) : Made(e)'
  <2>1. \A e \in Era : e # era => summary'[e] = summary[e]
    BY <1>1 DEF DataTypeOK
  <2> QED
    BY <1>1, <2>1, EarlierStay DEF replay
<1>5. \A e \in command.lo..era : Made(e)'
  <2> TAKE e \in command.lo..era
  <2>1. CASE e = era
    BY <1>1, <1>2, <1>3, <2>1, ArchiveTypes DEF Made, Is, MadeKept
  <2>2. CASE e # era
    <3>1. e \in command.lo..(era - 1)
      BY <1>1, <2>2, Targeted
    <3> QED
      BY <1>4, <3>1
  <2> QED
    BY <2>1, <2>2
<1>6. era' \in Era /\ at' \in {"era", "done"} /\ PlaceKept' /\ MadeKept' /\ DoneWhole'
  BY <1>1, <1>3, <1>5, NextEraKept
<1>7. DataTypeOK'
  BY <1>1, <1>2, <1>6 DEF DataTypeOK, replay, machine
<1>8. MachineKept'
  BY <1>1, <1>3, <1>6 DEF MachineKept, Is
<1>9. ReplaySound'
  BY <1>1, ReplayStays DEF DataInv, replay
<1> QED
  BY <1>6, <1>7, <1>8, <1>9 DEF DataInv

-----------------------------------------------------------------------------
(* extract().                                                              *)

LEMMA GenesisIsBlock ==
  /\ 0 \in Block /\ After(0) \in Seq(Block)
<1>1. 0 \in Era
  BY Params DEF Era
<1>2. 0 * PerEra = 0 /\ Eras * PerEra >= PerEra /\ Eras * PerEra \in Nat
  BY <1>1, EraFacts, Params
<1>3. 0 \in Block
  BY <1>2, Params DEF Block
<1> QED
  BY <1>3, AfterFacts

LEMMA BeginEraKept ==
  ASSUME DataInv, BeginEra
  PROVE  DataInv'
<1>1. /\ at = "era" /\ era <= last
      /\ at' = IF Is({"process"}) THEN "archive" ELSE "cache"
      /\ UNCHANGED <<files, checkpoint, trie, chain, command, era, last, state, runs>>
      /\ DataTypeOK /\ PlaceKept /\ MadeKept /\ MachineKept /\ ReplaySound /\ era \in Era
  BY Targeted DEF DataInv, BeginEra
<1>2. at' \in {"archive", "cache"} /\ (Is({"extract"}) => at' = "cache")
  BY <1>1 DEF Is
<1>3. PlaceKept' /\ DoneWhole'
  BY <1>1, <1>2 DEF PlaceKept, DoneWhole, Is
<1>4. CASE Is({"extract"})
  <2> DEFINE base == era * PerEra
  <2>1. OpenOutput /\ events' = [events EXCEPT ![era] = <<>>]
    BY <1>4 DEF BeginEra, OpenOutput
  <2>2. events' \in [Era -> Seq(Seq(Block))] /\ events'[era] = <<>> /\ Len(events'[era]) = 0
    BY <1>1, <2>1, Replaced DEF DataTypeOK
  <2>3. \A e \in Era : e # era => events'[e] = events[e]
    BY <1>1, <2>1 DEF DataTypeOK
  <2>4. After(0) \in Seq(Block)
    BY GenesisIsBlock
  <2>5. DataTypeOK'
    <3>1. emitted' \in Seq(Seq(Block))
      <4>1. emitted' = <<After(0)>> \/ emitted' = <<>>
        BY <2>1 DEF OpenOutput
      <4>2. CASE emitted' = <<After(0)>>
        <5> DEFINE genesis == After(0)
        <5>1. genesis \in Seq(Block) /\ emitted' = <<genesis>>
          BY <2>4, <4>2
        <5> HIDE DEF genesis
        <5> QED
          BY <5>1
      <4>3. CASE emitted' = <<>>
        BY <4>3
      <4> QED
        BY <4>1, <4>2, <4>3
    <3>2. total' \in Nat
      BY <1>1, <2>1 DEF OpenOutput, DataTypeOK
    <3> QED
      BY <1>1, <1>2, <2>2, <3>1, <3>2 DEF DataTypeOK, files
  <2>6. MadeKept'
    <3>1. \A e \in command.lo..(era - 1) : Made(e)'
      BY <1>1, <2>3, EarlierStay DEF files
    <3> QED
      BY <1>1, <1>2, <3>1 DEF MadeKept
  <2>7. ReplaySound'
    <3> SUFFICES ASSUME NEW e \in Era
                 PROVE  /\ IsPrefix(events'[e], EventsOf(e))
                        /\ checkpoint[e] # NoCheckpoint =>
                             LET b == Max(BlocksOf(e))
                             IN /\ checkpoint[e] = [last |-> b, root |-> After(b), total |-> b + 1]
                                /\ After(b) \in trie
                                /\ 0..b \subseteq chain
      BY <1>1 DEF ReplaySound
    <3>1. IsPrefix(events'[e], EventsOf(e))
      <4>1. CASE e = era
        <5> DEFINE none == events'[e]
        <5>1. none \in Seq(Seq(Block)) /\ Len(none) = 0
          BY <2>2, <4>1
        <5> HIDE DEF none
        <5>2. Len(none) <= PerEra /\ 1..Len(none) = {}
          BY <5>1, Params
        <5>3. IsPrefix(none, EventsOf(e))
          BY <5>1, <5>2, PrefixOfEvents
        <5> QED
          BY <5>3 DEF none
      <4>2. CASE e # era
        BY <1>1, <2>3, <4>2 DEF ReplaySound
      <4> QED
        BY <4>1, <4>2
    <3> QED
      BY <1>1, <3>1 DEF ReplaySound
  <2>8. MachineAt(base) /\ 0 \in chain
    BY <1>1, <1>4 DEF MachineKept, ExtractKept
  <2>9. base \in Nat /\ (era = 0 => base = 0)
    BY <1>1, EraFacts
  <2>10. ExtractKept'
    <3>1. CASE era = 0
      <4>1. emitted' = <<After(0)>> /\ total' = total + 1 /\ era' = 0
        BY <1>1, <2>1, <3>1 DEF OpenOutput
      <4>2. Len(emitted') = 1 /\ \A i \in DOMAIN emitted' : i = 1 /\ emitted'[i] = After(0)
        BY <4>1
      <4>3. 0 * PerEra = 0
        BY Params
      <4>4. \A i \in DOMAIN emitted' : emitted'[i] = After(0 * PerEra + i - 1)
        BY <4>2, <4>3
      <4>5. MachineAt(1)'
        BY <1>1, <2>8, <2>9, <3>1, <4>1 DEF MachineAt
      <4>6. 0 * PerEra + Len(emitted') = 1
        BY <4>2, <4>3
      <4> QED
        BY <1>1, <1>2, <2>2, <4>1, <4>2, <4>4, <4>5, <4>6, Params DEF ExtractKept
    <3>2. CASE era # 0
      <4>1. emitted' = <<>> /\ total' = total
        BY <1>1, <2>1, <3>2 DEF OpenOutput
      <4>2. Len(emitted') = 0 /\ DOMAIN emitted' = {}
        BY <4>1
      <4>3. MachineAt(base)'
        BY <1>1, <2>8, <4>1 DEF MachineAt
      <4>4. base + Len(emitted') = base
        BY <2>9, <4>2
      <4> QED
        BY <1>1, <1>2, <2>2, <3>2, <4>2, <4>3, <4>4, Params DEF ExtractKept
    <3> QED
      BY <3>1, <3>2
  <2>11. MachineKept'
    BY <1>2, <2>10 DEF MachineKept
  <2> QED
    BY <1>3, <2>5, <2>6, <2>7, <2>11 DEF DataInv
<1>5. CASE ~Is({"extract"})
  <2>1. UNCHANGED <<events, emitted, total>>
    BY <1>5 DEF BeginEra
  <2>2. DataTypeOK'
    BY <1>1, <1>2, <2>1 DEF DataTypeOK, files
  <2>3. MadeKept'
    <3>1. \A e \in command.lo..(era - 1) : Made(e)'
      BY <1>1, <2>1, EarlierStay DEF files
    <3> QED
      BY <1>1, <1>2, <3>1 DEF MadeKept
  <2>4. MachineKept'
    BY <1>1, <1>2, <1>5 DEF MachineKept, Is
  <2>5. ReplaySound'
    BY <1>1, <2>1, ReplayStays
  <2> QED
    BY <1>3, <2>2, <2>3, <2>4, <2>5 DEF DataInv
<1> QED
  BY <1>4, <1>5

LEMMA FromGenesisKept ==
  ASSUME DataInv, FromGenesis
  PROVE  DataInv'
<1>1. /\ at = "resume" /\ command.lo = 0 /\ at' = "era"
      /\ state' = After(0) /\ trie' = trie \cup {After(0)} /\ chain' = chain \cup {0}
      /\ UNCHANGED <<files, events, checkpoint, command, era, last, emitted, total, runs>>
      /\ DataTypeOK /\ PlaceKept /\ MadeKept /\ MachineKept /\ era \in Era
  BY Targeted DEF DataInv, FromGenesis
<1>2. era = 0 /\ total = 0 /\ Is({"extract"})
  BY <1>1 DEF PlaceKept, MachineKept
<1>3. DataTypeOK'
  BY <1>1, GenesisIsBlock DEF DataTypeOK, files
<1>4. PlaceKept' /\ DoneWhole'
  BY <1>1, <1>2 DEF PlaceKept, DoneWhole
<1>5. MadeKept'
  <2>1. \A e \in command.lo..(era - 1) : Made(e)'
    BY <1>1, EarlierStay DEF files
  <2> QED
    BY <1>1, <2>1 DEF MadeKept
<1>6. MachineKept'
  <2>1. MachineAt(0)'
    BY <1>1, <1>2 DEF MachineAt
  <2>2. 0 * PerEra = 0
    BY Params
  <2>3. ExtractKept'
    BY <1>1, <1>2, <2>1, <2>2 DEF ExtractKept
  <2> QED
    BY <1>1, <2>3 DEF MachineKept
<1>7. ReplaySound'
  BY <1>1, ReplayStays DEF DataInv
<1> QED
  BY <1>3, <1>4, <1>5, <1>6, <1>7 DEF DataInv

LEMMA FromCheckpointKept ==
  ASSUME DataInv, FromCheckpoint
  PROVE  DataInv'
<1> DEFINE base == command.lo * PerEra
<1>1. /\ at = "resume" /\ command.lo > 0 /\ ~NoResume /\ at' = "era"
      /\ state' = checkpoint[Previous].root /\ total' = checkpoint[Previous].total
      /\ chain' = chain \cup {0}
      /\ UNCHANGED <<files, events, checkpoint, trie, command, era, last, emitted, runs>>
      /\ DataTypeOK /\ PlaceKept /\ MadeKept /\ MachineKept /\ ReplaySound /\ era \in Era
  BY Targeted DEF DataInv, FromCheckpoint
<1>2. era = command.lo /\ Is({"extract"})
  BY <1>1 DEF PlaceKept
<1>3. Previous \in Era /\ checkpoint[Previous] # NoCheckpoint
  BY <1>1, Targeted, Params DEF NoResume, Previous, Era
<1>4. Max(BlocksOf(Previous)) = base - 1 /\ base \in Nat /\ base > 0 /\ base - 1 \in Block
  <2> DEFINE p == Previous * PerEra
  <2>1. Max(BlocksOf(Previous)) = p + PerEra - 1 /\ p + PerEra - 1 \in Block /\ p \in Nat
    BY <1>3, BlocksOfFacts, EraFacts
  <2>2. p + PerEra = base /\ base >= PerEra /\ base \in Nat
    BY <1>1, <1>2, EraFacts DEF Previous
  <2> HIDE DEF base, p
  <2>3. base > 0 /\ p + PerEra - 1 = base - 1
    BY <2>1, <2>2, Params
  <2> QED
    BY <2>1, <2>2, <2>3
<1> HIDE DEF base
<1>5. /\ checkpoint[Previous] = [last |-> base - 1, root |-> After(base - 1), total |-> (base - 1) + 1]
      /\ 0..(base - 1) \subseteq chain
  BY <1>1, <1>3, <1>4 DEF ReplaySound
<1>6. state' = After(base - 1) /\ total' = base
  BY <1>1, <1>4, <1>5
<1>7. DataTypeOK'
  <2>1. state' \in Seq(Block)
    BY <1>4, <1>6, AfterFacts
  <2>2. total' \in Nat
    BY <1>4, <1>6
  <2> QED
    BY <1>1, <2>1, <2>2, GenesisIsBlock DEF DataTypeOK, files
<1>8. PlaceKept' /\ DoneWhole'
  BY <1>1, <1>2, Targeted DEF PlaceKept, DoneWhole
<1>9. MadeKept'
  <2>1. \A e \in command.lo..(era - 1) : Made(e)'
    BY <1>1, EarlierStay DEF files
  <2> QED
    BY <1>1, <2>1 DEF MadeKept
<1>10. MachineKept'
  <2>1. (era * PerEra)' = base
    BY <1>1, <1>2 DEF base
  <2>2. MachineAt(era * PerEra)'
    BY <1>1, <1>4, <1>5, <1>6, <2>1 DEF MachineAt
  <2>3. ExtractKept'
    BY <1>1, <2>2 DEF ExtractKept
  <2> QED
    BY <1>1, <2>3 DEF MachineKept
<1>11. ReplaySound'
  BY <1>1, ReplayStays
<1> QED
  BY <1>7, <1>8, <1>9, <1>10, <1>11 DEF DataInv

LEMMA RefuseKept ==
  ASSUME DataInv, Refuse \/ EndCommand \/ Crash
  PROVE  DataInv'
<1>1. Forget /\ UNCHANGED <<files, replay, runs>>
  BY DEF Refuse, EndCommand, Crash
<1> QED
  BY <1>1, Forgotten

\* While blocks are executed: the state is that after the last of them, and the
\* others are those that have no events yet.
LEMMA Executing ==
  ASSUME DataInv, at \in {"blocks", "root", "rename"}
  PROVE  /\ era \in Era /\ Is({"extract"}) /\ archive[era] = WholeArchive
         /\ emitted \in Seq(Seq(Block)) /\ Len(emitted) \in 0..PerEra
         /\ era * PerEra + Len(emitted) \in Nat /\ era * PerEra + Len(emitted) > 0
         /\ \A i \in 1..Len(emitted) : emitted[i] = After(era * PerEra + i - 1)
         /\ MachineAt(era * PerEra + Len(emitted))
         /\ Len(events[era]) <= Len(emitted) /\ events[era] \in Seq(Seq(Block))
<1> DEFINE base == era * PerEra
           n == Len(emitted)
<1>1. DataTypeOK /\ PlaceKept /\ MadeKept /\ MachineKept /\ era \in Era
  BY Targeted DEF DataInv
<1>2. Is({"extract"}) /\ archive[era] = WholeArchive
  BY <1>1 DEF PlaceKept, MadeKept
<1>3. emitted \in Seq(Seq(Block)) /\ n \in Nat /\ events[era] \in Seq(Seq(Block))
  BY <1>1 DEF DataTypeOK
<1>4. /\ n <= PerEra /\ (era = 0 => n > 0)
      /\ \A i \in DOMAIN emitted : emitted[i] = After(era * PerEra + i - 1)
      /\ Len(events[era]) <= Len(emitted)
      /\ MachineAt(era * PerEra + Len(emitted))
  BY <1>1, <1>2 DEF MachineKept, ExtractKept
<1>6. base \in Nat /\ (era # 0 => base >= PerEra) /\ era \in Nat
  BY <1>1, EraFacts
<1>7. DOMAIN emitted = 1..Len(emitted)
  BY <1>3
<1>8. \A i \in 1..Len(emitted) : emitted[i] = After(era * PerEra + i - 1)
  BY <1>4, <1>7
<1> HIDE DEF base, n
<1>9. n \in 0..PerEra /\ base + n \in Nat /\ base + n > 0
  BY <1>3, <1>4, <1>6, Params
<1> QED
  BY <1>1, <1>2, <1>3, <1>4, <1>8, <1>9 DEF base, n

LEMMA RemainingIs ==
  ASSUME DataInv, at = "blocks"
  PROVE  Remaining = (era * PerEra + Len(emitted))..(era * PerEra + PerEra - 1)
<1> DEFINE base == era * PerEra
           n == Len(emitted)
           final(i) == emitted[i][Len(emitted[i])]
<1>1. /\ era \in Era /\ n \in 0..PerEra /\ base + n > 0 /\ emitted \in Seq(Seq(Block))
      /\ \A i \in 1..n : emitted[i] = After(base + i - 1)
  BY Executing
<1>2. base \in Nat
  BY <1>1, EraFacts
<1>3. DOMAIN emitted = 1..n
  BY <1>1
<1>4. Remaining = {b \in (base..(base + PerEra - 1)) \ {0} : \A i \in DOMAIN emitted : final(i) # b}
  BY DEF Remaining, Executed, BlocksOf
<1> HIDE DEF base, n
<1>5. \A i \in 1..n : final(i) = base + i - 1
  <2> TAKE i \in 1..n
  <2> DEFINE b == base + i - 1
  <2>1. b \in Nat /\ emitted[i] = After(b)
    BY <1>1, <1>2
  <2> HIDE DEF b
  <2>2. final(i) = b
    BY <2>1, AfterFacts
  <2> QED
    BY <2>2 DEF b
<1> HIDE DEF final
<1>6. ASSUME NEW b \in (base + n)..(base + PerEra - 1) PROVE b \in Remaining
  <2>1. b \in base..(base + PerEra - 1) /\ b # 0
    BY <1>1, <1>2, Params
  <2>2. \A i \in DOMAIN emitted : final(i) # b
    BY <1>1, <1>2, <1>3, <1>5, Params
  <2> QED
    BY <1>4, <2>1, <2>2
<1>7. ASSUME NEW b \in Remaining PROVE b \in (base + n)..(base + PerEra - 1)
  <2>1. b \in base..(base + PerEra - 1) /\ \A i \in DOMAIN emitted : final(i) # b
    BY <1>4
  <2>2. ~ (b < base + n)
    <3> SUFFICES ASSUME b < base + n PROVE FALSE
      OBVIOUS
    <3>1. b - base + 1 \in 1..n /\ base + (b - base + 1) - 1 = b
      BY <1>1, <1>2, <2>1, Params
    <3> DEFINE i == b - base + 1
    <3> HIDE DEF i
    <3>2. i \in 1..n /\ base + i - 1 = b
      BY <3>1 DEF i
    <3>3. final(i) = b
      BY <1>5, <3>2
    <3> QED
      BY <1>3, <2>1, <3>2, <3>3
  <2> QED
    BY <1>1, <1>2, <2>1, <2>2, Params
<1>8. Remaining = (base + n)..(base + PerEra - 1)
  BY <1>6, <1>7
<1> QED
  BY <1>8 DEF base, n

LEMMA RunBlockKept ==
  ASSUME DataInv, RunBlock
  PROVE  DataInv'
<1> DEFINE base == era * PerEra
           n == Len(emitted)
           b == base + n
<1>1. /\ at = "blocks" /\ Remaining # {} /\ total' = total + 1
      /\ UNCHANGED <<files, events, checkpoint, trie, process, runs>>
      /\ DataTypeOK /\ PlaceKept /\ MadeKept /\ MachineKept
  BY DEF DataInv, RunBlock
<1>2. /\ era \in Era /\ n \in 0..PerEra /\ b \in Nat /\ b > 0 /\ emitted \in Seq(Seq(Block))
      /\ \A i \in 1..n : emitted[i] = After(base + i - 1)
      /\ MachineAt(b)
      /\ Len(events[era]) <= n /\ events[era] \in Seq(Seq(Block)) /\ Is({"extract"})
  BY <1>1, Executing
<1>3. base \in Nat /\ base + PerEra <= Eras * PerEra /\ Eras * PerEra \in Nat /\ PerEra \in Nat
  BY <1>2, EraFacts, Params
<1>4. Remaining = b..(base + PerEra - 1)
  BY <1>1, RemainingIs
<1> HIDE DEF base, n, b
<1>5. state = After(b - 1) /\ total = b /\ 0..(b - 1) \subseteq chain
  BY <1>2 DEF MachineAt
<1>6. b <= base + PerEra - 1 /\ b = base + n /\ n < PerEra
  <2>1. b = base + n
    BY DEF b
  <2>2. b <= base + PerEra - 1
    BY <1>1, <1>2, <1>3, <1>4
  <2> QED
    BY <1>2, <1>3, <2>1, <2>2
<1>7. Min(Remaining) = b
  BY <1>2, <1>3, <1>4, <1>6, MinOfInterval
<1>8. b \in Block /\ After(b) \in Seq(Block)
  <2>1. b \in Block
    BY <1>2, <1>3, <1>6 DEF Block
  <2> QED
    BY <1>2, <2>1, AfterFacts
<1>9. chain' = chain \cup {b} /\ state' = Append(state, b) /\ emitted' = Append(emitted, state')
  BY <1>7 DEF RunBlock
<1>10. state' = After(b)
  <2> DEFINE p == b - 1
  <2>1. p \in Nat /\ p + 1 = b /\ state = After(p)
    BY <1>2, <1>5
  <2> HIDE DEF p
  <2>2. Append(After(p), p + 1) = After(p + 1)
    BY <2>1, AfterFacts
  <2> QED
    BY <1>9, <2>1, <2>2
<1>11. emitted' = Append(emitted, After(b))
  BY <1>9, <1>10
<1>12. /\ emitted' \in Seq(Seq(Block)) /\ Len(emitted') = n + 1
       /\ \A i \in 1..n : emitted'[i] = emitted[i]
       /\ emitted'[n + 1] = After(b) /\ DOMAIN emitted' = 1..(n + 1)
  <2> DEFINE s == After(b)
  <2>1. s \in Seq(Block) /\ emitted' = Append(emitted, s)
    BY <1>8, <1>11
  <2> HIDE DEF s
  <2>2. Len(emitted) = n
    BY DEF n
  <2>3. /\ emitted' \in Seq(Seq(Block)) /\ Len(emitted') = n + 1
        /\ \A i \in 1..n : emitted'[i] = emitted[i]
        /\ emitted'[n + 1] = s /\ DOMAIN emitted' = 1..(n + 1)
    BY <1>2, <2>1, <2>2
  <2> QED
    BY <2>3 DEF s
<1>13. DataTypeOK'
  <2>1. chain' \subseteq Block /\ total' \in Nat /\ state' \in Seq(Block)
    BY <1>1, <1>2, <1>8, <1>9, <1>10, <1>5 DEF DataTypeOK
  <2> QED
    BY <1>1, <1>12, <2>1 DEF DataTypeOK, files, process
<1>14. PlaceKept' /\ DoneWhole'
  BY <1>1, <1>2 DEF PlaceKept, DoneWhole, Is, process
<1>15. MadeKept'
  <2>1. \A e \in command.lo..(era - 1) : Made(e)'
    BY <1>1, EarlierStay DEF files, process
  <2> QED
    BY <1>1, <2>1 DEF MadeKept, files, process
<1>16. MachineKept'
  <2>1. \A i \in 1..(n + 1) : emitted'[i] = After(base + i - 1)
    <3> TAKE i \in 1..(n + 1)
    <3>1. CASE i \in 1..n
      BY <1>2, <1>12, <3>1
    <3>2. CASE i \notin 1..n
      <4>1. i = n + 1 /\ base + (n + 1) - 1 = b
        BY <1>2, <1>3, <1>6, <3>2
      <4> QED
        BY <1>12, <4>1
    <3> QED
      BY <3>1, <3>2
  <2>2. /\ base + Len(emitted') = b + 1 /\ b + 1 # 0 /\ (b + 1) - 1 = b
        /\ n + 1 <= PerEra /\ n + 1 > 0 /\ Len(events[era]) <= n + 1
    BY <1>2, <1>3, <1>6, <1>12
  <2>3. 0..b \subseteq chain'
    BY <1>2, <1>9, <1>5
  <2>4. MachineAt(era * PerEra + Len(emitted))'
    <3>1. (era * PerEra + Len(emitted))' = b + 1
      BY <1>1, <2>2 DEF base, process
    <3>2. total' = b + 1
      BY <1>1, <1>5
    <3> QED
      BY <1>10, <2>2, <2>3, <3>1, <3>2 DEF MachineAt
  <2>5. at' = "blocks" /\ era' = era /\ events' = events /\ (era * PerEra)' = base
    BY <1>1 DEF process, base
  <2>6. \A i \in DOMAIN emitted' : emitted'[i] = After((era * PerEra)' + i - 1)
    BY <1>12, <2>1, <2>5
  <2>7. ExtractKept'
    BY <1>12, <2>2, <2>4, <2>5, <2>6 DEF ExtractKept
  <2> QED
    BY <2>5, <2>7 DEF MachineKept
<1>17. ReplaySound'
  BY <1>1, <1>9, ReplayStays DEF DataInv
<1> QED
  BY <1>13, <1>14, <1>15, <1>16, <1>17 DEF DataInv

\* What is on disk of an era's events are the first of the true ones.
LEMMA EventsOnDisk ==
  ASSUME DataInv, NEW e \in Era
  PROVE  /\ events[e] \in Seq(Seq(Block)) /\ Len(events[e]) \in 0..PerEra
         /\ \A i \in 1..Len(events[e]) : events[e][i] = After(e * PerEra + i - 1)
<1>1. events[e] \in Seq(Seq(Block)) /\ IsPrefix(events[e], EventsOf(e))
  BY DEF DataInv, DataTypeOK, ReplaySound
<1>2. Len(events[e]) <= PerEra /\ \A i \in 1..Len(events[e]) : events[e][i] = After(e * PerEra + i - 1)
  BY <1>1, PrefixOfEvents
<1>3. Len(events[e]) \in Nat /\ PerEra \in Nat
  BY <1>1, Params
<1> QED
  BY <1>1, <1>2, <1>3

LEMMA FlushEventKept ==
  ASSUME DataInv, FlushEvent
  PROVE  DataInv'
<1> DEFINE base == era * PerEra
           s == events[era]
           k == Len(s)
           new == emitted[k + 1]
<1>1. /\ at \in {"cache", "fetch", "archive", "blocks"} /\ Is({"extract"}) /\ k < Len(emitted)
      /\ events' = [events EXCEPT ![era] = Append(s, new)]
      /\ UNCHANGED <<files, checkpoint, trie, chain, process, machine, runs>>
      /\ DataTypeOK /\ PlaceKept /\ MadeKept /\ MachineKept /\ ReplaySound /\ era \in Era
  BY Targeted DEF DataInv, FlushEvent
<1>2. s \in Seq(Seq(Block)) /\ k \in 0..PerEra /\ \A i \in 1..k : s[i] = After(base + i - 1)
  BY <1>1, EventsOnDisk
<1>3. /\ emitted \in Seq(Seq(Block)) /\ Len(emitted) <= PerEra
      /\ \A i \in DOMAIN emitted : emitted[i] = After(base + i - 1)
  BY <1>1 DEF DataTypeOK, MachineKept, ExtractKept
<1> HIDE DEF base
<1>4. k + 1 \in DOMAIN emitted /\ k + 1 <= PerEra /\ k + 1 <= Len(emitted)
  BY <1>1, <1>2, <1>3, Params
<1>5. new \in Seq(Block) /\ new = After(base + (k + 1) - 1)
  BY <1>3, <1>4
<1> DEFINE t == Append(s, new)
<1>6. /\ t \in Seq(Seq(Block)) /\ Len(t) = k + 1
      /\ \A i \in 1..(k + 1) : t[i] = After(base + i - 1)
  <2> HIDE DEF new, s
  <2>1. t \in Seq(Seq(Block)) /\ Len(t) = k + 1 /\ (\A i \in 1..k : t[i] = s[i]) /\ t[k + 1] = new
    BY <1>2, <1>5
  <2> HIDE DEF t, k
  <2> SUFFICES ASSUME NEW i \in 1..(k + 1) PROVE t[i] = After(base + i - 1)
    BY <2>1
  <2>2. CASE i \in 1..k
    BY <1>2, <2>1, <2>2
  <2>3. CASE i \notin 1..k
    <3>1. i = k + 1
      BY <1>2, <2>3
    <3> QED
      BY <1>5, <2>1, <3>1
  <2> QED
    BY <2>2, <2>3
<1>7. events' = [events EXCEPT ![era] = t]
  BY <1>1
<1> HIDE DEF t
<1>8. /\ events' \in [Era -> Seq(Seq(Block))] /\ events'[era] = t
      /\ \A e \in Era : e # era => events'[e] = events[e]
  BY <1>1, <1>6, <1>7, Replaced DEF DataTypeOK
<1>9. DataTypeOK'
  BY <1>1, <1>8 DEF DataTypeOK, files, process, machine
<1>10. PlaceKept' /\ DoneWhole'
  BY <1>1 DEF PlaceKept, DoneWhole, Is, process
<1>11. MadeKept'
  <2>1. \A e \in command.lo..(era - 1) : Made(e)'
    BY <1>1, <1>8, EarlierStay DEF files, process
  <2> QED
    BY <1>1, <2>1 DEF MadeKept, files, process
<1>12. MachineKept'
  <2>1. Len(events'[era]) <= Len(emitted)
    BY <1>4, <1>6, <1>8
  <2> QED
    BY <1>1, <2>1 DEF MachineKept, ExtractKept, MachineAt, Is, machine, process
<1>13. ReplaySound'
  <2> SUFFICES ASSUME NEW e \in Era
               PROVE  /\ IsPrefix(events'[e], EventsOf(e))
                      /\ checkpoint[e] # NoCheckpoint =>
                           LET b == Max(BlocksOf(e))
                           IN /\ checkpoint[e] = [last |-> b, root |-> After(b), total |-> b + 1]
                              /\ After(b) \in trie
                              /\ 0..b \subseteq chain
    BY <1>1 DEF ReplaySound
  <2>1. IsPrefix(events'[e], EventsOf(e))
    <3>1. CASE e = era
      <4>1. Len(t) <= PerEra /\ \A i \in 1..Len(t) : t[i] = After(e * PerEra + i - 1)
        BY <1>4, <1>6, <3>1 DEF base
      <4>2. IsPrefix(t, EventsOf(e))
        BY <1>6, <4>1, PrefixOfEvents
      <4> QED
        BY <1>8, <3>1, <4>2
    <3>2. CASE e # era
      BY <1>1, <1>8, <3>2 DEF ReplaySound
    <3> QED
      BY <3>1, <3>2
  <2> QED
    BY <1>1, <2>1 DEF ReplaySound
<1> QED
  BY <1>9, <1>10, <1>11, <1>12, <1>13 DEF DataInv

LEMMA CloseOutputKept ==
  ASSUME DataInv, CloseOutput
  PROVE  DataInv'
<1> DEFINE base == era * PerEra
           n == Len(emitted)
<1>1. /\ at = "blocks" /\ Remaining = {} /\ events[era] = emitted /\ at' = "root"
      /\ UNCHANGED <<files, replay, command, era, last, machine, runs>>
      /\ DataTypeOK /\ PlaceKept /\ MadeKept /\ MachineKept
  BY DEF DataInv, CloseOutput
<1>2. era \in Era /\ n \in 0..PerEra /\ base + n \in Nat
  BY <1>1, Executing
<1>3. Remaining = (base + n)..(base + PerEra - 1) /\ base \in Nat
  BY <1>1, <1>2, RemainingIs, EraFacts
<1> HIDE DEF base
<1>4. n = PerEra
  <2> SUFFICES ASSUME n < PerEra PROVE FALSE
    BY <1>2, Params
  <2> HIDE DEF n
  <2>1. base + n \in (base + n)..(base + PerEra - 1)
    BY <1>2, <1>3, Params
  <2> QED
    BY <1>1, <1>3, <2>1
<1>5. DataTypeOK'
  BY <1>1 DEF DataTypeOK, files, replay, machine
<1>6. PlaceKept' /\ DoneWhole'
  BY <1>1 DEF PlaceKept, DoneWhole, Is
<1>7. MadeKept'
  <2>1. \A e \in command.lo..(era - 1) : Made(e)'
    BY <1>1, EarlierStay DEF files, replay
  <2> QED
    BY <1>1, <2>1 DEF MadeKept, files
<1>8. MachineKept'
  BY <1>1, <1>4 DEF MachineKept, ExtractKept, MachineAt, Is, machine, replay
<1>9. ReplaySound'
  BY <1>1, ReplayStays DEF DataInv, replay
<1> QED
  BY <1>5, <1>6, <1>7, <1>8, <1>9 DEF DataInv

LEMMA SaveStateKept ==
  ASSUME DataInv, SaveState
  PROVE  DataInv'
<1>1. /\ at = "root" /\ at' = "rename" /\ trie' = trie \cup {state}
      /\ UNCHANGED <<files, events, checkpoint, chain, command, era, last, machine, runs>>
      /\ DataTypeOK /\ PlaceKept /\ MadeKept /\ MachineKept
  BY DEF DataInv, SaveState
<1>2. DataTypeOK'
  BY <1>1 DEF DataTypeOK, files, machine
<1>3. PlaceKept' /\ DoneWhole'
  BY <1>1 DEF PlaceKept, DoneWhole, Is
<1>4. MadeKept'
  <2>1. \A e \in command.lo..(era - 1) : Made(e)'
    BY <1>1, EarlierStay DEF files
  <2> QED
    BY <1>1, <2>1 DEF MadeKept, files
<1>5. MachineKept'
  BY <1>1 DEF MachineKept, ExtractKept, MachineAt, Is, machine
<1>6. ReplaySound'
  BY <1>1, ReplayStays DEF DataInv
<1> QED
  BY <1>2, <1>3, <1>4, <1>5, <1>6 DEF DataInv

LEMMA RenameCheckpointKept ==
  ASSUME DataInv, RenameCheckpoint
  PROVE  DataInv'
<1> DEFINE base == era * PerEra
           b == Max(BlocksOf(era))
           new == [last |-> b, root |-> state, total |-> total]
<1>1. /\ at = "rename" /\ NextEra
      /\ checkpoint' = [checkpoint EXCEPT ![era] = new]
      /\ UNCHANGED <<files, events, trie, chain, command, last, machine, runs>>
      /\ DataTypeOK /\ PlaceKept /\ MadeKept /\ MachineKept /\ ReplaySound
  BY DEF DataInv, RenameCheckpoint
<1>2. /\ era \in Era /\ Is({"extract"}) /\ archive[era] = WholeArchive
      /\ MachineAt(base + Len(emitted))
  BY <1>1, Executing
<1>3. Len(events[era]) = PerEra /\ Len(emitted) = PerEra /\ state \in trie
  BY <1>1, <1>2 DEF MachineKept, ExtractKept
<1>4. base \in Nat /\ b = base + PerEra - 1 /\ b \in Block /\ PerEra \in Nat /\ PerEra > 0
  BY <1>2, EraFacts, BlocksOfFacts, Params
<1> HIDE DEF base, b
<1>5. base + PerEra = b + 1 /\ b \in Nat /\ b + 1 # 0 /\ (b + 1) - 1 = b /\ b # -1
  BY <1>4
<1>6. state = After(b) /\ total = b + 1 /\ 0..b \subseteq chain
  <2>1. MachineAt(b + 1)
    BY <1>2, <1>3, <1>5
  <2> QED
    BY <1>5, <2>1 DEF MachineAt
<1>7. new = [last |-> b, root |-> After(b), total |-> b + 1]
  BY <1>6
<1>8. new \in {NoCheckpoint} \cup Checkpoint /\ new # NoCheckpoint
  <2>1. After(b) \in Seq(Block) /\ b + 1 \in Nat
    BY <1>4, <1>5, AfterFacts
  <2> QED
    BY <1>4, <1>5, <1>7, <2>1 DEF Checkpoint, NoCheckpoint
<1>9. /\ checkpoint' \in [Era -> {NoCheckpoint} \cup Checkpoint] /\ checkpoint'[era] = new
      /\ \A e \in Era : e # era => checkpoint'[e] = checkpoint[e]
  <2> HIDE DEF new
  <2> QED
    BY <1>1, <1>2, <1>8, Replaced DEF DataTypeOK
<1>10. events[era] = EventsOf(era)
  <2> DEFINE s == events[era]
             t == EventsOf(era)
  <2>1. s \in Seq(Seq(Block)) /\ Len(s) = PerEra /\ \A i \in 1..PerEra : s[i] = After(era * PerEra + i - 1)
    BY <1>2, <1>3, EventsOnDisk
  <2>2. t \in Seq(Seq(Block)) /\ Len(t) = PerEra /\ \A i \in 1..PerEra : t[i] = After(era * PerEra + i - 1)
    BY <1>2, EventsOfFacts
  <2> HIDE DEF s, t
  <2>3. \A i \in 1..PerEra : s[i] = t[i]
    BY <2>1, <2>2
  <2>4. s \in Seq(Seq(Block)) /\ Len(s) = PerEra /\ t \in Seq(Seq(Block)) /\ Len(t) = PerEra
    BY <2>1, <2>2
  <2>5. s = t
    BY <2>3, <2>4
  <2> QED
    BY <2>5 DEF s, t
<1>11. \A e \in command.lo..(era - 1) : Made(e)'
  BY <1>1, <1>9, EarlierStay DEF files
<1>12. command.lo <= era /\ era <= last
  BY <1>1 DEF PlaceKept
<1>13. \A e \in command.lo..era : Made(e)'
  <2> TAKE e \in command.lo..era
  <2>1. CASE e = era
    <3> HIDE DEF new
    <3>1. command'.name = "extract"
      BY <1>1, <1>2 DEF Is
    <3> QED
      BY <1>1, <1>2, <1>8, <1>9, <1>10, <2>1, <3>1, ArchiveTypes DEF Made, Is, files
  <2>2. CASE e # era
    <3>1. e \in command.lo..(era - 1)
      BY <1>1, <2>2, Targeted
    <3> QED
      BY <1>11, <3>1
  <2> QED
    BY <2>1, <2>2
<1>14. era' \in Era /\ at' \in {"era", "done"} /\ PlaceKept' /\ MadeKept' /\ DoneWhole'
  BY <1>1, <1>12, <1>13, NextEraKept
<1>15. DataTypeOK'
  BY <1>1, <1>9, <1>14 DEF DataTypeOK, files, machine
<1>16. MachineKept'
  <2>1. ASSUME at' = "era" PROVE MachineAt(era * PerEra)' /\ 0 \in chain'
    <3>1. era' = era + 1
      BY <1>1, <2>1 DEF NextEra
    <3>2. (era * PerEra)' = b + 1
      <4>1. (era + 1) * PerEra = base + PerEra
        BY <1>2, EraFacts DEF base
      <4> QED
        BY <1>5, <3>1, <4>1
    <3>3. 0 \in 0..b
      BY <1>5
    <3> QED
      BY <1>1, <1>5, <1>6, <3>2, <3>3 DEF MachineAt, machine
  <2> QED
    BY <1>14, <2>1 DEF MachineKept, ExtractKept
<1>17. ReplaySound'
  <2> SUFFICES ASSUME NEW e \in Era, checkpoint'[e] # NoCheckpoint
               PROVE  LET top == Max(BlocksOf(e))
                      IN /\ checkpoint'[e] = [last |-> top, root |-> After(top), total |-> top + 1]
                         /\ After(top) \in trie
                         /\ 0..top \subseteq chain
    BY <1>1 DEF ReplaySound
  <2>1. CASE e = era
    BY <1>3, <1>6, <1>7, <1>9, <2>1 DEF b
  <2>2. CASE e # era
    BY <1>1, <1>9, <2>2 DEF ReplaySound
  <2> QED
    BY <2>1, <2>2
<1> QED
  BY <1>14, <1>15, <1>16, <1>17 DEF DataInv

-----------------------------------------------------------------------------
(* The invariant of the commands.                                          *)

LEMMA DataInitKept ==
  ASSUME DataInit
  PROVE  DataInv
<1>1. DataTypeOK
  <2>1. NoCommand \in Commands /\ 0 \in Era /\ -1 \in -1..(Eras - 1) /\ NoList \in NoList..Eras
    BY Params DEF NoCommand, Commands, Era, NoList
  <2>2. File(0, FALSE) \in Files
    BY Params DEF File, Files
  <2>3. blocks \in [Era -> Files] /\ index \in [Era -> Files]
    BY <2>2 DEF DataInit
  <2>4. /\ archive \in [Era -> Archives] /\ summary \in [Era -> {"absent", "part", "whole"}]
        /\ checkpoint \in [Era -> {NoCheckpoint} \cup Checkpoint]
    BY DEF DataInit, Archives
  <2>5. events \in [Era -> Seq(Seq(Block))]
    BY DEF DataInit
  <2>6. state \in Seq(Block) /\ emitted \in Seq(Seq(Block)) /\ total \in Nat /\ runs \in 0..MaxRuns
    BY Params DEF DataInit
  <2> QED
    BY <2>1, <2>3, <2>4, <2>5, <2>6 DEF DataInit, DataTypeOK
<1>2. PlaceKept /\ MadeKept /\ DoneWhole
  BY DEF DataInit, PlaceKept, MadeKept, DoneWhole
<1>3. MachineKept
  BY DEF DataInit, MachineKept, NoCommand, Is
<1>4. ReplaySound
  <2> SUFFICES ASSUME NEW e \in Era PROVE IsPrefix(events[e], EventsOf(e))
    BY DEF DataInit, ReplaySound
  <2> DEFINE none == events[e]
  <2>1. none \in Seq(Seq(Block)) /\ Len(none) = 0
    BY DEF DataInit
  <2> HIDE DEF none
  <2>2. Len(none) <= PerEra /\ 1..Len(none) = {}
    BY <2>1, Params
  <2>3. IsPrefix(none, EventsOf(e))
    BY <2>1, <2>2, PrefixOfEvents
  <2> QED
    BY <2>3 DEF none
<1> QED
  BY <1>1, <1>2, <1>3, <1>4 DEF DataInv

LEMMA CommandKept ==
  ASSUME DataInv, CommandStep \/ Crash
  PROVE  DataInv'
<1>1. CASE ResolveLocal \/ FetchList \/ WriteList \/ BeginEra \/ NoTarget
  BY <1>1, ResolveLocalKept, FetchListKept, WriteListKept, BeginEraKept, NoTargetKept
<1>2. CASE UseCached \/ FetchArchive \/ ArchiveWritten
  BY <1>2, UseCachedKept, FetchArchiveKept, ArchiveWrittenKept
<1>3. CASE OpenArchive \/ WriteBlocks \/ WriteIndex \/ CloseStreams \/ WriteSummary
  BY <1>3, OpenArchiveKept, WriteBlocksKept, WriteIndexKept, CloseStreamsKept, WriteSummaryKept
<1>4. CASE FromGenesis \/ FromCheckpoint \/ Refuse \/ EndCommand \/ Crash
  BY <1>4, FromGenesisKept, FromCheckpointKept, RefuseKept
<1>5. CASE RunBlock \/ FlushEvent \/ CloseOutput \/ SaveState \/ RenameCheckpoint
  BY <1>5, RunBlockKept, FlushEventKept, CloseOutputKept, SaveStateKept, RenameCheckpointKept
<1> QED
  BY <1>1, <1>2, <1>3, <1>4, <1>5 DEF CommandStep

\* A step of the server leaves the data directory.
LEMMA DataStays ==
  ASSUME DataInv, UNCHANGED dataVars
  PROVE  DataInv'
<1>1. UNCHANGED <<files, replay, process, machine, runs>>
  BY DEF dataVars
<1>2. DataTypeOK'
  BY <1>1 DEF DataInv, DataTypeOK, files, replay, process, machine
<1>3. PlaceKept'
  BY <1>1 DEF DataInv, PlaceKept, Is, files, process
<1>4. ASSUME NEW e, Made(e) PROVE Made(e)'
  BY <1>1, <1>4, MadeStays DEF files, replay, process
<1>5. MadeKept'
  BY <1>1, <1>4 DEF DataInv, MadeKept, files, process
<1>6. DoneWhole'
  BY <1>1, <1>4 DEF DataInv, DoneWhole, process
<1>7. MachineKept'
  BY <1>1 DEF DataInv, MachineKept, ExtractKept, MachineAt, Is, replay, process, machine
<1>8. ReplaySound'
  BY <1>1, ReplayStays DEF DataInv, replay
<1> QED
  BY <1>2, <1>3, <1>5, <1>6, <1>7, <1>8 DEF DataInv

-----------------------------------------------------------------------------
(* The server: eras that are loaded, and the calls about their blocks.     *)

LEMMA HeldFacts ==
  ASSUME loaded \subseteq Era, NEW n \in Nat
  PROVE  /\ Held(n) => /\ EraForNumber(n) \in loaded /\ n \in BlocksOf(EraForNumber(n)) /\ n \in Block
                       /\ EraForNumber(n) * PerEra <= n
                       /\ n < EraForNumber(n) * PerEra + PerEra
         /\ \A e \in loaded : n \in BlocksOf(e) => Held(n)
<1>1. ASSUME Held(n)
      PROVE  /\ EraForNumber(n) \in loaded /\ n \in BlocksOf(EraForNumber(n)) /\ n \in Block
             /\ EraForNumber(n) * PerEra <= n
             /\ n < EraForNumber(n) * PerEra + PerEra
  <2> DEFINE S == ErasHolding(n)
             e == EraForNumber(n)
             base == e * PerEra
  <2>1. S \subseteq Nat /\ S # {}
    <3>1. Era \subseteq Nat
      BY Params DEF Era
    <3> QED
      BY <1>1, <3>1 DEF ErasHolding, Held
  <2>2. e \in S
    <3> HIDE DEF S
    <3>1. Min(S) \in S
      BY <2>1, MinIs
    <3> QED
      BY <3>1 DEF EraForNumber, S
  <2>3. e \in loaded /\ e \in Era /\ base <= n /\ n < base + PerEra
    BY <2>2 DEF ErasHolding
  <2>4. base \in Nat /\ BlocksOf(e) \subseteq Block
    BY <2>3, EraFacts, BlocksOfFacts
  <2>5. BlocksOf(e) = base..(base + PerEra - 1)
    BY DEF BlocksOf
  <2> HIDE DEF e, base
  <2>6. n \in BlocksOf(e)
    BY <2>3, <2>4, <2>5, Params
  <2>7. e \in loaded /\ n \in BlocksOf(e) /\ n \in Block /\ base <= n /\ n < base + PerEra
    BY <2>3, <2>4, <2>6
  <2> QED
    BY <2>7 DEF e, base
<1>2. ASSUME NEW e \in loaded, n \in BlocksOf(e) PROVE Held(n)
  <2> DEFINE base == e * PerEra
  <2>1. base \in Nat /\ PerEra \in Nat
    BY EraFacts, Params
  <2>2. n \in base..(base + PerEra - 1)
    BY <1>2 DEF BlocksOf
  <2> HIDE DEF base
  <2>3. base <= n /\ n < base + PerEra
    BY <2>1, <2>2
  <2>4. e \in ErasHolding(n)
    BY <2>3 DEF ErasHolding, base
  <2> QED
    BY <2>4 DEF Held
<1> QED
  BY <1>1, <1>2

LEMMA HighestFacts ==
  ASSUME loaded \subseteq Era, loaded # {}
  PROVE  Highest \in Block
<1>1. Max(loaded) \in loaded
  <2> DEFINE N == Eras - 1
  <2>1. N \in Nat /\ loaded \subseteq 0..N
    BY Params DEF Era
  <2> HIDE DEF N
  <2> QED
    BY <2>1, MaxIs
<1>2. Max(loaded) \in Era
  BY <1>1
<1>3. Max(loaded) * PerEra + PerEra - 1 \in Block
  BY <1>2, BlocksOfFacts
<1> QED
  BY <1>3 DEF Highest

LEMMA CallFacts ==
  ASSUME NEW c \in Calls
  PROVE  /\ c.method \in {"unsupported", "invalid", "blockNumber", "latest", "byNumber", "byHash"}
         /\ c.n \in Nat
         /\ c # NoCall
<1>1. Number \subseteq Nat /\ HasTxs \subseteq Nat
  <2> DEFINE top == Eras * PerEra
  <2>1. top \in Nat
    BY Params
  <2>2. Number = 0..top /\ HasTxs \subseteq 0..(top - 1)
    BY RpcServerAssumption DEF Number, Block
  <2> HIDE DEF top
  <2> QED
    BY <2>1, <2>2
<1>2. ASSUME NEW m, NEW n, NEW full PROVE Call(m, n, full).method = m /\ Call(m, n, full).n = n
  BY DEF Call
<1>3. PICK m \in {"unsupported", "invalid", "blockNumber", "latest", "byNumber", "byHash"},
           n \in Nat, full \in BOOLEAN : c = Call(m, n, full)
  <2>1. CASE \E m \in {"unsupported", "invalid", "blockNumber", "latest"} : c = Call(m, 0, FALSE)
    BY <2>1
  <2>2. CASE \E n \in Number : c = Call("byNumber", n, FALSE)
    BY <1>1, <2>2
  <2>3. CASE \E n \in HasTxs : c = Call("byNumber", n, TRUE)
    BY <1>1, <2>3
  <2>4. CASE \E n \in Number : c = Call("byHash", n, FALSE)
    BY <1>1, <2>4
  <2> QED
    BY <2>1, <2>2, <2>3, <2>4 DEF Calls
<1>4. c.method = m /\ c.n = n
  BY <1>2, <1>3
<1>5. NoCall.method = "no request"
  BY DEF NoCall, Call
<1> QED
  BY <1>3, <1>4, <1>5

\* Without a call there is nothing to answer.
LEMMA NoRequestKept ==
  ASSUME request' = NoRequest
  PROVE  /\ RequestKept' /\ AnswersTrue'
         /\ request' \in Request /\ request'.n = Unscanned
<1>1. /\ request'.n = Unscanned /\ request'.answer = NoAnswer /\ request'.still = TRUE
      /\ request'.call = NoCall /\ request'.read = 0
  BY DEF NoRequest, Asked
<1>2. RequestKept'
  BY <1>1 DEF RequestKept, Open
<1>3. AnswersTrue'
  BY <1>1 DEF AnswersTrue, NoAnswer, Error
<1>4. request' \in Request
  <2>1. NoRequest \in Request
    BY Params DEF NoRequest, Asked, Request, Answers
  <2> QED
    BY <2>1
<1> QED
  BY <1>1, <1>2, <1>3, <1>4

LEMMA StopServerKept ==
  ASSUME RpcInv, StopServer, UNCHANGED dataVars
  PROVE  RpcInv'
<1>1. DataInv'
  BY DataStays DEF RpcInv
<1>2. RequestKept' /\ AnswersTrue' /\ request' \in Request /\ request'.n = Unscanned
  BY NoRequestKept DEF StopServer
<1>3. TypeOK'
  BY <1>1, <1>2, Params DEF DataInv, StopServer, TypeOK
<1>4. ServerKept'
  BY DEF StopServer, ServerKept
<1> QED
  BY <1>1, <1>2, <1>3, <1>4 DEF RpcInv

LEMMA StartServerKept ==
  ASSUME RpcInv, StartServer
  PROVE  RpcInv'
<1>1. /\ server = "down" /\ server' = "loading"
      /\ unread' = {e \in Era : summary[e] # "absent"}
      /\ steady' = {e \in Era : index[e] = Whole}
      /\ UNCHANGED <<dataVars, store, line, request>> /\ index' = index
      /\ TypeOK /\ DataInv /\ ServerKept
  BY DEF RpcInv, StartServer, dataVars, files
<1>2. DataInv'
  BY <1>1, DataStays
<1>3. loaded = {} /\ line = 0 /\ request' = NoRequest
  BY <1>1 DEF ServerKept
<1>4. RequestKept' /\ AnswersTrue' /\ request' \in Request /\ request'.n = Unscanned
  BY <1>3, NoRequestKept
<1>5. TypeOK'
  BY <1>1, <1>2, <1>3, <1>4 DEF DataInv, TypeOK, store
<1>6. ServerKept'
  BY <1>1, <1>3 DEF ServerKept, store
<1> QED
  BY <1>2, <1>4, <1>5, <1>6 DEF RpcInv

LEMMA LoadSummaryKept ==
  ASSUME RpcInv, LoadSummary
  PROVE  RpcInv'
<1> DEFINE e == Min(unread)
<1>1. /\ server = "loading" /\ unread # {} /\ e \notin loaded /\ UNCHANGED dataVars
      /\ TypeOK /\ DataInv /\ ServerKept /\ index' = index
  BY DEF RpcInv, LoadSummary, dataVars, files
<1>2. e \in unread /\ e \in Era
  <2>1. unread \subseteq Nat /\ unread \subseteq Era
    BY <1>1, Params DEF TypeOK, Era
  <2> QED
    BY <1>1, <2>1, MinIs
<1>3. CASE summary[e] = "whole"
  <2>1. loaded' = loaded \cup {e} /\ UNCHANGED <<server, unread, hashes, line, request, steady>>
    BY <1>3 DEF LoadSummary
  <2>2. DataInv'
    BY <1>1, DataStays
  <2>3. request' = NoRequest /\ loaded \cap unread = {} /\ line = 0
    BY <1>1, <2>1 DEF ServerKept
  <2>4. RequestKept' /\ AnswersTrue' /\ request' \in Request /\ request'.n = Unscanned
    BY <2>3, NoRequestKept
  <2>5. TypeOK'
    BY <1>1, <1>2, <2>1, <2>2, <2>3, <2>4 DEF DataInv, TypeOK
  <2>6. ServerKept'
    <3>1. (e * PerEra)..(e * PerEra + 0 - 1) = {}
      <4> DEFINE base == e * PerEra
      <4>1. base \in Nat
        BY <1>2, EraFacts
      <4> HIDE DEF base
      <4>2. base..(base + 0 - 1) = {}
        BY <4>1
      <4> QED
        BY <4>2 DEF base
    <3>2. \A x \in loaded' \cap unread' : x = Min(unread')
      BY <2>1, <2>3
    <3>3. ASSUME NEW x \in loaded' \cap steady'
          PROVE  /\ x \in unread' => (x * PerEra)..(x * PerEra + line' - 1) \subseteq hashes'
                 /\ x \notin unread' => BlocksOf(x) \subseteq hashes'
      <4>1. CASE x = e
        BY <1>2, <2>1, <2>3, <3>1, <4>1
      <4>2. CASE x # e
        BY <1>1, <2>1, <2>3, <4>2 DEF ServerKept
      <4> QED
        BY <4>1, <4>2
    <3> QED
      BY <1>1, <2>1, <2>3, <3>2, <3>3 DEF ServerKept
  <2> QED
    BY <2>2, <2>4, <2>5, <2>6 DEF RpcInv
<1>4. CASE summary[e] # "whole"
  BY <1>1, <1>4, StopServerKept DEF LoadSummary
<1> QED
  BY <1>3, <1>4

LEMMA IngestLineKept ==
  ASSUME RpcInv, IngestLine
  PROVE  RpcInv'
<1> DEFINE e == Min(unread)
           base == e * PerEra
<1>1. /\ server = "loading" /\ unread # {} /\ e \in loaded /\ UNCHANGED dataVars
      /\ TypeOK /\ DataInv /\ ServerKept /\ index' = index
  BY DEF RpcInv, IngestLine, dataVars, files
<1>2. e \in unread /\ e \in Era
  <2>1. unread \subseteq Nat /\ unread \subseteq Era
    BY <1>1, Params DEF TypeOK, Era
  <2> QED
    BY <1>1, <2>1, MinIs
<1>3. base \in Nat /\ base + PerEra - 1 \in Block /\ BlocksOf(e) = base..(base + PerEra - 1)
  BY <1>2, EraFacts, BlocksOfFacts DEF BlocksOf
<1>4. index[e] \in Files /\ line \in 0..PerEra /\ index[e].lines \in 0..PerEra
  BY <1>1, <1>2 DEF TypeOK, DataTypeOK, Files
<1>5. DataInv'
  BY <1>1, DataStays
<1>6. /\ \A x \in loaded \cap unread : x = e
      /\ \A x \in steady : index[x] = Whole
      /\ \A x \in loaded \cap steady :
           /\ x \in unread => (x * PerEra)..(x * PerEra + line - 1) \subseteq hashes
           /\ x \notin unread => BlocksOf(x) \subseteq hashes
      /\ request = NoRequest
  BY <1>1 DEF ServerKept
<1>7. CASE line < index[e].lines
  <2>1. /\ hashes' = hashes \cup {base + line} /\ line' = line + 1
        /\ UNCHANGED <<server, unread, loaded, request, steady>>
    <3>1. ~ (line = index[e].lines)
      BY <1>4, <1>7
    <3> QED
      BY <1>7, <3>1 DEF IngestLine
  <2>2. RequestKept' /\ AnswersTrue' /\ request' \in Request /\ request'.n = Unscanned
    BY <1>6, <2>1, NoRequestKept
  <2>3. base + line \in Block /\ line + 1 \in 0..PerEra
    <3>1. line < PerEra /\ line \in Nat
      BY <1>4, <1>7, Params
    <3> DEFINE top == Eras * PerEra
    <3>2. Block = 0..(top - 1) /\ top \in Nat
      BY Params DEF Block
    <3> HIDE DEF base, top
    <3> QED
      BY <1>3, <3>1, <3>2, Params
  <2>4. TypeOK'
    BY <1>1, <1>5, <1>6, <2>1, <2>2, <2>3 DEF DataInv, TypeOK
  <2>5. ServerKept'
    <3>1. ASSUME NEW x \in loaded' \cap steady'
          PROVE  /\ x \in unread' => (x * PerEra)..(x * PerEra + line' - 1) \subseteq hashes'
                 /\ x \notin unread' => BlocksOf(x) \subseteq hashes'
      <4>1. CASE x = e
        <5>1. base..(base + line - 1) \subseteq hashes
          BY <1>2, <1>6, <2>1, <4>1
        <5> HIDE DEF base
        <5>2. base..(base + (line + 1) - 1) \subseteq hashes \cup {base + line}
          BY <1>3, <1>4, <5>1, Params
        <5>3. base..(base + line' - 1) \subseteq hashes'
          BY <2>1, <5>2
        <5> QED
          BY <1>2, <2>1, <4>1, <5>3 DEF base
      <4>2. CASE x # e
        <5>1. x \notin unread /\ BlocksOf(x) \subseteq hashes
          BY <1>6, <2>1, <4>2
        <5> QED
          BY <2>1, <5>1
      <4> QED
        BY <4>1, <4>2
    <3>2. Min(unread') = e /\ e \in loaded'
      BY <1>1, <2>1
    <3> QED
      BY <1>1, <1>6, <2>1, <3>1, <3>2 DEF ServerKept
  <2> QED
    BY <1>5, <2>2, <2>4, <2>5 DEF RpcInv
<1>8. CASE line = index[e].lines /\ index[e].part
  <2>1. StopServer
    <3>1. ~ (line < index[e].lines)
      BY <1>4, <1>8
    <3> QED
      BY <1>8, <3>1, Zenon DEF IngestLine
  <2> QED
    BY <1>1, <2>1, StopServerKept
<1>9. CASE ~ (line < index[e].lines) /\ ~ (line = index[e].lines /\ index[e].part)
  <2>1. unread' = unread \ {e} /\ line' = 0 /\ UNCHANGED <<server, loaded, hashes, request, steady>>
    BY <1>9 DEF IngestLine
  <2>2. RequestKept' /\ AnswersTrue' /\ request' \in Request /\ request'.n = Unscanned
    BY <1>6, <2>1, NoRequestKept
  <2>3. TypeOK'
    BY <1>1, <1>5, <1>6, <2>1, <2>2, Params DEF DataInv, TypeOK
  <2>4. ServerKept'
    <3>1. ASSUME NEW x \in loaded' \cap steady'
          PROVE  /\ x \notin unread'
                 /\ BlocksOf(x) \subseteq hashes'
      <4>1. CASE x = e
        <5>1. index[e].lines = PerEra
          BY <1>6, <2>1, <4>1 DEF Whole, File
        <5>2. line = PerEra
          BY <1>4, <1>9, <5>1, Params
        <5>3. base..(base + PerEra - 1) \subseteq hashes
          BY <1>2, <1>6, <2>1, <4>1, <5>2
        <5> QED
          BY <1>3, <2>1, <4>1, <5>3
      <4>2. CASE x # e
        BY <1>6, <2>1, <4>2
      <4> QED
        BY <4>1, <4>2
    <3>2. loaded' \cap unread' = {}
      BY <1>6, <2>1
    <3> QED
      BY <1>1, <1>6, <2>1, <3>1, <3>2 DEF ServerKept
  <2> QED
    BY <1>5, <2>2, <2>3, <2>4 DEF RpcInv
<1> QED
  BY <1>7, <1>8, <1>9

LEMMA ListenKept ==
  ASSUME RpcInv, Listen
  PROVE  RpcInv'
<1>1. /\ server = "loading" /\ unread = {} /\ UNCHANGED dataVars
      /\ TypeOK /\ DataInv /\ ServerKept
  BY DEF RpcInv, Listen
<1>2. CASE loaded = {}
  BY <1>1, <1>2, StopServerKept DEF Listen
<1>3. CASE loaded # {}
  <2>1. server' = "up" /\ UNCHANGED <<unread, store, line, request, steady>>
    BY <1>3 DEF Listen
  <2>2. DataInv'
    BY <1>1, DataStays
  <2>3. request' = NoRequest
    BY <1>1, <2>1 DEF ServerKept
  <2>4. RequestKept' /\ AnswersTrue' /\ request' \in Request /\ request'.n = Unscanned
    BY <2>3, NoRequestKept
  <2>5. TypeOK'
    BY <1>1, <1>3, <2>1, <2>2, <2>3, <2>4 DEF DataInv, TypeOK, store
  <2>6. ServerKept'
    BY <1>1, <2>1 DEF ServerKept, store
  <2> QED
    BY <2>2, <2>4, <2>5, <2>6 DEF RpcInv
<1> QED
  BY <1>2, <1>3

LEMMA StopKept ==
  ASSUME RpcInv, Stop
  PROVE  RpcInv'
BY StopServerKept DEF Stop

LEMMA ReplyKept ==
  ASSUME RpcInv, Reply
  PROVE  RpcInv'
<1>1. /\ request' = NoRequest /\ UNCHANGED <<dataVars, server, unread, store, line, steady>>
      /\ TypeOK /\ DataInv /\ ServerKept /\ request # NoRequest /\ index' = index
  BY DEF RpcInv, Reply, dataVars, files
<1>2. DataInv'
  BY <1>1, DataStays
<1>3. RequestKept' /\ AnswersTrue' /\ request' \in Request /\ request'.n = Unscanned
  BY <1>1, NoRequestKept
<1>4. TypeOK'
  BY <1>1, <1>2, <1>3 DEF DataInv, TypeOK, store
<1>5. ServerKept'
  BY <1>1 DEF ServerKept, store
<1> QED
  BY <1>2, <1>3, <1>4, <1>5 DEF RpcInv

-----------------------------------------------------------------------------
(* Calls.                                                                  *)

LEMMA LoadedStays ==
  ASSUME loaded' = loaded
  PROVE  /\ \A n : (Held(n)' <=> Held(n)) /\ EraForNumber(n)' = EraForNumber(n)
         /\ \A c : AskedFor(c)' = AskedFor(c)
<1>1. ASSUME NEW n PROVE ErasHolding(n)' = ErasHolding(n)
  BY DEF ErasHolding
<1>2. ASSUME NEW n PROVE (Held(n)' <=> Held(n)) /\ EraForNumber(n)' = EraForNumber(n)
  BY <1>1 DEF Held, EraForNumber
<1>3. ASSUME NEW c PROVE AskedFor(c)' = AskedFor(c)
  BY DEF AskedFor, Highest
<1> QED
  BY <1>2, <1>3

\* What the next request r has to be, while the eras that are loaded stay.
LEMMA RequestIs ==
  ASSUME loaded' = loaded, NEW r, request' = r,
         r.answer = NoAnswer /\ r # NoRequest => r.n # Unscanned,
         r.n # Unscanned => r.n = AskedFor(r.call) /\ r.call.method \in {"latest", "byNumber", "byHash"},
         r.answer = NoAnswer /\ r # NoRequest =>
           /\ EraForNumber(r.n) * PerEra + r.read <= r.n
           /\ r.still => blocks'[EraForNumber(r.n)] = Whole
  PROVE  RequestKept'
<1>1. AskedFor(r.call)' = AskedFor(r.call) /\ EraForNumber(r.n)' = EraForNumber(r.n)
  BY LoadedStays
<1>2. AskedFor(request.call)' = AskedFor(r.call) /\ EraForNumber(request.n)' = EraForNumber(r.n)
  BY <1>1
<1>3. Open' <=> r # NoRequest /\ r.answer = NoAnswer
  BY DEF Open
<1> QED
  BY <1>2, <1>3 DEF RequestKept

LEMMA AnswerIs ==
  ASSUME loaded' = loaded, NEW r, request' = r,
         r.answer.is = "block" =>
           r.call.method \in {"latest", "byNumber", "byHash"} /\ r.answer.n = AskedFor(r.call),
         r.answer.is = "null" /\ Held(AskedFor(r.call)) =>
           \/ r.n # Unscanned /\ ~r.still
           \/ r.call.method = "byHash" /\ EraForNumber(AskedFor(r.call)) \notin steady',
         r.answer = Error(InternalError) => ~r.still
  PROVE  AnswersTrue'
<1> DEFINE asked == AskedFor(r.call)
<1>1. PICK q : q = asked
  OBVIOUS
<1>2. /\ AskedFor(r.call)' = q /\ (Held(q)' <=> Held(q)) /\ EraForNumber(q)' = EraForNumber(q)
  BY <1>1, LoadedStays
<1>3. AskedFor(request.call)' = q
  BY <1>2
<1> QED
  BY <1>1, <1>2, <1>3 DEF AnswersTrue

\* A call that is answered without a read.
LEMMA AnsweredKept ==
  ASSUME RpcInv, NEW c \in Calls, NEW a \in Answers, a # NoAnswer, server = "up",
         NEW r, r = Asked(c), request' = [r EXCEPT !.answer = a],
         UNCHANGED <<dataVars, server, unread, store, line, steady>>,
         a.is # "block", a # Error(InternalError),
         a.is = "null" /\ Held(AskedFor(c)) => c.method = "byHash" /\ EraForNumber(AskedFor(c)) \notin steady
  PROVE  RpcInv'
<1>1. PICK t : request' = t
  OBVIOUS
<1>2. t = [call |-> c, n |-> Unscanned, read |-> 0, answer |-> a, still |-> TRUE]
  BY <1>1 DEF Asked
<1>3. /\ t.call = c /\ t.n = Unscanned /\ t.answer = a /\ t.still = TRUE
      /\ t \in Request
  BY <1>2, Params DEF Request
<1>4. TypeOK /\ DataInv /\ ServerKept /\ loaded' = loaded /\ steady' = steady /\ index' = index
  BY DEF RpcInv, store, dataVars, files
<1>5. DataInv'
  BY <1>4, DataStays
<1>6. RequestKept'
  BY <1>1, <1>3, <1>4, RequestIs
<1>7. AnswersTrue'
  BY <1>1, <1>3, <1>4, AnswerIs
<1>8. TypeOK'
  BY <1>1, <1>3, <1>4, <1>5 DEF DataInv, TypeOK, store
<1>9. ServerKept'
  BY <1>4 DEF ServerKept, store
<1> QED
  BY <1>5, <1>6, <1>7, <1>8, <1>9 DEF RpcInv

LEMMA ReceiveKept ==
  ASSUME RpcInv, NEW c \in Calls, Receive(c)
  PROVE  RpcInv'
<1>1. /\ server = "up" /\ UNCHANGED <<dataVars, server, unread, store, line, steady>>
      /\ TypeOK /\ DataInv /\ ServerKept
  BY DEF RpcInv, Receive
<1>2. /\ loaded \subseteq Era /\ loaded # {} /\ unread = {}
      /\ loaded' = loaded /\ steady' = steady /\ index' = index /\ blocks' = blocks
  BY <1>1 DEF TypeOK, store, dataVars, files
<1>3. Highest \in Block
  BY <1>2, HighestFacts
<1>4. c.method \in {"unsupported", "invalid", "blockNumber", "latest", "byNumber", "byHash"} /\ c.n \in Nat
  BY CallFacts
<1>5. /\ request' = CASE c.method = "unsupported" -> [Asked(c) EXCEPT !.answer = Error(NoMethod)]
                      [] c.method = "invalid"     -> [Asked(c) EXCEPT !.answer = Error(InvalidParams)]
                      [] c.method = "blockNumber" -> [Asked(c) EXCEPT !.answer = Quantity(Highest)]
                      [] OTHER                    -> Scanned(c)
  BY DEF Receive
<1>6. CASE c.method \in {"unsupported", "invalid"}
  <2>1. PICK n \in {NoMethod, InvalidParams} : request' = [Asked(c) EXCEPT !.answer = Error(n)]
    BY <1>5, <1>6
  <2>2. /\ Error(n) \in Answers /\ Error(n) # NoAnswer /\ Error(n).is = "error"
        /\ Error(n) # Error(InternalError)
    BY DEF Answers, Error, NoAnswer, NoMethod, InvalidParams, InternalError
  <2> QED
    BY <1>1, <2>1, <2>2, AnsweredKept
<1>7. CASE c.method = "blockNumber"
  <2>1. request' = [Asked(c) EXCEPT !.answer = Quantity(Highest)]
    BY <1>5, <1>7
  <2>2. PICK h \in Block : h = Highest
    BY <1>3
  <2>3. /\ Quantity(h) \in Answers /\ Quantity(h) # NoAnswer /\ Quantity(h).is = "quantity"
        /\ Quantity(h) # Error(InternalError)
    BY DEF Answers, Quantity, NoAnswer, Error
  <2> QED
    BY <1>1, <2>1, <2>2, <2>3, AnsweredKept
<1>8. CASE c.method \in {"latest", "byNumber", "byHash"}
  <2> DEFINE readable == {n \in Wanted(c) : Held(n)}
  <2>1. PICK asked : asked = AskedFor(c)
    OBVIOUS
  <2>2. asked \in Nat
    <3>1. Highest \in Nat
      BY <1>3, Params DEF Block
    <3> QED
      BY <1>4, <2>1, <3>1 DEF AskedFor
  <2>3. Wanted(c) = IF c.method = "byHash" THEN {asked} \cap hashes ELSE {asked}
    <3>1. CASE c.method = "latest"
      BY <2>1, <3>1 DEF Wanted, AskedFor
    <3>2. CASE c.method = "byNumber"
      BY <2>1, <3>2 DEF Wanted, AskedFor
    <3>3. CASE c.method = "byHash"
      BY <2>1, <3>3 DEF Wanted, AskedFor
    <3> QED
      BY <1>8, <3>1, <3>2, <3>3
  <2>4. request' = Scanned(c)
    BY <1>5, <1>8
  <2>5. CASE readable = {}
    <3>1. request' = [Asked(c) EXCEPT !.answer = Null]
      BY <2>4, <2>5 DEF Scanned
    <3>2. Null \in Answers /\ Null # NoAnswer /\ Null.is = "null" /\ Null # Error(InternalError)
      BY DEF Answers, Null, NoAnswer, Error
    <3>3. ASSUME Held(asked) PROVE c.method = "byHash" /\ EraForNumber(asked) \notin steady
      <4>1. asked \notin Wanted(c)
        BY <2>5, <3>3
      <4>2. c.method = "byHash" /\ asked \notin hashes
        BY <2>3, <4>1
      <4>3. EraForNumber(asked) \in loaded /\ asked \in BlocksOf(EraForNumber(asked))
        BY <1>2, <2>2, <3>3, HeldFacts
      <4>4. ASSUME EraForNumber(asked) \in steady PROVE FALSE
        <5>1. BlocksOf(EraForNumber(asked)) \subseteq hashes
          BY <1>1, <1>2, <4>3, <4>4 DEF ServerKept
        <5> QED
          BY <4>2, <4>3, <5>1
      <4> QED
        BY <4>2, <4>4
    <3> QED
      BY <1>1, <2>1, <3>1, <3>2, <3>3, AnsweredKept
  <2>6. CASE readable # {}
    <3>1. readable = {asked} /\ Held(asked)
      BY <2>3, <2>6
    <3>2. Min(readable) = asked
      <4>1. \A S : S \subseteq Nat /\ S # {} => Min(S) \in S
        BY MinIs
      <4>2. Min({asked}) \in {asked}
        BY <2>2, <4>1
      <4> QED
        BY <3>1, <4>2
    <3>3. request' = [Asked(c) EXCEPT !.n = asked, !.still = blocks[EraForNumber(asked)] = Whole]
      BY <2>4, <2>6, <3>2 DEF Scanned
    <3>4. PICK whole \in BOOLEAN : whole = (blocks[EraForNumber(asked)] = Whole)
      OBVIOUS
    <3>5. PICK r : r = [call |-> c, n |-> asked, read |-> 0, answer |-> NoAnswer, still |-> whole]
      OBVIOUS
    <3>6. request' = r
      <4>1. PICK t : t = Asked(c)
        OBVIOUS
      <4>2. PICK u : request' = u
        OBVIOUS
      <4>3. u = [t EXCEPT !.n = asked, !.still = whole]
        BY <3>3, <3>4, <4>1, <4>2
      <4>4. u = [call |-> c, n |-> asked, read |-> 0, answer |-> NoAnswer, still |-> whole]
        BY <4>1, <4>3 DEF Asked
      <4> QED
        BY <3>5, <4>2, <4>4
    <3>7. /\ EraForNumber(asked) \in loaded /\ asked \in BlocksOf(EraForNumber(asked)) /\ asked \in Block
          /\ EraForNumber(asked) * PerEra <= asked
      BY <1>2, <2>2, <3>1, HeldFacts
    <3>8. EraForNumber(asked) * PerEra + 0 <= asked
      <4> DEFINE base == EraForNumber(asked) * PerEra
      <4>1. base \in Nat /\ base <= asked
        BY <1>2, <3>7, EraFacts
      <4> HIDE DEF base
      <4>2. base + 0 <= asked
        BY <4>1
      <4> QED
        BY <4>2 DEF base
    <3>9. /\ r.call = c /\ r.n = asked /\ r.read = 0 /\ r.answer = NoAnswer /\ r.still = whole
          /\ r \in Request /\ r.n # Unscanned
      BY <2>2, <3>5, <3>7, Params DEF Request, Answers, Unscanned
    <3>10. RequestKept'
      BY <1>2, <1>8, <2>1, <3>4, <3>6, <3>8, <3>9, RequestIs
    <3>11. AnswersTrue'
      <4>1. NoAnswer.is = "none" /\ NoAnswer # Error(InternalError)
        BY DEF NoAnswer, Error
      <4> QED
        BY <1>2, <3>6, <3>9, <4>1, AnswerIs
    <3>12. DataInv'
      BY <1>1, DataStays
    <3>13. TypeOK'
      BY <1>1, <1>2, <3>6, <3>7, <3>9, <3>12 DEF DataInv, TypeOK, store
    <3>14. ServerKept'
      BY <1>1, <1>2 DEF ServerKept, store
    <3> QED
      BY <3>10, <3>11, <3>12, <3>13, <3>14 DEF RpcInv
  <2> QED
    BY <2>5, <2>6
<1> QED
  BY <1>4, <1>6, <1>7, <1>8

\* A call that is being answered, and the era whose lines are read for it.
LEMMA OpenFacts ==
  ASSUME RpcInv, Open
  PROVE  LET e == EraForNumber(request.n)
         IN /\ e \in loaded /\ e \in Era /\ blocks[e] \in Files
            /\ request.n \in Block /\ request.n \in Nat
            /\ e * PerEra + request.read <= request.n
            /\ request.n < e * PerEra + PerEra
            /\ e * PerEra \in Nat /\ request.read \in Nat /\ request.read + 1 \in 0..PerEra
            /\ request.still => blocks[e] = Whole
            /\ request \in Request /\ request.n # Unscanned /\ request.answer = NoAnswer
            /\ request # NoRequest /\ request.call \in Calls
            /\ request.n = AskedFor(request.call)
            /\ request.call.method \in {"latest", "byNumber", "byHash"}
            /\ \E x \in loaded : request.n \in BlocksOf(x)
<1> DEFINE e == EraForNumber(request.n)
           base == e * PerEra
<1>1. TypeOK /\ RequestKept /\ request # NoRequest /\ request.answer = NoAnswer
  BY DEF RpcInv, Open
<1>2. /\ request.n # Unscanned /\ request.n = AskedFor(request.call)
      /\ request.call.method \in {"latest", "byNumber", "byHash"}
      /\ base + request.read <= request.n
      /\ request.still => blocks[e] = Whole
  BY <1>1 DEF RequestKept
<1>3. request \in Request /\ request.call \in Calls /\ loaded \subseteq Era
  BY <1>1 DEF TypeOK
<1>4. \E x \in loaded : request.n \in BlocksOf(x)
  BY <1>1, <1>2 DEF TypeOK
<1>5. request.n \in Block /\ request.n \in Nat /\ request.read \in 0..PerEra
  BY <1>2, <1>3, Params DEF Request, Block
<1>6. /\ e \in loaded /\ e \in Era /\ base <= request.n /\ request.n < base + PerEra
  BY <1>3, <1>4, <1>5, HeldFacts
<1>7. base \in Nat /\ blocks[e] \in Files
  BY <1>1, <1>6, EraFacts DEF TypeOK, DataTypeOK
<1> HIDE DEF e, base
<1>8. request.read \in Nat /\ request.read + 1 \in 0..PerEra
  BY <1>2, <1>5, <1>6, <1>7, Params
<1> QED
  BY <1>1, <1>2, <1>3, <1>4, <1>5, <1>6, <1>7, <1>8 DEF e, base

LEMMA ReadLineKept ==
  ASSUME RpcInv, ReadLine
  PROVE  RpcInv'
<1>1. /\ Open /\ UNCHANGED <<dataVars, server, unread, store, line, steady>>
      /\ TypeOK /\ DataInv /\ ServerKept
      /\ loaded' = loaded /\ steady' = steady /\ index' = index /\ blocks' = blocks
  BY DEF RpcInv, ReadLine, store, dataVars, files
<1>2. PICK r, e : r = request /\ e = EraForNumber(r.n)
  OBVIOUS
<1> DEFINE base == e * PerEra
<1>3. /\ e \in loaded /\ e \in Era /\ blocks[e] \in Files
      /\ r.n \in Block /\ r.n \in Nat /\ base + r.read <= r.n /\ r.n < base + PerEra
      /\ base \in Nat /\ r.read \in Nat /\ r.read + 1 \in 0..PerEra
      /\ r.still => blocks[e] = Whole
      /\ r \in Request /\ r.n # Unscanned /\ r.answer = NoAnswer
      /\ r # NoRequest /\ r.call \in Calls
      /\ r.n = AskedFor(r.call) /\ r.call.method \in {"latest", "byNumber", "byHash"}
      /\ \E x \in loaded : r.n \in BlocksOf(x)
  BY <1>1, <1>2, OpenFacts
<1>4. PICK t : request' = t
  OBVIOUS
<1>5. DataInv'
  BY <1>1, DataStays
<1>6. ASSUME t \in Request, t.call = r.call, t.n = r.n, t.still = r.still,
             t.answer = NoAnswer => base + t.read <= r.n,
             t.answer.is = "block" => t.answer.n = r.n,
             t.answer.is = "null" => ~r.still,
             t.answer = Error(InternalError) => ~r.still
      PROVE  RpcInv'
  <2>1. RequestKept'
    BY <1>1, <1>2, <1>3, <1>4, <1>6, RequestIs
  <2>2. AnswersTrue'
    BY <1>1, <1>3, <1>4, <1>6, AnswerIs
  <2>3. TypeOK'
    BY <1>1, <1>3, <1>4, <1>5, <1>6 DEF DataInv, TypeOK, store
  <2>4. ServerKept'
    <3>1. server # "down" /\ (server # "up" => FALSE)
      BY <1>1, <1>2, <1>3 DEF ServerKept
    <3> QED
      BY <1>1, <3>1 DEF ServerKept, store
  <2> QED
    BY <1>5, <2>1, <2>2, <2>3, <2>4 DEF RpcInv
<1>7. CASE /\ base + r.read # r.n
           /\ t = [r EXCEPT !.read = r.read + 1]
  <2>1. PICK k : k = r.read + 1
    OBVIOUS
  <2>2. k \in 0..PerEra /\ base + k <= r.n
    <3> HIDE DEF base
    <3> QED
      BY <1>3, <1>7, <2>1
  <2>3. /\ t \in Request /\ t.call = r.call /\ t.n = r.n /\ t.still = r.still
        /\ t.answer = r.answer /\ t.read = k
    BY <1>3, <1>7, <2>1, <2>2 DEF Request
  <2>4. NoAnswer.is = "none" /\ NoAnswer # Error(InternalError)
    BY DEF NoAnswer, Error
  <2> QED
    BY <1>3, <1>6, <2>2, <2>3, <2>4
<1>8. CASE /\ base + r.read = r.n
           /\ t = [r EXCEPT !.answer = Shaped(r.call, base + r.read)]
  <2>1. PICK a : a = Shaped(r.call, r.n)
    OBVIOUS
  <2>2. a \in {Error(Unsupported), Result(r.n)}
    BY <2>1 DEF Shaped
  <2>3. /\ a \in Answers /\ a # NoAnswer /\ a.is # "null" /\ a # Error(InternalError)
        /\ a.is = "block" => a.n = r.n
    <3>1. CASE a = Error(Unsupported)
      BY <3>1 DEF Answers, Error, NoAnswer, Unsupported, InternalError
    <3>2. CASE a = Result(r.n)
      BY <1>3, <3>2 DEF Answers, Error, NoAnswer, Result
    <3> QED
      BY <2>2, <3>1, <3>2
  <2>4. t = [r EXCEPT !.answer = a]
    BY <1>8, <2>1
  <2>5. /\ t \in Request /\ t.call = r.call /\ t.n = r.n /\ t.still = r.still
        /\ t.answer = a
    BY <1>3, <2>3, <2>4 DEF Request
  <2> QED
    BY <1>6, <2>3, <2>5
<1>9. ASSUME NEW a, ~ (r.read < blocks[e].lines), a \in {Error(InternalError), Null},
             t = [r EXCEPT !.answer = a]
      PROVE  RpcInv'
  <2>1. ~r.still
    <3> SUFFICES ASSUME blocks[e] = Whole PROVE FALSE
      BY <1>3
    <3>1. blocks[e].lines = PerEra
      BY DEF Whole, File
    <3> HIDE DEF base
    <3>2. r.read < PerEra
      BY <1>3, Params
    <3> QED
      BY <1>9, <3>1, <3>2
  <2>2. a \in Answers /\ a # NoAnswer /\ a.is # "block"
    BY <1>9 DEF Answers, Error, Null, NoAnswer
  <2>3. /\ t \in Request /\ t.call = r.call /\ t.n = r.n /\ t.still = r.still
        /\ t.answer = a
    BY <1>3, <1>9, <2>2 DEF Request
  <2> QED
    BY <1>6, <2>1, <2>2, <2>3
<1>10. \/ /\ base + r.read # r.n
          /\ t = [r EXCEPT !.read = r.read + 1]
       \/ /\ base + r.read = r.n
          /\ t = [r EXCEPT !.answer = Shaped(r.call, base + r.read)]
       \/ \E a \in {Error(InternalError), Null} :
            ~ (r.read < blocks[e].lines) /\ t = [r EXCEPT !.answer = a]
  BY <1>2, <1>4 DEF ReadLine
<1> QED
  BY <1>7, <1>8, <1>9, <1>10

\* While a command goes on, what is remembered of the files only grows weaker.
LEMMA WatchKept ==
  ASSUME RpcInv, DataInv', Watch
  PROVE  RpcInv'
<1>1. /\ UNCHANGED <<server, unread, store, line>> /\ loaded' = loaded
      /\ TypeOK /\ DataInv /\ ServerKept /\ RequestKept /\ AnswersTrue
  BY DEF RpcInv, Watch, store
<1>2. PICK r, t : r = request /\ t = request'
  OBVIOUS
<1>3. r \in Request /\ (r # NoRequest => r.call \in Calls)
  BY <1>1, <1>2 DEF TypeOK
<1>4. /\ steady' \subseteq steady
      /\ server = "loading" => \A e \in steady' : index'[e] = Whole
  BY DEF Watch
<1>5. /\ t \in Request /\ t.call = r.call /\ t.n = r.n /\ t.read = r.read /\ t.answer = r.answer
      /\ t.still => r.still
      /\ r.n # Unscanned /\ t.still => blocks'[EraForNumber(r.n)] = Whole
      /\ r.n = Unscanned => t = r
  <2>1. CASE r.n = Unscanned
    <3>1. t = r
      BY <1>2, <2>1 DEF Watch
    <3> QED
      BY <1>3, <2>1, <3>1
  <2>2. CASE r.n # Unscanned
    <3>1. PICK s \in BOOLEAN : s = (r.still /\ blocks'[EraForNumber(r.n)] = Whole)
      OBVIOUS
    <3>2. t = [r EXCEPT !.still = s]
      BY <1>2, <2>2, <3>1 DEF Watch
    <3>3. /\ t \in Request /\ t.call = r.call /\ t.n = r.n /\ t.read = r.read /\ t.answer = r.answer
          /\ t.still = s
      BY <1>3, <3>2 DEF Request
    <3> QED
      BY <2>2, <3>1, <3>3
  <2> QED
    BY <2>1, <2>2
<1>6. t # NoRequest => r # NoRequest
  <2> SUFFICES ASSUME r = NoRequest PROVE t = NoRequest
    OBVIOUS
  <2>1. r.n = Unscanned
    BY DEF NoRequest, Asked
  <2> QED
    BY <1>5, <2>1
<1>7. RequestKept'
  <2>1. /\ r.n # Unscanned => r.n = AskedFor(r.call) /\ r.call.method \in {"latest", "byNumber", "byHash"}
        /\ r.answer = NoAnswer /\ r # NoRequest =>
             r.n # Unscanned /\ EraForNumber(r.n) * PerEra + r.read <= r.n
    BY <1>1, <1>2 DEF RequestKept, Open
  <2>2. /\ t.n # Unscanned => t.n = AskedFor(t.call) /\ t.call.method \in {"latest", "byNumber", "byHash"}
        /\ t.answer = NoAnswer /\ t # NoRequest => t.n # Unscanned
        /\ t.answer = NoAnswer /\ t # NoRequest =>
             /\ EraForNumber(t.n) * PerEra + t.read <= t.n
             /\ t.still => blocks'[EraForNumber(t.n)] = Whole
    BY <1>5, <1>6, <2>1
  <2> QED
    BY <1>1, <1>2, <2>2, RequestIs
<1>8. AnswersTrue'
  <2>1. /\ r.answer.is = "block" =>
             r.call.method \in {"latest", "byNumber", "byHash"} /\ r.answer.n = AskedFor(r.call)
        /\ r.answer.is = "null" /\ Held(AskedFor(r.call)) =>
             \/ r.n # Unscanned /\ ~r.still
             \/ r.call.method = "byHash" /\ EraForNumber(AskedFor(r.call)) \notin steady
        /\ r.answer = Error(InternalError) => ~r.still
    BY <1>1, <1>2 DEF AnswersTrue
  <2>2. /\ t.answer.is = "block" =>
             t.call.method \in {"latest", "byNumber", "byHash"} /\ t.answer.n = AskedFor(t.call)
        /\ t.answer.is = "null" /\ Held(AskedFor(t.call)) =>
             \/ t.n # Unscanned /\ ~t.still
             \/ t.call.method = "byHash" /\ EraForNumber(AskedFor(t.call)) \notin steady'
        /\ t.answer = Error(InternalError) => ~t.still
    BY <1>4, <1>5, <2>1
  <2> QED
    BY <1>1, <1>2, <2>2, AnswerIs
<1>9. TypeOK'
  <2>1. request' \in Request /\ (request' # NoRequest => request'.call \in Calls)
    BY <1>2, <1>3, <1>5, <1>6
  <2>2. request'.n # Unscanned => \E e \in loaded : request'.n \in BlocksOf(e)
    BY <1>1, <1>2, <1>5 DEF TypeOK
  <2> QED
    BY <1>1, <1>4, <2>1, <2>2 DEF DataInv, TypeOK, store
<1>10. ServerKept'
  <2>1. server # "up" => request' = NoRequest
    <3> SUFFICES ASSUME server # "up" PROVE t = NoRequest
      BY <1>2
    <3>1. r = NoRequest
      BY <1>1, <1>2 DEF ServerKept
    <3> QED
      BY <1>6, <3>1
  <2> QED
    BY <1>1, <1>4, <2>1 DEF ServerKept, store
<1> QED
  BY <1>1, <1>7, <1>8, <1>9, <1>10 DEF RpcInv

-----------------------------------------------------------------------------
LEMMA RpcInitKept ==
  ASSUME Init
  PROVE  RpcInv
<1>1. DataInv
  BY DataInitKept DEF Init
<1>2. request = NoRequest /\ request.n = Unscanned /\ request.answer = NoAnswer /\ request.call = NoCall
  BY DEF Init, NoRequest, Asked
<1>3. NoRequest \in Request
  BY Params DEF NoRequest, Asked, Request, Answers
<1>4. TypeOK
  BY <1>1, <1>2, <1>3, Params DEF DataInv, Init, TypeOK
<1>5. ServerKept
  BY DEF Init, ServerKept
<1>6. RequestKept
  BY <1>2 DEF RequestKept, Open
<1>7. AnswersTrue
  BY <1>2 DEF AnswersTrue, NoAnswer, Error
<1> QED
  BY <1>1, <1>4, <1>5, <1>6, <1>7 DEF RpcInv

LEMMA RpcStepKept ==
  ASSUME RpcInv, [Next]_vars
  PROVE  RpcInv'
<1>1. CASE CommandNext
  <2>1. DataInv' /\ Watch
    <3>1. DataInv
      BY DEF RpcInv
    <3>2. CASE \E c \in Commands : c.lo <= c.hi /\ (c.name = "extract" => server = "down") /\ Start(c)
      BY <1>1, <3>1, <3>2, StartKept DEF CommandNext
    <3>3. CASE CommandStep \/ Crash
      BY <1>1, <3>1, <3>3, CommandKept DEF CommandNext
    <3> QED
      BY <1>1, <3>2, <3>3 DEF CommandNext
  <2> QED
    BY <2>1, WatchKept
<1>2. CASE ServerStep
  BY <1>2, LoadSummaryKept, IngestLineKept, ListenKept, ReadLineKept, ReplyKept DEF ServerStep
<1>3. CASE StartServer \/ Stop
  BY <1>3, StartServerKept, StopKept
<1>4. CASE \E c \in Calls : Receive(c)
  BY <1>4, ReceiveKept
<1>5. CASE UNCHANGED vars
  <2>1. /\ UNCHANGED <<dataVars, server, unread, store, line, request, steady>>
        /\ loaded' = loaded /\ index' = index /\ blocks' = blocks
        /\ TypeOK /\ DataInv /\ ServerKept /\ RequestKept /\ AnswersTrue
    BY <1>5 DEF RpcInv, vars, rpc, store, dataVars, files
  <2>2. DataInv'
    BY <2>1, DataStays
  <2>3. PICK r : r = request /\ r = request'
    BY <2>1
  <2>4. RequestKept'
    <3>1. /\ r.answer = NoAnswer /\ r # NoRequest => r.n # Unscanned
          /\ r.n # Unscanned => r.n = AskedFor(r.call) /\ r.call.method \in {"latest", "byNumber", "byHash"}
          /\ r.answer = NoAnswer /\ r # NoRequest =>
               /\ EraForNumber(r.n) * PerEra + r.read <= r.n
               /\ r.still => blocks'[EraForNumber(r.n)] = Whole
      BY <2>1, <2>3 DEF RequestKept, Open
    <3> QED
      BY <2>1, <2>3, <3>1, RequestIs
  <2>5. AnswersTrue'
    <3>1. /\ r.answer.is = "block" =>
               r.call.method \in {"latest", "byNumber", "byHash"} /\ r.answer.n = AskedFor(r.call)
          /\ r.answer.is = "null" /\ Held(AskedFor(r.call)) =>
               \/ r.n # Unscanned /\ ~r.still
               \/ r.call.method = "byHash" /\ EraForNumber(AskedFor(r.call)) \notin steady'
          /\ r.answer = Error(InternalError) => ~r.still
      BY <2>1, <2>3 DEF AnswersTrue
    <3> QED
      BY <2>1, <2>3, <3>1, AnswerIs
  <2>6. TypeOK'
    BY <2>1, <2>2 DEF DataInv, TypeOK, store
  <2>7. ServerKept'
    BY <2>1 DEF ServerKept, store
  <2> QED
    BY <2>2, <2>4, <2>5, <2>6, <2>7 DEF RpcInv
<1> QED
  BY <1>1, <1>2, <1>3, <1>4, <1>5 DEF Next

\* The commands of the data directory (cli-shared.ts, bundle.ts, state-extract.ts)
\* and the server (store.ts) keep RpcInv, whatever is killed or stopped when.
THEOREM RpcInvariant == Spec => []RpcInv
<1>1. Init => RpcInv
  BY RpcInitKept
<1>2. RpcInv /\ [Next]_vars => RpcInv'
  BY RpcStepKept
<1> QED
  BY <1>1, <1>2, PTL DEF Spec

\* Files, the machine of extract(), the maps of the server and calls have their
\* types; a server that is up has eras, and reads lines only of an era it has
\* (packages/rpc/src/store.ts).
THEOREM RpcTypes == Spec => []TypeOK
<1>1. RpcInv => TypeOK
  BY DEF RpcInv
<1> QED
  BY <1>1, RpcInvariant, PTL

\* Checkpoints are those of a replay from genesis, their states and blocks are
\* on disk, and a command that ends without an error has made its files whole
\* (packages/era/src/state-extract.ts, cli-shared.ts).
THEOREM FilesAreSound == Spec => []FilesSound
<1>1. RpcInv => FilesSound
  BY DEF RpcInv, DataInv, FilesSound
<1> QED
  BY <1>1, RpcInvariant, PTL

\* A block is answered only where that block was asked for, and null for a block
\* the server holds only where a command wrote its file meanwhile (the lookups of
\* packages/rpc/src/store.ts).
THEOREM AnswersAreTrue == Spec => []AnswersTrue
<1>1. RpcInv => AnswersTrue
  BY DEF RpcInv
<1> QED
  BY <1>1, RpcInvariant, PTL

=============================================================================
