--------------------------- MODULE EraUploadProofs ---------------------------
(***************************************************************************)
(* EraInv is an invariant of the upload commands, for any number of eras,  *)
(* blocks, accounts, workers and commands.                                 *)
(***************************************************************************)
EXTENDS EraUpload, FiniteSetTheorems, TLAPS

LEMMA Bounds == Eras \in Nat /\ Eras > 0 /\ PerEra \in Nat /\ PerEra > 0 /\ Concurrency \in Nat /\ Concurrency > 0 /\ MaxRuns \in Nat
BY EraUploadAssumption

-----------------------------------------------------------------------------
(* Blocks and counters.                                                    *)

LEMMA BlockOfType ==
  ASSUME NEW e \in 1..Eras, NEW i \in 1..PerEra
  PROVE  BlockOf(e, i) \in Block
<1>1. (e - 1) * PerEra \in Nat /\ (e - 1) * PerEra + PerEra <= Eras * PerEra
  BY Bounds
<1> QED
  BY <1>1, Bounds DEF BlockOf, Block

LEMMA BlocksOfType ==
  ASSUME NEW lo \in Int, NEW hi \in Int, 1 <= lo, hi <= Eras
  PROVE  BlocksOf(lo, hi) \subseteq Block
<1>1. ASSUME NEW e \in lo..hi, NEW i \in 1..PerEra PROVE BlockOf(e, i) \in Block
  <2>1. e \in 1..Eras
    BY Bounds
  <2> QED
    BY <2>1, BlockOfType
<1> QED
  BY <1>1 DEF BlocksOf

LEMMA RangeType ==
  ASSUME NEW r \in Ranges
  PROVE  r[1] \in 1..Eras /\ r[2] \in 1..Eras /\ r[1] <= r[2]
BY DEF Ranges

LEMMA HistoryType ==
  ASSUME args \in Args
  PROVE  args.range \in Ranges /\ History \subseteq Block /\ History # {}
<1>1. args.range \in Ranges
  BY DEF Args
<1>2. args.range[1] \in 1..Eras /\ args.range[2] \in 1..Eras /\ args.range[1] <= args.range[2]
  BY <1>1, RangeType
<1>3. History \subseteq Block
  BY <1>2, Bounds, BlocksOfType DEF History
<1>4. BlockOf(args.range[1], 1) \in History
  <2>1. args.range[1] \in args.range[1]..args.range[2] /\ 1 \in 1..PerEra
    BY <1>2, Bounds
  <2> QED
    BY <2>1 DEF History, BlocksOf
<1> QED
  BY <1>1, <1>3, <1>4

\* An era that was read is an era of the range.
LEMMA BlocksOfNext ==
  ASSUME NEW lo \in Int, NEW e \in Int, lo <= e
  PROVE  BlocksOf(lo, e - 1) \cup {BlockOf(e, i) : i \in 1..PerEra} = BlocksOf(lo, e)
<1>1. \A x \in lo..e : x \in lo..(e - 1) \/ x = e
  OBVIOUS
<1>2. \A x \in lo..(e - 1) : x \in lo..e
  OBVIOUS
<1>3. e \in lo..e
  OBVIOUS
<1>4. ASSUME NEW b \in BlocksOf(lo, e)
      PROVE  b \in BlocksOf(lo, e - 1) \cup {BlockOf(e, i) : i \in 1..PerEra}
  BY <1>1 DEF BlocksOf
<1>5. BlocksOf(lo, e - 1) \subseteq BlocksOf(lo, e)
  BY <1>2 DEF BlocksOf
<1>6. {BlockOf(e, i) : i \in 1..PerEra} \subseteq BlocksOf(lo, e)
  BY <1>3 DEF BlocksOf
<1> QED
  BY <1>4, <1>5, <1>6

LEMMA BlocksOfNone ==
  ASSUME NEW lo \in Int
  PROVE  BlocksOf(lo, lo - 1) = {}
<1>1. lo..(lo - 1) = {}
  OBVIOUS
<1> QED
  BY <1>1 DEF BlocksOf

\* The next block of the era comes after all that were read.
LEMMA BlockOfNext ==
  ASSUME NEW lo \in Int, NEW e \in Int, NEW n \in 0..(PerEra - 1)
  PROVE  BlockOf(e, n + 1) \notin BlocksOf(lo, e - 1) \cup {BlockOf(e, i) : i \in 1..n}
<1>1. ASSUME NEW x \in lo..(e - 1), NEW i \in 1..PerEra
      PROVE  BlockOf(x, i) # BlockOf(e, n + 1)
  <2>1. x * PerEra <= (e - 1) * PerEra
    BY Bounds
  <2>2. (x - 1) * PerEra = x * PerEra - PerEra
    BY Bounds
  <2>3. (e - 1) * PerEra \in Int /\ x * PerEra \in Int
    BY Bounds
  <2> QED
    BY <2>1, <2>2, <2>3, Bounds DEF BlockOf
<1>2. ASSUME NEW i \in 1..n PROVE BlockOf(e, i) # BlockOf(e, n + 1)
  <2>1. (e - 1) * PerEra \in Int
    BY Bounds
  <2> QED
    BY <2>1, Bounds DEF BlockOf
<1> QED
  BY <1>1, <1>2 DEF BlocksOf

\* Counting a block keeps the blocks counted before.
LEMMA CountedSpans ==
  ASSUME NEW s \in Stats, NEW b \in Block, NEW bs, bs \subseteq Block, Spans(s, bs)
  PROVE  /\ Counted(s, b) \in Stats /\ Counted(s, b).count > 0
         /\ Spans(Counted(s, b), bs \cup {b})
<1> DEFINE t == Counted(s, b)
<1>1. s.first \in Nat /\ s.last \in Nat /\ s.count \in Nat
  BY Bounds DEF Stats, Block
<1>2. b \in Nat /\ b > 0 /\ (\A x \in bs : x \in Nat)
  BY Bounds DEF Block
<1>3. /\ t.first = (IF s.first = 0 \/ b < s.first THEN b ELSE s.first)
      /\ t.last = (IF b > s.last THEN b ELSE s.last)
      /\ t.count = s.count + 1
  BY DEF Counted, Stats
<1>4. t \in Stats
  <2>1. s.first \in {0} \cup Block /\ s.last \in {0} \cup Block
    BY DEF Stats
  <2>2. (IF s.first = 0 \/ b < s.first THEN b ELSE s.first) \in {0} \cup Block
    BY <2>1
  <2>3. (IF b > s.last THEN b ELSE s.last) \in {0} \cup Block
    BY <2>1
  <2>4. s.count + 1 \in Nat
    BY <1>1
  <2> QED
    BY <2>2, <2>3, <2>4 DEF Counted, Stats
<1> HIDE DEF t
<1>5. t.count > 0
  BY <1>1, <1>3
<1>6. t.first # 0 /\ t.first <= b /\ b <= t.last
  BY <1>1, <1>2, <1>3
<1>7. ASSUME NEW x \in bs PROVE t.first # 0 /\ t.first <= x /\ x <= t.last
  <2>1. s.first # 0 /\ s.first <= x /\ x <= s.last /\ x \in Nat
    BY <1>2 DEF Spans
  <2> QED
    BY <1>1, <1>2, <1>3, <2>1
<1>8. Spans(t, bs \cup {b})
  BY <1>6, <1>7 DEF Spans
<1> QED
  BY <1>4, <1>5, <1>8 DEF t

-----------------------------------------------------------------------------
(* Roots.                                                                  *)

LEMMA KnownType ==
  ASSUME TypeOK
  PROVE  Known \subseteq Root
<1>1. ASSUME NEW e \in 1..Eras, progress[e] \notin {None, Torn} PROVE progress[e].root \in Root
  BY <1>1 DEF TypeOK, Checkpoint
<1>2. ASSUME NEW r \in Ranges, output[r] \notin {None, Torn} PROVE output[r].root \in Root
  BY <1>2 DEF TypeOK, Output
<1> QED
  BY <1>1, <1>2 DEF Known

LEMMA StatsAreNoReference ==
  None \notin Stats /\ NodeRef \notin Stats /\ NoStats \in Stats
BY DEF Stats, NoStats, None, NodeRef

LEMMA EmptyType == Empty \in Root
BY DEF Empty, Root

LEMMA NoArgsType == NoArgs \in Args
<1>1. <<1, 1>> \in Ranges
  BY Bounds DEF Ranges
<1>2. 0 \in 0..PerEra
  BY Bounds
<1> QED
  BY <1>1, <1>2 DEF NoArgs, Args

\* What is said of files and of the feed stays true while Bee and the set of
\* what it holds only grow, and files only lose what they say.
LEMMA OthersKept ==
  ASSUME KnownKept, CheckpointSound, EndsSound,
         scheme' = scheme, published' = published,
         trees \subseteq trees', roots \subseteq roots',
         \A e \in 1..Eras : progress'[e] = progress[e] \/ progress'[e] \in {None, Torn},
         \A r \in Ranges : output'[r] = output[r] \/ output'[r] \in {None, Torn},
         args'.extends \in {None, args.extends} \cup Known
  PROVE  KnownKept' /\ CheckpointSound' /\ EndsSound'
<1>1. ASSUME NEW root, Whole(root) PROVE Whole(root)'
  BY <1>1 DEF Whole
<1>2. Known' \subseteq Known
  BY DEF Known
<1>3. KnownKept'
  BY <1>2 DEF KnownKept, Even
<1>4. CheckpointSound'
  <2> SUFFICES ASSUME NEW e \in 1..Eras, progress'[e] \notin {None, Torn}
               PROVE  /\ Whole(progress[e].root)'
                      /\ HasBlocks(progress'[e].root, {BlockOf(e, i) : i \in 1..progress'[e].blocks})
    BY DEF CheckpointSound
  <2>1. progress'[e] = progress[e]
    OBVIOUS
  <2>2. /\ Whole(progress[e].root)
        /\ HasBlocks(progress[e].root, {BlockOf(e, i) : i \in 1..progress[e].blocks})
    BY <2>1 DEF CheckpointSound
  <2>3. Whole(progress[e].root)'
    BY <2>1, <2>2 DEF Whole
  <2> QED
    BY <2>1, <2>2, <2>3
<1>5. EndsSound'
  <2>1. \A root \in published' : Whole(root)'
    BY <1>1 DEF EndsSound, OutputsComplete
  <2>2. ASSUME NEW r \in Ranges, output'[r] \notin {None, Torn}
        PROVE  output'[r] = output[r] /\ Whole(output[r].root)'
    <3>1. output'[r] = output[r]
      BY <2>2
    <3>2. Whole(output[r].root)
      BY <2>2, <3>1 DEF EndsSound, OutputsComplete, FileSays
    <3> QED
      BY <3>1, <3>2 DEF Whole
  <2>3. OutputsComplete'
    BY <2>1, <2>2 DEF EndsSound, OutputsComplete, FileSays, Even
  <2>4. PotMetaCovers'
    BY DEF EndsSound, PotMetaCovers
  <2> QED
    BY <2>3, <2>4 DEF EndsSound
<1> QED
  BY <1>3, <1>4, <1>5

\* The same for an action that touches neither.
LEMMA OthersSame ==
  ASSUME EraInv, UNCHANGED <<scheme, bee, files>>,
         args'.extends \in {None, args.extends} \cup Known
  PROVE  KnownKept' /\ CheckpointSound' /\ EndsSound'
BY OthersKept DEF EraInv, bee, files

\* What is said of the index is about the arguments of the command.
LEMMA ArgsSame ==
  ASSUME UNCHANGED <<args, scheme>>
  PROVE  History' = History /\ Old' = Old /\ Once' = Once
<1>1. History' = History /\ Old' = Old
  BY DEF History, Old
<1> QED
  BY <1>1 DEF Once, Again

\* A command extends something even.
LEMMA OldEven ==
  ASSUME EraInv
  PROVE  Old \in Root /\ Even(Old) /\ \A a \in Account : Old.address[a] \subseteq Old.number
<1>1. Empty \in Root /\ Even(Empty) /\ \A a \in Account : Empty.address[a] \subseteq Empty.number
  BY EmptyType DEF Even, Empty
<1>2. args.extends # None => args.extends \in Root
  BY DEF EraInv, TypeOK, Args
<1>3. args.extends # None =>
        Even(args.extends) /\ \A a \in Account : args.extends.address[a] \subseteq args.extends.number
  BY DEF EraInv, KnownKept
<1> QED
  BY <1>1, <1>2, <1>3 DEF Old

\* The memory of a process that ended.
LEMMA Forgotten ==
  ASSUME EraInv, ForgetAll, UNCHANGED <<scheme, trees, roots, files>>,
         published' \subseteq Root
  PROVE  TypeOK' /\ IndexKept' /\ RecordsKept' /\ SaveKept'
<1>1. TypeOK'
  <2>1. args' \in Args /\ index' \in Root /\ stats' \in Stats
    BY NoArgsType, EmptyType, StatsAreNoReference DEF ForgetAll
  <2>2. era' \in 1..Eras /\ processed' \in 0..PerEra
    BY Bounds DEF ForgetAll
  <2>3. IsFiniteSet(busy') /\ Cardinality(busy') <= Concurrency
    BY FS_EmptySet, Bounds DEF ForgetAll
  <2>4. pc' = "idle" /\ todo' = {} /\ busy' = {} /\ refs' = {} /\ saved' = {}
    BY DEF ForgetAll
  <2>5. roots' \cup published' \subseteq Root
    BY DEF EraInv, TypeOK
  <2>6. scheme' \in {"manifest", "pot"}
    BY DEF EraInv, TypeOK
  <2>7. /\ progress' \in [1..Eras -> {None, Torn} \cup Checkpoint]
        /\ output' \in [Ranges -> {None, Torn} \cup Output]
    BY DEF EraInv, TypeOK, files
  <2> QED
    BY <2>1, <2>2, <2>3, <2>4, <2>5, <2>6, <2>7 DEF TypeOK
<1>2. IndexKept'
  BY DEF ForgetAll, IndexKept
<1>3. RecordsKept'
  BY DEF ForgetAll, RecordsKept
<1>4. SaveKept'
  BY DEF ForgetAll, SaveKept, EraInv, files
<1> QED
  BY <1>1, <1>2, <1>3, <1>4

-----------------------------------------------------------------------------
(* The command starts.                                                     *)

LEMMA InitKept ==
  ASSUME Init
  PROVE  EraInv
<1> USE DEF Init
<1>1. TypeOK
  <2>1. args \in Args /\ index \in Root /\ stats \in Stats
    BY NoArgsType, EmptyType, StatsAreNoReference
  <2>2. era \in 1..Eras /\ processed \in 0..PerEra
    BY Bounds
  <2>3. IsFiniteSet(busy) /\ Cardinality(busy) <= Concurrency
    BY FS_EmptySet, Bounds
  <2> QED
    BY <2>1, <2>2, <2>3 DEF TypeOK
<1>2. Known = {}
  BY DEF Known
<1>3. KnownKept
  BY <1>2 DEF KnownKept, NoArgs
<1>4. IndexKept /\ RecordsKept /\ SaveKept
  BY DEF IndexKept, RecordsKept, SaveKept
<1>5. CheckpointSound /\ EndsSound
  BY DEF CheckpointSound, EndsSound, OutputsComplete, PotMetaCovers
<1> QED
  BY <1>1, <1>3, <1>4, <1>5 DEF EraInv

LEMMA StartKept ==
  ASSUME EraInv,
         NEW r \in Ranges, NEW n \in 0..PerEra, NEW noState \in BOOLEAN,
         NEW root \in {None} \cup Known,
         Start([range |-> r, every |-> n, noState |-> noState, extends |-> root])
  PROVE  EraInv'
<1> DEFINE a == [range |-> r, every |-> n, noState |-> noState, extends |-> root]
<1>1. /\ pc = "idle" /\ pc' = "open" /\ args' = a
      /\ UNCHANGED <<scheme, index, stats, era, processed, todo, busy, refs, saved, bee, files>>
  BY DEF Start
<1>2. args' \in Args
  BY <1>1, KnownType DEF EraInv, Args
<1>3. args'.extends \in {None, args.extends} \cup Known
  BY <1>1
<1>4. TypeOK'
  BY <1>1, <1>2 DEF EraInv, TypeOK, bee, files
<1>5. IndexKept'
  BY <1>1 DEF EraInv, IndexKept
<1>6. RecordsKept'
  BY <1>1 DEF EraInv, RecordsKept
<1>7. SaveKept'
  BY <1>1 DEF EraInv, SaveKept, bee, files
<1>8. KnownKept' /\ CheckpointSound' /\ EndsSound'
  BY <1>1, <1>3, OthersSame
<1> QED
  BY <1>4, <1>5, <1>6, <1>7, <1>8 DEF EraInv

LEMMA OpenKept ==
  ASSUME EraInv, Open
  PROVE  EraInv'
<1>1. /\ pc = "open" /\ pc' = "blocks" /\ era' = args.range[1]
      /\ UNCHANGED <<scheme, args, processed, todo, busy, refs, saved, bee, files>>
  BY DEF Open
<1>2. args \in Args /\ args.extends \in {None} \cup Root
  BY DEF EraInv, TypeOK, Args
<1>3. /\ args.range \in Ranges
      /\ args.range[1] \in 1..Eras /\ args.range[2] \in 1..Eras /\ args.range[1] <= args.range[2]
  BY <1>2, HistoryType, RangeType
<1>4. processed' = 0
  BY <1>1 DEF EraInv, IndexKept
<1>5. Done' = {}
  <2>1. BlocksOf(args.range[1], args.range[1] - 1) = {}
    BY <1>3, Bounds, BlocksOfNone
  <2>2. {BlockOf(era', i) : i \in 1..0} = {}
    OBVIOUS
  <2> QED
    BY <1>1, <1>4, <2>1, <2>2 DEF Done
\* What is in memory now.
<1>6. /\ index' \in Root /\ stats' \in Stats
      /\ index'.number = Old.number /\ index'.hash = Old.hash /\ index'.tx = Old.tx
      /\ index'.address = Old.address /\ index'.balance = Old.balance
      /\ scheme = "pot" => Spans(stats', index'.number)
  <2>1. CASE args.extends = None
    <3>1. index' = Empty /\ stats' = NoStats /\ Old = Empty
      BY <2>1 DEF Open, OpenManifest, OpenPotIndexes, Old
    <3>2. Spans(NoStats, Empty.number)
      BY DEF Empty, Spans
    <3> QED
      BY <3>1, <3>2, EmptyType, StatsAreNoReference
  <2>2. CASE args.extends # None
    <3>1. args.extends \in Root /\ Old = args.extends
      BY <1>2, <2>2 DEF Old
    <3>2. CASE OpenManifest
      <4>1. /\ scheme = "manifest"
            /\ index' = [args.extends EXCEPT !.meta = ExtractMetaRef(args.extends)]
            /\ stats' = LoadStatsFromMeta(index'.meta)
        BY <2>2, <3>2 DEF OpenManifest
      <4>2. stats' \in Stats
        BY <4>1, StatsAreNoReference DEF LoadStatsFromMeta
      <4>3. ExtractMetaRef(args.extends) \in {None, NodeRef}
        BY DEF ExtractMetaRef
      <4> HIDE DEF ExtractMetaRef, NodeRef, None, LoadStatsFromMeta
      <4>4. index' \in Root
        BY <3>1, <4>1, <4>3 DEF Root
      <4>5. /\ index'.number = Old.number /\ index'.hash = Old.hash
            /\ index'.tx = Old.tx /\ index'.address = Old.address /\ index'.balance = Old.balance
        BY <3>1, <4>1 DEF Root
      <4> QED
        BY <4>1, <4>2, <4>4, <4>5
    <3>3. CASE OpenPotIndexes
      <4>1. /\ scheme = "pot" /\ index' = args.extends
            /\ stats' = LoadMetaStats(args.extends.meta)
        BY <2>2, <3>3 DEF OpenPotIndexes
      <4>2. args.extends.meta \in Stats /\ Spans(args.extends.meta, args.extends.number)
        BY <2>2, <4>1 DEF EraInv, KnownKept
      <4>3. stats' = args.extends.meta
        BY <4>1, <4>2, StatsAreNoReference DEF LoadMetaStats
      <4> QED
        BY <3>1, <4>1, <4>2, <4>3
    <3> QED
      BY <3>2, <3>3 DEF Open
  <2> QED
    BY <2>1, <2>2
<1>7. TypeOK'
  BY <1>1, <1>3, <1>6 DEF EraInv, TypeOK, bee, files
<1>8. IndexKept'
  <2>1. era' \in args'.range[1]..args'.range[2]
    BY <1>1, <1>3, Bounds
  <2>2. Spans(stats', Done')
    BY <1>5 DEF Spans
  <2>3. Even(index)'
    BY <1>1, <1>6, OldEven DEF Even
  <2>4. HasBlocks(index', Done')
    BY <1>5 DEF HasBlocks
  <2>5. Old' = Old /\ Once' = Once
    BY <1>1, ArgsSame
  <2> QED
    BY <1>1, <1>5, <1>6, <2>1, <2>2, <2>3, <2>4, <2>5 DEF IndexKept
<1>9. RecordsKept'
  <2>1. Old' = Old
    BY <1>1, ArgsSame
  <2> QED
    BY <1>1, <1>6, <2>1 DEF EraInv, RecordsKept
<1>10. SaveKept'
  BY <1>1 DEF EraInv, SaveKept, bee, files
<1>11. KnownKept' /\ CheckpointSound' /\ EndsSound'
  BY <1>1, OthersSame
<1> QED
  BY <1>7, <1>8, <1>9, <1>10, <1>11 DEF EraInv

-----------------------------------------------------------------------------
(* Blocks.                                                                 *)

LEMMA RangeBounds ==
  ASSUME EraInv
  PROVE  /\ args.range \in Ranges
         /\ args.range[1] \in 1..Eras /\ args.range[2] \in 1..Eras /\ args.range[1] <= args.range[2]
         /\ History \subseteq Block /\ History # {}
BY HistoryType, RangeType DEF EraInv, TypeOK

LEMMA DoneType ==
  ASSUME EraInv, pc \notin {"idle", "open"}
  PROVE  Done \subseteq Block
<1>1. CASE pc \in {"blocks", "checkpoint", "progress"}
  <2>1. era \in 1..Eras /\ processed \in 0..PerEra
    BY DEF EraInv, TypeOK
  <2>2. ASSUME NEW i \in 1..processed PROVE BlockOf(era, i) \in Block
    <3>1. i \in 1..PerEra
      BY <2>1, Bounds
    <3> QED
      BY <2>1, <3>1, BlockOfType
  <2>3. BlocksOf(args.range[1], era - 1) \subseteq Block
    <3>1. era - 1 \in Int /\ era - 1 <= Eras /\ args.range[1] \in Int /\ 1 <= args.range[1]
      BY <2>1, RangeBounds, Bounds
    <3> QED
      BY <3>1, BlocksOfType
  <2> QED
    BY <1>1, <2>2, <2>3 DEF Done
<1>2. CASE pc \notin {"blocks", "checkpoint", "progress"}
  BY <1>2, RangeBounds DEF Done
<1> QED
  BY <1>1, <1>2

\* What is put once takes nothing out.
LEMMA LostNone ==
  ASSUME NEW trie, NEW again, NEW h \in Lost(trie, again), scheme = "manifest" \/ trie \cap again = {}
  PROVE  h = {}
<1>1. scheme = "manifest" => scheme # "pot"
  OBVIOUS
<1> QED
  BY <1>1 DEF Lost

LEMMA AddBlockKept ==
  ASSUME EraInv, NEW to \in {"blocks", "checkpoint"}, AddBlock(to),
         to = "checkpoint" => scheme = "manifest"
  PROVE  EraInv'
<1> DEFINE b == BlockOf(era, processed + 1)
<1>1. /\ pc = "blocks" /\ processed < PerEra
      /\ WithBlock(b) /\ stats' = Counted(stats, b)
      /\ processed' = processed + 1 /\ pc' = to
      /\ UNCHANGED <<scheme, args, era, todo, busy, refs, saved, bee, files>>
  BY DEF AddBlock
<1>2. /\ era \in 1..Eras /\ processed \in 0..PerEra /\ processed + 1 \in 1..PerEra
      /\ index \in Root /\ stats \in Stats
  BY <1>1, Bounds DEF EraInv, TypeOK
<1>3. b \in Block
  BY <1>2, BlockOfType
<1>4. /\ era \in args.range[1]..args.range[2]
      /\ Even(index) /\ index.number = Old.number \cup Done
      /\ Once => HasBlocks(index, Done) /\ Old.hash \subseteq index.hash /\ Old.tx \subseteq index.tx
      /\ Old.balance \subseteq index.balance
      /\ Spans(stats, Done) /\ (scheme = "pot" => Spans(stats, index.number))
  BY <1>1 DEF EraInv, IndexKept
<1>5. Done' = Done \cup {b}
  <2>1. 1..(processed + 1) = (1..processed) \cup {processed + 1}
    BY <1>2, Bounds
  <2>2. {BlockOf(era, i) : i \in 1..(processed + 1)} = {BlockOf(era, i) : i \in 1..processed} \cup {b}
    BY <2>1
  <2> HIDE DEF b
  <2> QED
    BY <1>1, <2>2 DEF Done
\* A block that is put once is not in the index.
<1>6. b \notin Done /\ b \in History
  <2>1. args.range[1] \in Int /\ era \in Int /\ processed \in 0..(PerEra - 1)
    BY <1>1, <1>2, RangeBounds, Bounds
  <2>2. b \notin BlocksOf(args.range[1], era - 1) \cup {BlockOf(era, i) : i \in 1..processed}
    BY <2>1, BlockOfNext
  <2>3. Done = BlocksOf(args.range[1], era - 1) \cup {BlockOf(era, i) : i \in 1..processed}
    BY <1>1 DEF Done
  <2>4. b \in History
    BY <1>2, <1>4 DEF History, BlocksOf
  <2> QED
    BY <2>2, <2>3, <2>4
<1> HIDE DEF b
<1>7. Once => scheme = "manifest" \/ b \notin index.hash \cup index.tx
  <2>1. Again(History, args.extends) = {} => b \notin Old.number
    BY <1>6 DEF Again, Old, Empty
  <2>2. index.hash \cup index.tx \subseteq Old.number \cup Done
    BY <1>4 DEF Even
  <2> QED
    BY <1>6, <2>1, <2>2 DEF Once
<1>8. PICK h \in Lost(index.hash, {b}), t \in Lost(index.tx, {b}) :
        index' = [index EXCEPT !.number = @ \cup {b}, !.hash = (@ \cup {b}) \ h, !.tx = (@ \cup {b}) \ t]
  BY <1>1 DEF WithBlock
<1>9. /\ scheme = "manifest" \/ b \notin index.hash => h = {}
      /\ scheme = "manifest" \/ b \notin index.tx => t = {}
  BY LostNone
<1>10. /\ index' \in Root
       /\ index'.number = index.number \cup {b} /\ index'.hash = (index.hash \cup {b}) \ h
       /\ index'.tx = (index.tx \cup {b}) \ t
       /\ index'.balance = index.balance /\ index'.address = index.address
  BY <1>2, <1>3, <1>8 DEF Root
<1>11. stats' \in Stats /\ stats'.count > 0 /\ Spans(stats', Done')
  BY <1>1, <1>2, <1>3, <1>4, <1>5, DoneType, CountedSpans
<1>12. scheme = "pot" => Spans(stats', index'.number)
  <2>1. index.number \subseteq Block
    BY <1>2 DEF Root
  <2> QED
    BY <1>1, <1>2, <1>3, <1>4, <1>10, <2>1, CountedSpans
<1>13. TypeOK'
  BY <1>1, <1>2, <1>10, <1>11, Bounds DEF EraInv, TypeOK, bee, files
<1>14. Old' = Old /\ Once' = Once
  BY <1>1, ArgsSame
<1>15. IndexKept'
  <2>1. Even(index)'
    BY <1>1, <1>4, <1>9, <1>10 DEF Even
  <2>2. Once => HasBlocks(index', Done') /\ Old.hash \subseteq index'.hash /\ Old.tx \subseteq index'.tx
    BY <1>4, <1>5, <1>7, <1>9, <1>10 DEF HasBlocks
  <2> QED
    BY <1>1, <1>4, <1>5, <1>10, <1>11, <1>12, <1>14, <2>1, <2>2 DEF IndexKept
<1>16. RecordsKept'
  BY <1>1, <1>10, <1>14 DEF EraInv, RecordsKept
<1>17. SaveKept'
  BY <1>1 DEF EraInv, SaveKept, bee, files
<1>18. KnownKept' /\ CheckpointSound' /\ EndsSound'
  BY <1>1, OthersSame
<1> QED
  BY <1>13, <1>15, <1>16, <1>17, <1>18 DEF EraInv

LEMMA EraEndsKept ==
  ASSUME EraInv, EraEnds
  PROVE  EraInv'
<1>1. /\ pc = "blocks" /\ processed = PerEra /\ processed' = 0
      /\ era' = IF era < args.range[2] THEN era + 1 ELSE era
      /\ pc' = IF era < args.range[2] THEN "blocks"
               ELSE IF args.noState THEN "meta" ELSE "accounts"
      /\ todo' = IF pc' = "accounts" THEN Account ELSE {}
      /\ UNCHANGED <<scheme, args, index, stats, busy, refs, saved, bee, files>>
  BY DEF EraEnds
<1>2. era \in 1..Eras /\ era \in args.range[1]..args.range[2] /\ args.noState \in BOOLEAN
  BY <1>1 DEF EraInv, TypeOK, IndexKept, Args
<1>3. Done = BlocksOf(args.range[1], era)
  <2>1. args.range[1] \in Int /\ era \in Int /\ args.range[1] <= era
    BY <1>2, RangeBounds, Bounds
  <2> QED
    BY <1>1, <2>1, BlocksOfNext DEF Done
<1>4. Done' = Done
  <2>1. CASE era < args.range[2]
    <3>1. pc' = "blocks" /\ era' = era + 1 /\ (era + 1) - 1 = era
      BY <1>1, <1>2, <2>1, Bounds
    <3>2. {BlockOf(era + 1, i) : i \in 1..0} = {}
      OBVIOUS
    <3>3. Done' = BlocksOf(args.range[1], (era + 1) - 1) \cup {BlockOf(era + 1, i) : i \in 1..0}
      BY <1>1, <3>1 DEF Done
    <3> QED
      BY <1>3, <3>1, <3>2, <3>3
  <2>2. CASE ~ era < args.range[2]
    <3>1. pc' \in {"meta", "accounts"} /\ era = args.range[2]
      BY <1>1, <1>2, <2>2, RangeBounds, Bounds
    <3> QED
      BY <1>1, <1>3, <3>1 DEF Done, History
  <2> QED
    BY <2>1, <2>2
<1>5. /\ era' \in 1..Eras /\ era' \in args.range[1]..args.range[2]
      /\ pc' \in {"blocks", "meta", "accounts"}
  BY <1>1, <1>2, RangeBounds, Bounds
<1>6. TypeOK'
  <2>1. processed' \in 0..PerEra
    BY <1>1, Bounds
  <2>2. todo' \subseteq Account
    BY <1>1
  <2> QED
    BY <1>1, <1>5, <2>1, <2>2 DEF EraInv, TypeOK, bee, files
<1>7. Old' = Old /\ Once' = Once /\ History' = History
  BY <1>1, ArgsSame
<1>8. IndexKept'
  <2>1. Even(index)' = Even(index)
    BY <1>1 DEF Even
  <2> QED
    BY <1>1, <1>4, <1>5, <1>7, <2>1 DEF EraInv, IndexKept
<1>9. RecordsKept'
  <2>1. todo \cup busy \cup refs = {} /\ index.address = Old.address
    BY <1>1 DEF EraInv, RecordsKept
  <2>2. pc' \in {"meta", "accounts"} => (pc' = "meta" <=> args.noState)
    BY <1>1, <1>2
  <2>3. CASE pc' = "blocks"
    BY <1>1, <1>7, <2>1, <2>3 DEF RecordsKept
  <2>4. CASE pc' = "meta"
    BY <1>1, <1>7, <2>1, <2>2, <2>4 DEF RecordsKept
  <2>5. CASE pc' = "accounts"
    BY <1>1, <1>7, <2>1, <2>2, <2>5 DEF RecordsKept
  <2> QED
    BY <1>5, <2>3, <2>4, <2>5
<1>10. SaveKept'
  BY <1>1, <1>5 DEF EraInv, SaveKept, bee, files
<1>11. KnownKept' /\ CheckpointSound' /\ EndsSound'
  BY <1>1, OthersSame
<1> QED
  BY <1>6, <1>8, <1>9, <1>10, <1>11 DEF EraInv

-----------------------------------------------------------------------------
(* Records.                                                                *)

\* The index, where it does not change.
LEMMA IndexSame ==
  ASSUME EraInv, UNCHANGED <<args, index, stats, era, processed, scheme>>, Done' = Done,
         pc' = pc \/ (pc \notin {"idle", "open"} /\ (pc' \notin {"blocks", "checkpoint", "progress"} => processed = 0))
  PROVE  IndexKept'
<1>1. IndexKept
  BY DEF EraInv
<1>2. Old' = Old /\ Once' = Once
  BY ArgsSame
<1>3. Even(index)' = Even(index)
  BY DEF Even
<1> QED
  BY <1>1, <1>2, <1>3 DEF IndexKept

LEMMA ClaimKept ==
  ASSUME EraInv, NEW x \in todo, Claim(x)
  PROVE  EraInv'
<1>1. /\ Cardinality(busy) < Concurrency
      /\ todo' = todo \ {x} /\ busy' = busy \cup {x}
      /\ UNCHANGED <<scheme, pc, args, index, stats, era, processed, refs, saved, bee, files>>
  BY DEF Claim
<1>2. todo' \cup busy' \cup refs' = todo \cup busy \cup refs
  BY <1>1
<1>3. IsFiniteSet(busy') /\ Cardinality(busy') <= Concurrency
  <2>1. IsFiniteSet(busy)
    BY DEF EraInv, TypeOK
  <2>2. Cardinality(busy) \in Nat
    BY <2>1, FS_CardinalityType
  <2>3. IsFiniteSet(busy') /\ (Cardinality(busy') = Cardinality(busy) \/ Cardinality(busy') = Cardinality(busy) + 1)
    BY <1>1, <2>1, FS_AddElement
  <2> QED
    BY <1>1, <2>2, <2>3, Bounds
<1>4. TypeOK'
  BY <1>1, <1>2, <1>3 DEF EraInv, TypeOK, bee, files
<1>5. IndexKept'
  <2>1. Done' = Done
    BY <1>1 DEF Done, History
  <2> QED
    BY <1>1, <2>1, IndexSame
<1>6. History' = History /\ Old' = Old /\ Once' = Once
  BY <1>1, ArgsSame
<1>7. RecordsKept'
  <2>1. RecordsKept /\ todo' \cup busy' = todo \cup busy
    BY <1>1 DEF EraInv
  <2>2. \A a : Updated(a)' = Updated(a)
    BY <1>1, <1>6 DEF Updated
  <2> QED
    BY <1>1, <1>2, <1>6, <2>1, <2>2 DEF RecordsKept
<1>8. SaveKept'
  BY <1>1 DEF EraInv, SaveKept, Whole, bee, files
<1>9. KnownKept' /\ CheckpointSound' /\ EndsSound'
  BY <1>1, OthersSame
<1> QED
  BY <1>4, <1>5, <1>7, <1>8, <1>9 DEF EraInv

\* The records of some items go into the index: each is there or was taken out
\* by one that was there already.
LEMMA WithRecordsAddress ==
  ASSUME EraInv, NEW items, WithRecords(items), pc = "accounts"
  PROVE  /\ index' \in Root
         /\ index'.number = index.number /\ index'.hash = index.hash /\ index'.tx = index.tx
         /\ index'.balance = index.balance
         /\ \E h \in Lost(Recorded \cup items, SameRecords(items)) :
              \A a \in Account :
                index'.address[a] = IF a \in h THEN {} ELSE IF a \in items THEN History ELSE index.address[a]
<1>1. index \in Root /\ History \subseteq Block
  BY RangeBounds DEF EraInv, TypeOK
<1>2. PICK h \in Lost(Recorded \cup items, SameRecords(items)) :
        index' = [index EXCEPT !.address =
                    [a \in Account |-> IF a \in h THEN {} ELSE IF a \in items THEN History ELSE @[a]]]
  BY DEF WithRecords
<1> DEFINE f == [a \in Account |-> IF a \in h THEN {} ELSE IF a \in items THEN History ELSE index.address[a]]
<1>3. index' = [index EXCEPT !.address = f]
  BY <1>2
<1>4. f \in [Account -> SUBSET Block]
  <2>1. ASSUME NEW a \in Account
        PROVE  (IF a \in h THEN {} ELSE IF a \in items THEN History ELSE index.address[a]) \in SUBSET Block
    BY <1>1 DEF Root
  <2> QED
    BY <2>1
<1>5. \A a \in Account : f[a] = IF a \in h THEN {} ELSE IF a \in items THEN History ELSE index.address[a]
  OBVIOUS
<1> HIDE DEF f
<1>6. /\ index' \in Root /\ index'.address = f
      /\ index'.number = index.number /\ index'.hash = index.hash /\ index'.tx = index.tx
      /\ index'.balance = index.balance
  BY <1>1, <1>3, <1>4 DEF Root
<1> QED
  BY <1>5, <1>6

LEMMA WithRecordsBalance ==
  ASSUME EraInv, NEW items, items \subseteq History, WithRecords(items), pc = "balances"
  PROVE  /\ index' \in Root
         /\ index'.number = index.number /\ index'.hash = index.hash /\ index'.tx = index.tx
         /\ index'.address = index.address /\ index'.balance = index.balance \cup items
<1>1. index' = [index EXCEPT !.balance = @ \cup items]
  BY DEF WithRecords
<1>2. index \in Root /\ History \subseteq Block
  BY RangeBounds DEF EraInv, TypeOK
<1> QED
  BY <1>1, <1>2 DEF Root

\* Records go into an index that is otherwise as it was.
LEMMA RecordsInIndex ==
  ASSUME EraInv, NEW items, pc \in {"accounts", "balances"},
         pc = "balances" => items \subseteq History,
         WithRecords(items), Done' = Done, pc' \notin {"blocks", "checkpoint", "progress"},
         UNCHANGED <<scheme, args, stats, era, processed>>
  PROVE  index' \in Root /\ IndexKept'
<1>1. /\ index' \in Root
      /\ index'.number = index.number /\ index'.hash = index.hash /\ index'.tx = index.tx
      /\ index.balance \subseteq index'.balance
  <2>1. CASE pc = "accounts"
    BY <2>1, WithRecordsAddress
  <2>2. CASE pc = "balances"
    BY <2>2, WithRecordsBalance
  <2> QED
    BY <2>1, <2>2
<1>2. IndexKept /\ processed' = 0
  BY DEF EraInv, IndexKept
<1>3. Even(index)' = Even(index)
  BY <1>1 DEF Even
<1>4. Old' = Old /\ Once' = Once
  BY ArgsSame
<1>5. HasBlocks(index', Done) = HasBlocks(index, Done)
  BY <1>1 DEF HasBlocks
<1> QED
  BY <1>1, <1>2, <1>3, <1>4, <1>5 DEF IndexKept

LEMMA ManifestIsNoTrie == "manifest" # "pot"
OBVIOUS

LEMMA ManifestRecordKept ==
  ASSUME EraInv, NEW x \in busy, ManifestRecordUploaded(x)
  PROVE  EraInv'
<1>1. /\ scheme = "manifest" /\ busy' = busy \ {x} /\ WithRecords({x})
      /\ UNCHANGED <<scheme, pc, args, stats, era, processed, todo, refs, saved, bee, files>>
  BY DEF ManifestRecordUploaded
<1>2. RecordsKept
  BY DEF EraInv
<1>3. /\ pc \in {"accounts", "balances"} /\ (pc = "balances" => {x} \subseteq History)
  BY <1>2 DEF RecordsKept
<1>4. Done' = Done /\ History' = History
  BY <1>1 DEF Done, History
<1>5. index' \in Root /\ IndexKept'
  BY <1>1, <1>3, <1>4, RecordsInIndex
<1>6. IsFiniteSet(busy') /\ Cardinality(busy') <= Concurrency
  <2>1. IsFiniteSet(busy) /\ Cardinality(busy) <= Concurrency
    BY DEF EraInv, TypeOK
  <2>2. Cardinality(busy) \in Nat
    BY <2>1, FS_CardinalityType
  <2>3. IsFiniteSet(busy') /\ Cardinality(busy') = Cardinality(busy) - 1
    BY <1>1, <2>1, FS_RemoveElement
  <2> QED
    BY <2>1, <2>2, <2>3, Bounds
<1>7. TypeOK'
  BY <1>1, <1>5, <1>6 DEF EraInv, TypeOK, bee, files
<1>8. RecordsKept'
  <2>1. UNCHANGED History /\ Old' = Old /\ Once' = Once /\ ~args.noState
    BY <1>1, <1>2, <1>3, ArgsSame DEF RecordsKept
  <2>2. /\ todo' \cup busy' \cup refs' \subseteq todo \cup busy \cup refs
        /\ \A y : y \in todo \cup busy \cup refs => y = x \/ y \in todo' \cup busy' \cup refs'
    BY <1>1
  <2>3. CASE pc = "accounts"
    <3>1. refs = {} /\ \A a \in Account : index.address[a] = History \/ a \in todo \cup busy
      BY <1>1, <1>2, <2>3, ManifestIsNoTrie DEF RecordsKept
    <3>2. PICK h \in Lost(Recorded \cup {x}, SameRecords({x})) :
            \A a \in Account :
              index'.address[a] = IF a \in h THEN {} ELSE IF a \in {x} THEN History ELSE index.address[a]
      BY <1>1, <2>3, WithRecordsAddress
    <3>3. h = {}
      BY <1>1, LostNone
    <3>4. \A a \in Account : index'.address[a] = History \/ a \in todo' \cup busy'
      BY <1>1, <3>1, <3>2, <3>3
    <3>5. todo' \cup busy' \cup refs' \subseteq Account
      BY <1>2, <2>2, <2>3 DEF RecordsKept
    <3> QED
      BY <1>1, <2>1, <2>3, <3>1, <3>4, <3>5, ManifestIsNoTrie DEF RecordsKept
  <2>4. CASE pc = "balances"
    <3>1. index'.balance = index.balance \cup {x} /\ index'.address = index.address
      BY <1>1, <1>3, <2>4, WithRecordsBalance
    <3>2. History \ (todo' \cup busy' \cup refs') \subseteq index'.balance
      BY <1>2, <2>2, <2>4, <3>1 DEF RecordsKept
    <3>3. todo' \cup busy' \cup refs' \subseteq History
      BY <1>2, <2>2, <2>4 DEF RecordsKept
    <3>4. \A a \in Account : Updated(a)'
      BY <1>2, <2>1, <2>4, <3>1 DEF RecordsKept, Updated
    <3> QED
      BY <1>1, <2>1, <2>4, <3>2, <3>3, <3>4 DEF RecordsKept
  <2> QED
    BY <1>3, <2>3, <2>4
<1>9. SaveKept'
  BY <1>1, <1>3 DEF EraInv, SaveKept, bee, files
<1>10. KnownKept' /\ CheckpointSound' /\ EndsSound'
  BY <1>1, OthersSame
<1> QED
  BY <1>5, <1>7, <1>8, <1>9, <1>10 DEF EraInv

LEMMA PotRecordKept ==
  ASSUME EraInv, NEW x \in busy, PotRecordUploaded(x)
  PROVE  EraInv'
<1>1. /\ busy' = busy \ {x} /\ refs' = refs \cup {x}
      /\ UNCHANGED <<scheme, pc, args, index, stats, era, processed, todo, saved, bee, files>>
  BY DEF PotRecordUploaded
<1>2. todo' \cup busy' \cup refs' = todo \cup busy \cup refs
  BY <1>1
<1>3. IsFiniteSet(busy') /\ Cardinality(busy') <= Concurrency
  <2>1. IsFiniteSet(busy) /\ Cardinality(busy) <= Concurrency
    BY DEF EraInv, TypeOK
  <2>2. Cardinality(busy) \in Nat
    BY <2>1, FS_CardinalityType
  <2>3. IsFiniteSet(busy') /\ Cardinality(busy') = Cardinality(busy) - 1
    BY <1>1, <2>1, FS_RemoveElement
  <2> QED
    BY <2>1, <2>2, <2>3, Bounds
<1>4. TypeOK'
  BY <1>1, <1>2, <1>3 DEF EraInv, TypeOK, bee, files
<1>5. IndexKept'
  <2>1. Done' = Done
    BY <1>1 DEF Done, History
  <2> QED
    BY <1>1, <2>1, IndexSame
<1>6. History' = History /\ Old' = Old /\ Once' = Once
  BY <1>1, ArgsSame
<1>7. RecordsKept'
  <2>1. RecordsKept /\ scheme = "pot" /\ scheme' = "pot"
    BY <1>1 DEF EraInv, PotRecordUploaded
  <2>2. \A a : Updated(a)' = Updated(a)
    BY <1>1, <1>6 DEF Updated
  <2>3. "pot" # "manifest"
    OBVIOUS
  <2> QED
    BY <1>1, <1>2, <1>6, <2>1, <2>2, <2>3 DEF RecordsKept
<1>8. SaveKept'
  BY <1>1 DEF EraInv, SaveKept, Whole, bee, files
<1>9. KnownKept' /\ CheckpointSound' /\ EndsSound'
  BY <1>1, OthersSame
<1> QED
  BY <1>4, <1>5, <1>7, <1>8, <1>9 DEF EraInv

\* Entries that are put once have no record of the range yet.
LEMMA NoSameRecords ==
  ASSUME EraInv, Once, scheme = "pot", pc = "accounts", NEW items \in SUBSET Account
  PROVE  SameRecords(items) = {}
<1>1. Again(History, args.extends) = {}
  BY DEF Once
<1>2. Old.number \cap History = {}
  BY <1>1 DEF Again, Old, Empty
<1>3. \A a \in Account : Old.address[a] \cap History = {}
  BY <1>2, OldEven
<1>4. index.address = Old.address
  BY DEF EraInv, RecordsKept
<1> QED
  BY <1>3, <1>4 DEF SameRecords

LEMMA RecordsEndKept ==
  ASSUME EraInv, RecordsEnd
  PROVE  EraInv'
<1>1. /\ pc \in {"accounts", "balances"} /\ todo = {} /\ busy = {}
      /\ WithRecords(refs) /\ refs' = {}
      /\ pc' = (IF pc = "accounts" THEN "balances" ELSE "meta")
      /\ todo' = (IF pc = "accounts" THEN History ELSE {})
      /\ UNCHANGED <<scheme, args, stats, era, processed, busy, saved, bee, files>>
  BY DEF RecordsEnd
<1>2. RecordsKept
  BY DEF EraInv
<1>3. pc = "balances" => refs \subseteq History
  BY <1>2 DEF RecordsKept
<1>4. Done' = Done /\ History' = History
  BY <1>1 DEF Done, History
<1>5. index' \in Root /\ IndexKept'
  <2>1. pc' \notin {"blocks", "checkpoint", "progress"}
    BY <1>1
  <2> QED
    BY <1>1, <1>3, <1>4, <2>1, RecordsInIndex
<1>6. TypeOK'
  <2>1. todo' \subseteq Block
    BY <1>1, RangeBounds
  <2> QED
    BY <1>1, <1>5, <2>1 DEF EraInv, TypeOK, bee, files
<1>7. RecordsKept'
  <2>1. UNCHANGED History /\ Old' = Old /\ Once' = Once /\ ~args.noState
    BY <1>1, <1>2, ArgsSame DEF RecordsKept
  <2>2. CASE pc = "accounts"
    <3>1. PICK h \in Lost(Recorded \cup refs, SameRecords(refs)) :
            \A a \in Account :
              index'.address[a] = IF a \in h THEN {} ELSE IF a \in refs THEN History ELSE index.address[a]
      BY <1>1, <2>2, WithRecordsAddress
    <3>2. Once => h = {}
      <4>1. refs \in SUBSET Account /\ (scheme = "manifest" \/ scheme = "pot")
        BY <1>2, <2>2 DEF RecordsKept, EraInv, TypeOK
      <4>2. Once => scheme = "manifest" \/ SameRecords(refs) = {}
        BY <2>2, <4>1, NoSameRecords
      <4> QED
        BY <4>2, LostNone
    <3>3. \A a \in Account : a \in refs \/ index.address[a] = History
      BY <1>1, <1>2, <2>2 DEF RecordsKept
    <3>4. \A a \in Account : Updated(a)'
      BY <2>1, <3>1, <3>2, <3>3 DEF Updated
    <3>5. pc' = "balances" /\ todo' = History /\ busy' = {} /\ refs' = {} /\ args' = args
      BY <1>1, <2>2
    <3> QED
      BY <2>1, <3>4, <3>5 DEF RecordsKept
  <2>3. CASE pc = "balances"
    <3>1. index'.balance = index.balance \cup refs /\ index'.address = index.address
      BY <1>1, <1>3, <2>3, WithRecordsBalance
    <3>2. History \subseteq index'.balance
      BY <1>1, <1>2, <2>3, <3>1 DEF RecordsKept
    <3>3. \A a \in Account : Updated(a)'
      BY <1>2, <2>1, <2>3, <3>1 DEF RecordsKept, Updated
    <3>4. pc' = "meta" /\ todo' = {} /\ busy' = {} /\ refs' = {} /\ args' = args
      BY <1>1, <2>3
    <3> QED
      BY <2>1, <3>2, <3>3, <3>4 DEF RecordsKept
  <2> QED
    BY <1>1, <2>2, <2>3
<1>8. SaveKept'
  BY <1>1 DEF EraInv, SaveKept, bee, files
<1>9. KnownKept' /\ CheckpointSound' /\ EndsSound'
  BY <1>1, OthersSame
<1> QED
  BY <1>5, <1>6, <1>7, <1>8, <1>9 DEF EraInv

-----------------------------------------------------------------------------
(* Saving.                                                                 *)

LEMMA WriteMetaKept ==
  ASSUME EraInv, WriteMeta
  PROVE  EraInv'
<1>1. /\ pc = "meta" /\ pc' = "save"
      /\ index' = (IF stats.count > 0 THEN [index EXCEPT !.meta = stats] ELSE index)
      /\ UNCHANGED <<scheme, args, stats, era, processed, todo, busy, refs, saved, bee, files>>
  BY DEF WriteMeta
<1>2. Done = History /\ Done' = Done /\ History' = History
  BY <1>1 DEF Done, History
<1>3. stats.count > 0
  BY <1>1, <1>2, RangeBounds DEF EraInv, IndexKept
<1>4. index \in Root /\ stats \in Stats
  BY DEF EraInv, TypeOK
<1>5. index' = [index EXCEPT !.meta = stats]
  BY <1>1, <1>3
<1>6. /\ index' \in Root /\ index'.meta = stats
      /\ index'.number = index.number /\ index'.hash = index.hash /\ index'.tx = index.tx
      /\ index'.address = index.address /\ index'.balance = index.balance
  BY <1>4, <1>5 DEF Root
<1>7. TypeOK'
  BY <1>1, <1>6 DEF EraInv, TypeOK, bee, files
<1>8. Old' = Old /\ Once' = Once
  BY <1>1, ArgsSame
<1>9. IndexKept' /\ RecordsKept'
  <2>1. IndexKept /\ RecordsKept
    BY DEF EraInv
  <2>2. Even(index)' = Even(index) /\ HasBlocks(index', Done) = HasBlocks(index, Done)
    BY <1>1, <1>6 DEF Even, HasBlocks
  <2>3. \A a : Updated(a)' = Updated(a)
    BY <1>2, <1>6, <1>8 DEF Updated
  <2>4. IndexKept'
    BY <1>1, <1>2, <1>6, <1>8, <2>1, <2>2 DEF IndexKept
  <2>5. RecordsKept'
    BY <1>1, <1>2, <1>6, <1>8, <2>1, <2>3 DEF RecordsKept
  <2> QED
    BY <2>4, <2>5
<1>10. SaveKept'
  BY <1>1, <1>6 DEF EraInv, SaveKept, bee, files
<1>11. KnownKept' /\ CheckpointSound' /\ EndsSound'
  BY <1>1, OthersSame
<1> QED
  BY <1>7, <1>9, <1>10, <1>11 DEF EraInv

\* Nothing of what the command has in memory changes but where it is, and it
\* has no records to do.
LEMMA MemorySame ==
  ASSUME EraInv, UNCHANGED <<args, index, stats, era, processed, todo, busy, refs, scheme>>,
         \/ pc' = pc
         \/ pc \in {"blocks", "checkpoint", "progress"} /\ pc' \in {"blocks", "checkpoint", "progress"}
         \/ pc \in {"meta", "save", "output", "publish"} /\ pc' \in {"meta", "save", "output", "publish"}
  PROVE  IndexKept' /\ RecordsKept'
<1>1. IndexKept /\ RecordsKept
  BY DEF EraInv
<1>2. History' = History /\ Old' = Old /\ Once' = Once
  BY ArgsSame
<1>3. Done' = Done
  BY <1>2 DEF Done
<1>4. IndexKept'
  BY <1>1, <1>3, IndexSame DEF IndexKept
<1>5. RecordsKept'
  <2>1. \A a : Updated(a)' = Updated(a)
    BY <1>2 DEF Updated
  <2> QED
    BY <1>1, <1>2, <2>1 DEF RecordsKept
<1> QED
  BY <1>4, <1>5

LEMMA SubSaveKept ==
  ASSUME EraInv, NEW s \in Index, SubSave(s)
  PROVE  EraInv'
<1>1. /\ pc \in {"checkpoint", "save"} /\ saved' = saved \cup {s}
      /\ trees' = (IF IsEmpty(s, index[s]) THEN trees ELSE trees \cup {<<s, index[s]>>})
      /\ UNCHANGED <<scheme, pc, args, index, stats, era, processed, todo, busy, refs, roots,
                     published, files>>
  BY DEF SubSave
<1>2. TypeOK'
  BY <1>1 DEF EraInv, TypeOK, files
<1>3. IndexKept' /\ RecordsKept'
  BY <1>1, MemorySame
<1>4. SaveKept'
  BY <1>1 DEF EraInv, SaveKept, IsEmpty, files
<1>5. KnownKept' /\ CheckpointSound' /\ EndsSound'
  BY <1>1, OthersKept DEF EraInv, files
<1> QED
  BY <1>2, <1>3, <1>4, <1>5 DEF EraInv

LEMMA SaveRootKept ==
  ASSUME EraInv, SaveRoot
  PROVE  EraInv'
<1>1. /\ pc \in {"checkpoint", "save"} /\ saved = Index /\ saved' = {}
      /\ roots' = roots \cup {index}
      /\ UNCHANGED <<scheme, args, index, stats, era, processed, todo, busy, refs, trees, published>>
  BY DEF SaveRoot, AllSaved
<1>2. \/ /\ pc = "checkpoint" /\ pc' = "progress"
         /\ progress' = [progress EXCEPT ![era] = Torn] /\ output' = output
      \/ /\ pc = "save" /\ pc' = "output"
         /\ output' = [output EXCEPT ![args.range] = Torn] /\ progress' = progress
  BY DEF SaveRoot
<1>3. /\ index \in Root /\ era \in 1..Eras /\ args.range \in Ranges
      /\ progress \in [1..Eras -> {None, Torn} \cup Checkpoint]
      /\ output \in [Ranges -> {None, Torn} \cup Output]
  BY RangeBounds DEF EraInv, TypeOK
<1>4. /\ \A e \in 1..Eras : progress'[e] = progress[e] \/ progress'[e] \in {None, Torn}
      /\ \A r \in Ranges : output'[r] = output[r] \/ output'[r] \in {None, Torn}
  BY <1>2, <1>3
<1>5. /\ progress' \in [1..Eras -> {None, Torn} \cup Checkpoint]
      /\ output' \in [Ranges -> {None, Torn} \cup Output]
  BY <1>2, <1>3
<1>6. TypeOK'
  BY <1>1, <1>2, <1>3, <1>5 DEF EraInv, TypeOK
<1>7. IndexKept' /\ RecordsKept'
  BY <1>1, <1>2, MemorySame
<1>8. SaveKept'
  <2>1. Whole(index)'
    BY <1>1 DEF EraInv, SaveKept, Whole
  <2>2. SaveKept
    BY DEF EraInv
  <2> QED
    BY <1>1, <1>2, <2>1, <2>2 DEF SaveKept
<1>9. KnownKept' /\ CheckpointSound' /\ EndsSound'
  BY <1>1, <1>4, OthersKept DEF EraInv
<1> QED
  BY <1>6, <1>7, <1>8, <1>9 DEF EraInv

-----------------------------------------------------------------------------
(* Files and the feed.                                                     *)

\* The accounts of an index that is written are about blocks it has.
LEMMA IndexAddress ==
  ASSUME EraInv, pc \in {"progress", "output"}
  PROVE  \A a \in Account : index.address[a] \subseteq index.number
<1>1. index.number = Old.number \cup Done
  BY DEF EraInv, IndexKept
<1>2. \A a \in Account : Old.address[a] \subseteq index.number
  BY <1>1, OldEven
<1>3. pc = "output" => History \subseteq index.number
  BY <1>1 DEF Done
<1>4. \A a \in Account :
        index.address[a] \in {Old.address[a], {}} \/ (pc = "output" /\ index.address[a] = History)
  <2>1. CASE pc = "progress"
    BY <2>1 DEF EraInv, RecordsKept
  <2>2. CASE pc = "output" /\ args.noState
    BY <2>2 DEF EraInv, RecordsKept
  <2>3. CASE pc = "output" /\ ~args.noState
    BY <2>3 DEF EraInv, RecordsKept, Updated
  <2> QED
    BY <2>1, <2>2, <2>3
<1> QED
  BY <1>2, <1>3, <1>4

LEMMA WriteProgressKept ==
  ASSUME EraInv, WriteProgress
  PROVE  EraInv'
<1> DEFINE c == [root |-> index, blocks |-> processed]
<1>1. /\ pc = "progress" /\ pc' = "blocks"
      /\ progress' = [progress EXCEPT ![era] = c] /\ output' = output
      /\ UNCHANGED <<scheme, memory, bee>>
  BY DEF WriteProgress
<1>2. /\ UNCHANGED <<args, index, stats, era, processed, todo, busy, refs, saved>>
      /\ UNCHANGED <<trees, roots, published>>
  BY <1>1 DEF memory, bee
<1>3. /\ index \in Root /\ era \in 1..Eras /\ processed \in 0..PerEra
      /\ progress \in [1..Eras -> {None, Torn} \cup Checkpoint]
  BY DEF EraInv, TypeOK
<1>4. c \in Checkpoint
  BY <1>3 DEF Checkpoint
<1>5. c.root = index /\ c.blocks = processed
  OBVIOUS
<1> HIDE DEF c
<1>6. /\ progress'[era] = c
      /\ \A e \in 1..Eras : e # era => progress'[e] = progress[e]
      /\ progress' \in [1..Eras -> {None, Torn} \cup Checkpoint]
  BY <1>1, <1>3, <1>4
<1>7. scheme = "manifest" /\ Whole(index) /\ Even(index) /\ Done \subseteq index.number
  BY <1>1 DEF EraInv, SaveKept, IndexKept
<1>8a. \A a \in Account : index.address[a] \subseteq index.number
  BY <1>1, IndexAddress
<1>8. TypeOK'
  BY <1>1, <1>2, <1>6 DEF EraInv, TypeOK
<1>9. IndexKept' /\ RecordsKept'
  BY <1>1, <1>2, MemorySame
<1>10. SaveKept'
  BY <1>1, <1>2, <1>7 DEF EraInv, SaveKept
<1>11. KnownKept'
  <2>1. Known' \subseteq Known \cup {index}
    BY <1>1, <1>5, <1>6 DEF Known
  <2>2. \A root : Even(root)' = Even(root)
    BY <1>1 DEF Even
  <2> QED
    BY <1>1, <1>2, <1>7, <1>8a, <2>1, <2>2, ManifestIsNoTrie DEF EraInv, KnownKept
<1>12. CheckpointSound'
  <2> SUFFICES ASSUME NEW e \in 1..Eras, progress'[e] \notin {None, Torn}
               PROVE  /\ Whole(progress[e].root)'
                      /\ HasBlocks(progress'[e].root, {BlockOf(e, i) : i \in 1..progress'[e].blocks})
    BY DEF CheckpointSound
  <2>1. CASE e = era
    <3>1. progress'[e].root = index /\ progress'[e].blocks = processed
      BY <1>5, <1>6, <2>1
    <3>2. Whole(progress[e].root)'
      BY <1>2, <1>7, <3>1 DEF Whole
    <3>3. {BlockOf(era, i) : i \in 1..processed} \subseteq Done
      BY <1>1 DEF Done
    <3>4. HasBlocks(index, {BlockOf(era, i) : i \in 1..processed})
      BY <1>7, <3>3 DEF HasBlocks, Even
    <3> QED
      BY <2>1, <3>1, <3>2, <3>4
  <2>2. CASE e # era
    <3>1. progress'[e] = progress[e]
      BY <1>6, <2>2
    <3>2. /\ Whole(progress[e].root)
          /\ HasBlocks(progress[e].root, {BlockOf(e, i) : i \in 1..progress[e].blocks})
      BY <3>1 DEF EraInv, CheckpointSound
    <3>3. Whole(progress[e].root)'
      BY <1>2, <3>1, <3>2 DEF Whole
    <3> QED
      BY <3>1, <3>2, <3>3
  <2> QED
    BY <2>1, <2>2
<1>13. EndsSound'
  BY <1>1, <1>2 DEF EraInv, EndsSound, OutputsComplete, FileSays, PotMetaCovers, Whole, Even
<1> QED
  BY <1>8, <1>9, <1>10, <1>11, <1>12, <1>13 DEF EraInv

LEMMA WriteOutputKept ==
  ASSUME EraInv, WriteOutput
  PROVE  EraInv'
<1> DEFINE o == [root |-> index, extendedFrom |-> args.extends, state |-> ~args.noState]
           q == args.range
<1>1. /\ pc = "output" /\ pc' = "publish"
      /\ output' = [output EXCEPT ![q] = o] /\ progress' = progress
      /\ UNCHANGED <<scheme, memory, bee>>
  BY DEF WriteOutput
<1>2. /\ UNCHANGED <<args, index, stats, era, processed, todo, busy, refs, saved>>
      /\ UNCHANGED <<trees, roots, published>>
  BY <1>1 DEF memory, bee
<1>3. /\ index \in Root /\ args.extends \in {None} \cup Root /\ args.noState \in BOOLEAN
      /\ q \in Ranges /\ output \in [Ranges -> {None, Torn} \cup Output]
  BY RangeBounds DEF EraInv, TypeOK, Args
<1>4. o \in Output
  BY <1>3 DEF Output
<1>5. o.root = index /\ o.extendedFrom = args.extends /\ o.state = ~args.noState
  OBVIOUS
<1>6. Done = BlocksOf(q[1], q[2])
  BY <1>1 DEF Done, History
<1> HIDE DEF o, q
<1>7. /\ output'[q] = o
      /\ \A r \in Ranges : r # q => output'[r] = output[r]
      /\ output' \in [Ranges -> {None, Torn} \cup Output]
  BY <1>1, <1>3, <1>4
<1>8. /\ Whole(index) /\ Even(index) /\ index.number = Old.number \cup Done /\ index.meta = stats
      /\ Once => HasBlocks(index, Done) /\ Old.hash \subseteq index.hash /\ Old.tx \subseteq index.tx
      /\ Old.balance \subseteq index.balance
      /\ Spans(stats, Done) /\ (scheme = "pot" => Spans(stats, index.number))
  BY <1>1 DEF EraInv, SaveKept, IndexKept
<1>9. /\ ~args.noState => Done \subseteq index.balance /\ \A a \in Account : Updated(a)
      /\ args.noState => index.address = Old.address
  BY <1>1 DEF EraInv, RecordsKept, Done
<1>10. TypeOK'
  BY <1>1, <1>2, <1>7 DEF EraInv, TypeOK
<1>11. IndexKept' /\ RecordsKept'
  BY <1>1, <1>2, MemorySame
<1>12. SaveKept'
  BY <1>1, <1>2, <1>8 DEF EraInv, SaveKept, Whole
<1>13. KnownKept'
  <2>1. Known' \subseteq Known \cup {index}
    BY <1>1, <1>5, <1>7 DEF Known
  <2>2. stats \in Stats
    BY DEF EraInv, TypeOK
  <2>3. \A root : Even(root)' = Even(root)
    BY <1>1 DEF Even
  <2>4. \A a \in Account : index.address[a] \subseteq index.number
    BY <1>1, IndexAddress
  <2> QED
    BY <1>1, <1>2, <1>8, <2>1, <2>2, <2>3, <2>4 DEF EraInv, KnownKept
<1>14. CheckpointSound'
  BY <1>1, <1>2 DEF EraInv, CheckpointSound, Whole
\* What the file says of its root.
<1>15. ASSUME NEW f, f = o, NEW r, r = q
       PROVE  FileSays(f, r)'
  <2>1. Done = History /\ (args.extends # None => Old = args.extends)
    BY <1>1 DEF Done, Old
  <2>2. (scheme = "manifest" \/ Again(Done, args.extends) = {}) <=> Once
    BY <2>1 DEF Once
  <2>3. Whole(index)' /\ Even(index)' /\ scheme' = scheme
    BY <1>1, <1>2, <1>8 DEF Whole, Even
  <2>4. \A b \in Done : index.meta.first <= b /\ b <= index.meta.last
    BY <1>8 DEF Spans
  <2>5. \A a \in Account : Updated(a) => index.address[a] = Done \/ (~Once /\ index.address[a] = {})
    BY <2>1 DEF Updated
  <2> QED
    <3> DEFINE once == scheme = "manifest" \/ Again(Done, f.extendedFrom) = {}
    <3>1. /\ f.root = index /\ f.extendedFrom = args.extends /\ f.state = ~args.noState
          /\ BlocksOf(r[1], r[2]) = Done
      BY <1>5, <1>6, <1>15
    <3>2. once <=> Once
      BY <2>2, <3>1
    <3>3. Whole(f.root)' /\ Even(f.root)'
      BY <1>2, <2>3, <3>1 DEF Whole, Even
    <3> HIDE DEF once
    <3>4. Done \subseteq f.root.number /\ \A b \in Done : f.root.meta.first <= b /\ b <= f.root.meta.last
      BY <1>8, <2>4, <3>1
    <3>5. once => HasBlocks(f.root, Done)
      BY <1>8, <3>1, <3>2
    <3>6. f.extendedFrom # None =>
            /\ f.extendedFrom.number \subseteq f.root.number /\ f.extendedFrom.balance \subseteq f.root.balance
            /\ once => f.extendedFrom.hash \subseteq f.root.hash /\ f.extendedFrom.tx \subseteq f.root.tx
            /\ ~f.state => f.root.address = f.extendedFrom.address
      BY <1>3, <1>8, <1>9, <2>1, <3>1, <3>2
    <3>7. f.state => /\ Done \subseteq f.root.balance
                     /\ \A a \in Account : f.root.address[a] = Done \/ (~once /\ f.root.address[a] = {})
      BY <1>3, <1>9, <2>5, <3>1, <3>2
    <3> QED
      BY <2>3, <3>1, <3>3, <3>4, <3>5, <3>6, <3>7 DEF FileSays, once
<1>16. OutputsComplete'
  <2>1. \A root \in published' : Whole(root)'
    BY <1>2 DEF EraInv, EndsSound, OutputsComplete, Whole
  <2>2. ASSUME NEW r \in Ranges, output'[r] \notin {None, Torn}
        PROVE  FileSays(output[r], r)'
    <3>1. CASE r = q
      BY <1>7, <1>15, <3>1 DEF FileSays, Whole, Even
    <3>2. CASE r # q
      <4>1. output'[r] = output[r]
        BY <1>7, <3>2
      <4>2. FileSays(output[r], r)
        BY <2>2, <4>1 DEF EraInv, EndsSound, OutputsComplete
      <4> QED
        BY <1>1, <1>2, <4>1, <4>2 DEF FileSays, Whole, Even
    <3> QED
      BY <3>1, <3>2
  <2> QED
    BY <2>1, <2>2 DEF OutputsComplete
<1>17. PotMetaCovers'
  BY <1>1, <1>2 DEF EraInv, EndsSound, PotMetaCovers
<1> QED
  BY <1>10, <1>11, <1>12, <1>13, <1>14, <1>16, <1>17 DEF EraInv, EndsSound

LEMMA PublishKept ==
  ASSUME EraInv, Publish
  PROVE  EraInv'
<1>1. /\ pc = "publish" /\ published' \subseteq published \cup {index} /\ ForgetAll
      /\ UNCHANGED <<scheme, trees, roots, files>>
  BY DEF Publish
<1>2. index \in Root /\ published \subseteq Root /\ stats \in Stats
  BY DEF EraInv, TypeOK
<1>3. TypeOK' /\ IndexKept' /\ RecordsKept' /\ SaveKept'
  BY <1>1, <1>2, Forgotten
<1>4. KnownKept'
  BY <1>1 DEF EraInv, KnownKept, Known, Even, files, ForgetAll, NoArgs
<1>5. CheckpointSound'
  BY <1>1 DEF EraInv, CheckpointSound, Whole, files
<1>6. OutputsComplete'
  <2>1. \A root \in published' : Whole(root)'
    BY <1>1 DEF EraInv, EndsSound, OutputsComplete, SaveKept, Whole
  <2> QED
    BY <1>1, <2>1 DEF EraInv, EndsSound, OutputsComplete, FileSays, Whole, Even, files
<1>7. PotMetaCovers'
  <2> SUFFICES ASSUME scheme = "pot", NEW root \in published', root \notin published
               PROVE  Covers(root.meta, root)
    BY <1>1 DEF EraInv, EndsSound, PotMetaCovers
  <2>1. root = index
    BY <1>1
  <2>2. index.meta = stats /\ Spans(stats, index.number)
    BY <1>1 DEF EraInv, SaveKept, IndexKept
  <2> QED
    BY <1>2, <2>1, <2>2 DEF Covers, Spans
<1> QED
  BY <1>3, <1>4, <1>5, <1>6, <1>7 DEF EraInv, EndsSound

LEMMA CrashKept ==
  ASSUME EraInv, Crash
  PROVE  EraInv'
<1>1. ForgetAll /\ UNCHANGED <<scheme, bee, files>>
  BY DEF Crash
<1>2. TypeOK' /\ IndexKept' /\ RecordsKept' /\ SaveKept'
  <2>1. published' \subseteq Root /\ UNCHANGED <<trees, roots>>
    BY <1>1 DEF EraInv, TypeOK, bee
  <2> QED
    BY <1>1, <2>1, Forgotten
<1>3. KnownKept' /\ CheckpointSound' /\ EndsSound'
  BY <1>1, OthersSame DEF ForgetAll, NoArgs
<1> QED
  BY <1>2, <1>3 DEF EraInv

-----------------------------------------------------------------------------
(* The theorems.                                                           *)

LEMMA EraInvStep ==
  ASSUME EraInv, [Next]_vars
  PROVE  EraInv'
<1>1. ASSUME NEW r \in Ranges, NEW n \in 0..PerEra, NEW noState \in BOOLEAN,
             NEW root \in {None} \cup Known,
             Start([range |-> r, every |-> n, noState |-> noState, extends |-> root])
      PROVE  EraInv'
  BY <1>1, StartKept
<1>2. CASE Open
  BY <1>2, OpenKept
<1>3. CASE AddBlockToManifest
  <2>1. scheme = "manifest" /\ AddBlock(IF CheckpointDue THEN "checkpoint" ELSE "blocks")
    BY <1>3 DEF AddBlockToManifest
  <2>2. CASE CheckpointDue
    BY <2>1, <2>2, AddBlockKept
  <2>3. CASE ~CheckpointDue
    BY <2>1, <2>3, AddBlockKept
  <2> QED
    BY <2>2, <2>3
<1>4. CASE AddBlockToPot
  BY <1>4, AddBlockKept DEF AddBlockToPot
<1>5. CASE EraEnds
  BY <1>5, EraEndsKept
<1>6. ASSUME NEW x \in todo, Claim(x) PROVE EraInv'
  BY <1>6, ClaimKept
<1>7. ASSUME NEW x \in busy, ManifestRecordUploaded(x) PROVE EraInv'
  BY <1>7, ManifestRecordKept
<1>8. ASSUME NEW x \in busy, PotRecordUploaded(x) PROVE EraInv'
  BY <1>8, PotRecordKept
<1>9. CASE RecordsEnd
  BY <1>9, RecordsEndKept
<1>10. CASE WriteMeta
  BY <1>10, WriteMetaKept
<1>11. ASSUME NEW s \in Index, SubSave(s) PROVE EraInv'
  BY <1>11, SubSaveKept
<1>12. CASE SaveRoot
  BY <1>12, SaveRootKept
<1>13. CASE WriteProgress
  BY <1>13, WriteProgressKept
<1>14. CASE WriteOutput
  BY <1>14, WriteOutputKept
<1>15. CASE Publish
  BY <1>15, PublishKept
<1>16. CASE Crash
  BY <1>16, CrashKept
<1>17. CASE UNCHANGED vars
  <2>1. /\ UNCHANGED <<scheme, pc, args, index, stats, era, processed, todo, busy, refs, saved>>
        /\ UNCHANGED <<trees, roots, published, progress, output>> /\ UNCHANGED <<bee, files>>
    BY <1>17 DEF vars, memory, bee, files
  <2>2. TypeOK'
    BY <2>1 DEF EraInv, TypeOK
  <2>3. IndexKept' /\ RecordsKept'
    BY <2>1, MemorySame
  <2>4. SaveKept'
    BY <2>1 DEF EraInv, SaveKept, Whole
  <2>5. KnownKept' /\ CheckpointSound' /\ EndsSound'
    BY <2>1, OthersSame
  <2> QED
    BY <2>2, <2>3, <2>4, <2>5 DEF EraInv
<1> QED
  BY <1>1, <1>2, <1>3, <1>4, <1>5, <1>6, <1>7, <1>8, <1>9, <1>10, <1>11, <1>12, <1>13, <1>14,
     <1>15, <1>16, <1>17 DEF Next, Step

\* The strengthened invariant of an upload command and of what it leaves behind.
THEOREM EraInvariant == Spec => []EraInv
<1>1. Init => EraInv
  BY InitKept
<1>2. EraInv /\ [Next]_vars => EraInv'
  BY EraInvStep
<1> QED
  BY <1>1, <1>2, PTL DEF Spec

\* Whenever an upload is killed, the root in a checkpoint's file is at Bee with
\* all it refers to, and finds the blocks the file counts (upload.ts:208-236).
THEOREM SavesAreSound == Spec => []SavesSound
<1>1. EraInv => SavesSound
  BY DEF EraInv, SavesSound
<1> QED
  BY <1>1, EraInvariant, PTL

\* What a command has written to its file or to the feed is at Bee and has all
\* the blocks and records of its range and of what it extends, under a meta
\* that covers them (the ends of upload.ts and upload-pot.ts).
THEOREM EndsAreSound == Spec => []EndsSound
<1>1. EraInv => EndsSound
  BY DEF EraInv
<1> QED
  BY <1>1, EraInvariant, PTL

=============================================================================
