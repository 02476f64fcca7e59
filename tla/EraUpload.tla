----------------------------- MODULE EraUpload -----------------------------
(***************************************************************************)
(* Uploading eras to Swarm with an index over their blocks and accounts    *)
(* (packages/era/src: upload.ts with swarm.ts, which makes a manifest, and *)
(* upload-pot.ts with swarm-pot.ts, which makes tries).                    *)
(*                                                                         *)
(* One command runs at a time; it may be killed, and any failure kills it. *)
(* What it leaves behind is what Bee holds and files.  A reference is the  *)
(* hash of what it names, so here it is what it names: an index is the set *)
(* of its keys, the index of accounts maps an account to the blocks in its *)
(* record, and a root has the five indexes and what describes them.  Every *)
(* block has one transaction and an event of every account.                *)
(***************************************************************************)
EXTENDS Naturals, FiniteSets

CONSTANTS
  Eras,         \* number of eras
  PerEra,       \* blocks of an era
  Account,      \* accounts
  Concurrency,  \* records uploaded at once
  MaxRuns       \* bound: commands that are run

ASSUME EraUploadAssumption ==
  {Eras, PerEra, Concurrency} \subseteq Nat \ {0} /\ MaxRuns \in Nat

VARIABLES
  scheme,     \* "manifest" or "pot"
  pc,         \* where the command is
  args,       \* its arguments
  index,      \* manifest, indexes: the index in memory
  stats,      \* its running counters
  era,        \* the era being read
  processed,  \* blocksUploaded: blocks of the era that were added
  todo,       \* items of runWithConcurrency no worker has taken
  busy,       \* items being uploaded
  refs,       \* accountRefs, blockRefs: items uploaded
  saved,      \* the indexes saved by the save under way
  trees,      \* indexes at Bee: pairs of a name and what it holds
  roots,      \* roots at Bee
  progress,   \* <era>.upload-progress.json
  output,     \* eras-<range>.manifest.json or eras-<range>.pot.json
  published,  \* roots that were written to the feed
  runs        \* commands run so far

memory  == <<args, index, stats, era, processed, todo, busy, refs, saved>>
bee     == <<trees, roots, published>>
files   == <<progress, output>>
vars    == <<scheme, pc, memory, bee, files, runs>>

Block     == 1..(Eras * PerEra)
BlockOf(e, i) == (e - 1) * PerEra + i
BlocksOf(lo, hi) == {BlockOf(e, i) : e \in lo..hi, i \in 1..PerEra}
Index     == {"number", "hash", "tx", "address", "balance"}
Ranges    == {r \in (1..Eras) \X (1..Eras) : r[1] <= r[2]}

None    == [is |-> "none"]
Torn    == [is |-> "torn"]     \* a file cut short, which does not parse
NodeRef == [is |-> "node"]     \* the address of a node of a manifest
Stats   == [is : {"stats"}, first : {0} \cup Block, last : {0} \cup Block, count : Nat]
Root    == [number : SUBSET Block, hash : SUBSET Block, tx : SUBSET Block,
            address : [Account -> SUBSET Block], balance : SUBSET Block,
            meta : {None, NodeRef} \cup Stats]
Args    == [range : Ranges, every : 0..PerEra, noState : BOOLEAN, extends : {None} \cup Root]

Checkpoint == [root : Root, blocks : 0..PerEra]
Output     == [root : Root, extendedFrom : {None} \cup Root, state : BOOLEAN]

Empty     == [number |-> {}, hash |-> {}, tx |-> {}, address |-> [a \in Account |-> {}],
              balance |-> {}, meta |-> None]
NoStats   == [is |-> "stats", first |-> 0, last |-> 0, count |-> 0]
NoArgs    == [range |-> <<1, 1>>, every |-> 0, noState |-> TRUE, extends |-> None]
IsEmpty(s, tree) == tree = Empty[s]

TypeOK ==
  /\ scheme \in {"manifest", "pot"}
  /\ pc \in {"idle", "open", "blocks", "checkpoint", "progress", "accounts", "balances",
             "meta", "save", "output", "publish"}
  /\ args \in Args
  /\ index \in Root
  /\ stats \in Stats
  /\ era \in 1..Eras
  /\ processed \in 0..PerEra
  /\ todo \cup busy \cup refs \subseteq Account \cup Block
  /\ IsFiniteSet(busy) /\ Cardinality(busy) <= Concurrency
  /\ saved \subseteq Index
  /\ roots \cup published \subseteq Root
  /\ progress \in [1..Eras -> {None, Torn} \cup Checkpoint]
  /\ output \in [Ranges -> {None, Torn} \cup Output]

Init ==
  /\ scheme \in {"manifest", "pot"}
  /\ pc = "idle"
  /\ args = NoArgs
  /\ index = Empty
  /\ stats = NoStats
  /\ era = 1
  /\ processed = 0
  /\ todo = {} /\ busy = {} /\ refs = {} /\ saved = {}
  /\ trees = {} /\ roots = {} /\ published = {}
  /\ progress = [e \in 1..Eras |-> None]
  /\ output = [r \in Ranges |-> None]
  /\ runs = 0

-----------------------------------------------------------------------------
(* The command starts.                                                     *)

\* Roots an operator finds in the files of earlier commands.
Known ==
  {output[r].root : r \in {x \in Ranges : output[x] \notin {None, Torn}}}
    \cup {progress[e].root : e \in {x \in 1..Eras : progress[x] \notin {None, Torn}}}

Start(a) ==
  /\ pc = "idle" /\ runs < MaxRuns
  /\ a.extends \in {None} \cup Known
  /\ scheme = "pot" => a.every = 0
  /\ pc' = "open"
  /\ args' = a
  /\ runs' = runs + 1
  /\ UNCHANGED <<scheme, index, stats, era, processed, todo, busy, refs, saved, bee, files>>

\* extractMetaRef(): the fork of a loaded root holds the address of its node.
ExtractMetaRef(root) == IF root.meta = None THEN None ELSE NodeRef

\* loadStatsFromMeta(): what cannot be read counts as nothing.
LoadStatsFromMeta(m) == IF m \in Stats THEN m ELSE NoStats

\* loadMetaStats()
LoadMetaStats(m) == IF m = None THEN NoStats ELSE m

\* openManifest()
OpenManifest ==
  /\ scheme = "manifest"
  /\ IF args.extends = None
     THEN index' = Empty /\ stats' = NoStats
     ELSE /\ index' = [args.extends EXCEPT !.meta = ExtractMetaRef(args.extends)]
          /\ stats' = LoadStatsFromMeta(index'.meta)

\* openPotIndexes()
OpenPotIndexes ==
  /\ scheme = "pot"
  /\ IF args.extends = None
     THEN index' = Empty /\ stats' = NoStats
     ELSE index' = args.extends /\ stats' = LoadMetaStats(args.extends.meta)

Open ==
  /\ pc = "open"
  /\ OpenManifest \/ OpenPotIndexes
  /\ pc' = "blocks"
  /\ era' = args.range[1]
  /\ UNCHANGED <<scheme, args, processed, todo, busy, refs, saved, bee, files, runs>>

-----------------------------------------------------------------------------
(* Blocks.                                                                 *)

Counted(s, b) ==
  [s EXCEPT !.first = IF s.first = 0 \/ b < s.first THEN b ELSE @,
            !.last = IF b > s.last THEN b ELSE @,
            !.count = @ + 1]

\* The entries a trie may lose when entries are put `again` as they are: update()
\* takes "no change" in the half of the trie the root is not in for "now empty",
\* and drops this half (PotOps.UpdateInner).  Which entries are in it is left
\* open.  Keys that are numbers all begin with the same bit: nothing is lost.
Lost(trie, again) ==
  {{}} \cup {half \in SUBSET trie : scheme = "pot" /\ half \cap again # {} /\ half # trie}

\* Block b goes into three indexes.
WithBlock(b) ==
  \E h \in Lost(index.hash, {b}), t \in Lost(index.tx, {b}) :
    index' = [index EXCEPT !.number = @ \cup {b}, !.hash = (@ \cup {b}) \ h, !.tx = (@ \cup {b}) \ t]

\* The next block is uploaded, goes into three indexes and is counted.
AddBlock(to) ==
  LET b == BlockOf(era, processed + 1) IN
  /\ pc = "blocks" /\ processed < PerEra
  /\ WithBlock(b)
  /\ stats' = Counted(stats, b)
  /\ processed' = processed + 1
  /\ pc' = to
  /\ UNCHANGED <<scheme, args, era, todo, busy, refs, saved, bee, files, runs>>

CheckpointDue == args.every # 0 /\ (processed + 1) % args.every = 0

\* addBlocksToManifest(), with a checkpoint after every N blocks of the file
AddBlockToManifest ==
  scheme = "manifest" /\ AddBlock(IF CheckpointDue THEN "checkpoint" ELSE "blocks")

\* addBlocksToPot()
AddBlockToPot == scheme = "pot" /\ AddBlock("blocks")

\* Mutant: the last era of the range is left out.
EraEndsEarly ==
  /\ pc = "blocks" /\ processed = PerEra
  /\ processed' = 0
  /\ era' = IF era + 1 < args.range[2] THEN era + 1 ELSE era
  /\ pc' = IF era + 1 < args.range[2] THEN "blocks" ELSE IF args.noState THEN "meta" ELSE "accounts"
  /\ todo' = IF pc' = "accounts" THEN Account ELSE {}
  /\ UNCHANGED <<scheme, args, index, stats, busy, refs, saved, bee, files, runs>>

\* The next file, or the events of all of them.
EraEnds ==
  /\ pc = "blocks" /\ processed = PerEra
  /\ processed' = 0
  /\ era' = IF era < args.range[2] THEN era + 1 ELSE era
  /\ pc' = IF era < args.range[2] THEN "blocks" ELSE IF args.noState THEN "meta" ELSE "accounts"
  /\ todo' = IF pc' = "accounts" THEN Account ELSE {}
  /\ UNCHANGED <<scheme, args, index, stats, busy, refs, saved, bee, files, runs>>

-----------------------------------------------------------------------------
(* Records of accounts and of blocks.                                      *)

\* All events of the range.
History == BlocksOf(args.range[1], args.range[2])

Recorded == {a \in Account : index.address[a] # {}}

\* Accounts whose record may be the one that is there: both have events of the range.
SameRecords(items) == {a \in items : index.address[a] \cap History # {}}

\* The records of these items go into the index.
WithRecords(items) ==
  IF pc = "accounts"
  THEN \E h \in Lost(Recorded \cup items, SameRecords(items)) :
         index' = [index EXCEPT !.address =
           [a \in Account |-> IF a \in h THEN {} ELSE IF a \in items THEN History ELSE @[a]]]
  ELSE index' = [index EXCEPT !.balance = @ \cup items]

\* A worker of runWithConcurrency() takes an item.
Claim(x) ==
  /\ pc \in {"accounts", "balances"}
  /\ x \in todo /\ Cardinality(busy) < Concurrency
  /\ todo' = todo \ {x}
  /\ busy' = busy \cup {x}
  /\ UNCHANGED <<scheme, pc, args, index, stats, era, processed, refs, saved, bee, files, runs>>

\* addBalanceEventsToManifest(): the record is uploaded and goes into the index.
ManifestRecordUploaded(x) ==
  /\ scheme = "manifest" /\ x \in busy
  /\ busy' = busy \ {x}
  /\ WithRecords({x})
  /\ UNCHANGED <<scheme, pc, args, stats, era, processed, todo, refs, saved, bee, files, runs>>

\* addBalanceEventsToPot(): the record is uploaded and goes into the index later.
PotRecordUploaded(x) ==
  /\ scheme = "pot" /\ x \in busy
  /\ busy' = busy \ {x}
  /\ refs' = refs \cup {x}
  /\ UNCHANGED <<scheme, pc, args, index, stats, era, processed, todo, saved, bee, files, runs>>

\* All workers are done.
RecordsEnd ==
  /\ pc \in {"accounts", "balances"} /\ todo = {} /\ busy = {}
  /\ WithRecords(refs)
  /\ refs' = {}
  /\ pc' = IF pc = "accounts" THEN "balances" ELSE "meta"
  /\ todo' = IF pc = "accounts" THEN History ELSE {}
  /\ UNCHANGED <<scheme, args, stats, era, processed, busy, saved, bee, files, runs>>

-----------------------------------------------------------------------------
(* Saving.                                                                 *)

\* writeBlockRangeMeta(), writePotBlockRangeMeta()
WriteMeta ==
  /\ pc = "meta"
  /\ index' = IF stats.count > 0 THEN [index EXCEPT !.meta = stats] ELSE index
  /\ pc' = "save"
  /\ UNCHANGED <<scheme, args, stats, era, processed, todo, busy, refs, saved, bee, files, runs>>

\* Mutant: an empty index is not saved, and waited for.
SubSaveOfFull(s) ==
  /\ pc \in {"checkpoint", "save"} /\ s \notin saved /\ ~IsEmpty(s, index[s])
  /\ saved' = saved \cup {s}
  /\ trees' = trees \cup {<<s, index[s]>>}
  /\ UNCHANGED <<scheme, pc, args, index, stats, era, processed, todo, busy, refs, roots, published, files, runs>>

\* One of the five is saved; what is empty is not.
SubSave(s) ==
  /\ pc \in {"checkpoint", "save"} /\ s \notin saved
  /\ saved' = saved \cup {s}
  /\ trees' = IF IsEmpty(s, index[s]) THEN trees ELSE trees \cup {<<s, index[s]>>}
  /\ UNCHANGED <<scheme, pc, args, index, stats, era, processed, todo, busy, refs, roots, published, files, runs>>

\* Mutant: the first of the five is waited for.
SomeSaved == saved # {}

AllSaved == saved = Index

\* The root of the manifest is stitched and saved, or the envelope of the
\* tries uploaded; writing the file that names it begins.
SaveRoot ==
  /\ pc \in {"checkpoint", "save"} /\ AllSaved
  /\ roots' = roots \cup {index}
  /\ saved' = {}
  /\ IF pc = "checkpoint"
     THEN pc' = "progress" /\ progress' = [progress EXCEPT ![era] = Torn] /\ UNCHANGED output
     ELSE pc' = "output" /\ output' = [output EXCEPT ![args.range] = Torn] /\ UNCHANGED progress
  /\ UNCHANGED <<scheme, args, index, stats, era, processed, todo, busy, refs, trees, published, runs>>

\* The checkpoint's file is whole.
WriteProgress ==
  /\ pc = "progress"
  /\ progress' = [progress EXCEPT ![era] = [root |-> index, blocks |-> processed]]
  /\ pc' = "blocks"
  /\ UNCHANGED <<scheme, memory, bee, output, runs>>

\* The command's file is whole.
WriteOutput ==
  /\ pc = "output"
  /\ output' = [output EXCEPT ![args.range] =
                  [root |-> index, extendedFrom |-> args.extends, state |-> ~args.noState]]
  /\ pc' = "publish"
  /\ UNCHANGED <<scheme, memory, bee, progress, runs>>

ForgetAll ==
  /\ pc' = "idle"
  /\ args' = NoArgs /\ index' = Empty /\ stats' = NoStats /\ era' = 1 /\ processed' = 0
  /\ todo' = {} /\ busy' = {} /\ refs' = {} /\ saved' = {}

\* tryPublishFeedUpdate(), whose failure is no failure of the command.
Publish ==
  /\ pc = "publish"
  /\ published' \in {published, published \cup {index}}
  /\ ForgetAll
  /\ UNCHANGED <<scheme, trees, roots, files, runs>>

\* The command is killed or fails.
Crash ==
  /\ pc # "idle"
  /\ ForgetAll
  /\ UNCHANGED <<scheme, bee, files, runs>>

-----------------------------------------------------------------------------
Step ==
  \/ Open
  \/ AddBlockToManifest \/ AddBlockToPot \/ EraEnds
  \/ \E x \in todo : Claim(x)
  \/ \E x \in busy : ManifestRecordUploaded(x) \/ PotRecordUploaded(x)
  \/ RecordsEnd
  \/ WriteMeta \/ (\E s \in Index : SubSave(s)) \/ SaveRoot
  \/ WriteProgress \/ WriteOutput \/ Publish

Next ==
  \/ \E r \in Ranges, n \in 0..PerEra, noState \in BOOLEAN, root \in {None} \cup Known :
       Start([range |-> r, every |-> n, noState |-> noState, extends |-> root])
  \/ Step
  \/ Crash

Spec == Init /\ [][Next]_vars

\* Bee answers or the command fails.
FairSpec == Spec /\ WF_vars(Step)

-----------------------------------------------------------------------------
(* Properties.                                                             *)

\* Everything a root refers to is at Bee.
Whole(root) ==
  /\ root \in roots
  /\ \A s \in Index : IsEmpty(s, root[s]) \/ <<s, root[s]>> \in trees

HasBlocks(root, bs) == bs \subseteq root.number /\ bs \subseteq root.hash /\ bs \subseteq root.tx

\* Whenever the command is killed, "an interrupted upload picks up at the last
\* save" (docs/PIPELINE.md:284-287): the root a checkpoint names is at Bee with
\* all it refers to, and finds the blocks the file says by each of their keys.
CheckpointSound ==
  \A e \in 1..Eras :
    progress[e] \notin {None, Torn} =>
      /\ Whole(progress[e].root)
      /\ HasBlocks(progress[e].root, {BlockOf(e, i) : i \in 1..progress[e].blocks})

\* A command may be killed at any moment (the checkpoints of upload.ts).
SavesSound == TypeOK /\ CheckpointSound

\* The blocks of the range that the root it extends has already.
Again(bs, old) == IF old = None THEN {} ELSE bs \cap old.number

\* A root finds no block by its hash that it does not find by its number, and
\* a manifest finds it by all of its keys.
Even(root) ==
  /\ root.hash \cup root.tx \subseteq root.number
  /\ scheme = "manifest" => root.hash = root.number /\ root.tx = root.number

\* What the file o about range r says of its root: it is at Bee, with the blocks
\* of the range and of what it extends by their numbers and what describes the
\* blocks of the range.  A manifest, and tries that got no block twice, find them
\* by each of their keys, with one record per account about all of the range;
\* else an account has this record or none, never an older one.
FileSays(o, r) ==
  LET bs   == BlocksOf(r[1], r[2])
      old  == o.extendedFrom
      once == scheme = "manifest" \/ Again(bs, old) = {}
  IN /\ Whole(o.root) /\ Even(o.root) /\ bs \subseteq o.root.number
     /\ old # None => old.number \subseteq o.root.number /\ old.balance \subseteq o.root.balance
     /\ once => HasBlocks(o.root, bs)
     /\ once /\ old # None => old.hash \subseteq o.root.hash /\ old.tx \subseteq o.root.tx
     /\ o.state => bs \subseteq o.root.balance
     /\ o.state => \A a \in Account : o.root.address[a] = bs \/ (~once /\ o.root.address[a] = {})
     /\ ~o.state /\ old # None => o.root.address = old.address
     /\ \A b \in bs : o.root.meta.first <= b /\ b <= o.root.meta.last

\* What a command has published is at Bee, and what it has written is so.
OutputsComplete ==
  /\ \A root \in published : Whole(root)
  /\ \A r \in Ranges : output[r] \notin {None, Torn} => FileSays(output[r], r)

Covers(m, root) == m \in Stats /\ \A b \in root.number : m.first <= b /\ b <= m.last

\* "When extending, also fetches the previous meta chunk (if any)"
\* (swarm-pot.ts:169-170): tries that extend others are described as a whole.
PotMetaCovers == scheme = "pot" => \A root \in published : Covers(root.meta, root)

\* What commands leave behind at their end is complete and described as it is
\* (the ends of upload.ts and upload-pot.ts).
EndsSound == OutputsComplete /\ PotMetaCovers

\* "open an existing root manifest and extract its ... sub-manifests plus the
\* `meta` ref if present" (swarm.ts:162-164): a manifest that extends another,
\* whose meta describes its blocks, describes them too.
ManifestMetaCovers ==
  \A r \in Ranges :
    (scheme = "manifest" /\ output[r] \notin {None, Torn}) =>
      LET old == output[r].extendedFrom
      IN (old # None /\ old.meta \in Stats) => Covers(output[r].root.meta, old)

\* "For every block ...: upload the block bundle ..., then record its reference in
\* all three POT KVSs" (swarm-pot.ts:233-235), and "if the POT already has a value
\* for a key ..., `putRaw` replaces it" (swarm-pot.ts:323-324).
PutsKept ==
  \A r \in Ranges :
    (scheme = "pot" /\ output[r] \notin {None, Torn}) =>
      LET root == output[r].root
          bs   == BlocksOf(r[1], r[2])
      IN /\ HasBlocks(root, bs)
         /\ output[r].state => \A a \in Account : root.address[a] = bs

-----------------------------------------------------------------------------
(* The inductive invariant behind SavesSound and EndsSound.                *)

\* The blocks of the range that the command has added.
Done ==
  CASE pc \in {"idle", "open"} -> {}
    [] pc \in {"blocks", "checkpoint", "progress"} ->
         BlocksOf(args.range[1], era - 1) \cup {BlockOf(era, i) : i \in 1..processed}
    [] OTHER -> History

\* The counters are about these blocks.
Spans(s, bs) == \A b \in bs : s.first # 0 /\ s.first <= b /\ b <= s.last

\* Where a command may go on from.
KnownKept ==
  \A root \in Known \cup ({args.extends} \ {None}) :
    /\ Even(root) /\ \A a \in Account : root.address[a] \subseteq root.number
    /\ scheme = "pot" => root.meta \in Stats /\ Spans(root.meta, root.number)

\* What the command extends.
Old == IF args.extends = None THEN Empty ELSE args.extends

\* Every entry is put once, or again where this changes nothing.
Once == scheme = "manifest" \/ Again(History, args.extends) = {}

\* The index in memory: what was added, on what was there.
IndexKept ==
  /\ pc \notin {"blocks", "checkpoint", "progress"} => processed = 0
  /\ pc \notin {"idle", "open"} =>
       /\ era \in args.range[1]..args.range[2]
       /\ Even(index) /\ index.number = Old.number \cup Done
       /\ Once => HasBlocks(index, Done) /\ Old.hash \subseteq index.hash /\ Old.tx \subseteq index.tx
       /\ Old.balance \subseteq index.balance
       /\ Spans(stats, Done) /\ (Done # {} => stats.count > 0)
       /\ scheme = "pot" => Spans(stats, index.number)

\* The record of an account, and what may become of it in tries.
Updated(a) == index.address[a] = History \/ (~Once /\ index.address[a] = {})

\* Every record is in the index, uploaded, being uploaded, or still to do.
RecordsKept ==
  /\ todo \cup busy \cup refs \subseteq
       CASE pc = "accounts" -> Account [] pc = "balances" -> History [] OTHER -> {}
  /\ pc \in {"accounts", "balances"} => ~args.noState
  /\ pc = "accounts" /\ scheme = "manifest" => refs = {}
  /\ CASE pc \in {"idle", "open"} -> TRUE
       [] pc \in {"blocks", "checkpoint", "progress"} -> index.address = Old.address
       [] pc = "accounts" ->
            IF scheme = "pot" THEN index.address = Old.address /\ Account \subseteq todo \cup busy \cup refs
            ELSE \A a \in Account : index.address[a] = History \/ a \in todo \cup busy
       [] OTHER -> IF args.noState THEN index.address = Old.address ELSE \A a \in Account : Updated(a)
  /\ pc = "balances" => History \ (todo \cup busy \cup refs) \subseteq index.balance
  /\ ~args.noState /\ pc \in {"meta", "save", "output", "publish"} => History \subseteq index.balance

\* What is saved is at Bee before what refers to it.
SaveKept ==
  /\ pc \notin {"checkpoint", "save"} => saved = {}
  /\ \A s \in saved : IsEmpty(s, index[s]) \/ <<s, index[s]>> \in trees
  /\ pc \in {"progress", "output", "publish"} => Whole(index)
  /\ pc \in {"save", "output", "publish"} => index.meta = stats
  /\ pc \in {"checkpoint", "progress"} => scheme = "manifest"
  /\ scheme = "pot" => \A e \in 1..Eras : progress[e] = None

EraInv ==
  TypeOK /\ KnownKept /\ IndexKept /\ RecordsKept /\ SaveKept /\ CheckpointSound /\ EndsSound

\* A command ends.
RunEnds == pc # "idle" ~> pc = "idle"
=============================================================================
