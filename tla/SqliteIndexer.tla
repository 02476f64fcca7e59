--------------------------- MODULE SqliteIndexer ---------------------------
(***************************************************************************)
(* Indexing eras in a SQLite database that is then uploaded page by page   *)
(* (packages/era/src/upload-sqlite.ts with swarm-sqlite.ts).               *)
(*                                                                         *)
(* One command runs at a time; it may be killed at any moment, and an      *)
(* upload that fails or takes too long kills it too.  What stays is the    *)
(* database, which changes by transactions, and what Bee holds.  Every row *)
(* holds the reference of something uploaded, which is its hash, so here   *)
(* it is what was uploaded.  Every block has an event of every account.    *)
(***************************************************************************)
EXTENDS Integers, Sequences, FiniteSetsExt

CONSTANTS
  Eras,         \* number of eras
  PerEra,       \* blocks of an era
  Account,      \* accounts
  Concurrency,  \* records uploaded at once
  Fanout,       \* REFS_PER_CHUNK: references of an intermediate chunk
  MaxRuns       \* bound: commands that are run

ASSUME SqliteIndexerAssumption ==
  /\ {Eras, PerEra, Concurrency} \subseteq Nat \ {0}
  /\ Fanout \in Nat \ {0, 1}
  /\ MaxRuns \in Nat
  /\ IsFiniteSet(Account)

VARIABLES
  pc,         \* where the command is
  args,       \* its arguments
  db,         \* the committed database
  bee,        \* bundles and records at Bee
  existing,   \* blocks that were in the database when the file was opened
  era,        \* the era being read
  line,       \* lines of its file that were read
  position,   \* --per-block: blocks passed or added
  todo,       \* items of runWithConcurrency no worker has taken
  busy,       \* items being uploaded
  refs,       \* accountRefs, blockRefs: items uploaded
  image,      \* dbBuffer: the database as sync() read it
  level,      \* refs: chunks of one level of the tree
  above,      \* intermediateRefs: chunks of the next one
  pushed,     \* chunks of the image that Bee holds
  announced,  \* the newest announcement, and the arguments it was made with
  runs        \* commands run so far

reading == <<existing, era, line, position>>
records == <<todo, busy, refs>>
syncing == <<image, level, above, pushed>>
vars    == <<pc, args, db, bee, reading, records, syncing, announced, runs>>

Block     == 1..(Eras * PerEra)
BlockOf(e, i) == (e - 1) * PerEra + i
BlocksOf(es) == {BlockOf(e, i) : e \in es, i \in 1..PerEra}
EraRange  == {r \in (1..Eras) \X (1..Eras) : r[1] <= r[2]}
ErasOf(r) == r[1]..r[2]
Every(S)  == [a \in Account |-> S]

None   == [is |-> "none"]
Meta   == [is : {"meta"}, first : {0} \cup Block, last : {0} \cup Block, count : Nat, addresses : Nat, events : Nat]
Db     == [blocks : SUBSET Block, accounts : [Account -> SUBSET Block], balance : SUBSET Block,
           meta : {None} \cup Meta]
Schema == [blocks |-> {}, accounts |-> Every({}), balance |-> {}, meta |-> None]

\* The three ways to run the command.  `events`: eras that have a file of
\* events, none of them with --no-state.
Bulk(r, es)      == [mode |-> "bulk", range |-> r, events |-> es, block |-> 0, from |-> 0, to |-> 0]
Single(r, b)     == [mode |-> "block", range |-> r, events |-> {}, block |-> b, from |-> 0, to |-> 0]
PerBlock(r, s, t) == [mode |-> "positions", range |-> r, events |-> {}, block |-> 0, from |-> s, to |-> t]
NoArgs           == Bulk(<<1, 1>>, {})

\* makeContentAddressedChunkWithSpan(): a page, or references with their span.
Leaf(p) == [page |-> p, span |-> 1, kids |-> <<>>]

\* For every k, what the first k of these references span.
Spans(kids) ==
  LET sum[k \in 0..Len(kids)] == IF k = 0 THEN 0 ELSE sum[k - 1] + kids[k].span
  IN  sum

Node(kids) == [page |-> 0, span |-> Spans(kids)[Len(kids)], kids |-> kids]

\* A page per block beside that of the schema.
Pages(d) == 1 + Cardinality(d.blocks)

TypeOK ==
  /\ pc \in {"idle", "blocks", "answer", "accounts", "balances", "meta", "sync", "leaves", "tree", "announce"}
  /\ args.range \in EraRange /\ args.events \subseteq ErasOf(args.range)
  /\ {db, image} \subseteq Db
  /\ bee.blocks \cup bee.balance \cup existing \subseteq Block
  /\ era \in 1..Eras /\ line \in 0..PerEra /\ position \in 0..(Eras * PerEra)
  /\ todo \cup busy \cup refs \subseteq Account \cup Block
  /\ Cardinality(busy) <= Concurrency
  /\ Len(above) * Fanout < Len(level) + Fanout
  /\ runs \in 0..MaxRuns

Init ==
  /\ pc = "idle" /\ args = NoArgs
  /\ db = Schema
  /\ bee = [blocks |-> {}, records |-> {}, balance |-> {}]
  /\ existing = {} /\ era = 1 /\ line = 0 /\ position = 0
  /\ todo = {} /\ busy = {} /\ refs = {}
  /\ image = Schema /\ level = <<>> /\ above = <<>> /\ pushed = {}
  /\ announced = None
  /\ runs = 0

-----------------------------------------------------------------------------
(* Blocks.                                                                 *)

\* The command opens the database and the first file.
Start(a) ==
  /\ pc = "idle" /\ runs < MaxRuns
  /\ pc' = "blocks"
  /\ args' = a
  /\ existing' = db.blocks
  /\ era' = a.range[1] /\ line' = 0 /\ position' = 0
  /\ runs' = runs + 1
  /\ UNCHANGED <<db, bee, records, syncing, announced>>

Current == BlockOf(era, line + 1)

\* --per-block has passed its last position.
PastEnd == args.mode = "positions" /\ position >= args.to

HasLine == pc = "blocks" /\ line < PerEra /\ ~PastEnd

\* Mutant: blocks are taken to be added in order.
WantedInOrder(b) ==
  CASE args.mode = "bulk"      -> \A x \in existing : x < b
    [] args.mode = "block"     -> b = args.block /\ b \notin existing
    [] args.mode = "positions" -> args.from <= position /\ b \notin db.blocks

\* The block is asked for, and no earlier command has added it.
Wanted(b) ==
  CASE args.mode = "bulk"      -> b \notin existing
    [] args.mode = "block"     -> b = args.block /\ b \notin existing
    [] args.mode = "positions" -> args.from <= position /\ b \notin db.blocks

\* The rest of a file is not read after the block that --block names.
NextLine ==
  /\ line' = IF args.mode = "block" /\ Current = args.block THEN PerEra ELSE line + 1
  /\ position' = position + 1

SkipBlock ==
  /\ HasLine /\ ~Wanted(Current)
  /\ NextLine
  /\ UNCHANGED <<pc, args, db, bee, existing, era, records, syncing, announced, runs>>

\* Mutant: an upload that takes too long counts as answered.
UploadBlockTimedOut ==
  /\ HasLine /\ Wanted(Current)
  /\ bee' \in {bee, [bee EXCEPT !.blocks = @ \cup {Current}]}
  /\ pc' = "answer"
  /\ UNCHANGED <<args, db, reading, records, syncing, announced, runs>>

\* Bee stores the bundle of the block.
UploadBlock ==
  /\ HasLine /\ Wanted(Current)
  /\ bee' = [bee EXCEPT !.blocks = @ \cup {Current}]
  /\ pc' = "answer"
  /\ UNCHANGED <<args, db, reading, records, syncing, announced, runs>>

\* The answer arrives, and the row of the block is committed with those of
\* its transactions.
InsertBlock ==
  /\ pc = "answer"
  /\ db' = [db EXCEPT !.blocks = @ \cup {Current}]
  /\ NextLine
  /\ pc' = "blocks"
  /\ UNCHANGED <<args, bee, existing, era, records, syncing, announced, runs>>

\* All events of the run.
History == BlocksOf(args.events)

\* The next file; after the last one the events, and what describes the
\* database, unless only some blocks were asked for.
FileEnds ==
  /\ pc = "blocks" /\ (line = PerEra \/ PastEnd)
  /\ line' = 0
  /\ IF era < args.range[2] /\ ~PastEnd
     THEN pc' = "blocks" /\ era' = era + 1 /\ existing' = db.blocks /\ todo' = todo
     ELSE /\ pc' = IF args.mode # "bulk" THEN "sync" ELSE IF args.events # {} THEN "accounts" ELSE "meta"
          /\ era' = 1 /\ existing' = {}
          /\ todo' = IF pc' = "accounts" THEN Account ELSE {}
  /\ UNCHANGED <<args, db, bee, position, busy, refs, syncing, announced, runs>>

-----------------------------------------------------------------------------
(* Events.                                                                 *)

\* Mutant: the cursor all workers share does not move.
ClaimAgain(x) ==
  /\ pc \in {"accounts", "balances"} /\ x \in todo /\ Cardinality(busy) < Concurrency
  /\ busy' = busy \cup {x}
  /\ UNCHANGED <<pc, args, db, bee, reading, todo, refs, syncing, announced, runs>>

\* A worker of runWithConcurrency() takes an item.
Claim(x) ==
  /\ pc \in {"accounts", "balances"} /\ x \in todo /\ Cardinality(busy) < Concurrency
  /\ todo' = todo \ {x} /\ busy' = busy \cup {x}
  /\ UNCHANGED <<pc, args, db, bee, reading, refs, syncing, announced, runs>>

\* The record of an account, or of a block, is at Bee and its reference known.
RecordUploaded(x) ==
  /\ x \in busy
  /\ bee' = IF pc = "accounts" THEN [bee EXCEPT !.records = @ \cup {<<x, History>>}]
                               ELSE [bee EXCEPT !.balance = @ \cup {x}]
  /\ busy' = busy \ {x} /\ refs' = refs \cup {x}
  /\ UNCHANGED <<pc, args, db, reading, todo, syncing, announced, runs>>

\* All records of accounts are uploaded, or those of blocks too: then one
\* transaction writes the rows of both.
RecordsEnd ==
  /\ pc \in {"accounts", "balances"} /\ todo = {} /\ busy = {}
  /\ IF pc = "accounts"
     THEN pc' = "balances" /\ todo' = History /\ db' = db
     ELSE pc' = "meta" /\ todo' = {} /\ db' = [db EXCEPT !.accounts = Every(History), !.balance = @ \cup History]
  /\ refs' = {}
  /\ UNCHANGED <<args, bee, reading, busy, syncing, announced, runs>>

\* writeMeta(): the tables are counted, the events of the run are added up.
MetaOf(d) ==
  [is        |-> "meta",
   first     |-> IF d.blocks = {} THEN 0 ELSE Min(d.blocks),
   last      |-> IF d.blocks = {} THEN 0 ELSE Max(d.blocks),
   count     |-> Cardinality(d.blocks),
   addresses |-> Cardinality({a \in Account : d.accounts[a] # {}}),
   events    |-> (IF d.meta = None THEN 0 ELSE d.meta.events) + Cardinality(History) * Cardinality(Account)]

WriteMeta ==
  /\ pc = "meta"
  /\ db' = [db EXCEPT !.meta = MetaOf(db)]
  /\ pc' = "sync"
  /\ UNCHANGED <<args, bee, reading, records, syncing, announced, runs>>

-----------------------------------------------------------------------------
(* Pages.                                                                  *)

\* vacuum(), then sync() moves the log into the file and reads it.
ReadFile ==
  /\ pc = "sync"
  /\ image' = db
  /\ level' = [p \in 1..Pages(db) |-> Leaf(p)]
  /\ pc' = "leaves"
  /\ UNCHANGED <<args, db, bee, reading, records, above, pushed, announced, runs>>

\* The pages go to Bee one after the other.
UploadLeaf ==
  /\ pc = "leaves"
  /\ pushed' = pushed \cup {level[Cardinality(pushed) + 1]}
  /\ pc' = IF Cardinality(pushed') = Len(level) THEN "tree" ELSE "leaves"
  /\ UNCHANGED <<args, db, bee, reading, records, image, level, above, announced, runs>>

IsRoot == Len(level) = 1

Grouped == Len(above) * Fanout

\* buildMerkleTree(): the next batch of references becomes a chunk.
UploadNode ==
  /\ pc = "tree" /\ ~IsRoot /\ Grouped < Len(level)
  /\ LET n == Node(SubSeq(level, Grouped + 1, Min({Grouped + Fanout, Len(level)})))
     IN above' = Append(above, n) /\ pushed' = pushed \cup {n}
  /\ UNCHANGED <<pc, args, db, bee, reading, records, image, level, announced, runs>>

LevelEnds ==
  /\ pc = "tree" /\ ~IsRoot /\ Grouped >= Len(level)
  /\ level' = above /\ above' = <<>>
  /\ UNCHANGED <<pc, args, db, bee, reading, records, image, pushed, announced, runs>>

RootKnown ==
  /\ pc = "tree" /\ IsRoot
  /\ pc' = "announce"
  /\ UNCHANGED <<args, db, bee, reading, records, syncing, announced, runs>>

ForgetAll ==
  /\ pc' = "idle" /\ args' = NoArgs
  /\ existing' = {} /\ era' = 1 /\ line' = 0 /\ position' = 0
  /\ todo' = {} /\ busy' = {} /\ refs' = {}
  /\ image' = Schema /\ level' = <<>> /\ above' = <<>> /\ pushed' = {}

\* The metadata file, the feed and the file of latest references get the root.
Announce ==
  /\ pc = "announce"
  /\ announced' = [is |-> "root", args |-> args, db |-> image]
  /\ ForgetAll
  /\ UNCHANGED <<db, bee, runs>>

\* The command is killed, an upload fails, or withTimeout() gives up.
Crash ==
  /\ pc # "idle"
  /\ ForgetAll
  /\ UNCHANGED <<db, bee, announced, runs>>

-----------------------------------------------------------------------------
Step ==
  \/ SkipBlock \/ UploadBlock \/ InsertBlock \/ FileEnds
  \/ \E x \in todo : Claim(x)
  \/ \E x \in busy : RecordUploaded(x)
  \/ RecordsEnd \/ WriteMeta
  \/ ReadFile \/ UploadLeaf \/ UploadNode \/ LevelEnds \/ RootKnown \/ Announce

Commands ==
  UNION {
    UNION {{Bulk(r, es) : es \in SUBSET ErasOf(r)} : r \in EraRange},
    {Single(r, b) : r \in EraRange, b \in Block},
    {PerBlock(<<1, Eras>>, s, t) : s, t \in 0..(Eras * PerEra)} }

Next ==
  \/ \E a \in Commands : Start(a)
  \/ Step
  \/ Crash

Spec == Init /\ [][Next]_vars

\* Every upload is answered or fails; for blocks and pages withTimeout() sees to
\* it.
FairSpec == Spec /\ WF_vars(Step)

-----------------------------------------------------------------------------
(* Properties.                                                             *)

\* At whatever moment a command was killed, every row of the database, the
\* resume point of the next one, refers to something Bee holds; an account's
\* record, and a row of balances, is about blocks that are in the database; so
\* is what describes it ("committed immediately for crash recovery",
\* swarm-sqlite.ts:412).
RowsSound ==
  /\ db.blocks \subseteq bee.blocks
  /\ db.balance \subseteq bee.balance \cap db.blocks
  /\ \A a \in Account :
       db.accounts[a] # {} => <<a, db.accounts[a]>> \in bee.records /\ db.accounts[a] \subseteq db.blocks
  /\ db.meta # None /\ db.meta.count > 0 =>
       {db.meta.first, db.meta.last} \subseteq db.blocks /\ db.meta.count <= Cardinality(db.blocks)

\* The database is fit to be resumed from at any moment (addBlocksFromNdjson and
\* addBalanceEventsFromNdjson of swarm-sqlite.ts).
DatabaseSound == TypeOK /\ RowsSound

\* A reader that looks for an offset goes to the reference whose span holds it;
\* in a page it is there.
Further(x) ==
  IF x.chunk.kids = <<>> THEN {x}
  ELSE LET before == Spans(x.chunk.kids)
       IN  {[chunk |-> x.chunk.kids[k], offset |-> x.offset - before[k - 1]] :
              k \in {j \in DOMAIN x.chunk.kids : before[j - 1] <= x.offset /\ x.offset < before[j]}}

\* Where the reader is after n steps, n \in 0..depth.
Reach(root, o, depth) ==
  LET reach[n \in 0..depth] == IF n = 0 THEN {[chunk |-> root, offset |-> o]}
                               ELSE UNION {Further(x) : x \in reach[n - 1]}
  IN  reach

\* Where it ends, if Bee has all it is to go through.
Found(root, o, depth) ==
  LET reach == Reach(root, o, depth)
  IN  IF \A n \in 0..depth : \A x \in reach[n] : x.chunk \in pushed THEN reach[depth] ELSE {}

\* Before its root is announced, the tree of an image is at Bee and every page
\* is found in it by its offset, whatever the number of pages ("intermediates
\* need cumulative span", swarm-sqlite.ts:225).
RangeReads ==
  pc = "announce" =>
    \A p \in 1..Pages(image) :
      Found(level[1], p - 1, Pages(image)) = {[chunk |-> Leaf(p), offset |-> 0]}

\* The database has what the command asked for.  A run over whole eras has all
\* their events, and describes all there is.
Complete(d, a) ==
  LET asked == BlocksOf(ErasOf(a.range))
  IN CASE a.mode = "block"     -> a.block \in asked => a.block \in d.blocks
       [] a.mode = "positions" -> {b \in asked : a.from < b /\ b <= a.to} \subseteq d.blocks
       [] a.mode = "bulk"      ->
            /\ asked \subseteq d.blocks
            /\ a.events # {} => d.accounts = Every(BlocksOf(a.events)) /\ BlocksOf(a.events) \subseteq d.balance
            /\ d.meta.count = Cardinality(d.blocks)
            /\ d.meta.first = Min(d.blocks) /\ d.meta.last = Max(d.blocks)

\* What is announced is complete, no matter what earlier commands did or left
\* undone: resuming skips no block.
AnnouncedComplete == announced # None => Complete(announced.db, announced.args)

\* A reader of what is announced finds all that was asked for (sync of
\* swarm-sqlite.ts and the end of upload-sqlite.ts).
AnnouncedSound == RangeReads /\ AnnouncedComplete

\* "Safe to call multiple times: later calls overwrite earlier ones"
\* (swarm-sqlite.ts:633): a run that repeats another does not count its events
\* again.  It does, since the count is only ever added to.
EventsCountedOnce ==
  announced # None /\ announced.args.mode = "bulk" =>
    announced.db.meta.events <= Cardinality(announced.db.balance) * Cardinality(Account)

\* A command ends.
RunEnds == pc # "idle" ~> pc = "idle"
=============================================================================
