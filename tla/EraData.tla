------------------------------ MODULE EraData ------------------------------
(***************************************************************************)
(* The data directory: era archives, what is made of them, and the balance *)
(* events and checkpoints of re-executing their blocks (packages/era/src/  *)
(* cli-shared.ts, erae.ts, state-extract.ts and the commands around them). *)
(*                                                                         *)
(* One command runs at a time and may be killed at any moment; what stays  *)
(* is on disk.  An era's archive never changes where it is published, and  *)
(* the published list names every era.  The state of the chain is the      *)
(* sequence of blocks that were executed to get there.                     *)
(***************************************************************************)
EXTENDS Integers, Sequences, FiniteSets, SequencesExt, FiniteSetsExt

CONSTANTS
  Eras,     \* number of eras
  PerEra,   \* blocks of an era
  Cuts,     \* bound: records on disk of an archive that was cut short
  MaxRuns   \* bound: commands that are run

VARIABLES
  listed,      \* eras in the local list of checksums, or NoList
  archive,     \* .erae files
  blocks,      \* .blocks.ndjson files
  index,       \* .index.ndjson files
  summary,     \* .summary.json files
  events,      \* .balance-events.ndjson files
  checkpoint,  \* .state-checkpoint.json files
  trie,        \* states in trie.sqlite
  chain,       \* blocks in blockchain.sqlite
  command,     \* the command, and the range it was given
  at,          \* where it is
  era,         \* its current target
  last,        \* its last target
  state,       \* the state of its VM
  emitted,     \* events of the era, written to the stream
  total,       \* totalEvents
  runs         \* commands run so far

files    == <<listed, archive, blocks, index, summary>>
replay   == <<events, checkpoint, trie, chain>>
process  == <<command, at, era, last>>
machine  == <<state, emitted, total>>
dataVars == <<files, replay, process, machine, runs>>

Era        == 0..(Eras - 1)
BlocksOf(e) == (e * PerEra)..(e * PerEra + PerEra - 1)
Block      == 0..(Eras * PerEra - 1)
NoList     == -1

\* An archive: its records are grouped by type.
Records ==
  LET group(type) == [i \in 1..PerEra |-> type]
  IN <<"Version">> \o group("Header") \o group("Body") \o group("Receipts") \o group("TotalDifficulty")
       \o <<"AccumulatorRoot", "BlockIndex">>
Archive(n, part) == [records |-> n, part |-> part]
NoArchive    == Archive(-1, FALSE)
WholeArchive == Archive(Len(Records), FALSE)
Archives     == {NoArchive} \cup [records : 0..Len(Records), part : BOOLEAN]

ASSUME EraDataAssumption ==
  /\ {Eras, PerEra} \subseteq Nat \ {0}
  /\ Cuts \subseteq 0..(Len(Records) - 1)
  /\ MaxRuns \in Nat

\* A file of lines of which the last may be cut.
File(n, part) == [lines |-> n, part |-> part]
Whole == File(PerEra, FALSE)
Files == {f \in [lines : 0..PerEra, part : BOOLEAN] : f.part => f.lines < PerEra}

\* The state after block b when all blocks are executed in order, and the
\* events of an era then: each block, genesis included, has one, which depends
\* on the state.
After(b)    == [i \in 1..(b + 1) |-> i - 1]
EventsOf(e) == [i \in 1..PerEra |-> After(e * PerEra + i - 1)]

Checkpoint == [last : Block, root : Seq(Block), total : Nat]
NoCheckpoint == [last |-> -1, root |-> <<>>, total |-> 0]
Commands == [name : {"download", "process", "both", "extract"}, lo : Era, hi : Era]

DataTypeOK ==
  /\ listed \in NoList..Eras
  /\ archive \in [Era -> Archives]
  /\ blocks \in [Era -> Files] /\ index \in [Era -> Files]
  /\ summary \in [Era -> {"absent", "part", "whole"}]
  /\ events \in [Era -> Seq(Seq(Block))]
  /\ checkpoint \in [Era -> {NoCheckpoint} \cup Checkpoint]
  /\ trie \subseteq Seq(Block) /\ chain \subseteq Block
  /\ command \in Commands
  /\ at \in {"idle", "resolve", "list", "resume", "era", "cache", "fetch", "archive", "lines", "summary",
             "blocks", "root", "rename", "done"}
  /\ era \in Era /\ last \in -1..(Eras - 1)
  /\ state \in Seq(Block) /\ emitted \in Seq(Seq(Block)) /\ total \in Nat
  /\ runs \in 0..MaxRuns

NoCommand == [name |-> "download", lo |-> 0, hi |-> 0]

Forget ==
  /\ command' = NoCommand /\ at' = "idle" /\ era' = 0 /\ last' = -1
  /\ state' = <<>> /\ emitted' = <<>> /\ total' = 0

DataInit ==
  /\ listed = NoList
  /\ archive = [e \in Era |-> NoArchive]
  /\ blocks = [e \in Era |-> File(0, FALSE)] /\ index = blocks
  /\ summary = [e \in Era |-> "absent"]
  /\ events = [e \in Era |-> <<>>]
  /\ checkpoint = [e \in Era |-> NoCheckpoint]
  /\ trie = {} /\ chain = {}
  /\ command = NoCommand /\ at = "idle" /\ era = 0 /\ last = -1
  /\ state = <<>> /\ emitted = <<>> /\ total = 0
  /\ runs = 0

-----------------------------------------------------------------------------
(* Targets.                                                                *)

Is(names) == command.name \in names

Start(c) ==
  /\ at = "idle" /\ runs < MaxRuns
  /\ command' = c /\ at' = "resolve"
  /\ runs' = runs + 1
  /\ UNCHANGED <<files, replay, era, last, machine>>

\* Of the range, the eras among the first n, which the list names, are the
\* targets; others are skipped.
Targets(n) ==
  /\ era' = command.lo
  /\ last' = Min({command.hi, n - 1})
  /\ at' = IF Is({"extract"}) THEN "resume" ELSE "era"

\* resolveTargets() with a list on disk, whole or not.
ResolveLocal ==
  /\ at = "resolve" /\ listed # NoList
  /\ Targets(listed)
  /\ UNCHANGED <<files, replay, command, machine, runs>>

\* Otherwise the list is fetched and written; the targets are those of the text
\* that was fetched.
FetchList ==
  /\ at = "resolve" /\ listed = NoList
  /\ listed' = 0
  /\ at' = "list"
  /\ UNCHANGED <<archive, blocks, index, summary, replay, command, era, last, machine, runs>>

WriteList ==
  /\ at = "list"
  /\ IF listed < Eras THEN listed' = listed + 1 /\ UNCHANGED <<at, era, last>>
                      ELSE listed' = listed /\ Targets(Eras)
  /\ UNCHANGED <<archive, blocks, index, summary, replay, command, machine, runs>>

NextEra == IF era < last THEN at' = "era" /\ era' = era + 1 ELSE at' = "done" /\ era' = era

\* openEraOutput() cuts the file of events; the events of genesis come first.
OpenOutput ==
  /\ events' = [events EXCEPT ![era] = <<>>]
  /\ IF era = 0 THEN emitted' = <<After(0)>> /\ total' = total + 1
                ELSE emitted' = <<>> /\ total' = total

BeginEra ==
  /\ at = "era" /\ era <= last
  /\ at' = IF Is({"process"}) THEN "archive" ELSE "cache"
  /\ IF Is({"extract"}) THEN OpenOutput ELSE UNCHANGED <<events, emitted, total>>
  /\ UNCHANGED <<files, checkpoint, trie, chain, command, era, last, state, runs>>

NoTarget ==
  /\ at = "era" /\ era > last
  /\ at' = "done"
  /\ UNCHANGED <<files, replay, command, era, last, machine, runs>>

-----------------------------------------------------------------------------
(* download, and process.                                                  *)

Downloaded == IF Is({"download"}) THEN NextEra ELSE at' = "archive" /\ era' = era

\* downloadIfMissing(): a file that exists is taken, whatever is in it.
UseCached ==
  /\ at = "cache" /\ archive[era] # NoArchive
  /\ Downloaded
  /\ UNCHANGED <<files, replay, command, last, machine, runs>>

\* What was fetched is written; being killed may leave a part of it.
FetchArchive ==
  /\ at = "cache" /\ archive[era] = NoArchive
  /\ \E n \in Cuts, part \in BOOLEAN : archive' = [archive EXCEPT ![era] = Archive(n, part)]
  /\ at' = "fetch"
  /\ UNCHANGED <<listed, blocks, index, summary, replay, command, era, last, machine, runs>>

ArchiveWritten ==
  /\ at = "fetch"
  /\ archive' = [archive EXCEPT ![era] = WholeArchive]
  /\ Downloaded
  /\ UNCHANGED <<listed, blocks, index, summary, replay, command, last, machine, runs>>

\* readAllRecords(), and what openEraeFile() asks of the records: the count is
\* that of the BlockIndex record.
Opens(a) ==
  LET found == SubSeq(Records, 1, a.records)
      many(type) == Cardinality({i \in DOMAIN found : found[i] = type})
  IN /\ ~a.part
     /\ many("Version") = 1 /\ many("BlockIndex") = 1
     /\ \A type \in {"Header", "Body", "Receipts"} : many(type) = PerEra
     /\ many("TotalDifficulty") \in {0, PerEra}

Readable == archive[era] # NoArchive /\ Opens(archive[era])

\* processTarget() cuts the files of the era; extract() parses all blocks.
OpenArchive ==
  /\ at = "archive" /\ Readable
  /\ IF Is({"extract"})
     THEN at' = "blocks" /\ UNCHANGED <<blocks, index>>
     ELSE /\ at' = "lines"
          /\ blocks' = [blocks EXCEPT ![era] = File(0, FALSE)]
          /\ index' = [index EXCEPT ![era] = File(0, FALSE)]
  /\ UNCHANGED <<listed, archive, summary, replay, command, era, last, machine, runs>>

Grown(f) == IF f.part THEN File(f.lines + 1, FALSE) ELSE File(f.lines, TRUE)

\* The streams reach the disk each at its own pace.
WriteBlocks ==
  /\ at = "lines" /\ blocks[era] # Whole
  /\ blocks' = [blocks EXCEPT ![era] = Grown(@)]
  /\ UNCHANGED <<listed, archive, index, summary, replay, process, machine, runs>>

WriteIndex ==
  /\ at = "lines" /\ index[era] # Whole
  /\ index' = [index EXCEPT ![era] = Grown(@)]
  /\ UNCHANGED <<listed, archive, blocks, summary, replay, process, machine, runs>>

\* Both are closed before the summary is written.
CloseStreams ==
  /\ at = "lines" /\ blocks[era] = Whole /\ index[era] = Whole
  /\ summary' = [summary EXCEPT ![era] = "part"]
  /\ at' = "summary"
  /\ UNCHANGED <<listed, archive, blocks, index, replay, command, era, last, machine, runs>>

WriteSummary ==
  /\ at = "summary"
  /\ summary' = [summary EXCEPT ![era] = "whole"]
  /\ NextEra
  /\ UNCHANGED <<listed, archive, blocks, index, replay, command, last, machine, runs>>

-----------------------------------------------------------------------------
(* extract.                                                                *)

\* The era before, and its checkpoint.
Previous == command.lo - 1
NoResume == command.lo > 0 /\ (listed <= Previous \/ checkpoint[Previous] = NoCheckpoint)

\* Mutant: what cannot be resumed starts from genesis.
FromGenesisIfAbsent ==
  /\ at = "resume" /\ (command.lo > 0 => NoResume)
  /\ state' = After(0) /\ trie' = trie \cup {After(0)} /\ chain' = chain \cup {0}
  /\ at' = "era"
  /\ UNCHANGED <<files, events, checkpoint, command, era, last, emitted, total, runs>>

\* A range that starts at era 0 starts from genesis.
FromGenesis ==
  /\ at = "resume" /\ command.lo = 0
  /\ state' = After(0) /\ trie' = trie \cup {After(0)} /\ chain' = chain \cup {0}
  /\ at' = "era"
  /\ UNCHANGED <<files, events, checkpoint, command, era, last, emitted, total, runs>>

\* Otherwise from the checkpoint of the era before.
FromCheckpoint ==
  /\ at = "resume" /\ command.lo > 0 /\ ~NoResume /\ checkpoint[Previous].root \in trie
  /\ state' = checkpoint[Previous].root /\ total' = checkpoint[Previous].total
  /\ chain' = chain \cup {0}
  /\ at' = "era"
  /\ UNCHANGED <<files, events, checkpoint, trie, command, era, last, emitted, runs>>

\* An archive that cannot be read, or a range that cannot be resumed, ends the
\* command.
Refuse ==
  /\ \/ at = "archive" /\ ~Readable
     \/ at = "resume" /\ NoResume
  /\ Forget
  /\ UNCHANGED <<files, replay, runs>>

\* The blocks of the era that are executed: all but genesis.
Executed  == BlocksOf(era) \ {0}
Remaining == {b \in Executed : \A i \in DOMAIN emitted : emitted[i][Len(emitted[i])] # b}

\* runBlock() emits the events of the block, putBlock() asks for its parent.
RunBlock ==
  /\ at = "blocks" /\ Remaining # {}
  /\ LET b == Min(Remaining)
     IN /\ b - 1 \in chain
        /\ chain' = chain \cup {b}
        /\ state' = Append(state, b)
        /\ emitted' = Append(emitted, state')
  /\ total' = total + 1
  /\ UNCHANGED <<files, events, checkpoint, trie, process, runs>>

\* Events reach the disk.
FlushEvent ==
  /\ at \in {"cache", "fetch", "archive", "blocks"} /\ Is({"extract"}) /\ Len(events[era]) < Len(emitted)
  /\ events' = [events EXCEPT ![era] = Append(@, emitted[Len(@) + 1])]
  /\ UNCHANGED <<files, checkpoint, trie, chain, process, machine, runs>>

\* closeEraOutput()
CloseOutput ==
  /\ at = "blocks" /\ Remaining = {} /\ events[era] = emitted
  /\ at' = "root"
  /\ UNCHANGED <<files, replay, command, era, last, machine, runs>>

\* Mutant: the state stays in memory.
KeepState ==
  /\ at = "root"
  /\ at' = "rename"
  /\ UNCHANGED <<files, replay, command, era, last, machine, runs>>

\* getStateRoot() saves the state.
SaveState ==
  /\ at = "root"
  /\ trie' = trie \cup {state}
  /\ at' = "rename"
  /\ UNCHANGED <<files, events, checkpoint, chain, command, era, last, machine, runs>>

\* writeCheckpoint(): the file is renamed once it is whole.
RenameCheckpoint ==
  /\ at = "rename"
  /\ checkpoint' = [checkpoint EXCEPT ![era] = [last |-> Max(BlocksOf(era)), root |-> state, total |-> total]]
  /\ NextEra
  /\ UNCHANGED <<files, events, trie, chain, command, last, machine, runs>>

-----------------------------------------------------------------------------
EndCommand == at = "done" /\ Forget /\ UNCHANGED <<files, replay, runs>>

\* The process is killed, or something it asks for fails.
Crash == at \notin {"idle", "done"} /\ Forget /\ UNCHANGED <<files, replay, runs>>

CommandStep ==
  \/ ResolveLocal \/ FetchList \/ WriteList \/ BeginEra \/ NoTarget
  \/ UseCached \/ FetchArchive \/ ArchiveWritten
  \/ OpenArchive \/ WriteBlocks \/ WriteIndex \/ CloseStreams \/ WriteSummary
  \/ FromGenesis \/ FromCheckpoint \/ Refuse
  \/ RunBlock \/ FlushEvent \/ CloseOutput \/ SaveState \/ RenameCheckpoint
  \/ EndCommand

-----------------------------------------------------------------------------
(* Properties.                                                             *)

\* Whatever was killed when, and in whatever order eras were extracted again: a
\* checkpoint is of the state that replaying from genesis gives, it counts all
\* events up to it, its state and blocks are on disk for the next command to
\* start from; a file of events has the first of the era's true events.
ReplaySound ==
  \A e \in Era :
    /\ IsPrefix(events[e], EventsOf(e))
    /\ checkpoint[e] # NoCheckpoint =>
         LET b == Max(BlocksOf(e))
         IN /\ checkpoint[e] = [last |-> b, root |-> After(b), total |-> b + 1]
            /\ After(b) \in trie
            /\ 0..b \subseteq chain

\* What the command was to make of an era is whole.
Made(e) ==
  /\ archive[e] # NoArchive
  /\ Is({"process", "both"}) =>
       archive[e] = WholeArchive /\ blocks[e] = Whole /\ index[e] = Whole /\ summary[e] = "whole"
  /\ Is({"extract"}) =>
       archive[e] = WholeArchive /\ events[e] = EventsOf(e) /\ checkpoint[e] # NoCheckpoint

\* A command that ends without an error has made what it was to make, though any
\* file it found could have been cut by an earlier one.
DoneWhole == at = "done" => \A e \in command.lo..last : Made(e)

\* A later command can take up what it finds, and what one made is whole (the
\* checks of cli-shared.ts and of extract()).
FilesSound == ReplaySound /\ DoneWhole

-----------------------------------------------------------------------------
(* The inductive invariant behind FilesSound.                              *)

\* Where a command is, and what it is after.
PlaceKept ==
  /\ at = "list" => listed # NoList
  /\ at = "resume" => era = command.lo
  /\ at \in {"resume", "blocks", "root", "rename"} => Is({"extract"})
  /\ at \in {"lines", "summary"} => ~Is({"extract"})
  /\ at \notin {"idle", "resolve", "list", "done"} => command.lo <= era
  /\ at \notin {"idle", "resolve", "list", "done", "resume", "era"} => era <= last

\* What it has made of the eras before, and of this one.
MadeKept ==
  /\ at \notin {"idle", "resolve", "list", "done"} => \A e \in command.lo..(era - 1) : Made(e)
  /\ at \in {"lines", "summary", "blocks", "root", "rename"} => archive[era] = WholeArchive
  /\ at = "summary" => blocks[era] = Whole /\ index[era] = Whole

\* What extract() has in memory when it has executed all blocks before b.
MachineAt(b) ==
  /\ state = After(IF b = 0 THEN 0 ELSE b - 1)
  /\ total = b
  /\ 0..(b - 1) \subseteq chain

\* extract() is as far into the era as it has events of it.
ExtractKept ==
  /\ at = "era" => MachineAt(era * PerEra) /\ 0 \in chain
  /\ at \in {"cache", "fetch", "archive", "blocks", "root", "rename"} =>
       /\ Len(emitted) <= PerEra /\ (era = 0 => Len(emitted) > 0)
       /\ \A i \in DOMAIN emitted : emitted[i] = After(era * PerEra + i - 1)
       /\ MachineAt(era * PerEra + Len(emitted))
       /\ Len(events[era]) <= Len(emitted)
  /\ at \in {"root", "rename"} => Len(events[era]) = PerEra /\ Len(emitted) = PerEra
  /\ at = "rename" => state \in trie

MachineKept ==
  /\ at \in {"idle", "resolve", "list", "resume"} => total = 0
  /\ Is({"extract"}) => ExtractKept

DataInv == DataTypeOK /\ PlaceKept /\ MadeKept /\ MachineKept /\ ReplaySound /\ DoneWhole
=============================================================================
