# A verification development of FullCircle

FullCircle puts the history of Ethereum on Swarm: archives are read, turned
into indexes and manifests, uploaded chunk by chunk to a Bee node, announced on
feeds, and read back by an explorer and a JSON-RPC server. This directory holds
TLA+ models of the parts whose correctness depends on the order of events, the
TLC configurations that check them, and TLAPS proofs.

Every definition that stands for code is listed in `PROJECT.json` under `map`
with the lines it translates. All paths below are relative to the repository.

## 1. The system

| Component | State it keeps | Operations | What is hard | What makes it correct |
|---|---|---|---|---|
| WebSocket proxy session (`packages/proxy/src/ws-proxy.ts`) | FIFO queue of frames with a state each, the upstream socket, the `connect()` coroutine, the idle timer | frames and close of the client, frames and close of Bee, connect, retry, idle timeout | acks without identity, reconnect and replay, cache hits behind misses, events while `connect()` sleeps | the n-th ack means the first n chunks are at Bee; one ack per frame; no client left without service |
| Chunk stream client (`packages/era/src/swarm-ws.ts`) | pending and waiting calls, error, closed, watchdog | `sendChunkData`, `close`, ack, error frame, socket error and close, watchdog | awaits between check and use, wake-ups, failures of `send` | a call resolves only when its chunk is stored; every call settles |
| HTTP proxy (`packages/proxy/src/proxy.ts`, `cache.ts`) | upload and download cache, one coroutine per request | route, buffer, look up, forward with retry, store | concurrent identical requests, retry of a request that was carried out, oversize bodies | an answer from the cache is what Bee would answer |
| Persistent ordered trie (`packages/pot/src`) | immutable nodes, root, write mutex, references to packed nodes | put, delete, find, iterate, save, load | restructuring on insert and delete, nodes that are not loaded, concurrent updates and saves | the trie is a map; a saved reference denotes a state that was current |
| Streaming mantaray (`packages/mantaray-stream/src`) | a manifest tree of stubs and loaded forks, a queue of calls, uploads under way | `addFork`, `getForkAtPath`, `save`, eviction | partly loaded spines, failing uploads, uploads that outlive their save | a saved reference holds exactly the entries added before |
| Swarm upload library (`packages/era/src/swarm.ts`) | work queue, chunk cache on disk | `runWithConcurrency`, `saveManifest`, manifest surgery | in-flight work after a failure, files shared by processes | a reference is returned only if everything under it is uploaded |
| SQLite indexer (`packages/era/src/upload-sqlite.ts`, `swarm-sqlite.ts`) | a local database, the tree of its pages | add blocks and records, resume, describe, sync, announce | a crash between an upload and the commit of its row; commands of different kinds over one database | every row refers to what Bee holds; what is announced has what was asked for, at its offsets |
| Feeds (`packages/era/src/feed-publisher.ts`, `feed-epoch.ts`) | last epoch and time | publish, recover, look up | epoch arithmetic, two updates in a second | the newest update is the one found |
| Reference state (`packages/era/src/refs-state.ts`, `publish-refs.ts`) | a JSON file | load, patch, save | read-modify-write by several commands, a crash in the middle | no command undoes what another saved |
| Upload pipelines (`packages/era/src/upload*.ts`, `swarm-pot.ts`) | checkpoints | upload, resume | crashes | nothing is announced that is not uploaded; an interrupted upload resumes from its last checkpoint |
| Archive readers (`packages/era/src/cli-shared.ts`, `erae.ts`, `state-extract.ts`, `bundle.ts`) | archives, blocks, indexes, summaries, events and checkpoints of eras, the VM's databases | download, process, replay and resume | commands that are killed between any two files; files of which a part is there | a replay is resumed only from the right state; what counts as done is whole |
| JSON-RPC server (`packages/rpc/src`) | summaries and hashes read at its start | one handler per method | files that are written anew while it reads them | the block that was asked for, or an honest null |
| Explorer library and pages (`packages/explorer`) | settings and their copy in `localStorage`, what each page shows | save settings, follow a feed, open an envelope, navigate, load a page | answers that arrive after the settings or the page changed | a page shows what the settings name now; the references of a trie fit together |

How they interact: the upload pipelines push chunks through the *chunk stream
client*, whose other end is either a Bee node or the *WebSocket proxy session*
in front of one; tries, manifests and SQLite pages go through `/bytes`, which
the *HTTP proxy* caches; roots are written to the *reference state* and
announced by the *feeds*. The explorer is built with the references of that
file, follows the feeds, and reads tries and databases through the HTTP proxy's
download cache. The RPC server reads what the *archive readers* left on disk, and
so do the upload pipelines.

## 2. How the directory is organised

| Module | What it is | Checked by |
|---|---|---|
| `WsProxy` | the session of the WebSocket proxy with the client, the network and Bee around it | `WsProxyReliable.cfg`, `WsProxyFaulty.cfg` |
| `AckedStream` | what a stream of acknowledged chunks promises, on one page | as a property of `WsProxy`; as the server of `BeeChunkStream` |
| `BeeChunkStream` | the client of such a stream | `BeeChunkStream.cfg` |
| `BeeChunkStreamProofs` | its inductive invariant; no caller is forgotten, what resolved is stored | TLAPS |
| `PotOps` | the algorithms of the trie, as operators | through `Pot` |
| `Pot` | a trie under put, delete, save and load, against a map | through `PotIteration` |
| `PotIteration`, `MCPot` | `iterate()` over such a trie (extends `Pot`) | `Pot.cfg` |
| `PotIndex` | concurrent calls of an Index: mutex, two roots, I/O that fails | `PotIndex.cfg` |
| `PotProofs` | inductive invariants of `Pot` and `PotIndex`: which entries the trie holds after any updates, its nodes are sound, walks are ordered, updates that overlap are atomic | TLAPS |
| `StreamingMantaray`, `MCStreamingMantaray` | the manifest of bounded memory | `StreamingMantaray.cfg` |
| `ManifestMap` | what a manifest promises: a map that is extended, saved and opened again | as a property of `StreamingMantaray` |
| `StreamingMantarayProofs` | its inductive invariant; saves are complete, reads see writes, only additions change the manifest; it implements `ManifestMap` | TLAPS |
| `HttpProxy`, `MCHttpProxy` | HTTP requests and the two caches | `HttpProxy.cfg` |
| `ProxyProofs` | invariants of `WsProxy` and `HttpProxy` for all constants; the session implements `AckedStream`; what uploads, downloads and rows are sure of | TLAPS |
| `EpochFeed` | a publisher and readers of an epoch feed | `EpochFeed.cfg` |
| `EraUpload` | the two commands that upload eras, their checkpoints, files and crashes | `EraUpload.cfg` |
| `EraUploadProofs` | what they leave behind is sound wherever they are killed | TLAPS |
| `SqliteIndexer` | the command that indexes eras in a database, from the first row to the announcement | `SqliteIndexer.cfg` |
| `SqliteIndexerProofs` | its inductive invariant; the database and what is announced are sound | TLAPS |
| `EraData` | the data directory and the commands that fill it, killed at any moment | as part of `RpcServer` |
| `RpcServer` | the server that answers from that directory meanwhile (extends `EraData`) | `RpcServer.cfg` |
| `RpcServerProofs` | invariants of both: the files of a replay, the commands that end, the answers | TLAPS |
| `RefsState` | the file of latest references, the feeds, and the ends of commands that run at once | as part of `Explorer` |
| `Explorer` | one browser tab over what those commands left (extends `RefsState`) | `Explorer.cfg` |
| `ExplorerProofs` | invariants of both: saves, the references of a trie, what pages show; and of `EpochFeed`: updates lie below older ones, readers find them | TLAPS |

The other configurations show claims fail (section 5); `PotReplace.cfg` is a variant of `Pot.cfg`.

Conventions. A variable has the name of the variable in the code where there is
one. An action is one handler, or the part of a coroutine from one `await` to
the next: JavaScript runs it without interruption, and everything it calls is
part of it. `Spec` is the system without fairness, `FairSpec` adds it.
Definitions named in comments as *mutants* are plausible mistakes, never used
by the specifications; `PROJECT.json` says which property notices which. A
property of a run that is a conjunction (`TrieIsMap`, `SavesSound`, `FilesSound` and so
on) stands for parts that are defined and explained one by one above it, the type
invariant often among them; where it is in no run it is proved. The
configurations say `CHECK_DEADLOCK FALSE` because sessions, streams, calls and
requests really end, and nothing is left to do then.

## 3. The modules and the code

### 3.1 `WsProxy`: one session of the WebSocket proxy

The client sends frames with one chunk each; the proxy answers a frame from the
upload cache or sends it on to Bee, which answers without saying to what. The
FIFO `pending` is kept here as its history: `frames` (what was sent), `state`
(the state each frame is in) and `head` (the first frame still in the queue).
`connector` and `attempt` are the coroutine `connect()`, `upstream` its socket,
`wire` and `replies` what is in flight, `stored` what Bee holds, `cache` the
rows of `upload_cache`. Actions are the handlers of the client's socket
(`OnClientMessage`, `OnClientText`, `OnClientClose`), those of the upstream
socket (`OnUpstreamMessage`, `OnUpstreamClose`), the two ends of a connection
attempt, the end of its pause and the idle timer. `drain()` is an operator, part of
each action whose handler calls it.

`Faults` says what Bee may do with a chunk other than store it: lose it without
a word ("silent") or answer with an error frame ("reject"). The client's side
of the contract, that the n-th ack answers the n-th frame, cannot survive
either, since acks carry no identity, so the properties come in two groups:
those that assume `Faults = {}` and those that hold for any Bee.

Left out: statistics of postage stamps and logging, errors of SQLite, text
frames on their way to Bee (only the idle timer notices), other sessions that
share the cache. A hash identifies a payload. The idle timer has no clock: it
may fire whenever it is armed. Frames are accepted while the client's socket is closing,
which is more than the library delivers.

### 3.2 `BeeChunkStream`: the client of the stream

Each call of `sendChunkData()` is a coroutine with one chunk: it waits for a
slot (`waiting`), pushes itself on `pending`, sends, and ends when an ack or an
error settles it. `close()` polls until nothing is in flight. The server is an
instance of `AckedStream` that may in addition refuse, skip or never answer; the socket
may break, `send` may fail, and the watchdog may fire at any time it is armed.
`WsProxy` implements `AckedStream` (3.1), so this is the client of a proxy as well
as of a Bee node. Left out: the handshake of `open()`, the size check before
anything is queued, `ackTimeoutMs = 0`.

### 3.3 `PotOps`, `Pot`, `PotIteration`, `PotIndex`: the persistent ordered trie

`PotOps` holds `update`, `wedge`, `whirl`, `whack`, `pull`, `find` and the sizes of `newAt` as operators over nodes
that are records: a key is a sequence of `Depth` bits, the
forks of a node are a function from positions to nodes (in the code a sorted
list). The code calls itself at the end of a function; here such a call is a step of a recursive function over at most
`Depth` steps (`Descent`, `PullTail`, `Way`), each of which stays where it is once there is nothing to follow. The node under
construction (`acc`), the node it takes forks from and the position go along as a `Place`. Only the update of the half behind the
first bit of the root is a call of its own (`Half`, `WithOtherHalf`).

`Pot` keeps a trie next to the map it should be (`kv`) and applies puts,
deletes, lookups and, in one step, a save and an opening (`SaveAndLoad`). A trie that was opened consists of packed nodes, which the
code must unpack before it looks at them: `packed` are the keys of those, `Unpack` is done by whatever walks by. Nodes are
immutable, so what a reference stands for is the node itself.

Two kinds of updates drop entries of others (section 5): `Idle` ones, which change nothing in the half of the trie behind the root's first bit, and
`Blind` ones, deletions of a node whose last fork is packed. `Dropped` says which keys go with such an update, and the history variable `lost` keeps
those whose entries are gone: a key leaves it when it is put or deleted again. `TrieIsMap` is about tries after any mix of all these updates: the trie holds
exactly the entries of `kv` that are not lost, neither fewer nor some that come back. `IdleUpdates` and `PackedDeletes` tell whether the callers make such
updates; in the run they make both. Without them the trie is `kv`.

`PotIteration` adds `iterate`. `iterateInner` calls itself once per fork; here the calls yet to be made are a list next to the keys emitted so far, and a step
(`IterateInner`) makes the first call: it emits a key or puts the calls it makes itself (`Calls`) in front of the rest. `Iterate` takes one step for each
entry and bit, which is shown to be enough. A prefix that nothing has is an error (`ErrNotFound`), as in `findNode`.

`KeepPassed` keeps the forks `whirl` passes by and never looks at again, as the code does;
`Pot.cfg` leaves them out, which makes the state space small and no lookup
different; `PotReplace.cfg` checks the same invariants with them (`Depth = 2`), and the proofs are about both. `MaxNodes` bounds how many nodes
a trie has, and how many entries are lost, when callers update it.

`PotIndex` is about the calls rather than the trie: a root is the list of
updates that made it. A call of `add` or `delete` waits for the mutex, reads the root, does I/O, becomes the root of
the `SwarmPot` (`Pack`) and, a turn later, that of the `Index` (`Switch`); `save` does not take the mutex. Left out: printing, iterations that
their callback stops, modes other than those in the repository.

### 3.4 `StreamingMantaray`: a manifest larger than memory

A node is named by its path. The address of a node is the function from the
paths below it to the entries there: what a hash determines, and no more, so
that equal contents have equal addresses and `Serialized` can be compared.
`tree` has, for every node in memory, its entry, its address if it is saved and
whether its forks are loaded; `uploads` and `save` are the coroutines of
`saveTree()`, `saved` the last reference returned, and `kv` what the callers have
added. Calls queue up (`runExclusive`), load
the nodes on their path one by one (`Hydrate`), and change the tree. `save` walks the
dirty nodes, uploads `Concurrency` at a time, a parent when its last child has
an address, then evicts what is deeper than `EvictDepth`. An upload may fail: the save is rejected at once
and other uploads of it go on (`StaleEnds`, `StaleFails`). `Reopen` is a
restart from the last saved reference.

The manipulation of nodes is mantaray-js, outside the repository; it is
modelled by what `src/` expects of it. Which of several ready nodes is uploaded
first is left open. To its callers the manifest is a map: `MapSpec` is `ManifestMap` with the entries of all nodes,
in memory or behind stubs (`Entries(Full(tree))`), for `map` and those of the last saved reference for
`stored`. Loads, uploads, evictions and failures must be stutters of it. Callers do not save an empty manifest
(`packages/era/src/swarm.ts:549-553`). With `Hasty = FALSE` nobody calls while
uploads of a rejected save are under way, as in the commands of `packages/era`, which
exit when a save fails; with `TRUE` a saved reference may lack an entry (section 5). Left out: `removePath`, which
nothing in the repository calls, `fromNode`, metadata, paths longer than a prefix.

### 3.5 `HttpProxy`: requests and caches

Each request is a coroutine: `ArriveGet`, `ArrivePost` and `ArriveOther` are the three branches
of the server's callback. Uploads are read (`BodyRead`), looked up, sent, tried
again after a pause when the connection breaks, answered and then stored;
downloads the same without retries. A connection may break before or after Bee
carried the request out, and an attempt given up may be carried out later
(`late`). `Restart` ends the process; the caches are files and stay. A `Variant`
is what Bee heeds and the cache's key does not hold: the query, or a header
like `Range`. A body stands for the whole key of a row (hash, batch, path). Requests for the whole and for a part of the same body mix in `HttpProxy.cfg`:
`served` is the history of the requests Bee carried out, and every answer, from Bee or a cache, must be one that Bee gave to a request of the same method for
the same body. That it is the variant asked for (`SameBytes`) is what the comment in `cache.ts` promises and the code does not keep (section 5). `Asked` bounds what is asked for.

A body over the limit ends the request (`BodyLost`): leaving the loop over the
request early destroys it, so the streaming fallback at
`packages/proxy/src/proxy.ts:229-231` has nothing to read. A streamed answer that
Bee cuts short leaves the client waiting (`StreamEnds`, "hanging"), since
nothing listens to the response's error. Left out: contents of headers,
statistics, logging. Bee does not lose what it holds.

### 3.6 `EpochFeed`: announcing and finding references

Time is a binary tree of epochs; an update is a chunk at the address of an epoch.
`Publish` starts `publishFeedUpdate()`; `ProbeFinds` and `ProbeMisses` are the
requests of `recoverFeedHints()`, the second one with the `nextEpoch()` that follows;
`Post` and `Verify` are the upload and the download that confirms it, and
`PublishFails` is an error of any of them, or the end of the process, so that an
update may be at Bee and count as failed. At an epoch of one second nothing is left below, and
the constructor of the next epoch throws. A reader is `resolveLatest()`; the search it
calls belongs to a library and is modelled after the algorithm that `feed-epoch.ts`
was ported from: down while there are updates in time, to the left sibling where there are none. A chunk
written to an address that is taken replaces what was there, as
`feed-publisher.ts:72-73` assumes. `Flaky` lets Bee answer with an error where there is a chunk. One
update is published at a time, as each command does; readers share the publisher's clock, and a
reader whose clock is behind finds what was current at its time. Left out: addresses and
signatures, feed manifests and envelopes, which are uploads without state.

### 3.7 `EraUpload`: the commands that upload eras

`scheme` tells `upload.ts` with `swarm.ts` ("manifest") from `upload-pot.ts` with `swarm-pot.ts`
("pot"); the two are built alike, and where they differ there are two actions or operators
(`OpenManifest` and `OpenPotIndexes`, `ExtractMetaRef` with `LoadStatsFromMeta` and `LoadMetaStats`,
`ManifestRecordUploaded` and `PotRecordUploaded`). One command runs at a time, from `Start` to
`Publish` or `Crash`. `index` and `stats` are what it has in memory, `trees` and `roots` what
has been saved at Bee, `progress`, `output` and `published` what tells others. A block is uploaded, put into three
indexes and counted in one action (`AddBlock`), since the loop over the blocks awaits each step and nothing
else runs; the workers of `runWithConcurrency()` do interleave (`Claim`, `ManifestRecordUploaded`, `PotRecordUploaded`,
`RecordsEnd`), and so do the saves of the five indexes (`SubSave`) that `SaveRoot` waits for. A file is `Torn` from
the start of its writing to the end. `--manifest` and `--refs` get roots that an operator
finds in whole files (`Known`).

An index is the set of its keys, the record of an account the set of blocks it
is about; every block has one transaction and an event of each account. A root that was loaded holds, for the fork `meta`, the
address of a node (`NodeRef`), as the comment of `mantaray-stream/src/spine.ts:3-7` says of
every fork; `ExtractMetaRef` returns it.

Tries that extend others with `--refs` may get a block or a record again under the reference it has, which is an idle update in the sense of 3.3. `WithBlock` and
`WithRecords` therefore lose entries as the trie does: `Lost` leaves open which half of `hash`, `tx` or `address` goes, as long as something that is put again is in
it. Keys that are block numbers all begin with the same bit, so `number` and `balance` lose nothing. `EndsSound` says what holds all the same: whatever happens to a half,
blocks are found by their numbers, a hash never leads to a block the numbers do not have, and an account has its new record or none; without an overlap, and for manifests, nothing is
lost. What the comments promise of an overlap is `PutsKept` (section 5).

Left out: the cache of nodes on disk, transactions, which go with their block, how chunks reach
Bee (3.2) and how a tree of nodes is saved (3.4), eras without events. The file of latest references and commands that run at once are in 3.10.

### 3.8 `SqliteIndexer`: the command that indexes eras in a database

Three kinds of commands, as `parseArgs()` tells them apart, in any order over one database: `Bulk`
(whole eras, with or without their events), `Single` (`--block`) and `PerBlock` (positions
from an offset to the end of a batch). A block is looked up in the file (`Wanted`, against
the numbers that were in the database when the file was opened), uploaded (`UploadBlock`) and committed
(`InsertBlock`) in separate steps, since a crash or a timeout may come between. Records of
accounts and blocks are uploaded by workers that claim items from one list (`Claim`, `RecordUploaded`) and
committed by one transaction at the end (`RecordsEnd`); `WriteMeta` describes the database. `ReadFile` to `RootKnown`
are `sync()`: pages and then levels of intermediate chunks, each sent and awaited, with a
span that says how much is below it, and one reference left over gets a chunk of its own. `AnnouncedSound` looks pages up in
the announced tree as a reader with an offset does: from a chunk `Further` goes to the child in whose part of the running sum of
spans (`Spans`) the offset lies, and `Reach` repeats that. A row's reference is a hash, so it is
the set of blocks that was uploaded under it. Left out: two commands over one database at once, the
bytes of chunks, tags, `--per-block 0` (which counts as no option at all), the time it takes before
an upload counts as failed; records and intermediate chunks have no such limit in the code.

### 3.9 `EraData` and `RpcServer`: the data directory and the server over it

`EraData` has the files of each era as they are on disk: an archive is a number of
records, of which the last may be cut; a file of lines the same; a checkpoint names the last block, the root of the
state and the number of events. The state of the chain is the sequence of blocks that were executed, so that
`After(b)` is the right one and any other is wrong. Commands are `download`, `process`,
`download-and-process` and `state-extract`; each step between two of their awaits is an action, and `Crash` may come
between any two. `OpenArchive` is `openEraeFile()`: it refuses an archive that lacks a record of some type, which an
archive of which a part was downloaded always does, because its records are grouped by type and the index comes last. The
replay runs block by block (`RunBlock`), its events reach the file later (`FlushEvent`), the trie is saved with the
state root (`SaveState`), and the checkpoint is renamed when it is whole (`RenameCheckpoint`).

`RpcServer` adds the server: `StartServer`, `LoadSummary`, `IngestLine` and `Listen` are `load()`, each file being read
while commands may cut and rewrite it; a call is received (`Receive`), its lines are read (`ReadLine`) and it is answered
(`Reply`). `AnswersTrue` lets an answer be null or an error for a block the server holds only if the file it
read was not whole all the time; what it does answer is the block that was asked for.

Left out: what is in records and blocks, the `events.meta` file, requests that are no POST. The calls
of a batch are answered one after the other, and each reads by itself, so one call at a time stands for
them. `state-extract` shares no file with the server and runs without it (`Apart`), and one command runs at a time. The published list names every era.

### 3.10 `RefsState`: what commands announce

Several commands run at once here (`Command`). Each has uploaded something or was given it
(`Upload`, `PublishSite`, `PublishRefs`), updates feeds one after the other (`PublishFeed`), and saves
(`Load`, `StartWrite`, `EndWrite`): the file is read anew, the fields of the patch are put over it, and it is emptied and filled.
An upload of a manifest publishes and saves nothing. A file that is cut short reads as empty. An update of a feed that
could not be read back counts as failed and may be there (3.6). A feed is its latest update here, and a reference the number of the upload it came from.

### 3.11 `Explorer`: one tab

The tab opens when no command is running and shows a site built with what the file then holds (`OpenTab`); later uploads
are those of the publisher's other machine (`Announce`). `settings` is the reactive object, `storage` what
`localStorage` has. Effects are no actions: Svelte runs them before anything else happens, so `Change` and `Go` carry out,
together with the change, what the layout's effect (`FollowFeed`) and the page's effect (`LoadPage`) do, if what they read
(`Refollows`, `PageReads`) changed. Lookups of a feed, or of an envelope, and requests of a page are slots that may be
answered in any order, fail, or be answered after the page was left. The home page cancels its requests when its effect
runs again; the pages of a block, a transaction and an account do not, which is why `ItemFresh` is about pages none of
whose loads began while an earlier one was under way (`calm`). The summary that reaches the home page decides which blocks
are asked for, from the settings as they are by then (`MetaAnswer`). An upload `v` holds the keys 1 to `v`; those in `TxHashes` are hashes of
transactions; envelopes in `OldEnvelopes` lack three fields, as those of earlier uploaders do.

Left out: two tabs over one `localStorage`, the gateway's address (each effect reads it like a reference), the list of blocks, paging,
decoding, stores and workers that are opened once per reference.

## 4. The runs

| Run | Instance | What it shows |
|---|---|---|
| `WsProxyReliable` | 2 payloads, 3 frames, 2 lost connections, 2 attempts, a Bee that acknowledges | acked frames are stored, the cache is sound, acks meet their frames, the session implements `AckedStream`, every frame of a client that stays is acked |
| `WsProxyFaulty` | the same with 1 lost connection and a Bee that loses and refuses chunks | one ack per frame, an open client is served |
| `BeeChunkStream` | 3 calls, 2 slots | acks settle the right calls, no call or waiter is forgotten, every call settles |
| `Pot` | keys of 3 bits, 2 values, tries of up to 4 nodes | after any updates, idle and blind ones included, saves and loads, contents, lookups and sizes are those of the map less the entries that were dropped; iteration is ordered |
| `PotIndex` | 3 updates, 2 saves | no update lost, saves are fresh, updates are atomic and end |
| `StreamingMantaray` | 4 paths on 3 levels, 2 uploads at a time, a queue of 2 | addresses are true, saves complete, reads see writes, the tree implements `ManifestMap`, every call ends |
| `HttpProxy` | 3 requests, 2 bodies, one of which is asked for whole or in part, 2 attempts | answered uploads are at Bee, every success is an answer Bee gave to such a request for this body, buffered requests end |
| `EpochFeed` | 3 levels, 8 seconds, 5 updates, a reader | a reader finds what was current when it began or something newer; above every update there is an older one |
| `EraUpload` | 2 eras of 2 blocks, 2 accounts, 2 workers, 2 commands | what checkpoints, files and the feed name is at Bee and has what it should, overlapping ranges included; tries that extend others are described as a whole, a command ends |
| `SqliteIndexer` | 2 eras of 2 blocks, 1 account, 2 workers, chunks of 2 references, 2 commands | rows refer to what Bee holds after any crash, resuming skips nothing, every page is found in the announced tree, a command ends |
| `RpcServer` | 2 eras of 2 blocks, archives cut after record 7, 2 commands, 1 block with transactions | no replay starts from a wrong state, what is done is whole, answers are true, a command ends |
| `Explorer` | 2 commands at once, 2 uploads of each kind, 2 sources, 4 pages, 2 things the user does | no save is undone, the references of a trie fit together, pages show what the settings name |

Why these bounds. Three frames are the fewest with a hit behind a miss behind a
miss, and two payloads the fewest with a repeated upload that is not the same
as another; two lost connections replay a replay. Three calls over two slots
make a waiter and, since the check and the push are separated by an `await`,
more calls in flight than slots. Three bits make tries where a deletion must
move a fork that itself has forks. Tries of three nodes, lost entries counted, get another entry, and tries of four lose one: there
a node has two forks of which one has a fork, or a way down three deep, and what was lost is put again. Values are only compared, so that the run may take states that differ in their names for one. Larger tries are what the theorems are about.
The four paths of the manifest make three leaves, more than are uploaded at a
time, and a node with two children below the eviction depth, so that a save has nodes that wait for
room and a parent that waits for its children, and later calls meet stubs. Three requests are an upload, an identical one that overlaps it, and a
third that finds what they left; two downloads that the cache cannot tell apart, one that it can and two uploads may be asked for. Five updates fill the four epochs over one second and meet the end of the tree;
eight seconds make a reader search subtrees to the left of its time. Two
commands are one that leaves something and one that extends it or writes over it; two eras make ranges that overlap, and four blocks
more records than workers; two accounts let one lose its record by the update of the other. In `SqliteIndexer` the second command meets what a first one of any kind left or was killed in, and a database of
five pages or more has two levels of chunks of two references, with one left over. In `RpcServer` an era of two blocks can be
half written, half read and half executed; record 7 is behind all of the receipts and before the last record, where a shorter archive is most like a whole one. In `Explorer`
two commands are an upload and a publication of what the file held before; two lookups and two requests under way are
those of an effect that ran again and of the one before, two things done while they are under way change the
settings and change them back, and an old and a new envelope tell fields that are kept from fields that are set. The third source, SQLite, is handled like a manifest and left out of that run; so is the
page of a block, which loads like that of a transaction.

Fairness. Bee, timers and sockets are fair (weakly, per handler): a frame that was sent is
handled, an attempt to connect ends one way or the other, a pause ends, an
upload or request to Bee ends with an answer or an error. In `EraUpload` one condition on the whole command is enough (`WF_vars(Step)`): each
of its steps awaits a request that Bee answers or that fails, and its work is finite; `SqliteIndexer` (`WF_vars(Step)`) and the commands of `RpcServer` have the same, and the server, the user and crashes have none. `Explorer` claims nothing about what must happen. Nothing obliges
clients or callers to do anything, a connection to break, or Bee to accept
rather than refuse. `EveryFrameAcked` needs that the number of lost connections is bounded
(`MaxDrops`): a Bee that accepts and hangs up for ever is retried for ever. The JavaScript
event loop justifies fairness per handler: callbacks run in the order they are queued.

## 5. Where the code does something else

Each of these is a claim the repository makes and its code does not keep. The configuration has the claim as its only property, and TLC finds it violated
within seconds (`tlc -config PotWalk.cfg PotIteration`); it is no run of section 4, all of which hold.

| Configuration (module) | Claim | What TLC finds |
|---|---|---|
| `PotIdleUpdate.cfg` (`Pot`) | `NothingLost`: an update changes the entry of its key only (`test/index.test.ts:37`) | `updateInner` returns null for "no change" as for "now empty" (`ops.ts:69`, `82-88`): writing the value an entry has, or deleting an absent key, in the half of the trie behind the root's first bit drops that half |
| `PotBlindDelete.cfg` (`Pot`) | `NothingLost`: a deletion "preserves the others" (`test/index.test.ts:100`) | a packed node counts as empty (`ops.ts:113-114`), and a deletion in a loaded trie drops the entries behind one |
| `PotWalk.cfg` (`PotIteration`) | `IterateComplete`: `iterate()` walks "the subtree rooted at the node whose key matches prefix" (`pot.ts:78-79`) | the walk begins behind the bit after the prefix (`pot.ts:108`, `112`) and leaves out the entries that differ from the first node in this bit |
| `HttpParts.cfg` (`MCHttpProxy`) | `SameBytes`: "same ref always returns same bytes" (`cache.ts:113-114`) | a partial answer is cached under the path and given to the next GET of the path (`proxy.ts:164`) |
| `EraOverlap.cfg` (`EraUpload`) | `PutsKept`: every block is recorded "in all three POT KVSs" (`swarm-pot.ts:233-235`), and `putRaw` replaces what is there (`323-324`) | tries that extend others by an overlapping range put a block again as it is: the first defect of this table, met by a command of the repository |
| `EraExtend.cfg` (`EraUpload`) | `ManifestMetaCovers`: opening a manifest extracts "the `meta` ref if present" (`swarm.ts:162-164`) | a manifest that extends another gets a meta that leaves out the blocks it extends: what is loaded as its counters is the address of a node, and the error that follows is swallowed (`swarm.ts:693`) |
| `WsProxyOrphan.cfg` (`WsProxy`) | `NoOrphanUpstream`: "stale WS connections don't pile up" (`ws-proxy.ts:15-16`) | the client leaves while `connect()` awaits the handshake, and the socket that opens is adopted and never closed, since the idle timer was stopped before (`ws-proxy.ts:177`) |
| `EpochFeedFlaky.cfg` (`EpochFeed`) | `AncestorHintsSafe`: "an ancestor hint is always safe" (`feed-publisher.ts:72-73`) | an error while the hint is recovered is taken for the end of the feed (`feed-publisher.ts:95`), the update replaces a chunk above older ones, and readers find those |
| `MantarayHasty.cfg` (`MCStreamingMantaray`) | `SaveComplete`: `save()` persists "all dirty nodes" (`mantaray-stream/src/index.ts:135`) | an upload of a rejected save ends after its node has changed and marks the change as saved (`save.ts:87`), and the next save leaves it out; no command of the repository goes on after a failed save |

Seen while modelling, and part of the models as they are: after a silent drop the next ack is given to
the wrong frame and a chunk Bee lacks is cached (`ws-proxy.ts:125`, `214-219`, and `swarm-ws.ts:183` on the
client's side); the limit of calls in flight can be exceeded (`swarm-ws.ts:123`). A run of the SQLite indexer that repeats another adds the count of its
events again: `writeMeta()` is "safe to call multiple times" as to everything else (`swarm-sqlite.ts:633-651`; `EventsCountedOnce` of `SqliteIndexer` says otherwise and fails under `SqliteIndexer.cfg`).
An archive of which a part was downloaded keeps its final name: `process` refuses it, and `download` reports it as cached
for ever (`cli-shared.ts:88`); a list of checksums that is cut short makes eras disappear without a word. While an era is
processed again its old summary stays, so that a server may answer null or an internal error for a block it holds. Uploads only look
whether files exist. After an extraction of several eras was killed and run again, "era 0 is already complete" (`state-extract.ts:257-258`) need not be so.
Saves of `latest-refs.json` that overlap lose references, and one that is cut short reads as empty, so that the next save
drops all others (`refs-state.ts:26-38`); `RefsKept` is about saves that do neither. `vite build` fails on such a file. `publish-refs` puts a feed
back to an older reference if an upload was killed between its publication and its save. On the pages of a block, a transaction and
an account the answer for an earlier key may arrive last and stays; on the lookup page it may even navigate
after the page was left. Pages that refuse to load keep what they showed.

## 6. What is proved

TLAPS checks the following for all values of the constants.

*`ProxyProofs`, the WebSocket session.* `TypeInv` (types; frames in flight exist; a retry that is slept for is
allowed) is inductive and gives `TypeCorrect`. `RobustInv` adds what holds
whatever Bee does: the queue between two events starts with an unresolved frame, an open
client has as many acks as frames left the queue, `connect()` runs only without a
connection, an open client has a timer and somebody who serves it; to be
inductive it needs that a frame waiting for a connection never stands before one
that was sent (`PendingLast`). `SafeInv` is for `Faults = {}`. That an acked frame is stored is not
inductive: the ack of a frame depends on which frame is found first among those
marked "miss-sent" when Bee's answer arrives. `SafeInv` therefore says that the
frames marked so are exactly those in flight, that the sequence of answers
followed by the wire is sorted by frame number, and that every answer in flight is about
a stored chunk; the first answer then belongs to the first frame marked.

`SessionImplementsStream` is the refinement. The mapping takes the frames, the number of
acks and what is stored; it needs both invariants and what follows from them (`SimInv`). Every step
of the session is a submit, a store, some acks, a close or a stutter of `AckedStream`.

*`BeeChunkStreamProofs`.* `StreamInv` puts three things beside the types and `NoWaiterForgotten`. The lists hold
exactly the calls of their states, each once (`ListsKept`): a call that is settled leaves its list in the same
step. What is over stays over (`EndsKept`): a failed stream has nothing pending, a closed socket nobody
queued. And the calls pending are those of the frames not acknowledged, in their order, as far as acks are to
come (`AcksKept`); without it nothing ties the ack that arrives to the call that it resolves, and a call could resolve
with the ack of another. `CallsAreTracked` and `ResolvedAreStored` follow.

*`PotProofs`, the trie.* `TrieStaysMap` and `NodesAreSound` are for keys of any length, any values, and for tries that keep the forks
out of reach as well as for tries that drop them. They assume nothing of the callers: idle updates and blind deletions are among the steps, and which entries these drop is proved too. What a node holds is defined over everything below it, and an update changes the way from the root to an entry.
What makes the proof possible is that it is enough to look at a node and its forks: `Shows(n, from, C)`, which says of the whole of what is
below that its entries are `C`, that forks are well formed and sizes right, is the same as that each fork shows the part of `C` that differs from the key of
`n` first in its bit (`ShowsLocal`, `LocalShows`). Whatever an update hangs behind another fork keeps what it shows, and one
lemma for each operation says where the forks of the new node come from: `AppendIs`, `WithForkIs`, `WedgeIs`, `WhirlForksIs`, `WhackEndIs`, `WhackHalfIs`, `SizeIs`.

`Stands` is the invariant of a way down: the forks built so far and those yet to be taken show, together with the node's own entry, all entries. A step of the descent keeps it (`Whirled`,
`DescentIs`), and at its end the entry is inserted, replaced or removed (`Inserted`, `Replaced`, `Removed`); pulling lets the node behind the last fork take over, which leaves all
entries but the one that goes (`Pulled`, `PullTailWhole`). The half behind the first bit is whole in itself (`HalfWhole`), and the trie is so again when it is put back
(`OtherHalfWhole`). `UpdateInnerIs` puts these together: an update turns a trie that holds `C` into one that holds `With(C, k, v)`, with null for no change; `IdleInner` and `BlindInner` say into what the two updates that drop entries turn it (`WithOtherHalf` without its half, `Pull` where `LooksEmpty` takes a packed fork for none). `FindIs` says that the
way of `find` ends at the entry, if there is one. `TrieInv` then says that the trie holds exactly the entries of `kv` that are not in `lost`
and only their nodes are packed. `NodesSound` alone is not inductive, since a size is right only if the contents are, and `TrieIsMap` not without it, since entries are moved by forks. The recursive
functions of the model are over numbers of steps; that they exist, and what holds after each step, is shown by induction over sets of naturals, with the library's theorems about well-founded relations.

*`PotProofs`, walks.* `IterationStaysOrdered` follows from `TrieInv` by what a call does on any walk: `Emits(F, N, pivot, cs, D, K)` says that wherever the calls `cs` are the
next to be made, the keys of `D` are emitted, each once and the closest to the pivot first, within `K` steps for each, and then what stood behind `cs` is next. Two lists of calls
one behind the other emit the union if all keys of the first are at least as close as those of the second (`EmitsJoin`). A call for a node makes calls for the forks before the bit in which the
pivot leaves the node, for the node itself behind it, and for the fork in that bit; a key that leaves the node later is closer as long as the pivot has not left it (`StayCloser`), and one that leaves with the
pivot is closer than those that stay (`LeaveCloser`). `WalksEmit` is by induction over the bits that are left. The size kept in the fork decides whether a call emits a key or makes
calls, which is why `NodesSound` is needed again. `FindNodeIs` says where the walk begins, and when it fails.

*`PotProofs`, concurrent updates.* `IndexInv`: the chain of the mutex holds exactly the updates under
way, only its first may be past the lock, the new root of an update that holds
the lock is the current one plus itself, and the two roots differ only while it switches. It gives
that no update is lost, that changes of the root are atomic, and that a save returns what was done
when it was called.

*`StreamingMantarayProofs`.* That a save returns everything depends on nodes that are not in memory, so an invariant of the nodes
in memory is not inductive. `MantarayInv` speaks of the whole manifest: `Full(tree)` puts the nodes in memory and those that the
addresses of stubs stand for together, and `Shows(tree, Full(tree))` says that every address is that of its part of it, that whatever is not in memory is below a stub, and
that no node without an address is below one that has one (otherwise the walk of a save would pass over it).
`ManifestKept` adds that the whole has exactly the entries that were added. `UploadsKept`: an upload, of the save that runs or left behind by another, is of a node below which all
have addresses, with the content that its part of the manifest still has. `SaveKept`: the counters of `saveTree()` are the numbers of children without an
address, and those at zero are ready or being uploaded. That a save does not come to its end with nodes left over then follows: among the nodes
without an address one with the fewest such nodes below it has no such child (`SomeReady`).

The proof fixes a manifest `f` that the tree shows (`Kept(f)`); every step but an addition and a restart keeps the same `f`,
which is `OnlyAddsChange`, an action property that is in no run. `MantarayImplementsMap` is the refinement of `ManifestMap`: an addition
maps to `Add`, the end of a save to `Save` because what was saved is then the map (`SaveComplete` after the step), a restart
to `Reopen` (`StepIs`), and every other step keeps `f` and so is a stutter. Most of the work is in one lemma for each operation of the tree: `LoadIs`, `AddIs`, `EvictIs` and
`StampIs`, and in facts about paths (`Chain`, `Meet`, `ChildAbove`), since a node is a sequence and its parent the longest prefix there is. All of it assumes
`~Hasty`: with hasty callers `UploadsKept` fails and `SaveComplete` with it (section 5).

*`ProxyProofs`, HTTP.* `HttpInv`: a request that is being handled has what it asks for, an answer under
way is Bee's to this very request, what Bee gave it holds, an upload that pauses has attempts left, and every row is an answer that was given for its
key. `UploadsAreSound` and `DownloadsAreSound` assume nothing of the requests: those for parts and for the whole of a body mix. `UploadsSound` and `DownloadsSound`
are not inductive without what `HttpInv` says of rows and of answers under way.

*`EraUploadProofs`.* `EraInv` is about a command from its start to its end: where it may go on from is described as
it is (`KnownKept`), the index in memory has what was added on top of that (`IndexKept`), every record is in the
index, uploaded, being uploaded or still to do (`RecordsKept`), and what is saved is at Bee before
what refers to it (`SaveKept`). `SavesAreSound` needs `SaveKept` at the moment a file is written, and the
conjunct of `IndexKept` that says that the blocks counted so far are in the index; `EndsAreSound` needs `RecordsKept`, since workers take and finish items in any
order, and `KnownKept`, since tries that extend others take over their counters. Tries may be extended by any range: the theorems hold for whatever half of an index an
entry that is put again takes along. `Once` tells when none is, and `Even` what is true of an index at any moment, losses or not. The crash changes nothing of what these parts say of files.

*`RpcServerProofs`.* `DataInv` is about the commands of the data directory: where one is and what it is after (`PlaceKept`), what it
has made of the eras behind it (`MadeKept`), and that the machine of a replay stands after exactly the blocks
that it ran, with their events in memory or in the file (`MachineKept`). `ReplaySound` is not inductive without the last, because a checkpoint is
written from the machine's state; `DoneWhole` not without `MadeKept`. `RpcInv` adds the server: what it has in memory of
an era whose index stayed whole is all that it read (`ServerKept`), and a call whose lines are being read has not passed the one it
looks for (`RequestKept`), from which `AnswersAreTrue` follows. The least and the greatest number of a set of blocks exist by
the well-foundedness of the naturals (`MinIs`, `MaxIs`).

*`ExplorerProofs`.* `ExplorerInv`: while no two saves overlapped at most one command saves, and what it read is what was saved last
(`SavesKept`); what a lookup found is an upload (`LookupsKept`); a request that may still change the page is of this
page and of the settings as they are, on the home page always, on the others while no loads overlapped (`LoadsKept`). The theorems
`RefsAreKept`, `PotStaysTogether` and `PagesStayFresh` are for any number of commands, uploads, keys and requests.

*`ExplorerProofs`, the feed.* The publisher's walk and the reader's search both take an empty epoch for the end of the line. What makes them
right is one fact about all chunks: above every update there is an update in every epoch, and an older one (`ChunksKept`). Then
nothing lies below an empty epoch. `WalkKept` says that the publisher has passed updates only, so that the epoch it writes to is empty and
has updates above it; `SearchKept` that the best update a reader has seen is above where it looks, and that, if it is older than the one that was current when
the search began, that one is ahead: below the epoch, or below its left sibling. `UpdatesLieBelowOlder` and `ReadersFindCurrent`
follow, and so does `UpdatesAreKept`: no update is ever replaced. They assume `~Flaky`: a false miss makes the publisher overwrite a chunk
(section 5). That an epoch's children halve it, and that the epochs over one second form a chain, are lemmas about powers of two (`Shifted`),
which are shown by induction over the set of levels for which they hold.

*`SqliteIndexerProofs`.* `IndexerInv` follows a command through the database. While files are read, the database has what they held so far, as
far as it was asked for (`ReadKept`): blocks are skipped only if they were there when the file was opened, and nothing removes a row.
While records are uploaded each is to do, in work or at Bee (`RecordsKept`), so that the transaction at the end writes only references that
Bee holds. `DoneKept` carries that to the image that is announced. `DatabaseIsSound` needs no more of a crash than that rows are written after what they refer
to. `AnnouncedIsSound` is about the tree of pages of any size: on each level the references span all pages one after the other, every
offset leads from there to its page through chunks at Bee, and the number of the level together with its length is at most the number of
pages, which bounds the depth (`TreeKept`). A batch of references under a new chunk keeps all three (`Batched`), one that is left over included. Running sums and the reader's path are recursive functions; they are shown to exist, and what
they yield is shown by induction over sets of naturals.

`NoAckHeldBack`, `OneUpstream` (both of `WsProxy`), `RootsAgree` (of `PotIndex`) and the action properties of `OnlyAddsChange` and `UpdatesAreKept` are proved and in no run.

Only model-checked are: liveness, and whatever else needs fairness (the provers have no rule for it); and the counterexamples of section 5. The theorems
about the streaming mantaray assume `~Hasty`, those about the feed `~Flaky`, and those about the session and the client that speak of what is stored assume
`Faults = {}` and a server that acknowledges in order.

## 7. Plan

Modelled: the WebSocket session and its client, the tries and the Index, the streaming mantaray, the HTTP proxy, the feeds, the
upload pipelines, the SQLite indexer, the data directory with the RPC server, and the reference file with the explorer. Proved: what section 6 says, which is
every safety property of the runs.

Not modelled: encodings and decodings (`bundle.ts`, RLP, SSZ and snappy in `erae.ts`, `compat.ts`, formats of keys), which are
data in, data out; `packages/explorer/src/lib/swarm.ts:167-174` asks a manifest for hashes with a leading `0x` and
`packages/era/src/swarm.ts:273-278` stores them without, which only a model of formats would tell. Argument parsing and process start
(`packages/proxy/src/bin.ts`). The prebuilt bundle `packages/explorer/static/pot-web.js`, which is generated from `packages/pot`. Markup, the list of blocks
(`routes/block/+page.svelte`) and the demo, which reads one trie on a click. A lookup and an update that unpack the same node of a trie at once: the
second reading restores the same content (`swarm-pot.ts:42-47`). The cache of chunks on disk, whose files are named by their hash.
