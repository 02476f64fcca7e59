------------------------- MODULE StreamingMantaray -------------------------
(***************************************************************************)
(* A manifest that is extended without being read                          *)
(* (packages/mantaray-stream/src: index.ts, spine.ts, save.ts, evict.ts).  *)
(*                                                                         *)
(* A node is named by the path that leads to it.  The tree in memory is a  *)
(* function from the nodes that are there; a node without loaded forks has *)
(* no nodes below it in memory, and what is below it at Bee is what its    *)
(* address says.  An address is a hash of the node and, through the        *)
(* addresses of its children, of all the nodes below; here it is the       *)
(* function from those nodes to their entries.                             *)
(*                                                                         *)
(* Calls run one at a time, in the order they were made.  An upload that a *)
(* failed save has left behind may end at any later time.  addFork and     *)
(* serialize belong to mantaray-js.                                        *)
(***************************************************************************)
EXTENDS Integers, SequencesExt

CONSTANTS
  Path,         \* paths the callers use, sequences of symbols
  Value,        \* entries
  Concurrency,  \* saveConcurrency
  EvictDepth,   \* evictDepth
  MaxQueue,     \* bound: calls made and not ended
  Hasty         \* callers go on while uploads of a failed save are under way

ASSUME MantarayAssumption ==
  /\ Path # {} /\ <<>> \notin Path
  /\ \A p \in Path : p \in Seq(ToSet(p))
  /\ Concurrency \in Nat \ {0}
  /\ EvictDepth \in Nat
  /\ MaxQueue \in Nat \ {0}
  /\ Hasty \in BOOLEAN

VARIABLES
  tree,     \* the nodes in memory
  queue,    \* writeChain: the call that runs, then those that wait for it
  save,     \* the state of saveTree() while it runs
  uploads,  \* uploads under way
  kv,       \* what the callers have added
  saved     \* what the last save returned, and kv when it did

vars == <<tree, queue, save, uploads, kv, saved>>

NoEntry == "none"
Nothing == [p \in {} |-> NoEntry]  \* no address, no saved manifest

ASSUME ValueAssumption == NoEntry \notin Value

NotSaving == [running |-> FALSE, remaining |-> Nothing, ready |-> {}]

Restricted(f, S) == [p \in S |-> f[p]]

-----------------------------------------------------------------------------
(* Trees.                                                                  *)

Node == UNION {Prefixes(p) : p \in Path}

\* The nodes on the way to p, p included.
Above == [p \in Node |-> {q \in Node : IsPrefix(q, p)}]

\* The nodes of S that are on the way to path, below p, children of p.
Spine(S, path) == Above[path] \cap S
Under(S, p)    == {q \in S : p \in Above[q]}
Children(S, p) == {q \in Under(S, p) : q # p /\ Spine(S, q) = Spine(S, p) \cup {q}}

\* The parent of p, in a singleton; empty for the root.
Parent(S, p) == {r \in S : p \in Children(S, r)}

Dirty(t) == {p \in DOMAIN t : t[p].addr = Nothing}

\* serialize(), hashed: the entry of p and the addresses of its children.
Serialized(t, p) ==
  LET kids == Children(DOMAIN t, p)
  IN  [q \in {p} \cup UNION {DOMAIN t[k].addr : k \in kids} |->
         IF q = p THEN t[p].entry
         ELSE LET k == CHOOSE k \in kids : q \in DOMAIN t[k].addr IN t[k].addr[q]]

\* Mutant: the stubs get no address.
StubUnstamped(c, q) == [entry |-> NoEntry, addr |-> Nothing, loaded |-> FALSE]

\* A child of a node that was loaded: its address is known and nothing else.
Stub(c, q) == [entry |-> NoEntry, addr |-> Restricted(c, Under(DOMAIN c, q)), loaded |-> FALSE]

\* loadAndStub() of node p, whose address is c.
LoadAndStub(t, p, c) ==
  [q \in DOMAIN t \cup Children(DOMAIN c, p) |->
     IF q = p THEN [entry |-> c[p], addr |-> c, loaded |-> TRUE]
     ELSE IF q \in DOMAIN t THEN t[q]
     ELSE Stub(c, q)]

\* Mutant: a node that is the end of the path is not loaded.
ToLoadAbove(t, path) ==
  {p \in Spine(DOMAIN t, path) : p # path /\ ~t[p].loaded /\ t[p].addr # Nothing}

\* The node of the spine that hydrateSpine() loads next, in a singleton.
ToLoad(t, path) ==
  {p \in Spine(DOMAIN t, path) : ~t[p].loaded /\ t[p].addr # Nothing}

\* addFork(): the node at path gets an entry.  A node that shares a part of
\* its edge with path gets a parent at the end of that part.  The nodes on the
\* way lose their addresses; the node that was split off keeps its own.
AddFork(t, path, v) ==
  LET common == UNION {Above[path] \cap Above[p] : p \in DOMAIN t}
      shared == CHOOSE h \in common : common = Above[h]
      nodes  == DOMAIN t \cup {shared, path}
  IN  [p \in nodes |->
         IF p \in DOMAIN t /\ p \notin Above[path] THEN t[p]
         ELSE [entry  |-> IF p = path THEN v ELSE IF p \in DOMAIN t THEN t[p].entry ELSE NoEntry,
               addr   |-> Nothing,
               loaded |-> (p \in DOMAIN t /\ t[p].loaded) \/ Children(nodes, p) # {}]]

\* getForkAtPath()
GetFork(t, path) == IF path \in DOMAIN t THEN t[path].entry ELSE NoEntry

\* Mutant: the nodes dropped leave no stub above them.
EvictedBare(t) ==
  Restricted(t, {p \in DOMAIN t : Cardinality(Spine(DOMAIN t, p)) <= EvictDepth + 1})

\* evictBelowDepth(): the nodes below the limit lose their forks.
Evicted(t) ==
  LET depth(p) == Cardinality(Spine(DOMAIN t, p)) - 1
  IN  [p \in {q \in DOMAIN t : depth(q) <= EvictDepth + 1} |->
         IF depth(p) = EvictDepth + 1 THEN [t[p] EXCEPT !.loaded = FALSE] ELSE t[p]]

Entries(c) == Restricted(c, {p \in DOMAIN c : c[p] # NoEntry})

-----------------------------------------------------------------------------
Add(p, v) == [op |-> "add", path |-> p, entry |-> v]
Get(p)    == [op |-> "get", path |-> p]
SaveCall  == [op |-> "save"]

Calls == {Add(p, v) : p \in Path, v \in Value} \cup {Get(p) : p \in Path} \cup {SaveCall}

\* The call that runs.
Running(op) == queue # <<>> /\ Head(queue).op = op

Stale == {u \in uploads : ~u.live}

Address   == UNION {[S -> Value \cup {NoEntry}] : S \in SUBSET Node}
NodeState == [entry : Value \cup {NoEntry}, addr : Address, loaded : BOOLEAN]

\* Siblings differ in the first symbol of their edges: there is a node wherever
\* two paths part.
Closed(S) == \A p, q \in S : \E r \in S : Above[r] = Above[p] \cap Above[q]

\* What has no loaded forks has nothing below it.
Trie(t) ==
  /\ t \in [DOMAIN t -> NodeState] /\ <<>> \in DOMAIN t /\ DOMAIN t \subseteq Node
  /\ Closed(DOMAIN t)
  /\ \A p \in DOMAIN t : ~t[p].loaded => Under(DOMAIN t, p) = {p}

TypeOK ==
  /\ Trie(tree)
  /\ \A p \in DOMAIN tree : DOMAIN tree[p].addr \subseteq Under(DOMAIN tree[p].addr, p)
  /\ queue \in Seq(Calls) /\ Len(queue) <= MaxQueue
  /\ uploads \subseteq [node : Node, content : Address, live : BOOLEAN]
  /\ Cardinality(uploads \ Stale) <= Concurrency
  /\ save.running <=> uploads # Stale
  /\ save.running => Running("save")

\* create(): a node without forks and without address.
Init ==
  /\ tree = [p \in {<<>>} |-> [entry |-> NoEntry, addr |-> Nothing, loaded |-> FALSE]]
  /\ queue = <<>>
  /\ save = NotSaving
  /\ uploads = {}
  /\ kv = Nothing
  /\ saved = [ref |-> Nothing, kv |-> Nothing]

\* A call joins the queue.  Callers do not save an empty manifest.
Call ==
  /\ Len(queue) < MaxQueue
  /\ Stale # {} => Hasty
  /\ \E c \in Calls :
       /\ c = SaveCall => DOMAIN tree # {<<>>}
       /\ queue' = Append(queue, c)
  /\ UNCHANGED <<tree, save, uploads, kv, saved>>

-----------------------------------------------------------------------------
(* addFork() and getForkAtPath().                                          *)

\* hydrateSpine() loads a node.
Hydrate ==
  /\ Running("add") \/ Running("get")
  /\ \E p \in ToLoad(tree, Head(queue).path) : tree' = LoadAndStub(tree, p, tree[p].addr)
  /\ UNCHANGED <<queue, save, uploads, kv, saved>>

\* The chunk cannot be loaded: the call is rejected, the next one runs.
HydrateFails ==
  /\ Running("add") \/ Running("get")
  /\ ToLoad(tree, Head(queue).path) # {}
  /\ queue' = Tail(queue)
  /\ UNCHANGED <<tree, save, uploads, kv, saved>>

\* The spine is there.
ApplyAdd ==
  /\ Running("add")
  /\ LET c == Head(queue)
     IN  /\ ToLoad(tree, c.path) = {}
         /\ tree' = AddFork(tree, c.path, c.entry)
         /\ kv' = [p \in DOMAIN kv \cup {c.path} |-> IF p = c.path THEN c.entry ELSE kv[p]]
  /\ queue' = Tail(queue)
  /\ UNCHANGED <<save, uploads, saved>>

ApplyGet ==
  /\ Running("get")
  /\ ToLoad(tree, Head(queue).path) = {}
  /\ queue' = Tail(queue)
  /\ UNCHANGED <<tree, save, uploads, kv, saved>>

-----------------------------------------------------------------------------
(* save().                                                                 *)

\* The nodes saveTree() walks: those that are dirty and under dirty nodes only.
Walked(t) == {p \in Dirty(t) : Spine(DOMAIN t, p) \subseteq Dirty(t)}

Upload(t, p) == [node |-> p, content |-> Serialized(t, p), live |-> TRUE]

\* resolveAll(), and the eviction that follows.  Leftover uploads of nodes
\* that are dropped have nothing to write to.
EndSave(t) ==
  /\ saved' = [ref |-> t[<<>>].addr, kv |-> kv]
  /\ tree' = Evicted(t)
  /\ uploads' = {u \in Stale : u.node \in DOMAIN Evicted(t)}
  /\ save' = NotSaving
  /\ queue' = Tail(queue)

\* startNext(): uploads are started while there is room.  Which of the ready
\* nodes goes first is left open.
StartNext(t, remaining, ready, underWay) ==
  LET room == Concurrency - Cardinality({u \in underWay : u.live})
  IN  \E S \in SUBSET ready :
        /\ Cardinality(S) <= room
        /\ S = ready \/ Cardinality(S) = room
        /\ tree' = t
        /\ uploads' = underWay \cup {Upload(t, p) : p \in S}
        /\ save' = [running |-> TRUE, remaining |-> remaining, ready |-> ready \ S]
        /\ UNCHANGED <<queue, saved>>

\* walk() counts the dirty children of every node it visits.
StartSave ==
  /\ Running("save")
  /\ ~save.running
  /\ LET walked    == Walked(tree)
         remaining == [p \in walked |-> Cardinality(Children(DOMAIN tree, p) \cap walked)]
     IN  IF walked = {}
         THEN EndSave(tree)
         ELSE StartNext(tree, remaining, {p \in walked : remaining[p] = 0}, uploads)
  /\ UNCHANGED kv

\* Mutant: off by one.
NowReadyEarly(remaining, p) == remaining[p] <= 1

\* The last dirty child of p is uploaded.
NowReady(remaining, p) == remaining[p] = 0

\* The address of an upload that ended reaches its node.
Stamped(u) == [tree EXCEPT ![u.node].addr = u.content]

\* An upload of the save that runs ends.
UploadEnds(u) ==
  /\ u.live
  /\ LET parent    == Parent(DOMAIN tree, u.node)
         remaining == [p \in DOMAIN save.remaining |->
                         save.remaining[p] - (IF p \in parent THEN 1 ELSE 0)]
         ready     == save.ready \cup {p \in parent : NowReady(remaining, p)}
         underWay  == uploads \ {u}
     IN  IF ready = {} /\ underWay = Stale
         THEN EndSave(Stamped(u))
         ELSE StartNext(Stamped(u), remaining, ready, underWay)
  /\ UNCHANGED kv

\* Mutant: the failure is noted and rejectAll() is not called.
UploadFailsQuietly(u) ==
  /\ u.live
  /\ uploads' = {[w EXCEPT !.live = FALSE] : w \in uploads \ {u}}
  /\ UNCHANGED <<tree, queue, save, kv, saved>>

\* An upload fails: save() is rejected, and the other uploads are on their own.
UploadFails(u) ==
  /\ u.live
  /\ Len(queue) > 1 => Hasty
  /\ uploads' = {[w EXCEPT !.live = FALSE] : w \in uploads \ {u}}
  /\ save' = NotSaving
  /\ queue' = Tail(queue)
  /\ UNCHANGED <<tree, kv, saved>>

\* An upload left behind by a failed save ends: it still sets the address.
StaleEnds(u) ==
  /\ ~u.live
  /\ tree' = Stamped(u)
  /\ uploads' = uploads \ {u}
  /\ UNCHANGED <<queue, save, kv, saved>>

StaleFails(u) ==
  /\ ~u.live
  /\ uploads' = uploads \ {u}
  /\ UNCHANGED <<tree, queue, save, kv, saved>>

-----------------------------------------------------------------------------
\* The process ends, and another one opens the manifest that was saved last.
Reopen ==
  /\ saved.ref # Nothing
  /\ tree' = LoadAndStub([p \in {<<>>} |-> Stub(saved.ref, p)], <<>>, saved.ref)
  /\ queue' = <<>>
  /\ save' = NotSaving
  /\ uploads' = {}
  /\ kv' = saved.kv
  /\ UNCHANGED saved

Steps == Hydrate \/ HydrateFails \/ ApplyAdd \/ ApplyGet \/ StartSave

Answers ==
  \E u \in uploads : UploadEnds(u) \/ UploadFails(u) \/ StaleEnds(u) \/ StaleFails(u)

Next == Call \/ Steps \/ Answers \/ Reopen

Spec == Init /\ [][Next]_vars

\* The queue goes on, and Bee answers or the connection breaks.
FairSpec == Spec /\ WF_vars(Steps) /\ WF_vars(Answers)

-----------------------------------------------------------------------------
(* Properties.                                                             *)

\* An address is of what is below it now: save() may skip a node that has one.
AddressesTrue ==
  \A p \in DOMAIN tree :
    tree[p].addr # Nothing /\ tree[p].loaded => tree[p].addr = Serialized(tree, p)

\* Whatever calls are made, evicted or fail: the tree is well formed, and save()
\* finds every node that has to be uploaded (the walk of save.ts).
TreeSound == TypeOK /\ AddressesTrue

\* save() returns the reference of a manifest that holds exactly what was
\* added, with whatever is not loaded.
SaveComplete == Entries(saved.ref) = saved.kv

\* getForkAtPath() finds what the calls before it have added, and only that.
ReadsSeeWrites ==
  Running("get") /\ ToLoad(tree, Head(queue).path) = {} =>
    GetFork(tree, Head(queue).path) =
      IF Head(queue).path \in DOMAIN kv THEN kv[Head(queue).path] ELSE NoEntry

-----------------------------------------------------------------------------
(* The inductive invariant behind them, for callers that are not hasty.    *)

Stubs(t) == {p \in DOMAIN t : ~t[p].loaded /\ t[p].addr # Nothing}

\* The whole manifest: the nodes in memory, and those below stubs.
Full(t) ==
  [q \in DOMAIN t \cup UNION {DOMAIN t[p].addr : p \in Stubs(t)} |->
     IF \E p \in Stubs(t) : q \in DOMAIN t[p].addr
     THEN t[CHOOSE p \in Stubs(t) : q \in DOMAIN t[p].addr].addr[q]
     ELSE t[q].entry]

\* What a manifest is.
Manifest(f) == f \in Address /\ <<>> \in DOMAIN f /\ IsFiniteSet(DOMAIN f) /\ Closed(DOMAIN f)

\* The part of f that is below p: what the address of p stands for.
Part(f, p) == Restricted(f, Under(DOMAIN f, p))

\* The tree is f, of which it has some in memory: addresses are of parts of f,
\* what is not in memory is below a stub, and below a node with an address all
\* have theirs.
Shows(t, f) ==
  /\ DOMAIN t \subseteq DOMAIN f
  /\ \A p \in DOMAIN t :
       /\ t[p].addr \in {Nothing, Part(f, p)}
       /\ p \notin Stubs(t) => t[p].entry = f[p]
  /\ \A q \in DOMAIN f \ DOMAIN t : Spine(Stubs(t), q) # {}
  /\ \A p \in Dirty(t) : Spine(DOMAIN t, p) \subseteq Dirty(t)

ManifestKept ==
  /\ Manifest(Full(tree)) /\ Shows(tree, Full(tree))
  /\ Entries(Full(tree)) = kv
  /\ saved.ref # Nothing => Manifest(saved.ref)

\* An upload is of a node below which all have addresses, and is alone in it.
UploadsKept ==
  /\ \A u \in uploads :
       /\ u.node \in Dirty(tree) /\ u.content = Part(Full(tree), u.node)
       /\ Under(DOMAIN tree, u.node) \cap Dirty(tree) = {u.node}
       /\ \A w \in uploads : w.node = u.node => w = u
  /\ IsFiniteSet(uploads)
  /\ Stale # {} => uploads = Stale /\ queue = <<>>

\* A save that runs knows, for each node without an address, how many children
\* without one it has; those that have none are ready or being uploaded.
SaveKept ==
  save.running =>
    /\ Dirty(tree) \subseteq DOMAIN save.remaining
    /\ \A p \in Dirty(tree) :
         save.remaining[p] = Cardinality(Children(DOMAIN tree, p) \cap Dirty(tree))
    /\ save.ready = {p \in Dirty(tree) : save.remaining[p] = 0} \ {u.node : u \in uploads}

MantarayInv ==
  TreeSound /\ SaveComplete /\ ReadsSeeWrites /\ ManifestKept /\ UploadsKept /\ SaveKept

-----------------------------------------------------------------------------
(* The manifest is the map of ManifestMap: what counts is the whole of it, *)
(* wherever its nodes are.                                                 *)
Promised == INSTANCE ManifestMap
  WITH map <- Entries(Full(tree)), stored <- {Entries(c) : c \in {saved.ref} \ {Nothing}}

\* addFork() adds one entry and save() stores them all, at once as far as
\* callers can tell; a call that fails, and everything else, changes neither.
MapSpec == Promised!Spec

CallEnds == queue # <<>> /\ queue' = Tail(queue)

\* Every call settles, whatever happens to those before it.
EveryCallEnds == []<>(queue = <<>>) \/ []<><<CallEnds>>_vars
=============================================================================
