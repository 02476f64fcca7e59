----------------------------- MODULE EpochFeed -----------------------------
(***************************************************************************)
(* A feed of updates by time (packages/era/src: feed-epoch.ts,             *)
(* feed-publisher.ts; packages/explorer/src/lib/feed-resolver.ts).         *)
(*                                                                         *)
(* Time is a binary tree of epochs; an update is a chunk at the address of *)
(* an epoch.  A publisher keeps no state: it walks down to the time of the *)
(* update, past the chunks that are there, and writes to the next epoch.   *)
(* A reader searches the tree for the newest update.  Every step of both   *)
(* is a request to Bee.                                                    *)
(*                                                                         *)
(* References are numbered in the order in which they are published.       *)
(***************************************************************************)
EXTENDS Integers, FiniteSetsExt

CONSTANTS
  Reader,      \* readers
  MaxLevel,    \* MAX_EPOCH_LEVEL
  MaxTime,     \* bound: the clock stops there
  MaxUpdates,  \* bound: updates that are begun
  Flaky        \* Bee may answer with an error where there is a chunk

\* 1n << BigInt(l)
Shifted[l \in Nat] == IF l = 0 THEN 1 ELSE 2 * Shifted[l - 1]

ASSUME FeedAssumption ==
  /\ MaxLevel \in Nat \ {0}
  /\ MaxTime \in 1..(Shifted[MaxLevel] - 1)
  /\ MaxUpdates \in Nat
  /\ Flaky \in BOOLEAN

VARIABLES
  now,      \* the clock, in seconds
  chunks,   \* the updates at Bee, by epoch
  updates,  \* the number of updates begun
  pub,      \* publishFeedUpdate(), while it runs
  current,  \* the last update reported as published
  find      \* findAt() of every reader

feedVars == <<now, chunks, updates, pub, current, find>>

-----------------------------------------------------------------------------
(* Epochs.                                                                 *)

Epoch ==
  UNION {[start : {i * Shifted[l] : i \in 0..(Shifted[MaxLevel - l] - 1)}, level : {l}] : l \in 0..MaxLevel}

Top == [start |-> 0, level |-> MaxLevel]

Length(e) == Shifted[e.level]

Covers(e, at) == e.start <= at /\ at < e.start + Length(e)

\* Mutant: the bit of the level above.
ChildAtAbove(e, at) ==
  LET half == Shifted[e.level - 1]
  IN  [start |-> IF (at \div Length(e)) % 2 = 1 THEN e.start + half ELSE e.start,
       level |-> e.level - 1]

\* The half of e that the bit of `at` for this level says.
ChildAt(e, at) ==
  LET half == Shifted[e.level - 1]
  IN  [start |-> IF (at \div half) % 2 = 1 THEN e.start + half ELSE e.start,
       level |-> e.level - 1]

\* The smallest epoch that covers both times, and is as long as they are apart.
Lca(at, after) ==
  IF after = 0 THEN Top
  ELSE LET common == {l \in 0..MaxLevel :
                        \/ l = MaxLevel
                        \/ Shifted[l] >= at - after /\ at \div Shifted[l] = after \div Shifted[l]}
           length == Shifted[Min(common)]
       IN  [start |-> (after \div length) * length, level |-> Min(common)]

NoHint == [found |-> FALSE]
Hint(e, ts) == [found |-> TRUE, epoch |-> e, timestamp |-> ts]

\* Mutant: the epoch of the hint is used again.
NextEpochAgain(hint, at) == IF hint.found THEN hint.epoch ELSE Top

\* nextEpoch()
NextEpoch(hint, at) ==
  IF ~hint.found THEN Top
  ELSE IF hint.epoch.start + Length(hint.epoch) > at THEN ChildAt(hint.epoch, at)
  ELSE ChildAt(Lca(at, hint.timestamp), at)

-----------------------------------------------------------------------------
NoUpdate == [ts |-> 0, ref |-> 0]
Update   == [ts : 0..MaxTime, ref : 1..MaxUpdates]

NoPublication == [at |-> 0, ref |-> 0, epoch |-> Top, hint |-> NoHint, doing |-> "nothing"]
NotReading    == [at |-> 0, epoch |-> Top, best |-> NoUpdate, floor |-> 0, doing |-> "nothing"]

Hints == {NoHint} \cup {Hint(e, ts) : e \in Epoch, ts \in 0..MaxTime}

FeedTypeOK ==
  /\ now \in 0..MaxTime
  /\ DOMAIN chunks \subseteq Epoch
  /\ \A e \in DOMAIN chunks : chunks[e] \in Update
  /\ updates \in 0..MaxUpdates
  /\ pub.epoch \in Epoch /\ pub.hint \in Hints /\ pub.at <= now
  /\ pub.doing \in {"nothing", "probing", "posting", "verifying"}
  /\ current \in 0..updates
  /\ \A r \in Reader : /\ find[r].epoch \in Epoch
                       /\ find[r].best \in Update \cup {NoUpdate}
                       /\ find[r].doing \in {"nothing", "searching", "done"}

FeedInit ==
  /\ now = 1
  /\ chunks = [e \in {} |-> NoUpdate]
  /\ updates = 0
  /\ pub = NoPublication
  /\ current = 0
  /\ find = [r \in Reader |-> NotReading]

Tick ==
  /\ now < MaxTime
  /\ now' = now + 1
  /\ UNCHANGED <<chunks, updates, pub, current, find>>

-----------------------------------------------------------------------------
(* publishFeedUpdate().                                                    *)

\* The time of the update is the time it is begun.
Publish ==
  /\ pub.doing = "nothing"
  /\ updates < MaxUpdates
  /\ updates' = updates + 1
  /\ pub' = [NoPublication EXCEPT !.at = now, !.ref = updates', !.doing = "probing"]
  /\ UNCHANGED <<now, chunks, current, find>>

\* recoverFeedHints() finds a chunk, and goes on below it.
ProbeFinds ==
  /\ pub.doing = "probing"
  /\ pub.epoch \in DOMAIN chunks
  /\ LET hint == Hint(pub.epoch, chunks[pub.epoch].ts)
     IN  IF pub.epoch.level = 0
         THEN pub' = NoPublication  \* childAt() throws: there is no level below
         ELSE pub' = [pub EXCEPT !.hint = hint, !.epoch = ChildAt(pub.epoch, pub.at)]
  /\ UNCHANGED <<now, chunks, updates, current, find>>

\* The answer is not a success, which ends the walk.
ProbeMisses ==
  /\ pub.doing = "probing"
  /\ pub.epoch \notin DOMAIN chunks \/ Flaky
  /\ pub' = [pub EXCEPT !.epoch = NextEpoch(pub.hint, pub.at), !.doing = "posting"]
  /\ UNCHANGED <<now, chunks, updates, current, find>>

\* Bee has the chunk.  What the answer is, and whether it arrives, remains open.
Post ==
  /\ pub.doing = "posting"
  /\ chunks' = [e \in DOMAIN chunks \cup {pub.epoch} |->
                  IF e = pub.epoch THEN [ts |-> pub.at, ref |-> pub.ref] ELSE chunks[e]]
  /\ pub' = [pub EXCEPT !.doing = "verifying"]
  /\ UNCHANGED <<now, updates, current, find>>

\* The chunk can be downloaded: the update is reported as published.
Verify ==
  /\ pub.doing = "verifying"
  /\ current' = pub.ref
  /\ pub' = NoPublication
  /\ UNCHANGED <<now, chunks, updates, find>>

\* A request fails, an answer is not what it should be or too late, or the
\* process ends.
PublishFails ==
  /\ pub.doing # "nothing"
  /\ pub' = NoPublication
  /\ UNCHANGED <<now, chunks, updates, current, find>>

-----------------------------------------------------------------------------
(* resolveLatest(); the search is that of the finder it calls.             *)

\* The left one of two siblings.
IsLeft(e) == (e.start \div Length(e)) % 2 = 0

Resolve(r) ==
  /\ find[r].doing = "nothing"
  /\ find' = [find EXCEPT ![r] = [NotReading EXCEPT !.at = now, !.floor = current, !.doing = "searching"]]
  /\ UNCHANGED <<now, chunks, updates, pub, current>>

Continue(r, search) == find' = [find EXCEPT ![r] = search]

\* The search is over.
Found(r, update) ==
  Continue(r, [NotReading EXCEPT !.best = update, !.floor = find[r].floor, !.doing = "done"])

Visible(r) == find[r].epoch \in DOMAIN chunks /\ chunks[find[r].epoch].ts <= find[r].at

\* There is an update in time: later ones are below it.
GoDown(r) ==
  /\ find[r].doing = "searching"
  /\ Visible(r)
  /\ LET f == find[r]
         update == chunks[f.epoch]
     IN  IF f.epoch.level = 0
         THEN Found(r, update)
         ELSE Continue(r, [f EXCEPT !.best = update, !.epoch = ChildAt(f.epoch, f.at)])
  /\ UNCHANGED <<now, chunks, updates, pub, current>>

\* There is none: those below the left sibling are the latest before.
GoLeft(r) ==
  /\ find[r].doing = "searching"
  /\ ~Visible(r)
  /\ LET f == find[r]
     IN  IF IsLeft(f.epoch)
         THEN Found(r, f.best)
         ELSE Continue(r, [f EXCEPT !.at = f.epoch.start - 1, !.epoch.start = @ - Length(f.epoch)])
  /\ UNCHANGED <<now, chunks, updates, pub, current>>

-----------------------------------------------------------------------------
FeedNext ==
  \/ Tick
  \/ Publish \/ ProbeFinds \/ ProbeMisses \/ Post \/ Verify \/ PublishFails
  \/ \E r \in Reader : Resolve(r) \/ GoDown(r) \/ GoLeft(r)

FeedSpec == FeedInit /\ [][FeedNext]_feedVars

-----------------------------------------------------------------------------
(* Properties.                                                             *)

\* A reader finds the update that was current when it began to look, or one
\* that is newer, whatever is published in the meantime (feed-resolver.ts:41).
ReadersFresh == \A r \in Reader : find[r].doing = "done" => find[r].best.ref >= find[r].floor

\* The same of a reader that looks while nothing is published: "an ancestor
\* hint is always safe because the newer SOC we publish dominates any prior
\* chunk we'd re-write at the same address" (feed-publisher.ts:72-73).
AncestorHintsSafe ==
  \A r \in Reader : find[r].doing = "done" /\ find[r].floor = updates => find[r].best.ref = updates

\* Above every update but the first there is an older one: what allows both
\* searches to stop at an epoch that is empty (feed-publisher.ts:65-73).
OlderAbove ==
  \A e \in DOMAIN chunks :
    /\ Covers(e, chunks[e].ts)
    /\ e # Top => \E p \in DOMAIN chunks : /\ p.level = e.level + 1
                                           /\ Covers(p, e.start)
                                           /\ chunks[p].ref < chunks[e].ref

\* Updates are well formed and lie in the tree of epochs as both searches
\* expect (nextEpoch and recoverFeedHints).
ChunksSound == FeedTypeOK /\ OlderAbove
=============================================================================
